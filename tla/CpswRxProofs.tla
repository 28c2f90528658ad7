---------------------------- MODULE CpswRxProofs ----------------------------
(***************************************************************************)
(* Proofs about the receive channel, for a ring and a pool of any size.    *)
(*                                                                         *)
(* The descriptors lie on a circle, and recv_head is where its positions   *)
(* are counted from: first the frames received and not delivered, then the *)
(* descriptors the engine has yet to fill, then those without a pbuf.  The *)
(* parts of IInv say where the pointers and the cut of the ring are        *)
(* (RingInv), which descriptors are filled (FrameInv), how far the engine  *)
(* may go (DmaInv) and where the pbufs are (PbufInv).  While descriptors   *)
(* are linked behind the ring, the engine may follow the new link but has  *)
(* fetched none of them: the old length of the ring, which `saved' gives,  *)
(* is remembered in the invariant as it is in the code.                    *)
(***************************************************************************)
EXTENDS CpswRx, TLAPS, FiniteSetTheorems

(* The k-th descriptor from h on. *)
Pos(h, k) == LET b == h + k IN IF b < NumBd THEN b ELSE b - NumBd

Linking == pc \in {"link", "cut", "eoq"}
Lending == Linking \/ pc = "fill"

(* The descriptors outside the ring the engine walks, and outside the ring *)
(* it had begun to walk when the code last let it fetch.                   *)
Out    == IF pc = "fill" THEN saved ELSE free_num
OldOut == IF Lending THEN saved ELSE free_num

TypeOK ==
  /\ next \in [Bd -> BdOrNull] /\ pbuf \in [Bd -> Pbuf] /\ own \subseteq Bd /\ eoq \subseteq Bd
  /\ free_head \in Bd /\ recv_head \in Bd /\ recv_tail \in Bd /\ free_num \in 0 .. NumBd
  /\ pc \in {"idle", "isr", "alloc", "fill", "link", "cut", "eoq"} /\ saved \in 0 .. NumBd
  /\ dma \in [bd : BdOrNull, link : BdOrNull, buf : Pbuf \cup {NoPbuf}]
  /\ pool \subseteq Pbuf /\ held \subseteq Pbuf /\ env \in Envs /\ arrived \in Seq(Pbuf)

(* The descriptor with the NULL link. *)
End == CASE pc = "link" -> tail
         [] pc = "cut" -> NULL
         [] OTHER -> recv_tail

RingInv ==
  /\ free_head = Pos(recv_head, NumBd - Out) /\ free_head = Succ(recv_tail)
  /\ \A b \in Bd : next[b] = IF b = End THEN NULL ELSE Succ(b)
  /\ pc = "isr" => cur = recv_head
  /\ Lending => /\ head \in Bd /\ tail \in Bd /\ last \in Bd /\ free_num <= saved
                /\ head = Pos(recv_head, NumBd - saved) /\ head = Succ(tail)
                /\ Succ(last) = Pos(recv_head, NumBd - free_num)
  /\ Linking => last = recv_tail /\ free_num < saved
  /\ pc = "fill" => cur = IF free_num = 0 /\ saved = NumBd THEN NULL
                          ELSE Pos(recv_head, NumBd - free_num)

FrameInv ==
  /\ Len(arrived) <= NumBd - OldOut
  /\ \A k \in 0 .. (NumBd - 1) : Pos(recv_head, k) \in own <=> k >= Len(arrived)
  /\ \A k \in 1 .. Len(arrived) : arrived[k] = pbuf[Pos(recv_head, k - 1)]
  /\ eoq \cap own = {}

DmaInv ==
  /\ dma.bd # NULL => dma.bd = Pos(recv_head, Len(arrived)) /\ Len(arrived) < NumBd - Out
  /\ dma.buf # NoPbuf =>
       /\ dma.bd # NULL /\ dma.buf = pbuf[dma.bd] /\ Len(arrived) < NumBd - OldOut
       /\ dma.link \in {NULL, Succ(dma.bd)}
       /\ dma.link # NULL => Len(arrived) + 1 < NumBd - Out
  /\ Linking /\ tail \in eoq => dma.bd = NULL

PbufInv ==
  /\ \A i, j \in 0 .. (NumBd - free_num - 1) :
       pbuf[Pos(recv_head, i)] = pbuf[Pos(recv_head, j)] => i = j
  /\ \A i \in 0 .. (NumBd - free_num - 1) : pbuf[Pos(recv_head, i)] \notin pool \cup held
  /\ \A p \in Pbuf : \/ p \in pool \cup held
                     \/ \E i \in 0 .. (NumBd - free_num - 1) : p = pbuf[Pos(recv_head, i)]
  /\ pool \cap held = {} /\ Cardinality(held) <= env.maxHeld

IInv == TypeOK /\ RingInv /\ FrameInv /\ DmaInv /\ PbufInv

(* The pbufs lwIP leaves suffice for the ring, the engine reads a link     *)
(* when it needs it.                                                       *)
Ample == ~env.linkAtFetch /\ env.maxHeld + NumBd <= Cardinality(Pbuf)

OldTail == IF Linking THEN tail ELSE recv_tail

RunInv ==
  Ample =>
    /\ Linking => free_num = 0
    /\ dma.bd = NULL => /\ Len(arrived) = NumBd - OldOut
                        /\ Linking \/ OldOut < NumBd => OldTail \in eoq
-----------------------------------------------------------------------------
(* The circle of descriptors *)

LEMMA BdIs == /\ NumBd \in Nat /\ NumBd >= 2 /\ NULL \notin Bd
              /\ \A b \in Int : b \in Bd <=> 0 <= b /\ b < NumBd
  BY NumBdAssumption DEF Bd, NULL

LEMMA SuccIs ==
  /\ \A b \in Bd : Succ(b) \in Bd /\ Succ(b) # NULL
  /\ \A a, b \in Bd : Succ(a) = Succ(b) => a = b
  BY NumBdAssumption DEF Bd, Succ, NULL

LEMMA PosIs ==
  ASSUME NEW h \in Bd
  PROVE  /\ \A k \in 0 .. NumBd : Pos(h, k) \in Bd /\ Pos(h, k) # NULL
         /\ Pos(h, 0) = h /\ Pos(h, NumBd) = h
         /\ \A k \in 0 .. (NumBd - 1) : Succ(Pos(h, k)) = Pos(h, k + 1)
         /\ \A k \in 0 .. (NumBd - 1) : Pos(Succ(h), k) = Pos(h, k + 1)
         /\ \A i, j \in 0 .. (NumBd - 1) : Pos(h, i) = Pos(h, j) => i = j
         /\ \A b \in Bd : \E k \in 0 .. (NumBd - 1) : b = Pos(h, k)
  <1> USE NumBdAssumption DEF Bd
  <1>1. \A k \in 0 .. NumBd : Pos(h, k) \in Bd /\ Pos(h, k) # NULL
    BY DEF Pos, NULL
  <1>2. Pos(h, 0) = h /\ Pos(h, NumBd) = h
    BY DEF Pos
  <1>3. \A k \in 0 .. (NumBd - 1) : Succ(Pos(h, k)) = Pos(h, k + 1)
    BY DEF Pos, Succ
  <1>4. \A k \in 0 .. (NumBd - 1) : Pos(Succ(h), k) = Pos(h, k + 1)
    BY DEF Pos, Succ
  <1>5. \A i, j \in 0 .. (NumBd - 1) : Pos(h, i) = Pos(h, j) => i = j
    BY DEF Pos
  <1>6. ASSUME NEW b \in Bd
        PROVE  \E k \in 0 .. (NumBd - 1) : b = Pos(h, k)
    <2>1. CASE b >= h
      <3>1. b - h \in 0 .. (NumBd - 1) /\ b = Pos(h, b - h)
        BY <2>1 DEF Pos
      <3> QED BY <3>1
    <2>2. CASE b < h
      <3>1. b - h + NumBd \in 0 .. (NumBd - 1) /\ b = Pos(h, b - h + NumBd)
        BY <2>2 DEF Pos
      <3> QED BY <3>1
    <2> QED BY <2>1, <2>2
  <1> QED BY <1>1, <1>2, <1>3, <1>4, <1>5, <1>6

LEMMA FromHeadIs == \A k : FromHead(k) = Pos(recv_head, k)
  BY DEF FromHead, Pos

(* Where the last descriptors of the old and of the new ring lie. *)
LEMMA TailIs ==
  ASSUME TypeOK, RingInv
  PROVE  /\ Out < NumBd => recv_tail = Pos(recv_head, NumBd - Out - 1)
         /\ Lending /\ saved < NumBd => tail = Pos(recv_head, NumBd - saved - 1)
         /\ Linking => last = Pos(recv_head, NumBd - free_num - 1)
         /\ pc = "fill" => tail = recv_tail
  <1>1. /\ NumBd \in Nat /\ recv_head \in Bd /\ recv_tail \in Bd
        /\ free_num \in 0 .. NumBd /\ saved \in 0 .. NumBd /\ Out \in 0 .. NumBd
    BY BdIs DEF TypeOK, Out
  <1>2. ASSUME NEW b \in Bd, NEW n \in 0 .. NumBd, n < NumBd,
               Succ(b) = Pos(recv_head, NumBd - n)
        PROVE  b = Pos(recv_head, NumBd - n - 1)
    <2>1. NumBd - n - 1 \in 0 .. (NumBd - 1) /\ (NumBd - n - 1) + 1 = NumBd - n
      BY <1>1, <1>2
    <2>2. Succ(Pos(recv_head, NumBd - n - 1)) = Pos(recv_head, NumBd - n)
      BY <1>1, <2>1, PosIs
    <2>3. Pos(recv_head, NumBd - n - 1) \in Bd
      BY <1>1, <2>1, PosIs
    <2> QED BY <1>2, <2>2, <2>3, SuccIs
  <1>3. Succ(recv_tail) = Pos(recv_head, NumBd - Out)
    BY DEF RingInv
  <1>4. Lending => tail \in Bd /\ Succ(tail) = Pos(recv_head, NumBd - saved)
    BY DEF RingInv
  <1>5. Linking => /\ last \in Bd /\ Succ(last) = Pos(recv_head, NumBd - free_num)
                   /\ free_num < NumBd
    BY <1>1 DEF RingInv, Lending
  <1>6. pc = "fill" => Succ(tail) = Succ(recv_tail) /\ tail \in Bd
    BY <1>3, <1>4 DEF Lending, Out
  <1> QED BY <1>1, <1>2, <1>3, <1>4, <1>5, <1>6, SuccIs

(* What the ring, the frames and the pbufs look like where the code is not *)
(* linking new descriptors.                                                *)
LEMMA FirstIs ==
  ASSUME TypeOK, FrameInv
  PROVE  /\ Len(arrived) \in Nat /\ NumBd \in Nat
         /\ free_num \in 0 .. NumBd /\ saved \in 0 .. NumBd
         /\ Out \in 0 .. NumBd /\ OldOut \in 0 .. NumBd
         /\ Len(arrived) <= NumBd
  BY BdIs DEF TypeOK, FrameInv, Out, OldOut

(* If the old ring has ended in EOQ, all of it has been filled. *)
LEMMA TailStopped ==
  ASSUME TypeOK, RingInv, FrameInv, Lending, tail \in eoq
  PROVE  saved < NumBd /\ Len(arrived) = NumBd - saved
  <1>1. /\ tail \in Bd /\ recv_head \in Bd
    BY DEF TypeOK, RingInv
  <1>2. PICK k \in 0 .. (NumBd - 1) : tail = Pos(recv_head, k)
    BY <1>1, PosIs
  <1>3. k < Len(arrived) /\ Len(arrived) <= NumBd - saved
    BY <1>2, FirstIs DEF FrameInv, OldOut
  <1>4. saved < NumBd
    BY <1>3, FirstIs
  <1>5. tail = Pos(recv_head, NumBd - saved - 1) /\ NumBd - saved - 1 \in 0 .. (NumBd - 1)
    BY <1>4, TailIs, FirstIs
  <1>6. k = NumBd - saved - 1
    <2>1. Pos(recv_head, k) = Pos(recv_head, NumBd - saved - 1)
      BY <1>2, <1>5
    <2> QED BY <1>1, <1>5, <2>1, PosIs
  <1> QED BY <1>3, <1>4, <1>6, FirstIs

(* The link the engine follows leads on in the ring. *)
LEMMA LinkIs ==
  ASSUME TypeOK, RingInv, FrameInv, DmaInv, dma.bd # NULL, ~Linking \/ dma.buf # NoPbuf
  PROVE  /\ dma.bd \in Bd /\ dma.bd = Pos(recv_head, Len(arrived))
         /\ Len(arrived) \in 0 .. (NumBd - 1) /\ Len(arrived) < NumBd - OldOut
         /\ Succ(dma.bd) = Pos(recv_head, Len(arrived) + 1)
         /\ next[dma.bd] \in {NULL, Succ(dma.bd)}
         /\ next[dma.bd] # NULL => Len(arrived) + 1 < NumBd - Out
         /\ next[dma.bd] = NULL => dma.bd = OldTail /\ Len(arrived) + 1 = NumBd - OldOut
  <1>1. /\ dma.bd = Pos(recv_head, Len(arrived)) /\ Len(arrived) < NumBd - Out
        /\ Len(arrived) < NumBd - OldOut /\ (~Linking => Out = OldOut)
        /\ Linking => OldOut = saved /\ Out = free_num /\ free_num < saved
    BY DEF DmaInv, Out, OldOut, Lending, Linking, RingInv
  <1>2. Len(arrived) \in 0 .. (NumBd - 1) /\ recv_head \in Bd
    BY <1>1, FirstIs DEF TypeOK
  <1>3. dma.bd \in Bd /\ dma.bd # NULL /\ Succ(dma.bd) = Pos(recv_head, Len(arrived) + 1)
    BY <1>1, <1>2, PosIs, FirstIs
  <1>4. next[dma.bd] = IF dma.bd = End THEN NULL ELSE Succ(dma.bd)
    BY <1>3 DEF RingInv
  <1>5. next[dma.bd] = NULL <=> dma.bd = End
    BY <1>3, <1>4, SuccIs
  <1>6. CASE ~Linking
    <2>1. End = recv_tail /\ OldTail = recv_tail
      BY <1>6 DEF End, OldTail, Linking
    <2>2. recv_tail = Pos(recv_head, NumBd - Out - 1) /\ NumBd - Out - 1 \in 0 .. (NumBd - 1)
      BY <1>1, <1>6, FirstIs, TailIs
    <2>3. dma.bd = recv_tail <=> Len(arrived) = NumBd - Out - 1
      BY <1>1, <1>2, <2>2, PosIs
    <2> QED BY <1>1, <1>2, <1>3, <1>4, <1>5, <1>6, <2>1, <2>3, FirstIs
  <1>7. CASE Linking
    <2>1. Len(arrived) + 1 < NumBd - Out /\ saved < NumBd
      BY <1>1, <1>7, FirstIs
    <2>2. /\ tail = Pos(recv_head, NumBd - saved - 1)
          /\ last = Pos(recv_head, NumBd - free_num - 1) /\ last = recv_tail
          /\ NumBd - saved - 1 \in 0 .. (NumBd - 1)
          /\ NumBd - free_num - 1 \in 0 .. (NumBd - 1)
      BY <1>1, <1>7, <2>1, FirstIs, TailIs DEF Lending, RingInv
    <2>3. dma.bd # recv_tail
      BY <1>1, <1>2, <1>7, <2>2, PosIs, FirstIs
    <2>4. dma.bd = tail => Len(arrived) = NumBd - saved - 1
      <3>1. \A i, j \in 0 .. (NumBd - 1) : Pos(recv_head, i) = Pos(recv_head, j) => i = j
        BY <1>2, PosIs
      <3>2. dma.bd = Pos(recv_head, Len(arrived))
        BY <1>1
      <3> QED BY <1>2, <2>2, <3>1, <3>2
    <2>5. End \in {tail, NULL, recv_tail} /\ OldTail = tail
      BY <1>7 DEF End, OldTail
    <2> QED BY <1>1, <1>2, <1>3, <1>4, <1>5, <1>7, <2>1, <2>3, <2>4, <2>5, FirstIs
  <1> QED BY <1>6, <1>7
-----------------------------------------------------------------------------
(* The interrupt handlers *)

(* The code moves on, and neither the ring nor a pbuf does. *)
LEMMA QuietStep ==
  ASSUME IInv, ~Linking, pc' \in {"idle", "isr", "alloc"}, saved' \in 0 .. NumBd,
         UNCHANGED <<mem, rxch, dma, pool, held, arrived, env>>,
         pc = "fill" => saved = free_num,
         pc' = "isr" => cur' = recv_head
  PROVE  IInv' /\ (RunInv => RunInv')
  <1> USE DEF mem, rxch
  <1>1. /\ ~Linking' /\ ~Lending' /\ Out' = Out /\ OldOut' = OldOut /\ End' = End
        /\ OldTail' = OldTail
    BY DEF Linking, Lending, Out, OldOut, End, OldTail
  <1>2. TypeOK'
    BY DEF IInv, TypeOK
  <1>3. RingInv'
    BY <1>1 DEF IInv, RingInv, Lending
  <1>4. FrameInv' /\ DmaInv'
    BY <1>1 DEF IInv, FrameInv, DmaInv
  <1>5. PbufInv'
    BY DEF IInv, PbufInv
  <1>6. RunInv => RunInv'
    BY <1>1 DEF RunInv, Ample
  <1> QED BY <1>2, <1>3, <1>4, <1>5, <1>6 DEF IInv

(* lwIP drops a pbuf. *)
LEMMA PbufFreeStep ==
  ASSUME IInv, NEW p \in held, PbufFree(p)
  PROVE  IInv' /\ (RunInv => RunInv')
  <1>1. /\ UNCHANGED <<mem, rxch, pc, local, dma, arrived, env>>
        /\ held' = held \ {p} /\ pool' = pool \cup {p}
    BY DEF PbufFree, hw
  <1> USE DEF mem, rxch, local
  <1>2. /\ Linking' = Linking /\ Lending' = Lending /\ Out' = Out /\ OldOut' = OldOut
        /\ End' = End /\ OldTail' = OldTail
    BY <1>1 DEF Linking, Lending, Out, OldOut, End, OldTail
  <1>3. TypeOK'
    BY <1>1 DEF IInv, TypeOK
  <1>4. RingInv'
    BY <1>1, <1>2 DEF IInv, RingInv
  <1>5. FrameInv' /\ DmaInv'
    BY <1>1, <1>2 DEF IInv, FrameInv, DmaInv
  <1>6. Cardinality(held') <= env.maxHeld
    <2>1. IsFiniteSet(held) /\ env.maxHeld \in Nat
      BY PoolAssumption, EnvAssumption, FS_Subset, FS_CardinalityType DEF IInv, TypeOK
    <2>2. Cardinality(held') <= Cardinality(held)
      BY <1>1, <2>1, FS_Subset
    <2> QED BY <2>1, <2>2, <1>1, FS_CardinalityType, FS_Subset DEF IInv, PbufInv
  <1>7. PbufInv'
    BY <1>1, <1>6 DEF IInv, PbufInv
  <1>8. RunInv => RunInv'
    BY <1>1, <1>2 DEF RunInv, Ample
  <1> QED BY <1>3, <1>4, <1>5, <1>7, <1>8 DEF IInv

(* The handler takes the first frame: the positions move up by one, and    *)
(* the descriptor it was in becomes the last of those without a pbuf.      *)
LEMMA RxIsrFrameIs ==
  ASSUME IInv, RxIsrFrame
  PROVE  /\ pc = "isr" /\ cur = recv_head /\ cur \in Bd /\ cur \notin own
         /\ pc' \in {"isr", "alloc"} /\ (pc' = "isr" => cur' = recv_head')
         /\ recv_head' = Succ(recv_head) /\ recv_head' \in Bd
         /\ own' = own \cup {cur} /\ eoq' = eoq \ {cur}
         /\ Len(arrived) \in 1 .. (NumBd - free_num)
         /\ free_num' = free_num + 1 /\ free_num' \in 1 .. NumBd
         /\ arrived' \in Seq(Pbuf) /\ Len(arrived') = Len(arrived) - 1
         /\ \A k \in 1 .. Len(arrived') : arrived'[k] = arrived[k + 1]
         /\ EthernetInput(pbuf[cur])
         /\ UNCHANGED <<next, pbuf, free_head, recv_tail, saved, dma, env>>
  <1>1. /\ pc = "isr" /\ cur \notin own /\ own' = own \cup {cur} /\ eoq' = eoq \ {cur}
        /\ EthernetInput(pbuf[cur]) /\ free_num' = free_num + 1
        /\ cur' = next[cur] /\ recv_head' = NextHead(cur)
        /\ pc' = (IF next[cur] = NULL THEN "alloc" ELSE "isr")
        /\ arrived' = Tail(arrived)
        /\ UNCHANGED <<next, pbuf, free_head, recv_tail, saved, dma, env>>
    BY DEF RxIsrFrame, SetOwner
  <1>2. cur = recv_head /\ recv_head \in Bd /\ recv_tail \in Bd
    BY <1>1 DEF IInv, RingInv, TypeOK
  <1>3. next[cur] = IF cur = recv_tail THEN NULL ELSE Succ(cur)
    BY <1>1, <1>2 DEF IInv, RingInv, End
  <1>4. /\ recv_head' = Succ(recv_head) /\ recv_head' \in Bd
        /\ pc' = "isr" => cur' = recv_head'
    BY <1>1, <1>2, <1>3, SuccIs DEF NextHead, IInv, RingInv
  <1>5. Len(arrived) \in 1 .. (NumBd - free_num) /\ OldOut = free_num
    <2>1. OldOut = free_num /\ Len(arrived) <= NumBd - OldOut
      BY <1>1 DEF IInv, FrameInv, OldOut, Lending, Linking
    <2>2. 0 \in 0 .. (NumBd - 1) /\ Pos(recv_head, 0) = recv_head
      BY <1>2, BdIs, PosIs
    <2>3. ~(0 >= Len(arrived))
      BY <1>1, <1>2, <2>2 DEF IInv, FrameInv
    <2> QED BY <2>1, <2>3, FirstIs DEF IInv
  <1>6. arrived \in Seq(Pbuf) /\ arrived # <<>>
    BY <1>5 DEF IInv, TypeOK
  <1>7. /\ arrived' \in Seq(Pbuf) /\ Len(arrived') = Len(arrived) - 1
        /\ \A k \in 1 .. Len(arrived') : arrived'[k] = arrived[k + 1]
    BY <1>1, <1>6
  <1>8. free_num' \in 1 .. NumBd
    BY <1>1, <1>5, FirstIs DEF IInv
  <1> QED BY <1>1, <1>2, <1>4, <1>5, <1>7, <1>8

LEMMA RxIsrFrameStep ==
  ASSUME IInv, RxIsrFrame
  PROVE  IInv' /\ (RunInv => RunInv')
  <1> DEFINE n == Len(arrived)
             b == pbuf[cur]
  <1>1. /\ pc = "isr" /\ cur = recv_head /\ cur \in Bd /\ cur \notin own
        /\ pc' \in {"isr", "alloc"} /\ (pc' = "isr" => cur' = recv_head')
        /\ recv_head' = Succ(recv_head) /\ recv_head' \in Bd
        /\ own' = own \cup {cur} /\ eoq' = eoq \ {cur}
        /\ n \in 1 .. (NumBd - free_num)
        /\ free_num' = free_num + 1 /\ free_num' \in 1 .. NumBd
        /\ arrived' \in Seq(Pbuf) /\ Len(arrived') = n - 1
        /\ \A k \in 1 .. (n - 1) : arrived'[k] = arrived[k + 1]
        /\ EthernetInput(b)
        /\ UNCHANGED <<next, pbuf, free_head, recv_tail, saved, dma, env>>
    BY RxIsrFrameIs
  <1>2. /\ n \in Nat /\ NumBd \in Nat /\ free_num \in 0 .. NumBd /\ n <= NumBd - free_num
        /\ n \in 1 .. NumBd /\ free_num < NumBd
    BY <1>1, FirstIs DEF IInv
  <1>3. /\ ~Linking /\ ~Lending /\ ~Linking' /\ ~Lending'
        /\ Out = free_num /\ OldOut = free_num /\ Out' = free_num + 1
        /\ OldOut' = free_num + 1 /\ End = recv_tail /\ End' = recv_tail
        /\ OldTail = recv_tail /\ OldTail' = recv_tail
    BY <1>1 DEF Linking, Lending, Out, OldOut, End, OldTail
  <1>4. /\ \A k \in 0 .. (NumBd - 1) : Pos(recv_head', k) = Pos(recv_head, k + 1)
        /\ \A k \in 0 .. NumBd : Pos(recv_head, k) \in Bd
        /\ Pos(recv_head, 0) = cur /\ Pos(recv_head, NumBd) = cur
        /\ \A i, j \in 0 .. (NumBd - 1) : Pos(recv_head, i) = Pos(recv_head, j) => i = j
    <2>1. recv_head \in Bd /\ cur = recv_head /\ recv_head' = Succ(recv_head)
      BY <1>1
    <2>2. \A k \in 0 .. (NumBd - 1) : Pos(recv_head', k) = Pos(recv_head, k + 1)
      BY <2>1, PosIs
    <2>3. /\ \A k \in 0 .. NumBd : Pos(recv_head, k) \in Bd
          /\ Pos(recv_head, 0) = cur /\ Pos(recv_head, NumBd) = cur
      BY <2>1, PosIs
    <2>4. \A i, j \in 0 .. (NumBd - 1) : Pos(recv_head, i) = Pos(recv_head, j) => i = j
      BY <2>1, PosIs
    <2> QED BY <2>2, <2>3, <2>4
  <1> HIDE DEF n
  <1>5. b \in Pbuf /\ b \notin pool \cup held
    <2>1. 0 \in 0 .. (NumBd - free_num - 1)
      BY <1>2
    <2> QED BY <1>1, <1>4, <2>1 DEF IInv, PbufInv, TypeOK
  <1>6. /\ pool' \subseteq Pbuf /\ held' \subseteq Pbuf /\ pool' \cap held' = {}
        /\ pool' \cup held' = pool \cup held \cup {b}
        /\ Cardinality(held') <= env.maxHeld
    <2>1. pool \subseteq Pbuf /\ held \subseteq Pbuf /\ pool \cap held = {}
      BY DEF IInv, TypeOK, PbufInv
    <2>2. IsFiniteSet(held) /\ Cardinality(held) \in Nat /\ env.maxHeld \in Nat
      BY <2>1, PoolAssumption, EnvAssumption, FS_Subset, FS_CardinalityType
         DEF IInv, TypeOK
    <2>3. CASE Cardinality(held) < env.maxHeld /\ held' = held \cup {b} /\ UNCHANGED pool
      <3>1. Cardinality(held') = Cardinality(held) + 1
        BY <1>5, <2>2, <2>3, FS_AddElement
      <3>2. Cardinality(held') <= env.maxHeld
        BY <2>2, <2>3, <3>1
      <3> QED BY <1>5, <2>1, <2>3, <3>2
    <2>4. CASE pool' = pool \cup {b} /\ UNCHANGED held
      BY <1>5, <2>1, <2>4 DEF IInv, PbufInv
    <2> QED BY <1>1, <2>3, <2>4 DEF EthernetInput
  <1>7. TypeOK'
    BY <1>1, <1>2, <1>6 DEF IInv, TypeOK
  <1>8. RingInv'
    <2>1. NumBd - free_num - 1 \in 0 .. (NumBd - 1)
          /\ (NumBd - free_num - 1) + 1 = NumBd - free_num
          /\ NumBd - (free_num + 1) = NumBd - free_num - 1
      BY <1>2
    <2>2. Pos(recv_head', NumBd - (free_num + 1)) = Pos(recv_head, NumBd - free_num)
      BY <1>4, <2>1
    <2>3. free_head' = Pos(recv_head', NumBd - Out')
      BY <1>1, <1>3, <2>2 DEF IInv, RingInv
    <2> QED BY <1>1, <1>3, <2>3 DEF IInv, RingInv
  <1>9. FrameInv'
    <2>1. Len(arrived') <= NumBd - OldOut'
      BY <1>1, <1>2, <1>3
    <2>2. ASSUME NEW k \in 0 .. (NumBd - 1)
          PROVE  Pos(recv_head', k) \in own' <=> k >= Len(arrived')
      <3>1. CASE k = NumBd - 1
        <4>1. Pos(recv_head', k) = cur
          BY <1>2, <1>4, <3>1
        <4> QED BY <1>1, <1>2, <3>1, <4>1
      <3>2. CASE k # NumBd - 1
        <4>1. k + 1 \in 1 .. (NumBd - 1) /\ k + 1 \in 0 .. (NumBd - 1) /\ 0 \in 0 .. (NumBd - 1)
          BY <1>2, <3>2
        <4>2. Pos(recv_head', k) = Pos(recv_head, k + 1) /\ Pos(recv_head, k + 1) # cur
          BY <1>4, <4>1
        <4>3. Pos(recv_head, k + 1) \in own <=> k + 1 >= n
          BY <4>1 DEF IInv, FrameInv, n
        <4> QED BY <1>1, <1>2, <4>2, <4>3
      <3> QED BY <3>1, <3>2
    <2>3. ASSUME NEW k \in 1 .. Len(arrived')
          PROVE  arrived'[k] = pbuf'[Pos(recv_head', k - 1)]
      <3>1. /\ k \in 1 .. (n - 1) /\ k - 1 \in 0 .. (NumBd - 1) /\ k + 1 \in 1 .. n
            /\ (k - 1) + 1 = k /\ (k + 1) - 1 = k
        BY <1>1, <1>2, <2>3
      <3>2. arrived[k + 1] = pbuf[Pos(recv_head, k)]
        BY <3>1 DEF IInv, FrameInv, n
      <3>3. Pos(recv_head', k - 1) = Pos(recv_head, k)
        BY <1>4, <3>1
      <3> QED BY <1>1, <3>1, <3>2, <3>3
    <2>4. eoq' \cap own' = {}
      BY <1>1 DEF IInv, FrameInv
    <2> QED BY <2>1, <2>2, <2>3, <2>4 DEF FrameInv
  <1>10. DmaInv'
    <2>1. n - 1 \in 0 .. (NumBd - 1) /\ (n - 1) + 1 = n
      BY <1>2
    <2>2. Pos(recv_head', n - 1) = Pos(recv_head, n)
      BY <1>4, <2>1
    <2>3. /\ dma.bd # NULL => dma.bd = Pos(recv_head, n) /\ n < NumBd - free_num
          /\ dma.buf # NoPbuf =>
               /\ dma.bd # NULL /\ dma.buf = pbuf[dma.bd] /\ n < NumBd - free_num
               /\ dma.link \in {NULL, Succ(dma.bd)}
               /\ dma.link # NULL => n + 1 < NumBd - free_num
      BY <1>3 DEF IInv, DmaInv, n
    <2>4. /\ n < NumBd - free_num => n - 1 < NumBd - (free_num + 1)
          /\ n + 1 < NumBd - free_num => (n - 1) + 1 < NumBd - (free_num + 1)
      BY <1>2
    <2> QED BY <1>1, <1>3, <2>2, <2>3, <2>4 DEF DmaInv
  <1>11. PbufInv'
    <2>1. ASSUME NEW i \in 0 .. (NumBd - free_num' - 1)
          PROVE  /\ i + 1 \in 0 .. (NumBd - free_num - 1) /\ i \in 0 .. (NumBd - 1)
                 /\ Pos(recv_head', i) = Pos(recv_head, i + 1)
      <3>1. i + 1 \in 0 .. (NumBd - free_num - 1) /\ i \in 0 .. (NumBd - 1)
        BY <1>1, <1>2
      <3> QED BY <1>4, <3>1
    <2>2. 0 \in 0 .. (NumBd - free_num - 1)
      BY <1>2
    <2>3. ASSUME NEW i \in 0 .. (NumBd - free_num' - 1), NEW j \in 0 .. (NumBd - free_num' - 1),
                 pbuf'[Pos(recv_head', i)] = pbuf'[Pos(recv_head', j)]
          PROVE  i = j
      <3>1. i + 1 = j + 1
        BY <1>1, <2>1, <2>3 DEF IInv, PbufInv
      <3> QED BY <3>1
    <2>4. ASSUME NEW i \in 0 .. (NumBd - free_num' - 1)
          PROVE  pbuf'[Pos(recv_head', i)] \notin pool' \cup held'
      <3>1. pbuf[Pos(recv_head, i + 1)] \notin pool \cup held
        BY <2>1 DEF IInv, PbufInv
      <3>2. pbuf[Pos(recv_head, i + 1)] = pbuf[Pos(recv_head, 0)] => i + 1 = 0
        BY <2>1, <2>2 DEF IInv, PbufInv
      <3>3. i + 1 # 0
        BY <1>2
      <3> QED BY <1>1, <1>4, <1>6, <2>1, <3>1, <3>2, <3>3
    <2>5. ASSUME NEW q \in Pbuf, q \notin pool' \cup held'
          PROVE  \E i \in 0 .. (NumBd - free_num' - 1) : q = pbuf'[Pos(recv_head', i)]
      <3>1. q # b /\ q \notin pool \cup held
        BY <1>6, <2>5
      <3>2. PICK j \in 0 .. (NumBd - free_num - 1) : q = pbuf[Pos(recv_head, j)]
        BY <3>1 DEF IInv, PbufInv
      <3>3. j # 0
        BY <1>4, <3>1, <3>2
      <3>4. j - 1 \in 0 .. (NumBd - free_num' - 1) /\ (j - 1) + 1 = j
        BY <1>1, <1>2, <3>3
      <3>5. q = pbuf'[Pos(recv_head', j - 1)]
        BY <1>1, <2>1, <3>2, <3>4
      <3> QED BY <3>4, <3>5
    <2> QED BY <1>1, <1>6, <2>3, <2>4, <2>5 DEF PbufInv
  <1>12. RunInv => RunInv'
    <2>1. ASSUME dma.bd = NULL, n = NumBd - free_num,
                 free_num < NumBd => recv_tail \in eoq, free_num + 1 < NumBd
          PROVE  recv_tail \in eoq'
      <3>1. /\ recv_tail = Pos(recv_head, NumBd - free_num - 1)
            /\ NumBd - free_num - 1 \in 1 .. (NumBd - 1)
            /\ NumBd - free_num - 1 \in 0 .. (NumBd - 1) /\ 0 \in 0 .. (NumBd - 1)
        BY <1>2, <1>3, <2>1, TailIs DEF IInv
      <3>2. recv_tail # cur
        BY <1>4, <3>1
      <3> QED BY <1>1, <1>2, <2>1, <3>2
    <2>2. n = NumBd - free_num => n - 1 = NumBd - (free_num + 1)
      BY <1>2
    <2> QED BY <1>1, <1>2, <1>3, <2>1, <2>2 DEF RunInv, Ample, n
  <1> QED BY <1>7, <1>8, <1>9, <1>10, <1>11, <1>12 DEF IInv
-----------------------------------------------------------------------------
(* cpswif_rxbd_alloc *)

LEMMA AllocBeginStep ==
  ASSUME IInv, AllocBegin
  PROVE  IInv' /\ (RunInv => RunInv')
  <1>1. /\ pc = "alloc" /\ pc' = "fill" /\ cur' = free_head /\ head' = free_head
        /\ last' = recv_tail /\ tail' = recv_tail /\ saved' = free_num
        /\ UNCHANGED <<next, own, eoq, pbuf, free_head, free_num, recv_head, recv_tail, dma,
                       pool, held, arrived, env>>
    BY DEF AllocBegin, mem, rxch, hw
  <1>2. /\ ~Linking /\ ~Lending /\ ~Linking' /\ Lending'
        /\ Out = free_num /\ OldOut = free_num /\ Out' = free_num /\ OldOut' = free_num
        /\ End = recv_tail /\ End' = recv_tail /\ OldTail = recv_tail /\ OldTail' = recv_tail
    BY <1>1 DEF Linking, Lending, Out, OldOut, End, OldTail
  <1>3. TypeOK'
    BY <1>1 DEF IInv, TypeOK
  <1>4. RingInv'
    <2>1. ~(free_num' = 0 /\ saved' = NumBd)
      BY <1>1, BdIs
    <2>2. /\ free_head = Pos(recv_head, NumBd - free_num) /\ free_head = Succ(recv_tail)
          /\ \A b \in Bd : next[b] = IF b = recv_tail THEN NULL ELSE Succ(b)
      BY <1>2 DEF IInv, RingInv
    <2>3. free_num' <= saved' /\ free_head \in Bd /\ recv_tail \in Bd
      BY <1>1 DEF IInv, TypeOK
    <2> QED BY <1>1, <1>2, <2>1, <2>2, <2>3 DEF RingInv
  <1>5. FrameInv' /\ DmaInv'
    BY <1>1, <1>2 DEF IInv, FrameInv, DmaInv
  <1>6. PbufInv'
    BY <1>1 DEF IInv, PbufInv
  <1>7. RunInv => RunInv'
    BY <1>1, <1>2 DEF RunInv, Ample
  <1> QED BY <1>3, <1>4, <1>5, <1>6, <1>7 DEF IInv

(* A pbuf of the pool is lent to the first descriptor without one, which   *)
(* the engine cannot reach yet.                                            *)
LEMMA AllocBdStep ==
  ASSUME IInv, NEW p \in pool, AllocBd(p)
  PROVE  IInv' /\ (RunInv => RunInv')
  <1>1. /\ pc = "fill" /\ free_num > 0 /\ pool' = pool \ {p}
        /\ pbuf' = [pbuf EXCEPT ![cur] = p] /\ own' = own \cup {cur} /\ eoq' = eoq \ {cur}
        /\ last' = cur /\ cur' = next[cur] /\ free_num' = free_num - 1
        /\ UNCHANGED <<next, free_head, recv_head, recv_tail, pc, head, tail, saved, dma, held,
                       arrived, env>>
    BY DEF AllocBd, CanLend, SetOwner, hw
  <1>2. /\ ~Linking /\ Lending /\ ~Linking' /\ Lending'
        /\ Out = saved /\ OldOut = saved /\ Out' = saved /\ OldOut' = saved
        /\ End = recv_tail /\ End' = recv_tail /\ OldTail = recv_tail /\ OldTail' = recv_tail
    BY <1>1 DEF Linking, Lending, Out, OldOut, End, OldTail
  <1>3. /\ NumBd \in Nat /\ free_num \in 1 .. NumBd /\ saved \in 1 .. NumBd
        /\ free_num <= saved /\ Len(arrived) \in Nat /\ Len(arrived) <= NumBd - saved
        /\ free_num' \in 0 .. NumBd
    BY <1>1, <1>2, FirstIs DEF IInv, FrameInv, RingInv
  <1>4. /\ NumBd - free_num \in 0 .. (NumBd - 1)
        /\ NumBd - free_num' = (NumBd - free_num) + 1
        /\ recv_head \in Bd /\ recv_tail \in Bd
    BY <1>1, <1>3 DEF IInv, TypeOK
  <1>5. /\ cur = Pos(recv_head, NumBd - free_num) /\ cur \in Bd
        /\ Succ(cur) = Pos(recv_head, NumBd - free_num')
    <2>1. cur = Pos(recv_head, NumBd - free_num)
      BY <1>1, <1>3 DEF IInv, RingInv
    <2>2. Pos(recv_head, NumBd - free_num) \in Bd
      BY <1>3, <1>4, PosIs
    <2>3. Succ(Pos(recv_head, NumBd - free_num)) = Pos(recv_head, (NumBd - free_num) + 1)
      BY <1>4, PosIs
    <2> QED BY <1>4, <2>1, <2>2, <2>3
  <1>6. /\ \A i, j \in 0 .. (NumBd - 1) : Pos(recv_head, i) = Pos(recv_head, j) => i = j
        /\ \A k \in 0 .. (NumBd - 1) : Pos(recv_head, k) \in Bd
        /\ Pos(recv_head, NumBd) = Pos(recv_head, 0)
    <2>1. \A i, j \in 0 .. (NumBd - 1) : Pos(recv_head, i) = Pos(recv_head, j) => i = j
      BY <1>4, PosIs
    <2>2. \A k \in 0 .. (NumBd - 1) : k \in 0 .. NumBd
      BY <1>3
    <2>3. \A k \in 0 .. (NumBd - 1) : Pos(recv_head, k) \in Bd
      BY <1>4, <2>2, PosIs
    <2>4. Pos(recv_head, NumBd) = Pos(recv_head, 0)
      BY <1>4, PosIs
    <2> QED BY <2>1, <2>3, <2>4
  <1>7. p \in Pbuf /\ TypeOK'
    BY <1>1, <1>3, <1>5 DEF IInv, TypeOK
  <1>8. RingInv'
    <2>1. cur = recv_tail <=> free_num' = 0 /\ saved = NumBd
      <3>1. cur = recv_tail <=> Succ(cur) = Succ(recv_tail)
        BY <1>4, <1>5, SuccIs
      <3>2. Succ(recv_tail) = Pos(recv_head, NumBd - saved)
        BY <1>2 DEF IInv, RingInv
      <3>3. NumBd - saved \in 0 .. (NumBd - 1)
        BY <1>3
      <3>4. CASE free_num' = 0
        <4>1. Succ(cur) = Pos(recv_head, 0) /\ 0 \in 0 .. (NumBd - 1)
          BY <1>3, <1>5, <1>6, <3>4
        <4>2. Pos(recv_head, 0) = Pos(recv_head, NumBd - saved) <=> NumBd - saved = 0
          BY <1>6, <3>3, <4>1
        <4> QED BY <1>3, <3>1, <3>2, <3>4, <4>1, <4>2
      <3>5. CASE free_num' # 0
        <4>1. NumBd - free_num' \in 0 .. (NumBd - 1) /\ NumBd - free_num' # NumBd - saved
          BY <1>1, <1>3, <3>5
        <4> QED BY <1>5, <1>6, <3>1, <3>2, <3>3, <3>5, <4>1
      <3> QED BY <3>4, <3>5
    <2>2. next[cur] = IF cur = recv_tail THEN NULL ELSE Succ(cur)
      BY <1>2, <1>5 DEF IInv, RingInv
    <2>3. cur' = IF free_num' = 0 /\ saved' = NumBd THEN NULL
                 ELSE Pos(recv_head', NumBd - free_num')
      BY <1>1, <1>5, <2>1, <2>2
    <2>4. /\ free_head = Pos(recv_head, NumBd - saved) /\ free_head = Succ(recv_tail)
          /\ \A b \in Bd : next[b] = IF b = recv_tail THEN NULL ELSE Succ(b)
          /\ head \in Bd /\ tail \in Bd /\ head = Pos(recv_head, NumBd - saved)
          /\ head = Succ(tail)
      BY <1>2 DEF IInv, RingInv
    <2>5. last' \in Bd /\ Succ(last') = Pos(recv_head', NumBd - free_num')
          /\ free_num' <= saved'
      BY <1>1, <1>3, <1>5
    <2> QED BY <1>1, <1>2, <2>3, <2>4, <2>5 DEF RingInv
  <1>9. own' = own /\ eoq' = eoq
    <2>1. NumBd - free_num >= Len(arrived)
      BY <1>3
    <2>2. cur \in own
      BY <1>4, <1>5, <2>1 DEF IInv, FrameInv
    <2> QED BY <1>1, <2>2 DEF IInv, FrameInv
  <1>10. ASSUME NEW k \in 0 .. (NumBd - 1)
         PROVE  pbuf'[Pos(recv_head, k)] = IF k = NumBd - free_num THEN p
                                           ELSE pbuf[Pos(recv_head, k)]
    <2>1. Pos(recv_head, k) = cur <=> k = NumBd - free_num
      BY <1>4, <1>5, <1>6
    <2>2. Pos(recv_head, k) \in Bd /\ pbuf \in [Bd -> Pbuf]
      BY <1>6 DEF IInv, TypeOK
    <2> QED BY <1>1, <2>1, <2>2
  <1>11. FrameInv'
    <2>1. ASSUME NEW k \in 1 .. Len(arrived)
          PROVE  arrived[k] = pbuf'[Pos(recv_head, k - 1)]
      <3>1. k - 1 \in 0 .. (NumBd - 1) /\ k - 1 # NumBd - free_num
        BY <1>3, <2>1
      <3> QED BY <1>10, <3>1 DEF IInv, FrameInv
    <2> QED BY <1>1, <1>2, <1>9, <2>1 DEF IInv, FrameInv
  <1>12. DmaInv'
    <2>1. ASSUME dma.buf # NoPbuf
          PROVE  pbuf'[dma.bd] = pbuf[dma.bd]
      <3>1. dma.bd = Pos(recv_head, Len(arrived)) /\ Len(arrived) < NumBd - saved
        BY <1>2, <2>1 DEF IInv, DmaInv
      <3>2. Len(arrived) \in 0 .. (NumBd - 1) /\ Len(arrived) # NumBd - free_num
        BY <1>3, <3>1
      <3> QED BY <1>10, <3>1, <3>2
    <2> QED BY <1>1, <1>2, <2>1 DEF IInv, DmaInv
  <1>13. PbufInv'
    <2> DEFINE R == 0 .. (NumBd - free_num - 1)
    <2>1. 0 .. (NumBd - free_num' - 1) = R \cup {NumBd - free_num}
      BY <1>1, <1>3
    <2>2. R \subseteq 0 .. (NumBd - 1) /\ NumBd - free_num \notin R
      BY <1>3
    <2>3. \A i \in R : pbuf'[Pos(recv_head', i)] = pbuf[Pos(recv_head, i)]
      BY <1>1, <1>10, <2>2
    <2>4. pbuf'[Pos(recv_head', NumBd - free_num)] = p
      BY <1>1, <1>4, <1>10
    <2>5. /\ \A i, j \in R : pbuf[Pos(recv_head, i)] = pbuf[Pos(recv_head, j)] => i = j
          /\ \A i \in R : pbuf[Pos(recv_head, i)] \notin pool \cup held
          /\ \A q \in Pbuf : \/ q \in pool \cup held
                             \/ \E i \in R : q = pbuf[Pos(recv_head, i)]
          /\ pool \cap held = {} /\ Cardinality(held) <= env.maxHeld
      BY DEF IInv, PbufInv
    <2>6. p \notin held /\ pool' \cup held' = (pool \cup held) \ {p}
      BY <1>1, <2>5
    <2> HIDE DEF R
    <2>7. \A i, j \in R \cup {NumBd - free_num} :
            pbuf'[Pos(recv_head', i)] = pbuf'[Pos(recv_head', j)] => i = j
      BY <2>3, <2>4, <2>5
    <2>8. \A i \in R \cup {NumBd - free_num} : pbuf'[Pos(recv_head', i)] \notin pool' \cup held'
      BY <2>3, <2>4, <2>5, <2>6
    <2>9. \A q \in Pbuf : \/ q \in pool' \cup held'
                          \/ \E i \in R \cup {NumBd - free_num} : q = pbuf'[Pos(recv_head', i)]
      BY <2>3, <2>4, <2>5, <2>6
    <2> QED BY <1>1, <2>1, <2>5, <2>7, <2>8, <2>9 DEF PbufInv
  <1>14. RunInv => RunInv'
    BY <1>1, <1>2, <1>9 DEF RunInv, Ample
  <1> QED BY <1>7, <1>8, <1>11, <1>12, <1>13, <1>14 DEF IInv

(* As many pbufs are lent as there are descriptors in use. *)
LentPbufs == {pbuf[b] : b \in Lent}

LEMMA LentIs ==
  \A p : p \in LentPbufs <=>
           \E i \in 0 .. (NumBd - free_num - 1) : p = pbuf[Pos(recv_head, i)]
  BY FromHeadIs DEF LentPbufs, Lent

LEMMA LentCount ==
  ASSUME TypeOK, PbufInv
  PROVE  IsFiniteSet(LentPbufs) /\ Cardinality(LentPbufs) = NumBd - free_num
  <1> DEFINE S == 0 .. (NumBd - free_num - 1)
             f == [i \in S |-> pbuf[Pos(recv_head, i)]]
  <1>1. NumBd \in Nat /\ free_num \in 0 .. NumBd
    BY BdIs DEF TypeOK
  <1>2. IsFiniteSet(S) /\ Cardinality(S) = NumBd - free_num
    <2>1. /\ 0 \in Int /\ NumBd - free_num - 1 \in Int
          /\ (IF 0 > NumBd - free_num - 1 THEN 0 ELSE (NumBd - free_num - 1) - 0 + 1)
               = NumBd - free_num
      BY <1>1
    <2> QED BY <2>1, FS_Interval
  <1>3. \A i, j \in S : pbuf[Pos(recv_head, i)] = pbuf[Pos(recv_head, j)] => i = j
    BY DEF PbufInv
  <1>4. \A p : p \in LentPbufs <=> \E i \in S : p = pbuf[Pos(recv_head, i)]
    BY LentIs
  <1> HIDE DEF S
  <1>5. f \in Surjection(S, LentPbufs)
    BY <1>4 DEF Surjection
  <1>6. f \in Injection(S, LentPbufs)
    BY <1>3, <1>4 DEF Injection, IsInjective
  <1> HIDE DEF f
  <1> QED BY <1>2, <1>5, <1>6, FS_Surjection

(* A lwIP that leaves NumBd pbufs leaves one for every descriptor. *)
LEMMA AmpleFills ==
  ASSUME IInv, Ample, pool = {}
  PROVE  free_num = 0
  <1>1. /\ NumBd \in Nat /\ free_num \in 0 .. NumBd /\ env.maxHeld \in Nat
        /\ held \subseteq Pbuf /\ IsFiniteSet(Pbuf)
    BY BdIs, PoolAssumption, EnvAssumption, FS_CardinalityType DEF IInv, TypeOK
  <1>2. /\ IsFiniteSet(held) /\ Cardinality(held) \in Nat /\ Cardinality(Pbuf) \in Nat
        /\ Cardinality(held) <= env.maxHeld
    BY <1>1, FS_Subset, FS_CardinalityType DEF IInv, PbufInv
  <1>3. IsFiniteSet(LentPbufs) /\ Cardinality(LentPbufs) = NumBd - free_num
    BY LentCount DEF IInv
  <1>4. Pbuf \subseteq held \cup LentPbufs
    BY LentIs DEF IInv, PbufInv
  <1>5. /\ IsFiniteSet(held \cup LentPbufs)
        /\ Cardinality(held \cup LentPbufs) <= Cardinality(held) + Cardinality(LentPbufs)
    <2>1. /\ IsFiniteSet(held \cap LentPbufs)
          /\ Cardinality(held \cup LentPbufs)
               = Cardinality(held) + Cardinality(LentPbufs) - Cardinality(held \cap LentPbufs)
          /\ IsFiniteSet(held \cup LentPbufs)
      BY <1>2, <1>3, FS_Union, FS_Intersection
    <2>2. Cardinality(held \cap LentPbufs) \in Nat
      BY <2>1, FS_CardinalityType
    <2> QED BY <1>1, <1>2, <1>3, <2>1, <2>2
  <1>6. Cardinality(Pbuf) <= Cardinality(held \cup LentPbufs)
    BY <1>4, <1>5, FS_Subset
  <1>7. Cardinality(held \cup LentPbufs) \in Nat
    BY <1>5, FS_CardinalityType
  <1> QED BY <1>1, <1>2, <1>3, <1>5, <1>6, <1>7 DEF Ample

(* recv_tail and free_head move behind the new descriptors; if the walk    *)
(* has gone all the way around, the engine is started at the first.        *)
LEMMA AllocTailIs ==
  ASSUME IInv, AllocTail
  PROVE  /\ pc = "fill" /\ pc' = "link" /\ recv_tail' = last
         /\ free_num < saved /\ (free_num > 0 => pool = {})
         /\ free_head' = Pos(recv_head, NumBd - free_num)
         /\ \/ dma' = dma /\ ~(free_num = 0 /\ saved = NumBd)
            \/ dma' = DmaAt(head) /\ free_num = 0 /\ saved = NumBd
         /\ UNCHANGED <<next, own, eoq, pbuf, free_num, recv_head, cur, last, head, tail, saved,
                        pool, held, arrived, env>>
  <1>1. /\ pc = "fill" /\ pc' = "link" /\ recv_tail' = last
        /\ ~(free_num > 0 /\ pool # {}) /\ saved # free_num
        /\ \/ cur # NULL /\ free_head' = cur /\ dma' = dma
           \/ cur = NULL /\ dma' = DmaAt(head) /\ free_head' = free_head
        /\ UNCHANGED <<next, own, eoq, pbuf, free_num, recv_head, cur, last, head, tail, saved,
                       pool, held, arrived, env>>
    BY DEF AllocTail, Filled, CanLend, RxHdrDescPWr, mem, local
  <1>2. /\ NumBd \in Nat /\ free_num \in 0 .. NumBd /\ saved \in 0 .. NumBd /\ free_num <= saved
        /\ recv_head \in Bd
    BY <1>1, BdIs DEF IInv, TypeOK, RingInv, Lending
  <1>3. cur = IF free_num = 0 /\ saved = NumBd THEN NULL ELSE Pos(recv_head, NumBd - free_num)
    BY <1>1 DEF IInv, RingInv
  <1>4. Pos(recv_head, NumBd - free_num) # NULL
    BY <1>2, PosIs
  <1>5. free_head = Pos(recv_head, NumBd - saved)
    BY <1>1 DEF IInv, RingInv, Out
  <1>6. free_num = 0 /\ saved = NumBd =>
          Pos(recv_head, NumBd - saved) = Pos(recv_head, NumBd - free_num)
    BY <1>2, PosIs
  <1> QED BY <1>1, <1>2, <1>3, <1>4, <1>5, <1>6

LEMMA AllocTailStep ==
  ASSUME IInv, AllocTail
  PROVE  IInv' /\ (RunInv => RunInv')
  <1>1. /\ pc = "fill" /\ pc' = "link" /\ recv_tail' = last
        /\ free_num < saved /\ (free_num > 0 => pool = {})
        /\ free_head' = Pos(recv_head, NumBd - free_num)
        /\ \/ dma' = dma /\ ~(free_num = 0 /\ saved = NumBd)
           \/ dma' = DmaAt(head) /\ free_num = 0 /\ saved = NumBd
        /\ UNCHANGED <<next, own, eoq, pbuf, free_num, recv_head, cur, last, head, tail, saved,
                       pool, held, arrived, env>>
    BY AllocTailIs
  <1>2. /\ ~Linking /\ Lending /\ Linking' /\ Lending'
        /\ Out = saved /\ OldOut = saved /\ Out' = free_num /\ OldOut' = saved
        /\ End = recv_tail /\ End' = tail /\ OldTail = recv_tail /\ OldTail' = tail
    BY <1>1 DEF Linking, Lending, Out, OldOut, End, OldTail
  <1>3. /\ NumBd \in Nat /\ free_num \in 0 .. NumBd /\ saved \in 0 .. NumBd
        /\ Len(arrived) \in Nat /\ Len(arrived) <= NumBd - saved /\ recv_head \in Bd
    BY <1>2, FirstIs DEF IInv, FrameInv, TypeOK
  <1>4. /\ tail = recv_tail /\ head \in Bd /\ tail \in Bd /\ last \in Bd
        /\ head = Pos(recv_head, NumBd - saved) /\ head = Succ(tail)
        /\ Succ(last) = Pos(recv_head, NumBd - free_num)
        /\ \A b \in Bd : next[b] = IF b = recv_tail THEN NULL ELSE Succ(b)
    BY <1>1, <1>2, TailIs DEF IInv, RingInv
  <1>5. free_head' \in Bd
    BY <1>1, <1>3, PosIs
  <1>6. DmaAt(head) = [bd |-> head, link |-> NULL, buf |-> NoPbuf]
    BY DEF DmaAt, DmaStopped
  <1>7. TypeOK'
    BY <1>1, <1>4, <1>5, <1>6 DEF IInv, TypeOK, BdOrNull
  <1>8. RingInv'
    <2>1. free_num <= saved
      BY <1>1, <1>3
    <2>2. free_head' = Pos(recv_head', NumBd - Out') /\ free_head' = Succ(recv_tail')
      BY <1>1, <1>2, <1>4
    <2>3. \A b \in Bd : next'[b] = IF b = End' THEN NULL ELSE Succ(b)
      BY <1>1, <1>2, <1>4
    <2> QED BY <1>1, <1>4, <2>1, <2>2, <2>3 DEF RingInv
  <1>9. FrameInv' /\ PbufInv'
    BY <1>1, <1>2 DEF IInv, FrameInv, PbufInv
  <1>10. tail \in eoq => saved < NumBd /\ Len(arrived) = NumBd - saved
    BY <1>2, TailStopped DEF IInv
  <1>11. DmaInv'
    <2>1. CASE dma' = dma
      <3>1. /\ dma.bd # NULL => dma.bd = Pos(recv_head, Len(arrived))
                                /\ Len(arrived) < NumBd - saved
            /\ dma.buf # NoPbuf =>
                 /\ dma.bd # NULL /\ dma.buf = pbuf[dma.bd] /\ Len(arrived) < NumBd - saved
                 /\ dma.link \in {NULL, Succ(dma.bd)}
                 /\ dma.link # NULL => Len(arrived) + 1 < NumBd - saved
        BY <1>2 DEF IInv, DmaInv
      <3>2. tail \in eoq => dma.bd = NULL
        BY <1>3, <1>10, <3>1
      <3>3. /\ Len(arrived) < NumBd - saved => Len(arrived) < NumBd - free_num
            /\ Len(arrived) + 1 < NumBd - saved => Len(arrived) + 1 < NumBd - free_num
        BY <1>1, <1>3
      <3> QED BY <1>1, <1>2, <2>1, <3>1, <3>2, <3>3 DEF DmaInv
    <2>2. CASE dma' = DmaAt(head) /\ free_num = 0 /\ saved = NumBd
      <3>1. Len(arrived) = 0 /\ NumBd - saved = 0 /\ 0 < NumBd - free_num
        BY <1>3, <2>2, BdIs
      <3>2. dma'.bd = head /\ dma'.buf = NoPbuf
        BY <1>6, <2>2
      <3>3. tail \notin eoq
        BY <1>3, <1>10, <2>2
      <3> QED BY <1>1, <1>2, <1>4, <3>1, <3>2, <3>3 DEF DmaInv
    <2> QED BY <1>1, <2>1, <2>2
  <1>12. RunInv => RunInv'
    <2> SUFFICES ASSUME Ample, RunInv
                 PROVE  RunInv'
      BY <1>1 DEF RunInv, Ample
    <2>1. free_num = 0
      BY <1>1, <1>3, AmpleFills
    <2>2. ASSUME dma'.bd = NULL
          PROVE  Len(arrived) = NumBd - saved /\ tail \in eoq
      <3>1. dma' = dma /\ saved # NumBd
        <4>1. head # NULL
          BY <1>4, BdIs
        <4> QED BY <1>1, <1>6, <2>1, <2>2, <4>1
      <3>2. saved < NumBd
        BY <1>3, <3>1
      <3> QED BY <1>2, <1>4, <2>2, <3>1, <3>2 DEF RunInv
    <2> QED BY <1>1, <1>2, <2>1, <2>2 DEF RunInv, Ample
  <1> QED BY <1>7, <1>8, <1>9, <1>11, <1>12 DEF IInv

(* The new descriptors go behind the old tail, and the ring is cut behind  *)
(* them.                                                                   *)
LEMMA AllocLinkCutStep ==
  ASSUME IInv, AllocLink \/ AllocCut
  PROVE  IInv' /\ (RunInv => RunInv')
  <1>1. /\ \/ pc = "link" /\ pc' = "cut" /\ next' = [next EXCEPT ![tail] = head]
           \/ pc = "cut" /\ pc' = "eoq" /\ next' = [next EXCEPT ![last] = NULL]
        /\ UNCHANGED <<own, eoq, pbuf, free_head, free_num, recv_head, recv_tail, cur, last,
                       head, tail, saved, dma, pool, held, arrived, env>>
    BY DEF AllocLink, AllocCut, rxch, local, hw
  <1>2. /\ Linking /\ Lending /\ Linking' /\ Lending'
        /\ Out = free_num /\ OldOut = saved /\ Out' = free_num /\ OldOut' = saved
        /\ OldTail = tail /\ OldTail' = tail
    BY <1>1 DEF Linking, Lending, Out, OldOut, OldTail
  <1>3. /\ head \in Bd /\ tail \in Bd /\ last \in Bd /\ last = recv_tail /\ head = Succ(tail)
        /\ next \in [Bd -> BdOrNull]
    BY <1>2 DEF IInv, RingInv, TypeOK
  <1>4. TypeOK'
    BY <1>1, <1>3 DEF IInv, TypeOK, BdOrNull
  <1>5. \A b \in Bd : next'[b] = IF b = End' THEN NULL ELSE Succ(b)
    <2>1. CASE pc = "link"
      <3>1. /\ \A b \in Bd : next[b] = IF b = tail THEN NULL ELSE Succ(b)
            /\ End' = NULL /\ next' = [next EXCEPT ![tail] = head]
        BY <1>1, <2>1 DEF IInv, RingInv, End
      <3> QED BY <1>3, <3>1, BdIs
    <2>2. CASE pc = "cut"
      <3>1. /\ \A b \in Bd : next[b] = IF b = NULL THEN NULL ELSE Succ(b)
            /\ End' = last /\ next' = [next EXCEPT ![last] = NULL]
        BY <1>1, <1>3, <2>2 DEF IInv, RingInv, End
      <3> QED BY <1>3, <3>1, BdIs
    <2> QED BY <1>1, <2>1, <2>2
  <1>6. RingInv'
    BY <1>1, <1>2, <1>5 DEF IInv, RingInv
  <1>7. FrameInv' /\ DmaInv' /\ PbufInv'
    BY <1>1, <1>2 DEF IInv, FrameInv, DmaInv, PbufInv
  <1>8. RunInv => RunInv'
    BY <1>1, <1>2 DEF RunInv, Ample
  <1> QED BY <1>4, <1>6, <1>7, <1>8 DEF IInv

(* The engine is started again if it has taken the NULL link of the old    *)
(* tail, at the descriptor behind the last it has filled.                  *)
LEMMA AllocRestartStep ==
  ASSUME IInv, AllocRestart
  PROVE  IInv' /\ (RunInv => RunInv')
  <1>1. /\ pc = "eoq" /\ pc' = "idle" /\ saved' = 0
        /\ \/ tail \in eoq /\ dma' = DmaAt(head)
           \/ tail \notin eoq /\ dma' = dma
        /\ UNCHANGED <<next, own, eoq, pbuf, free_head, free_num, recv_head, recv_tail, pool,
                       held, arrived, env>>
    BY DEF AllocRestart, EngineStopped, RxHdrDescPWr, Return, mem, rxch
  <1>2. /\ Linking /\ Lending /\ ~Linking' /\ ~Lending'
        /\ Out = free_num /\ OldOut = saved /\ Out' = free_num /\ OldOut' = free_num
        /\ End = recv_tail /\ End' = recv_tail /\ OldTail = tail /\ OldTail' = recv_tail
    BY <1>1 DEF Linking, Lending, Out, OldOut, End, OldTail
  <1>3. /\ NumBd \in Nat /\ free_num \in 0 .. NumBd /\ saved \in 0 .. NumBd
        /\ Len(arrived) \in Nat /\ Len(arrived) <= NumBd - saved /\ free_num < saved
        /\ head \in Bd /\ head = Pos(recv_head, NumBd - saved)
    BY <1>2, FirstIs DEF IInv, FrameInv, RingInv
  <1>4. DmaAt(head) = [bd |-> head, link |-> NULL, buf |-> NoPbuf]
    BY DEF DmaAt, DmaStopped
  <1>5. TypeOK'
    BY <1>1, <1>3, <1>4, BdIs DEF IInv, TypeOK, BdOrNull
  <1>6. RingInv'
    BY <1>1, <1>2 DEF IInv, RingInv
  <1>7. FrameInv'
    <2>1. Len(arrived) <= NumBd - free_num
      BY <1>3
    <2> QED BY <1>1, <1>2, <2>1 DEF IInv, FrameInv
  <1>8. PbufInv'
    BY <1>1 DEF IInv, PbufInv
  <1>9. DmaInv'
    <2>1. CASE tail \in eoq /\ dma' = DmaAt(head)
      <3>1. Len(arrived) = NumBd - saved
        BY <1>2, <2>1, TailStopped DEF IInv
      <3>2. dma'.bd = Pos(recv_head, Len(arrived)) /\ dma'.buf = NoPbuf
        BY <1>3, <1>4, <2>1, <3>1
      <3>3. Len(arrived) < NumBd - free_num
        BY <1>3
      <3> QED BY <1>1, <1>2, <3>2, <3>3 DEF DmaInv
    <2>2. CASE dma' = dma
      <3>1. Len(arrived) < NumBd - saved => Len(arrived) < NumBd - free_num
        BY <1>3
      <3> QED BY <1>1, <1>2, <2>2, <3>1 DEF IInv, DmaInv
    <2> QED BY <1>1, <2>1, <2>2
  <1>10. RunInv => RunInv'
    <2>1. head # NULL
      BY <1>3, BdIs
    <2>2. dma'.bd = NULL => dma' = dma /\ tail \notin eoq
      BY <1>1, <1>4, <2>1
    <2> QED BY <1>1, <1>2, <2>2 DEF RunInv, Ample
  <1> QED BY <1>5, <1>6, <1>7, <1>8, <1>9, <1>10 DEF IInv
-----------------------------------------------------------------------------
(* The engine *)

LEMMA DmaFetchStep ==
  ASSUME IInv, DmaFetch
  PROVE  IInv' /\ (RunInv => RunInv')
  <1>1. /\ dma.bd # NULL /\ ~Linking
        /\ dma' = [dma EXCEPT !.link = next[dma.bd], !.buf = pbuf[dma.bd]]
        /\ UNCHANGED <<next, own, eoq, pbuf, free_head, free_num, recv_head, recv_tail, pc, cur,
                       last, head, tail, saved, pool, held, arrived, env>>
    BY DEF DmaFetch, Linking, mem, rxch, local
  <1>2. /\ Linking' = Linking /\ Lending' = Lending /\ Out' = Out /\ OldOut' = OldOut
        /\ End' = End /\ OldTail' = OldTail
    BY <1>1 DEF Linking, Lending, Out, OldOut, End, OldTail
  <1>3. /\ dma.bd \in Bd /\ dma.bd = Pos(recv_head, Len(arrived))
        /\ Len(arrived) < NumBd - OldOut
        /\ next[dma.bd] \in {NULL, Succ(dma.bd)}
        /\ next[dma.bd] # NULL => Len(arrived) + 1 < NumBd - Out
    BY <1>1, LinkIs DEF IInv
  <1>4. /\ pbuf[dma.bd] \in Pbuf /\ next[dma.bd] \in BdOrNull
        /\ dma \in [bd : BdOrNull, link : BdOrNull, buf : Pbuf \cup {NoPbuf}]
    BY <1>3 DEF IInv, TypeOK
  <1>5. /\ dma' \in [bd : BdOrNull, link : BdOrNull, buf : Pbuf \cup {NoPbuf}]
        /\ dma'.bd = dma.bd /\ dma'.link = next[dma.bd] /\ dma'.buf = pbuf[dma.bd]
    BY <1>1, <1>4
  <1>6. TypeOK'
    BY <1>1, <1>5 DEF IInv, TypeOK
  <1>7. RingInv' /\ FrameInv' /\ PbufInv'
    BY <1>1, <1>2 DEF IInv, RingInv, FrameInv, PbufInv
  <1>8. DmaInv'
    <2>1. Len(arrived) < NumBd - Out
      BY <1>1 DEF IInv, DmaInv
    <2> QED BY <1>1, <1>2, <1>3, <1>5, <2>1 DEF DmaInv
  <1>9. RunInv => RunInv'
    BY <1>1, <1>2, <1>5 DEF RunInv, Ample
  <1> QED BY <1>6, <1>7, <1>8, <1>9 DEF IInv

(* A frame has been written: the descriptor behind the filled ones is full. *)
LEMMA DmaRxStep ==
  ASSUME IInv, DmaRx
  PROVE  IInv' /\ (RunInv => RunInv')
  <1> DEFINE n == Len(arrived)
             link == IF env.linkAtFetch THEN dma.link ELSE next[dma.bd]
  <1>1. /\ dma.buf # NoPbuf /\ dma' = DmaAt(link)
        /\ eoq' = (IF link = NULL THEN eoq \cup {dma.bd} ELSE eoq)
        /\ own' = own \ {dma.bd} /\ arrived' = Append(arrived, dma.buf)
        /\ UNCHANGED <<next, pbuf, free_head, free_num, recv_head, recv_tail, pc, cur, last,
                       head, tail, saved, pool, held, env>>
    BY DEF DmaRx, rxch, local
  <1>2. /\ Linking' = Linking /\ Lending' = Lending /\ Out' = Out /\ OldOut' = OldOut
        /\ End' = End /\ OldTail' = OldTail
    BY <1>1 DEF Linking, Lending, Out, OldOut, End, OldTail
  <1>3. dma.bd # NULL /\ dma.buf = pbuf[dma.bd] /\ arrived \in Seq(Pbuf)
    BY <1>1 DEF IInv, DmaInv, TypeOK
  <1>4. /\ dma.bd \in Bd /\ dma.bd = Pos(recv_head, n)
        /\ n \in 0 .. (NumBd - 1) /\ n < NumBd - OldOut
        /\ Succ(dma.bd) = Pos(recv_head, n + 1)
        /\ next[dma.bd] \in {NULL, Succ(dma.bd)}
        /\ next[dma.bd] # NULL => n + 1 < NumBd - Out
        /\ next[dma.bd] = NULL => dma.bd = OldTail /\ n + 1 = NumBd - OldOut
    BY <1>1, <1>3, LinkIs DEF IInv
  <1>5. /\ link \in {NULL, Succ(dma.bd)}
        /\ link # NULL => n + 1 < NumBd - Out
        /\ ~env.linkAtFetch => link = next[dma.bd]
    BY <1>1, <1>4 DEF IInv, DmaInv
  <1>6. pbuf[dma.bd] \in Pbuf /\ link \in BdOrNull /\ recv_head \in Bd
    BY <1>4, <1>5, SuccIs DEF IInv, TypeOK, BdOrNull
  <1> HIDE DEF link
  <1>7. /\ arrived' \in Seq(Pbuf) /\ Len(arrived') = n + 1
        /\ \A k \in 1 .. n : arrived'[k] = arrived[k]
        /\ arrived'[n + 1] = pbuf[dma.bd]
    BY <1>1, <1>3, <1>6
  <1>8. /\ n \in Nat /\ NumBd \in Nat /\ OldOut \in 0 .. NumBd /\ Out \in 0 .. NumBd
        /\ n + 1 <= NumBd - OldOut
    BY <1>4, FirstIs DEF IInv
  <1> HIDE DEF n
  <1>9. dma' = [bd |-> link, link |-> NULL, buf |-> NoPbuf]
    BY <1>1 DEF DmaAt, DmaStopped
  <1>10. TypeOK'
    BY <1>1, <1>4, <1>6, <1>7, <1>9 DEF IInv, TypeOK, BdOrNull
  <1>11. RingInv' /\ PbufInv'
    BY <1>1, <1>2 DEF IInv, RingInv, PbufInv
  <1>12. \A i, j \in 0 .. (NumBd - 1) : Pos(recv_head, i) = Pos(recv_head, j) => i = j
    BY <1>6, PosIs
  <1>13. FrameInv'
    <2>1. ASSUME NEW k \in 0 .. (NumBd - 1)
          PROVE  Pos(recv_head, k) \in own' <=> k >= n + 1
      <3>1. Pos(recv_head, k) = dma.bd <=> k = n
        BY <1>4, <1>12
      <3>2. Pos(recv_head, k) \in own <=> k >= n
        BY DEF IInv, FrameInv, n
      <3> QED BY <1>1, <1>8, <3>1, <3>2
    <2>2. ASSUME NEW k \in 1 .. (n + 1)
          PROVE  arrived'[k] = pbuf[Pos(recv_head, k - 1)]
      <3>1. CASE k = n + 1
        <4>1. k - 1 = n
          BY <1>8, <3>1
        <4> QED BY <1>4, <1>7, <3>1, <4>1
      <3>2. CASE k # n + 1
        <4>1. k \in 1 .. n
          BY <1>8, <3>2
        <4> QED BY <1>7, <4>1 DEF IInv, FrameInv, n
      <3> QED BY <3>1, <3>2
    <2>3. eoq' \cap own' = {}
      BY <1>1 DEF IInv, FrameInv
    <2> QED BY <1>1, <1>2, <1>7, <1>8, <2>1, <2>2, <2>3 DEF FrameInv
  <1>14. dma.bd \notin eoq
    <2>1. dma.bd \in own
      BY <1>4, <1>8 DEF IInv, FrameInv, n
    <2> QED BY <2>1 DEF IInv, FrameInv
  <1>15. DmaInv'
    <2>1. dma'.bd # NULL => dma'.bd = Pos(recv_head', Len(arrived')) /\ Len(arrived') < NumBd - Out'
      BY <1>1, <1>2, <1>4, <1>5, <1>7, <1>9
    <2>2. Linking /\ tail \in eoq => dma.bd = NULL
      BY DEF IInv, DmaInv
    <2>3. Linking' /\ tail' \in eoq' => dma'.bd = NULL
      BY <1>1, <1>2, <1>3, <1>9, <2>2
    <2> QED BY <1>9, <2>1, <2>3 DEF DmaInv
  <1>16. RunInv => RunInv'
    <2> SUFFICES ASSUME RunInv, Ample, dma'.bd = NULL
                 PROVE  Len(arrived') = NumBd - OldOut' /\ OldTail' \in eoq'
      BY <1>1, <1>2 DEF RunInv, Ample
    <2>1. link = NULL /\ next[dma.bd] = NULL
      BY <1>5, <1>9 DEF Ample
    <2> QED BY <1>1, <1>2, <1>4, <1>7, <2>1
  <1> QED BY <1>10, <1>11, <1>13, <1>15, <1>16 DEF IInv
-----------------------------------------------------------------------------
(* The invariant *)

LEMMA InitIInv == Init => IInv /\ RunInv
  <1> SUFFICES ASSUME Init
               PROVE  IInv /\ RunInv
    OBVIOUS
  <1>1. /\ next = [b \in Bd |-> IF b = NumBd - 1 THEN NULL ELSE b + 1]
        /\ own = Bd /\ eoq = {} /\ pbuf \in [Bd -> Pbuf]
        /\ \A a, b \in Bd : pbuf[a] = pbuf[b] => a = b
        /\ free_head = 0 /\ free_num = 0 /\ recv_head = 0 /\ recv_tail = NumBd - 1
        /\ pc = "idle" /\ saved = 0 /\ dma = DmaAt(0)
        /\ pool = Pbuf \ {pbuf[b] : b \in Bd} /\ held = {} /\ env \in Envs /\ arrived = <<>>
    BY DEF Init
  <1>2. NumBd \in Nat /\ NumBd >= 2 /\ 0 \in Bd /\ NumBd - 1 \in Bd
    BY BdIs
  <1>3. /\ ~Linking /\ ~Lending /\ Out = 0 /\ OldOut = 0 /\ End = recv_tail
    BY <1>1 DEF Linking, Lending, Out, OldOut, End
  <1>4. /\ dma = [bd |-> 0, link |-> NULL, buf |-> NoPbuf] /\ 0 # NULL
        /\ Len(arrived) = 0
    BY <1>1 DEF DmaAt, DmaStopped, NULL
  <1>5. \A b \in Bd : next[b] = IF b = recv_tail THEN NULL ELSE Succ(b)
    BY <1>1 DEF Succ
  <1>6. /\ \A k \in 0 .. NumBd : Pos(recv_head, k) \in Bd
        /\ Pos(recv_head, 0) = 0 /\ Pos(recv_head, NumBd) = 0
        /\ \A i, j \in 0 .. (NumBd - 1) : Pos(recv_head, i) = Pos(recv_head, j) => i = j
        /\ \A b \in Bd : \E k \in 0 .. (NumBd - 1) : b = Pos(recv_head, k)
    BY <1>1, <1>2, PosIs
  <1>7. TypeOK
    <2>1. next \in [Bd -> BdOrNull]
      BY <1>1, <1>2, BdIs DEF BdOrNull, Bd
    <2>2. dma \in [bd : BdOrNull, link : BdOrNull, buf : Pbuf \cup {NoPbuf}]
      BY <1>2, <1>4 DEF BdOrNull
    <2> QED BY <1>1, <1>2, <2>1, <2>2 DEF TypeOK
  <1>8. RingInv
    <2>1. free_head = Pos(recv_head, NumBd - Out) /\ free_head = Succ(recv_tail)
      BY <1>1, <1>2, <1>3, <1>6 DEF Succ
    <2> QED BY <1>1, <1>3, <1>5, <2>1 DEF RingInv
  <1>9. \A k \in 0 .. (NumBd - 1) : k \in 0 .. NumBd /\ k >= 0
    BY <1>2
  <1>10. FrameInv
    BY <1>1, <1>2, <1>3, <1>4, <1>6, <1>9 DEF FrameInv
  <1>11. DmaInv
    BY <1>2, <1>3, <1>4, <1>6 DEF DmaInv
  <1>12. PbufInv
    <2>1. NumBd - free_num - 1 = NumBd - 1
      BY <1>1, <1>2
    <2>2. \A i, j \in 0 .. (NumBd - 1) : pbuf[Pos(recv_head, i)] = pbuf[Pos(recv_head, j)] => i = j
      BY <1>1, <1>6, <1>9
    <2>3. \A i \in 0 .. (NumBd - 1) : pbuf[Pos(recv_head, i)] \notin pool \cup held
      BY <1>1, <1>6, <1>9
    <2>4. \A p \in Pbuf : \/ p \in pool \cup held
                          \/ \E i \in 0 .. (NumBd - 1) : p = pbuf[Pos(recv_head, i)]
      BY <1>1, <1>6
    <2>5. Cardinality(held) <= env.maxHeld
      BY <1>1, EnvAssumption, FS_EmptySet, PoolAssumption, FS_CardinalityType
    <2> QED BY <1>1, <2>1, <2>2, <2>3, <2>4, <2>5 DEF PbufInv
  <1>13. RunInv
    BY <1>3, <1>4 DEF RunInv
  <1> QED BY <1>7, <1>8, <1>10, <1>11, <1>12, <1>13 DEF IInv

LEMMA NextIInv ==
  ASSUME IInv, [Next]_vars
  PROVE  IInv' /\ (RunInv => RunInv')
  <1>1. saved \in 0 .. NumBd /\ 0 \in 0 .. NumBd
    BY BdIs DEF IInv, TypeOK
  <1>2. CASE RxIsrEnter
    <2>1. /\ pc = "idle" /\ pc' = "isr" /\ cur' = recv_head /\ saved' = saved
          /\ UNCHANGED <<mem, rxch, dma, pool, held, arrived, env>>
      BY <1>2 DEF RxIsrEnter, hw
    <2> QED BY <1>1, <2>1, QuietStep DEF Linking
  <1>3. CASE RxIsrDrained \/ TxIsr
    <2>1. /\ pc \in {"isr", "idle"} /\ pc' = "alloc" /\ saved' = saved
          /\ UNCHANGED <<mem, rxch, dma, pool, held, arrived, env>>
      BY <1>3 DEF RxIsrDrained, TxIsr, hw, local
    <2> QED BY <1>1, <2>1, QuietStep DEF Linking
  <1>4. CASE AllocNothing
    <2>1. /\ pc = "fill" /\ pc' = "idle" /\ saved = free_num /\ saved' = 0
          /\ UNCHANGED <<mem, rxch, dma, pool, held, arrived, env>>
      BY <1>4 DEF AllocNothing, Filled, Return, hw
    <2> QED BY <1>1, <2>1, QuietStep DEF Linking
  <1>5. CASE RxIsrFrame
    BY <1>5, RxIsrFrameStep
  <1>6. CASE AllocBegin
    BY <1>6, AllocBeginStep
  <1>7. CASE \E p \in pool : AllocBd(p)
    BY <1>7, AllocBdStep
  <1>8. CASE AllocTail
    BY <1>8, AllocTailStep
  <1>9. CASE AllocLink \/ AllocCut
    BY <1>9, AllocLinkCutStep
  <1>10. CASE AllocRestart
    BY <1>10, AllocRestartStep
  <1>11. CASE DmaFetch
    BY <1>11, DmaFetchStep
  <1>12. CASE DmaRx
    BY <1>12, DmaRxStep
  <1>13. CASE \E p \in held : PbufFree(p)
    BY <1>13, PbufFreeStep
  <1>14. CASE UNCHANGED vars
    <2>1. UNCHANGED <<next, own, eoq, pbuf, free_head, free_num, recv_head, recv_tail, pc, cur,
                      last, head, tail, saved, dma, pool, held, env, arrived>>
      BY <1>14 DEF vars, mem, rxch, local, hw
    <2>2. /\ Linking' = Linking /\ Lending' = Lending /\ Out' = Out /\ OldOut' = OldOut
          /\ End' = End /\ OldTail' = OldTail
      BY <2>1 DEF Linking, Lending, Out, OldOut, End, OldTail
    <2> QED BY <2>1, <2>2 DEF IInv, TypeOK, RingInv, FrameInv, DmaInv, PbufInv, RunInv, Ample
  <1> QED BY <1>2, <1>3, <1>4, <1>5, <1>6, <1>7, <1>8, <1>9, <1>10, <1>11, <1>12, <1>13, <1>14
          DEF Next, Isr, Alloc

(* What eth0_rx_isr, cpswif_rxbd_alloc and the engine keep at each step,   *)
(* for a ring and a pool of any size; RunInv counts under Ample only.      *)
THEOREM IInvHolds == Spec => [](IInv /\ RunInv)
  BY InitIInv, NextIInv, PTL DEF Spec

(* eth0_rx_isr and cpswif_rxbd_alloc lose no pbuf and lend none twice:     *)
(* between two interrupts each is in the pool, with lwIP or lent to one of *)
(* the descriptors from recv_head on, for a ring and a pool of any size.   *)
THEOREM PbufsAccounted == Spec => []EveryPbufInOnePlace
  <1>1. ASSUME IInv
        PROVE  EveryPbufInOnePlace
    <2>1. Cardinality(LentPbufs) = NumBd - free_num
      BY <1>1, LentCount DEF IInv
    <2>2. /\ pool \cap held = {} /\ LentPbufs \cap (pool \cup held) = {}
          /\ pool \cup held \cup LentPbufs = Pbuf
      <3>1. /\ pool \subseteq Pbuf /\ held \subseteq Pbuf /\ pool \cap held = {}
            /\ \A p \in Pbuf : p \in pool \cup held \/ p \in LentPbufs
            /\ \A p \in LentPbufs : p \notin pool \cup held
        BY <1>1, LentIs DEF IInv, TypeOK, PbufInv
      <3>2. LentPbufs \subseteq Pbuf
        <4>1. recv_head \in Bd /\ pbuf \in [Bd -> Pbuf] /\ free_num \in 0 .. NumBd /\ NumBd \in Nat
          BY <1>1, BdIs DEF IInv, TypeOK
        <4>2. ASSUME NEW i \in 0 .. (NumBd - free_num - 1)
              PROVE  pbuf[Pos(recv_head, i)] \in Pbuf
          <5>1. i \in 0 .. NumBd
            BY <4>1
          <5>2. Pos(recv_head, i) \in Bd
            BY <4>1, <5>1, PosIs
          <5> QED BY <4>1, <5>2
        <4> QED BY <4>2, LentIs
      <3> QED BY <3>1, <3>2
    <2> QED BY <2>1, <2>2 DEF EveryPbufInOnePlace, LentPbufs
  <1> QED BY <1>1, IInvHolds, PTL

(* The engine writes a frame only into a pbuf that is lent to it, even     *)
(* while cpswif_rxbd_alloc links descriptors behind the one being filled   *)
(* and whether or not it has latched the link before.                      *)
THEOREM EngineWritesLent == Spec => []EngineWritesLentPbuf
  <1>1. ASSUME IInv
        PROVE  EngineWritesLentPbuf
    <2> SUFFICES ASSUME dma.buf # NoPbuf
                 PROVE  dma.buf \notin pool \cup held
      BY DEF EngineWritesLentPbuf
    <2>1. /\ dma.bd = Pos(recv_head, Len(arrived)) /\ Len(arrived) < NumBd - Out
          /\ dma.buf = pbuf[dma.bd] /\ free_num <= Out
      BY <1>1, FirstIs DEF IInv, DmaInv, RingInv, Out, Lending
    <2>2. Len(arrived) \in 0 .. (NumBd - free_num - 1)
      BY <1>1, <2>1, FirstIs DEF IInv
    <2> QED BY <1>1, <2>1, <2>2 DEF IInv, PbufInv
  <1> QED BY <1>1, IInvHolds, PTL

(* The frames that eth0_rx_isr will deliver are those the engine received, *)
(* in that order, and nothing else lies before the engine's descriptors.   *)
THEOREM FramesInOrder == Spec => []UndeliveredInOrder
  <1>1. ASSUME IInv
        PROVE  UndeliveredInOrder
    <2> SUFFICES ASSUME pc = "idle"
                 PROVE  /\ Len(arrived) <= NumBd - free_num
                        /\ \A k \in 1 .. (NumBd - free_num) :
                             IF k <= Len(arrived)
                             THEN FromHead(k - 1) \notin own /\ pbuf[FromHead(k - 1)] = arrived[k]
                             ELSE FromHead(k - 1) \in own
      BY DEF UndeliveredInOrder
    <2>1. /\ OldOut = free_num /\ NumBd \in Nat /\ free_num \in 0 .. NumBd
          /\ Len(arrived) \in Nat
      BY <1>1, FirstIs DEF IInv, OldOut, Lending, Linking
    <2>2. Len(arrived) <= NumBd - free_num
      BY <1>1, <2>1 DEF IInv, FrameInv
    <2>3. ASSUME NEW k \in 1 .. (NumBd - free_num)
          PROVE  IF k <= Len(arrived)
                 THEN FromHead(k - 1) \notin own /\ pbuf[FromHead(k - 1)] = arrived[k]
                 ELSE FromHead(k - 1) \in own
      <3>1. k - 1 \in 0 .. (NumBd - 1) /\ (k <= Len(arrived) => k \in 1 .. Len(arrived))
            /\ (k - 1 >= Len(arrived) <=> ~(k <= Len(arrived)))
        BY <2>1
      <3>2. Pos(recv_head, k - 1) \in own <=> k - 1 >= Len(arrived)
        BY <1>1, <3>1 DEF IInv, FrameInv
      <3>3. k <= Len(arrived) => arrived[k] = pbuf[Pos(recv_head, k - 1)]
        BY <1>1, <3>1 DEF IInv, FrameInv
      <3>4. FromHead(k - 1) = Pos(recv_head, k - 1)
        BY FromHeadIs
      <3> QED BY <3>1, <3>2, <3>3, <3>4
    <2> QED BY <2>2, <2>3
  <1> QED BY <1>1, IInvHolds, PTL

(* Between two interrupts the engine has not stopped while a descriptor is *)
(* lent to it: the EOQ test of cpswif_rxbd_alloc catches every stop, if    *)
(* lwIP leaves NumBd pbufs for the ring and the engine does not latch its  *)
(* link early.                                                             *)
THEOREM EngineKeepsRunning == Spec => []EngineRunsWhileLent
  <1>1. ASSUME IInv, RunInv
        PROVE  EngineRunsWhileLent
    <2> SUFFICES ASSUME Ample, pc = "idle", Len(arrived) < NumBd - free_num, dma.bd = NULL
                 PROVE  FALSE
      BY DEF EngineRunsWhileLent, Ample
    <2>1. OldOut = free_num
      BY DEF OldOut, Lending, Linking
    <2>2. Len(arrived) = NumBd - free_num
      BY <1>1, <2>1 DEF RunInv
    <2> QED BY <1>1, <2>2, FirstIs DEF IInv
  <1> QED BY <1>1, IInvHolds, PTL

(* Both writes of the receive HDP in cpswif_rxbd_alloc find the engine     *)
(* stopped, at any size of the ring, whatever lwIP keeps.                  *)
THEOREM RxHdpWrittenWhenStopped == Spec => HdpWrittenWhenStopped
  <1>1. ASSUME IInv, [Next]_vars
        PROVE  [pc' # pc /\ dma' # dma => dma.bd = NULL]_vars
    <2> SUFFICES ASSUME pc' # pc, dma' # dma
                 PROVE  dma.bd = NULL
      OBVIOUS
    <2>1. AllocTail \/ AllocRestart
      BY <1>1 DEF Next, Isr, Alloc, RxIsrEnter, RxIsrFrame, RxIsrDrained, TxIsr, AllocBegin,
                  AllocBd, AllocNothing, AllocLink, AllocCut, DmaFetch, DmaRx, PbufFree, vars, hw
    <2>2. CASE AllocTail
      <3>1. pc = "fill" /\ saved = NumBd
        BY <1>1, <2>2, AllocTailIs
      <3>2. ~(Len(arrived) < NumBd - Out)
        BY <1>1, <3>1, FirstIs DEF IInv, Out
      <3> QED BY <1>1, <3>2 DEF IInv, DmaInv
    <2>3. CASE AllocRestart
      <3>1. Linking /\ tail \in eoq
        BY <2>3 DEF AllocRestart, EngineStopped, Linking
      <3> QED BY <1>1, <3>1 DEF IInv, DmaInv
    <2> QED BY <2>1, <2>2, <2>3
  <1> QED BY <1>1, IInvHolds, PTL DEF Spec, HdpWrittenWhenStopped
=============================================================================
