------------------------------- MODULE CpswRx -------------------------------
(***************************************************************************)
(* The receive channel of the CPSW Ethernet driver (cpswif.c): a ring of   *)
(* CPDMA descriptors, each lent a pbuf of lwIP's pool.                     *)
(*                                                                         *)
(*   software  eth0_rx_isr takes filled descriptors off recv_head, passes  *)
(*             their pbufs to lwIP and calls cpswif_rxbd_alloc, which      *)
(*             lends new pbufs to the free descriptors and links these     *)
(*             behind recv_tail.  eth0_tx_isr calls cpswif_rxbd_alloc too. *)
(*             IRQs do not interrupt each other: one thread, `pc'.         *)
(*   engine    the CPDMA follows the links from HDP, fills one descriptor  *)
(*             per frame, clears its OWNER, sets EOQ at the end of the     *)
(*             chain and raises the interrupt.                             *)
(*   lwIP      keeps a pbuf it is given, or returns it to the pool.        *)
(*                                                                         *)
(* A frame lasts longer than the few instructions from the write of        *)
(* recv_tail to the EOQ test: one may end there (DmaRx), none begins       *)
(* (DmaFetch waits).                                                       *)
(***************************************************************************)
EXTENDS Integers, Sequences, FiniteSets

CONSTANTS NumBd,        \* (SIZE_CPPI_RAM >> 1) / sizeof(cpdma_rx_bd), 204
          Pbuf,         \* the pbufs of PBUF_POOL, 210
          NoPbuf,
          Envs          \* what surrounds the code: maxHeld, the pbufs lwIP
                        \* keeps at a time, and linkAtFetch, whether the
                        \* engine latches bd->next when it fetches bd

ASSUME NumBdAssumption == NumBd \in Nat /\ NumBd >= 2
ASSUME PoolAssumption  == /\ IsFiniteSet(Pbuf) /\ NoPbuf \notin Pbuf
                          /\ Cardinality(Pbuf) >= NumBd
ASSUME EnvAssumption   ==
  Envs \subseteq [maxHeld : 0 .. Cardinality(Pbuf), linkAtFetch : BOOLEAN]

Bd   == 0 .. (NumBd - 1)
NULL == -1
BdOrNull == Bd \cup {NULL}

VARIABLES
  next, own, eoq, pbuf,                       \* struct cpdma_rx_bd
  free_head, free_num, recv_head, recv_tail,  \* struct rxch
  pc, cur, last, head, tail, saved,           \* locals of the running code
  dma, cp, irq,                               \* CPDMA channel 0
  pool, held,                                 \* free pbufs; those lwIP keeps
  env,                                        \* the surroundings, fixed
  arrived                                     \* history: pbufs of the frames
                                              \* received and not delivered

mem   == <<next, own, eoq, pbuf>>
rxch  == <<free_head, free_num, recv_head, recv_tail>>
local == <<cur, last, head, tail, saved>>
hw    == <<dma, cp, irq>>
vars  == <<mem, rxch, pc, local, hw, pool, held, env, arrived>>

Succ(b) == IF b = NumBd - 1 THEN 0 ELSE b + 1

DmaStopped == [bd |-> NULL, link |-> NULL, buf |-> NoPbuf]
DmaAt(b)   == [DmaStopped EXCEPT !.bd = b]
-----------------------------------------------------------------------------
(* cpswif_cpdma_init lends a pbuf to every descriptor, closes the ring and *)
(* starts the engine at its first descriptor.                              *)
Init ==
  /\ next = [b \in Bd |-> IF b = NumBd - 1 THEN NULL ELSE b + 1]
  /\ own = Bd /\ eoq = {}
  /\ pbuf \in {f \in [Bd -> Pbuf] : \A a, b \in Bd : f[a] = f[b] => a = b}
  /\ free_head = 0 /\ free_num = 0 /\ recv_head = 0 /\ recv_tail = NumBd - 1
  /\ pc = "idle" /\ cur = NULL /\ last = NULL /\ head = NULL /\ tail = NULL
  /\ saved = 0
  /\ dma = DmaAt(0) /\ cp = NULL /\ irq = FALSE
  /\ pool = Pbuf \ {pbuf[b] : b \in Bd} /\ held = {}
  /\ env \in Envs
  /\ arrived = <<>>
-----------------------------------------------------------------------------
(* lwIP drops a pbuf it kept: a TCP segment read, a queue emptied. *)
PbufFree(p) ==
  /\ pc = "idle" /\ p \in held
  /\ held' = held \ {p} /\ pool' = pool \cup {p}
  /\ UNCHANGED <<mem, rxch, pc, local, hw, arrived, env>>

(* ethernet_input: lwIP keeps p, or frees it before it returns. *)
EthernetInput(p) ==
  \/ /\ Cardinality(held) < env.maxHeld
     /\ held' = held \cup {p} /\ UNCHANGED pool
  \/ pool' = pool \cup {p} /\ UNCHANGED held
-----------------------------------------------------------------------------
(* eth0_rx_isr *)

SetOwnerBit(b) == own' = own \cup {b} /\ UNCHANGED eoq   \* mutant: `|='
SetOwner(b)    == own' = own \cup {b} /\ eoq' = eoq \ {b}

(* ethDMA_RxCPWr: the interrupt goes only if b is the last one filled. *)
RxCPWr(b) == irq' = (irq /\ b # cp)

(* Behind a NULL link recv_head waits for the next descriptor lent. *)
NextHeadStays(b) == IF next[b] = NULL THEN b ELSE next[b]  \* mutant: not moved
NextHead(b) == IF next[b] = NULL THEN free_head ELSE next[b]

RxIsrEnter ==
  /\ pc = "idle" /\ irq
  /\ cur' = recv_head
  /\ pc' = "isr"
  /\ UNCHANGED <<mem, rxch, last, head, tail, saved, hw, pool, held, arrived,
                 env>>

RxIsrOneFrame ==                             \* mutant: one frame per interrupt
  /\ pc = "isr" /\ cur \notin own
  /\ SetOwner(cur)
  /\ EthernetInput(pbuf[cur])
  /\ irq' = FALSE
  /\ free_num' = free_num + 1
  /\ cur' = next[cur]
  /\ recv_head' = NextHead(cur)
  /\ pc' = "alloc"
  /\ arrived' = Tail(arrived)
  /\ UNCHANGED <<next, pbuf, free_head, recv_tail, last, head, tail, saved,
                 dma, cp, env>>

(* One filled descriptor: its flags are set to OWNER, which clears EOQ too. *)
RxIsrFrame ==
  /\ pc = "isr" /\ cur \notin own
  /\ SetOwner(cur)
  /\ EthernetInput(pbuf[cur])
  /\ RxCPWr(cur)
  /\ free_num' = free_num + 1
  /\ cur' = next[cur]
  /\ recv_head' = NextHead(cur)
  /\ pc' = IF next[cur] = NULL THEN "alloc" ELSE "isr"
  /\ arrived' = Tail(arrived)
  /\ UNCHANGED <<next, pbuf, free_head, recv_tail, last, head, tail, saved,
                 dma, cp, env>>

RxIsrDrained ==
  /\ pc = "isr" /\ cur \in own
  /\ pc' = "alloc"
  /\ UNCHANGED <<mem, rxch, local, hw, pool, held, arrived, env>>

(* eth0_tx_isr ends with cpswif_rxbd_alloc. *)
TxIsr ==
  /\ pc = "idle"
  /\ pc' = "alloc"
  /\ UNCHANGED <<mem, rxch, local, hw, pool, held, arrived, env>>
-----------------------------------------------------------------------------
(* cpswif_rxbd_alloc *)

AllocBegin ==
  /\ pc = "alloc"
  /\ cur' = free_head /\ head' = free_head
  /\ last' = recv_tail /\ tail' = recv_tail
  /\ saved' = free_num
  /\ pc' = "fill"
  /\ UNCHANGED <<mem, rxch, hw, pool, held, arrived, env>>

CanLend == free_num > 0 /\ pool # {}

AllocBd(p) ==
  /\ pc = "fill" /\ CanLend /\ p \in pool
  /\ pool' = pool \ {p}
  /\ pbuf' = [pbuf EXCEPT ![cur] = p]
  /\ SetOwner(cur)
  /\ last' = cur
  /\ cur' = next[cur]
  /\ free_num' = free_num - 1
  /\ UNCHANGED <<next, free_head, recv_head, recv_tail, pc, head, tail, saved,
                 hw, held, arrived, env>>

Filled == pc = "fill" /\ ~CanLend

Return ==
  /\ pc' = "idle" /\ cur' = NULL /\ last' = NULL /\ head' = NULL /\ tail' = NULL
  /\ saved' = 0

AllocNothing ==
  /\ Filled /\ saved = free_num
  /\ Return
  /\ UNCHANGED <<mem, rxch, hw, pool, held, arrived, env>>

(* ethDMA_RxHdrDescPWr *)
RxHdrDescPWr(b) == dma' = DmaAt(b)

(* A walk of the whole ring has ended at NULL: the engine has stopped.     *)
AllocTail ==
  /\ Filled /\ saved # free_num
  /\ recv_tail' = last
  /\ \/ cur # NULL /\ free_head' = cur /\ UNCHANGED dma
     \/ cur = NULL /\ RxHdrDescPWr(head) /\ UNCHANGED free_head
  /\ pc' = "link"
  /\ UNCHANGED <<mem, free_num, recv_head, local, cp, irq, pool, held, arrived,
                 env>>

(* The new descriptors go behind the old tail ... *)
AllocLink ==
  /\ pc = "link"
  /\ next' = [next EXCEPT ![tail] = head]
  /\ pc' = "cut"
  /\ UNCHANGED <<own, eoq, pbuf, rxch, local, hw, pool, held, arrived, env>>

AllocNoCut ==                                \* mutant: the ring stays closed
  /\ pc = "cut"
  /\ pc' = "eoq"
  /\ UNCHANGED <<mem, rxch, local, hw, pool, held, arrived, env>>

(* ... and the ring ends behind the last of them. *)
AllocCut ==
  /\ pc = "cut"
  /\ next' = [next EXCEPT ![last] = NULL]
  /\ pc' = "eoq"
  /\ UNCHANGED <<own, eoq, pbuf, rxch, local, hw, pool, held, arrived, env>>

NewTailStopped == last \in eoq               \* mutant: tests the new tail
EngineStopped == tail \in eoq

(* EOQ in the old tail: the engine has taken the NULL link, restart it. *)
AllocRestart ==
  /\ pc = "eoq"
  /\ \/ EngineStopped /\ RxHdrDescPWr(head)
     \/ ~EngineStopped /\ UNCHANGED dma
  /\ Return
  /\ UNCHANGED <<mem, rxch, cp, irq, pool, held, arrived, env>>
-----------------------------------------------------------------------------
(* The CPDMA engine: a frame begins, a frame has been written. *)

DmaFetch ==
  /\ dma.bd # NULL /\ dma.buf = NoPbuf /\ dma.bd \in own
  /\ pc \notin {"link", "cut", "eoq"}
  /\ dma' = [dma EXCEPT !.link = next[dma.bd], !.buf = pbuf[dma.bd]]
  /\ UNCHANGED <<mem, rxch, pc, local, cp, irq, pool, held, arrived, env>>

DmaRx ==
  /\ dma.buf # NoPbuf
  /\ LET link == IF env.linkAtFetch THEN dma.link ELSE next[dma.bd] IN
       /\ dma' = DmaAt(link)
       /\ eoq' = IF link = NULL THEN eoq \cup {dma.bd} ELSE eoq
  /\ own' = own \ {dma.bd}
  /\ cp' = dma.bd
  /\ irq' = TRUE
  /\ arrived' = Append(arrived, dma.buf)
  /\ UNCHANGED <<next, pbuf, rxch, pc, local, pool, held, env>>
-----------------------------------------------------------------------------
Isr   == RxIsrFrame \/ RxIsrDrained
Alloc == AllocBegin \/ (\E p \in pool : AllocBd(p)) \/ AllocNothing
           \/ AllocTail \/ AllocLink \/ AllocCut \/ AllocRestart

Next == \/ RxIsrEnter \/ Isr \/ TxIsr \/ Alloc
        \/ DmaFetch \/ DmaRx
        \/ \E p \in held : PbufFree(p)

Spec == Init /\ [][Next]_vars

(* The code goes on, a frame that has begun ends, a pending IRQ is taken.  *)
(* Nothing makes frames begin, TX interrupts happen or lwIP free a pbuf.   *)
Fairness == /\ WF_vars(Isr) /\ WF_vars(Alloc) /\ WF_vars(DmaRx)
            /\ SF_vars(RxIsrEnter)

FairSpec == Spec /\ Fairness
-----------------------------------------------------------------------------
(* Properties *)

(* The k-th descriptor from recv_head on. *)
FromHead(k) == LET b == recv_head + k IN IF b < NumBd THEN b ELSE b - NumBd
Lent == {FromHead(k) : k \in 0 .. (NumBd - free_num - 1)}

(* Between two interrupts every pbuf is in exactly one place: in the pool, *)
(* with lwIP, or lent to one descriptor of the NumBd - free_num that start *)
(* at recv_head.  None is lost, none is in two places (eth0_rx_isr,        *)
(* cpswif_rxbd_alloc).                                                     *)
EveryPbufInOnePlace ==
  pc = "idle" =>
    LET lentPbufs == {pbuf[b] : b \in Lent} IN
    /\ Cardinality(lentPbufs) = NumBd - free_num
    /\ pool \cap held = {} /\ lentPbufs \cap (pool \cup held) = {}
    /\ pool \cup held \cup lentPbufs = Pbuf

(* The engine never writes a frame into a pbuf that lwIP or the pool has:  *)
(* the ring is cut "to prevent overwriting of pbuf data"                   *)
(* (cpswif_rxbd_alloc).                                                    *)
EngineWritesLentPbuf ==
  dma.buf # NoPbuf => dma.buf \notin pool \cup held

(* Between two interrupts the frames received and not delivered lie from   *)
(* recv_head on in the order they came, and behind them every descriptor   *)
(* still belongs to the engine, so that eth0_rx_isr delivers all of them,  *)
(* once and in order.                                                      *)
UndeliveredInOrder ==
  pc = "idle" =>
    /\ Len(arrived) <= NumBd - free_num
    /\ \A k \in 1 .. (NumBd - free_num) :
         IF k <= Len(arrived)
         THEN FromHead(k - 1) \notin own /\ pbuf[FromHead(k - 1)] = arrived[k]
         ELSE FromHead(k - 1) \in own

(* Between two interrupts the engine runs as long as there is a descriptor *)
(* lent to it: "If the EOQ flag is set, the NULL Pointer is already taken  *)
(* by the DMA engine. So we need to write the RX HDP with the next         *)
(* descriptor." (cpswif.c:1649).  It takes a lwIP that leaves NumBd pbufs  *)
(* for the ring, and an engine that reads a link when it needs it.         *)
EngineRunsWhileLent ==
  /\ ~env.linkAtFetch /\ env.maxHeld + NumBd <= Cardinality(Pbuf)
  /\ pc = "idle" /\ Len(arrived) < NumBd - free_num
  => dma.bd # NULL

(* HDP is written only when the engine has stopped (cpswif_rxbd_alloc      *)
(* writes it at the end of the ring and again after EOQ), whatever the     *)
(* engine latches and lwIP keeps.                                          *)
HdpWrittenWhenStopped == [][pc' # pc /\ dma' # dma => dma.bd = NULL]_vars

(* A received frame reaches lwIP, and the ISR ends.                        *)
FrameIsDelivered ==
  \A p \in Pbuf : (p \in {arrived[i] : i \in DOMAIN arrived})
                     ~> (p \in pool \cup held)
=============================================================================
