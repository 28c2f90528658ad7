------------------------------- MODULE CpswTx -------------------------------
(***************************************************************************)
(* The transmit channel of the CPSW Ethernet driver (cpswif.c): the ring   *)
(* of CPDMA buffer descriptors in CPPI RAM, the three parties that work on *)
(* it and the references on the pbufs it carries.                          *)
(*                                                                         *)
(*   software  cpswif_output / cpswif_transmit, with IRQs masked, and      *)
(*             eth0_tx_isr, which no IRQ interrupts: one thread, `pc'.     *)
(*   engine    the CPDMA: it follows the chain from the descriptor written *)
(*             to the HDP register, clears OWNER in the first descriptor   *)
(*             of a frame it has sent, sets EOQ in the last one when the   *)
(*             chain ends there, and raises the completion interrupt.      *)
(*   lwIP      allocates pbufs, outputs them (again, for a TCP             *)
(*             retransmission) and drops its own reference.                *)
(*                                                                         *)
(* The engine runs between any two accesses the software makes to memory   *)
(* both can see.  Two facts about it are parameters: does it read the link *)
(* of a descriptor when it fetches it or when it has finished the frame,   *)
(* and may a frame take longer than the poll budget of the interrupt.      *)
(***************************************************************************)
EXTENDS Integers, Sequences, FiniteSets

CONSTANTS NumBd,        \* (SIZE_CPPI_RAM >> 1) / sizeof(cpdma_tx_bd), 204
          MaxChain,     \* pbufs in the longest frame
          Pbuf,         \* head pbufs of frames
          NoPbuf,
          MaxRef,       \* bound: references counted on one pbuf
          LinkAtFetch,  \* the engine latches bd->next when it fetches bd
          SlowEngine    \* a frame may outlast the 0xFFFF polls of the ISR

ASSUME NumBdAssumption == NumBd \in Nat /\ NumBd >= 2
ASSUME ChainAssumption == MaxChain \in 1 .. (NumBd - 1)
ASSUME PbufAssumption  == IsFiniteSet(Pbuf) /\ NoPbuf \notin Pbuf
ASSUME BoundAssumption == MaxRef \in Nat
ASSUME EngineAssumption == LinkAtFetch \in BOOLEAN /\ SlowEngine \in BOOLEAN

Bd    == 0 .. (NumBd - 1)
NULL  == -1
BdOrNull == Bd \cup {NULL}

VARIABLES
  next, sop, eop, own, eoq, pkt,              \* struct cpdma_tx_bd
  free_head, free_num, send_head, send_tail,  \* struct txch
  pc, first, end, cur, left, txp,             \* locals of the running code
  dma, cp, irq,                               \* CPDMA channel 0
  ref, held,                                  \* pbuf->ref; refs lwIP holds
  queue                                       \* history: frames accepted and
                                              \* not reclaimed, oldest first

mem   == <<next, sop, eop, own, eoq, pkt>>
txch  == <<free_head, free_num, send_head, send_tail>>
local == <<first, end, cur, left, txp>>
hw    == <<dma, cp, irq>>
pbufs == <<ref, held>>
vars  == <<mem, txch, pc, local, hw, pbufs, queue>>

Succ(b) == IF b = NumBd - 1 THEN 0 ELSE b + 1

DmaIdle == [bd |-> NULL, sop |-> NULL, link |-> NULL, buf |-> NoPbuf]
-----------------------------------------------------------------------------
(* cpswif_cpdma_init: a closed ring of free descriptors, no tail yet. *)
Init ==
  /\ next = [b \in Bd |-> Succ(b)]
  /\ sop = {} /\ eop = {} /\ own = {} /\ eoq = {}
  /\ pkt = [b \in Bd |-> NoPbuf]
  /\ free_head = 0 /\ send_head = 0 /\ send_tail = NULL
  /\ free_num = NumBd
  /\ pc = "idle"
  /\ first = NULL /\ end = NULL /\ cur = NULL /\ left = 0 /\ txp = NoPbuf
  /\ dma = DmaIdle /\ cp = NULL /\ irq = FALSE
  /\ ref = [p \in Pbuf |-> 0] /\ held = {}
  /\ queue = <<>>

(* ethDMA_TxHdrDescPWr: hand the chain starting at b to the engine. *)
TxHdrDescPWr(b) == dma' = [DmaIdle EXCEPT !.bd = b]

(* The locals are dead once the code returns. *)
Return ==
  /\ pc' = "idle"
  /\ first' = NULL /\ end' = NULL /\ cur' = NULL /\ left' = 0 /\ txp' = NoPbuf
-----------------------------------------------------------------------------
(* lwIP *)

PbufAlloc(p) ==
  /\ pc = "idle" /\ ref[p] = 0
  /\ ref' = [ref EXCEPT ![p] = 1]
  /\ held' = held \cup {p}
  /\ UNCHANGED <<mem, txch, pc, local, hw, queue>>

PbufRelease(p) ==
  /\ pc = "idle" /\ p \in held
  /\ ref' = [ref EXCEPT ![p] = @ - 1]
  /\ held' = held \ {p}
  /\ UNCHANGED <<mem, txch, pc, local, hw, queue>>
-----------------------------------------------------------------------------
(* cpswif_output of a frame of c pbufs, headed by p *)

FitsWithOneMore(c) == c <= free_num + 1      \* mutant: off by one
Fits(c) == c <= free_num

NoPbufRef(p) == UNCHANGED ref                \* mutant: reference not taken
PbufRef(p) == ref' = [ref EXCEPT ![p] = @ + 1]

(* Fewer free descriptors than pbufs: ERR_MEM, after pbuf_ref. *)
OutputErrMem(p, c) ==
  /\ pc = "idle" /\ p \in held /\ ref[p] < MaxRef
  /\ ~Fits(c)
  /\ PbufRef(p)
  /\ UNCHANGED <<mem, txch, pc, local, hw, held, queue>>

(* The first descriptor is marked SOP and OWNER, which resets its flags. *)
OutputBegin(p, c) ==
  /\ pc = "idle" /\ p \in held /\ ref[p] < MaxRef
  /\ Fits(c)
  /\ PbufRef(p)
  /\ sop' = sop \cup {free_head}
  /\ own' = own \cup {free_head}
  /\ eop' = eop \ {free_head}
  /\ eoq' = eoq \ {free_head}
  /\ first' = free_head /\ cur' = free_head /\ left' = c /\ txp' = p
  /\ pc' = "fill"
  /\ UNCHANGED <<next, pkt, txch, end, hw, held, queue>>

(* One pbuf of the chain goes into one descriptor. *)
Fill ==
  /\ pc = "fill" /\ left > 0
  /\ pkt' = [pkt EXCEPT ![cur] = txp]
  /\ end' = cur
  /\ cur' = next[cur]
  /\ free_num' = free_num - 1
  /\ left' = left - 1
  /\ UNCHANGED <<next, sop, eop, own, eoq, free_head, send_head, send_tail,
                 pc, first, txp, hw, pbufs, queue>>

(* The frame is closed.  The very first frame starts the engine; a later   *)
(* one is chained behind send_tail.                                        *)
Close ==
  /\ pc = "fill" /\ left = 0
  /\ next' = [next EXCEPT ![end] = NULL]
  /\ eop' = eop \cup {end}
  /\ eoq' = eoq \ {end}
  /\ free_head' = cur
  /\ queue' = Append(queue, [sop |-> first, eop |-> end, pbuf |-> txp])
  /\ \/ /\ send_tail = NULL
        /\ TxHdrDescPWr(first)
        /\ send_tail' = end
        /\ Return
     \/ /\ send_tail # NULL
        /\ pc' = "chain"
        /\ UNCHANGED <<dma, send_tail, local>>
  /\ UNCHANGED <<sop, own, pkt, free_num, send_head, cp, irq, pbufs>>

ChainBehindHead ==                           \* mutant: linked at send_head
  /\ pc = "chain"
  /\ next' = [next EXCEPT ![send_head] = first]
  /\ pc' = "restart"
  /\ UNCHANGED <<sop, eop, own, eoq, pkt, txch, local, hw, pbufs, queue>>

Chain ==
  /\ pc = "chain"
  /\ next' = [next EXCEPT ![send_tail] = first]
  /\ pc' = "restart"
  /\ UNCHANGED <<sop, eop, own, eoq, pkt, txch, local, hw, pbufs, queue>>

AlwaysStopped == TRUE                        \* mutant: EOQ not tested
NewTailStopped == end \in eoq                \* mutant: send_tail set too early
EngineStopped == send_tail \in eoq

(* If the old tail carries EOQ the engine has stopped there: start it. *)
Restart ==
  /\ pc = "restart"
  /\ \/ EngineStopped /\ TxHdrDescPWr(first)
     \/ ~EngineStopped /\ UNCHANGED dma
  /\ send_tail' = end
  /\ Return
  /\ UNCHANGED <<mem, free_head, free_num, send_head, cp, irq, pbufs, queue>>
-----------------------------------------------------------------------------
(* eth0_tx_isr *)

IsrEnter ==
  /\ pc = "idle" /\ irq
  /\ pc' = "isr"
  /\ UNCHANGED <<mem, txch, local, hw, pbufs, queue>>

(* The poll of OWNER ends with the frame sent, or with cnt at zero: that   *)
(* happens when the engine is slow, and always when it has stopped.        *)
IsrUnpolled == TRUE                          \* mutant: OWNER not polled
IsrSent    == send_head \notin own
IsrExpired == send_head \in own /\ (SlowEngine \/ dma.bd = NULL)

IsrFrame ==
  /\ pc = "isr" /\ send_head \in sop
  /\ IsrSent \/ IsrExpired
  /\ cur' = send_head
  /\ free_num' = free_num + 1
  /\ pc' = "walk"
  /\ UNCHANGED <<mem, free_head, send_head, send_tail, first, end, left, txp,
                 hw, pbufs, queue>>

IsrWalkUncounted ==                          \* mutant: one bd per frame freed
  /\ pc = "walk" /\ cur \notin eop
  /\ cur' = next[cur]
  /\ UNCHANGED <<mem, txch, pc, first, end, left, txp, hw, pbufs, queue>>

(* On to the end of the frame; with the whole ring free the walk stops. *)
IsrWalk ==
  /\ pc = "walk" /\ cur \notin eop
  /\ cur' = next[cur]
  /\ free_num' = free_num + 1
  /\ pc' = IF free_num + 1 = NumBd THEN "reclaim" ELSE "walk"
  /\ UNCHANGED <<mem, free_head, send_head, send_tail, first, end, left, txp,
                 hw, pbufs, queue>>

ClearFlags(b) == sop' = sop \ {send_head} /\ eop' = eop \ {b}

(* ethDMA_TxCPWr: the interrupt goes only if b is the last one completed. *)
TxCPWr(b) == irq' = (irq /\ b # cp)

IsrReclaimOne ==                             \* mutant: one frame per interrupt
  /\ pc = "reclaim" \/ (pc = "walk" /\ cur \in eop)
  /\ ClearFlags(cur)
  /\ send_head' = IF next[cur] = NULL THEN free_head ELSE next[cur]
  /\ irq' = FALSE
  /\ ref' = [ref EXCEPT ![pkt[cur]] = @ - 1]
  /\ queue' = Tail(queue)
  /\ Return
  /\ UNCHANGED <<next, own, eoq, pkt, free_head, free_num, send_tail, dma, cp,
                 held>>

IsrReclaim ==
  /\ pc = "reclaim" \/ (pc = "walk" /\ cur \in eop)
  /\ ClearFlags(cur)
  /\ send_head' = IF next[cur] = NULL THEN free_head ELSE next[cur]
  /\ TxCPWr(cur)
  /\ ref' = [ref EXCEPT ![pkt[cur]] = @ - 1]       \* pbuf_free
  /\ queue' = Tail(queue)
  /\ cur' = NULL
  /\ pc' = "isr"
  /\ UNCHANGED <<next, own, eoq, pkt, free_head, free_num, send_tail,
                 first, end, left, txp, dma, cp, held>>

IsrExit ==
  /\ pc = "isr" /\ send_head \notin sop
  /\ Return
  /\ UNCHANGED <<mem, txch, hw, pbufs, queue>>
-----------------------------------------------------------------------------
(* The CPDMA engine *)

Fetch(b) == [dma EXCEPT !.bd = b, !.link = next[b]]

DmaStart ==
  /\ dma.bd # NULL /\ dma.sop = NULL /\ dma.bd \in own
  /\ dma' = [Fetch(dma.bd) EXCEPT !.sop = dma.bd, !.buf = pkt[dma.bd]]
  /\ UNCHANGED <<mem, txch, pc, local, cp, irq, pbufs, queue>>

DmaFollow ==
  /\ dma.sop # NULL /\ dma.bd \notin eop /\ dma.link # NULL
  /\ dma' = Fetch(dma.link)
  /\ UNCHANGED <<mem, txch, pc, local, cp, irq, pbufs, queue>>

(* The frame is out: write back the descriptors, go to the next frame. *)
DmaDone ==
  /\ dma.sop # NULL /\ dma.bd \in eop
  /\ LET link == IF LinkAtFetch THEN dma.link ELSE next[dma.bd] IN
       /\ dma' = [DmaIdle EXCEPT !.bd = link]
       /\ eoq' = IF link = NULL THEN eoq \cup {dma.bd} ELSE eoq
  /\ own' = own \ {dma.sop}
  /\ cp' = dma.bd
  /\ irq' = TRUE
  /\ UNCHANGED <<next, sop, eop, pkt, txch, pc, local, pbufs, queue>>
-----------------------------------------------------------------------------
Lwip == \E p \in Pbuf :
          \/ PbufAlloc(p)
          \/ PbufRelease(p)
          \/ \E c \in 1 .. MaxChain : OutputErrMem(p, c) \/ OutputBegin(p, c)

Transmit == Fill \/ Close \/ Chain \/ Restart
Isr      == IsrFrame \/ IsrWalk \/ IsrReclaim \/ IsrExit
Engine   == DmaStart \/ DmaFollow \/ DmaDone

Next == Lwip \/ Transmit \/ IsrEnter \/ Isr \/ Engine

Spec == Init /\ [][Next]_vars

(* The running code goes on, the engine goes on, and a pending IRQ is      *)
(* taken when the mask opens between two calls.  lwIP owes nothing.        *)
Fairness == /\ WF_vars(Transmit) /\ WF_vars(Isr) /\ WF_vars(Engine)
            /\ SF_vars(IsrEnter)

FairSpec == Spec /\ Fairness
-----------------------------------------------------------------------------
(* Properties *)

(* The state is of the declared shape: ring pointers are descriptors, the  *)
(* free count never leaves 0..NumBd, references never go below zero.       *)
TypeOK ==
  /\ next \in [Bd -> BdOrNull] /\ pkt \in [Bd -> Pbuf \cup {NoPbuf}]
  /\ sop \subseteq Bd /\ eop \subseteq Bd /\ own \subseteq Bd /\ eoq \subseteq Bd
  /\ free_head \in Bd /\ send_head \in Bd /\ send_tail \in BdOrNull
  /\ free_num \in 0 .. NumBd
  /\ pc \in {"idle", "fill", "chain", "restart", "isr", "walk", "reclaim"}
  /\ first \in BdOrNull /\ end \in BdOrNull /\ cur \in BdOrNull
  /\ left \in 0 .. MaxChain /\ txp \in Pbuf \cup {NoPbuf}
  /\ dma \in [bd : BdOrNull, sop : BdOrNull, link : BdOrNull,
              buf : Pbuf \cup {NoPbuf}]
  /\ cp \in BdOrNull /\ irq \in BOOLEAN
  /\ ref \in [Pbuf -> Nat] /\ held \subseteq Pbuf

Dist(a, b) == IF b >= a THEN b - a ELSE b - a + NumBd

BdsOf(f) == {b \in Bd : Dist(f.sop, b) <= Dist(f.sop, f.eop)}
Queued   == UNION {BdsOf(queue[i]) : i \in DOMAIN queue}

(* Between two calls the ring is exactly the queue: its frames lie one     *)
(* after the other from send_head to free_head, all other descriptors are  *)
(* free and counted in free_num, SOP and EOP delimit the frames, and each  *)
(* descriptor carries its frame's pbuf (cpswif_transmit, eth0_tx_isr).     *)
RingIsQueue ==
  pc = "idle" =>
    /\ \A i \in DOMAIN queue :
         /\ queue[i].sop = IF i = 1 THEN send_head ELSE Succ(queue[i - 1].eop)
         /\ \A b \in BdsOf(queue[i]) : pkt[b] = queue[i].pbuf
    /\ free_head = IF queue = <<>> THEN send_head ELSE Succ(queue[Len(queue)].eop)
    /\ free_num = Cardinality(Bd \ Queued)
    /\ sop = {queue[i].sop : i \in DOMAIN queue}
    /\ eop = {queue[i].eop : i \in DOMAIN queue}

FramesWith(p) == {b \in sop : pkt[b] = p}

(* A pbuf keeps a reference for lwIP's hold and one for every frame it     *)
(* heads in the ring, so the pbuf_free of eth0_tx_isr never frees a frame  *)
(* that still waits, even when TCP retransmits a queued pbuf.              *)
RefPerFrame ==
  pc # "fill" => \A p \in Pbuf :
    ref[p] >= Cardinality(FramesWith(p)) + (IF p \in held THEN 1 ELSE 0)

(* The pbuf the engine reads from is referenced: eth0_tx_isr gives no pbuf *)
(* back before the engine is done with it ("Make sure that the             *)
(* transmission is over", cpswif.c:2255).                                  *)
EngineReadsLivePbuf == dma.buf # NoPbuf => ref[dma.buf] > 0

IsWaiting(f) == f.sop \in own

(* Between two calls the engine is running whenever an accepted frame      *)
(* waits: the EOQ test of cpswif_transmit restarts it every time it has    *)
(* stopped at the old tail.                                                *)
EngineRunsWhileWaiting ==
  pc = "idle" /\ (\E i \in DOMAIN queue : IsWaiting(queue[i])) => dma.bd # NULL

(* Between two calls a frame that has left and is not reclaimed has its    *)
(* interrupt pending: no acknowledgement of eth0_tx_isr hides a later one. *)
CompletionIsSignalled ==
  pc = "idle" /\ (\E i \in DOMAIN queue : ~IsWaiting(queue[i])) => irq

(* The software writes the HDP register only when the engine has stopped   *)
(* (cpswif_transmit); the register must read zero before it is written.    *)
HdpWrittenWhenStopped ==
  [][pc' # pc /\ dma' # dma => dma.bd = NULL]_vars

(* The frames before the first that waits have left; a later one that left *)
(* before it would be missed by Sent until two frames leave at once.       *)
AreSent(n) == /\ \A i \in 1 .. n : ~IsWaiting(queue[i])
              /\ n < Len(queue) => IsWaiting(queue[n + 1])
SentNum == CHOOSE n \in 0 .. Len(queue) : AreSent(n)

Sent    == [i \in 1 .. SentNum |-> queue[i].pbuf]
Waiting == [i \in 1 .. Len(queue) - SentNum |-> queue[SentNum + i].pbuf]

(* The ring implements the promise of TxFifo.                              *)
Fifo == INSTANCE TxFifo WITH Frames <- Pbuf, Capacity <- NumBd,
          waiting <- Waiting, sent <- Sent

(* Every accepted frame leaves once, in order, and is reclaimed after it   *)
(* has left (cpswif_transmit and eth0_tx_isr against TxFifo).              *)
ImplementsFifo == Fifo!Spec
=============================================================================
