# Verification of BBB_ETH

BBB_ETH is a bare-metal program for the BeagleBone Black (TI AM335x): a TCP/IP
node (lwIP 1.4.1, NO_SYS) with a CPSW Ethernet driver, an MMC card driver with
FatFs, a serial console, an HTTP server, a TCP echo server and a UDP
application that logs what it receives to a file.  There is no operating system
and no thread: a main loop polls two mailboxes and everything else, the whole of
lwIP included, runs in interrupt handlers.  What is hard in this program lies
between those parties: the main loop, the handlers, and engines (CPDMA, EDMA,
the card controller) that work on memory the code works on too.

This directory holds TLA+ modules translated from that code, TLC
configurations that check them, and proofs for TLAPS.  `PROJECT.json` is the
index: components, runs, the source lines behind each definition, mutated
definitions that show that each property can fail, findings and hazards.

    tlc -config CpswTx_fifo.cfg CpswTx.tla         # any run of PROJECT.json
    tlapm CpswRxProofs.tla                         # or any other ...Proofs.tla

## 1. The system

### Components

| Component | Source | State it keeps | Operations | Model |
|---|---|---|---|---|
| CPSW driver, transmit | `cpswif.c` 1670-1806, 1930-1993, 2239-2308 | ring of 204 CPDMA descriptors in CPPI RAM, `txch` (free_head, free_num, send_head, send_tail), references on pbufs | cpswif_output, cpswif_transmit, eth0_tx_isr, cpswif_cpdma_init | `CpswTx`, `TxFifo` |
| CPSW driver, receive | `cpswif.c` 1579-1657, 1930-1993, 2137-2234 | ring of 204 descriptors with lent pbufs, `rxch` (free_head, free_num, recv_head, recv_tail) | eth0_rx_isr, cpswif_rxbd_alloc | `CpswRx` |
| CPSW switch, ports, ALE | `cpswif.c` 100-1560 | switch registers, ALE table | table search and entry set-up, port and link configuration | not modelled |
| PHY, MDIO | `phy.c`, `mdio.c` | registers | bounded polls | not modelled |
| lwIP port | `lwip/ports/cpsw` | IRQ mask as the lock; trial count | sys_arch_protect, sys_arch_unprotect; lwIPInit, lwIPDHCPComplete | lock in `IrqDispatch`, start in `DhcpClient` |
| lwIP | `lwip/src/core` | per connection a `tcp_pcb`; `struct dhcp`; pbufs | tcp_input and what it calls, tcp_write, tcp_close, tcp_output; dhcp_start, dhcp_recv | TCP passively opened in `TcpConn` and `TcpServer`, DHCP up to BOUND in `DhcpClient` |
| UDP application | `udp_apps.c` | udp_buf, pkt_len, udp_rx_count, log file | udp_incoming, udp_rx_process, udplog, udptx | mailbox in `Superloop`, log file in `FatFs` |
| TCP echo server | `echod.c` | none but the block's callbacks | echo_accept, echo_recv, echo_send_data, echo_close_conn | `TcpServer` |
| HTTP server | `httpserver_raw/httpd.c`, `fs.c` | per connection `struct http_state` (file, bytes left) on lwIP's heap | http_accept, http_recv, http_sent, http_send_data, http_err, http_close_conn | `TcpServer` |
| MMC transfers | `mmc_api.c` 71-330, 474-570, 722-750 | five flags raised by handlers, ctrlInfo, EDMA channel | MMCReadCmdSend, MMCWriteCmdSend, MMCStopCmdSend, mmc0_isr, DMACompletionISR | `MmcXfer` |
| MMC card init, mount | `mmc_api.c` 230-353, 358-464, 708-750, `diskio.c` | card type, initialised flag, mounted file system | MMCCardInit, disk_initialize, FATFsMount | `MmcXfer`, of FATFsMount only the flag |
| FatFs | `fatfs/src/ff.c` | sector window, last_clust, open files; FAT, directory and data on the card | f_open, f_write, f_sync, f_close, f_mkdir, f_unlink, f_read; f_opendir, f_readdir, f_lseek, f_rename, ... | `FatFs`, without the second list |
| EDMA driver | `dma.c` | channel registers, pending completions | enable, disable, clear | as `MmcXfer` uses it |
| Main loop | `main.c` 168-192 | old counts, LED phase | the two mailbox tests | `Superloop` |
| Console | `uart.s`, `con_uif.c` | uart0_rbuf, command line | uart0_isr, char_collect, commands | mailbox in `Superloop`, rm, mkdir and cat in `FatFs` |
| Interrupt dispatch | `irq.s` 104-135 | banked registers, IRQ stack, INTC agreement | irq_isr, mask functions | `IrqDispatch` |
| MMU, cache, CP15; clocks, timers, GPIO, start-up; C library subset | | set-up only | | not modelled |

### How they interact

- **Calls.**  eth0_rx_isr calls lwIP, which calls back the applications and
  cpswif_output; so most frames are sent from within an interrupt.  The main
  loop sends too (udptx).  FatFs calls disk_read and disk_write, these the MMC
  driver, which spins until handlers raise flags.
- **Shared memory.**  The descriptor rings are shared with the CPDMA engine,
  which runs at all times: a link written behind the engine's back may or may
  not have been seen, which is what the EOQ bit is there to tell.
- **Callbacks.**  tcp_input calls the applications between two of its own
  stages, and they call back into it (tcp_write, tcp_close, tcp_recved) on the
  block it is at work on.  What a callback returns decides who owns its pbuf.
- **The main program and lwIP.**  lwIPInit starts the DHCP client and polls it
  with IRQs on, while the receive interrupt runs the client's handlers on the
  same state.
- **Mailboxes.**  A counter and a buffer, written by a handler, polled by the
  main loop, with no masking at all.
- **The mask.**  irq_isr runs handlers with IRQs masked; lwIP's light-weight
  protection is the IRQ mask.  That handlers do not nest is an assumption of
  every other module, and the first thing `IrqDispatch` checks.

### What makes the parts correct

| Part | Promise |
|---|---|
| transmit ring | frames leave whole, once and in order; none waits for an engine that has stopped; a pbuf is not freed while the engine reads it, and is freed afterwards |
| receive ring | a pbuf is in one place: pool, lwIP, or one descriptor; every frame received is delivered, in order; the engine stops only when nothing is lent to it |
| interrupt dispatch | handlers do not nest, the interrupted program goes on unchanged, the lock excludes handlers, a line waits for ever only for handlers that run again and again |
| mailboxes | a wake-up is not lost; nothing is collected twice |
| MMC transfers | success means all blocks moved; no flag is mistaken for that of another command; a call returns; memory is left alone after it |
| MMC card init | a drive marked as initialised has a card that is powered up and selected; the power-up ends |
| FatFs | at every moment the card is sound: chains end, are long enough, do not cross, and hold what their file wrote; what was synced stays; clusters come back; calls return |
| TCP servers | what is sent is the file, or the client's bytes, once and in order; the end of the stream means all of it; a connection's state lives as long as its block refers to it, a pbuf has one owner; a request is answered |
| DHCP start | a bound board has an address that its server granted it; it gets one unless every trial meets a fault |

The `hazards` of `PROJECT.json` list what can go wrong, each at its line, with
the properties that would show it.

## 2. The modules

Each module keeps the code's names.  A step of a module is a stretch of code in
which nothing another party can see or change is touched more than once: a read
and the test made on it are one step, two accesses to a descriptor the engine
may reach are two.

### CpswTx: transmit ring, engine, completion interrupt

State: the descriptors (`next sop eop own eoq pkt`: own and eoq are sets of
descriptors with the bit set), `struct txch`, the program counter and locals of
the one thread that runs (handlers do not nest and the rest runs masked), the
engine (`dma`: its descriptor, the frame under way, the link it has latched),
the completion pointer and interrupt, pbuf references (`ref`) and the ones lwIP
itself has (`held`), and a history `queue` of the frames accepted and not
reclaimed.

| Code | Actions |
|---|---|
| cpswif_output: pbuf_ref, then the test for ERR_MEM (1685-1701, 1798) | OutputErrMem, OutputBegin |
| cpswif_transmit: fill the descriptors, close the frame, start the engine or chain and test EOQ (1703-1754) | Fill, Close, Chain, Restart |
| eth0_tx_isr: poll OWNER, walk to the end of the frame, free and acknowledge (2239-2308) | IsrEnter, IsrFrame, IsrWalk, IsrReclaim, IsrExit |
| CPDMA (external) | DmaStart, DmaFollow, DmaDone |
| lwIP (external) | PbufAlloc, PbufRelease |

Two facts about the engine are constants because the code does not tell them:
`LinkAtFetch` (does it read `next` when it fetches a descriptor, or when it has
finished the frame?) and `SlowEngine` (may a frame outlast the 0xFFFF polls of
the handler?).  The driver's comment on EOQ ("the NULL pointer is already taken
by the DMA engine") fits LinkAtFetch = FALSE with the misqueue test being exact.

`TxFifo` says what the channel promises to lwIP: frames put in, sent one by one
from the front, pbufs freed once they are sent.  `CpswTx` implements it under
the mapping at its end (`ImplementsFifo`).

### CpswRx: receive ring, engine, pbuf pool

Like CpswTx.  `env` is chosen once per behaviour: how many pbufs lwIP keeps,
and when the engine reads a link.  RxIsr... are the delivery loop of
eth0_rx_isr, Alloc... the fill, link, cut and EOQ steps of cpswif_rxbd_alloc,
which eth0_tx_isr ends with as well (`TxIsr`).  One assumption is stated in the
module: within the few instructions from the write of recv_tail to the EOQ test
no new frame begins (one may end).

### IrqDispatch: irq_isr and the lock

One step per instruction that matters for what an interrupt finds: the banked
lr and spsr, r12, the IRQ stack, the I bit, NEWIRQAGR.  `LateIrq` says whether
an IRQ may also come between the last four instructions of irq_isr; with FALSE
the processor takes it right after the unmasking or not before the return.  All
lines have one priority (irq.s:35); which of several raised ones SIR_IRQ shows
is left open, so a line may wait for as long as others are raised.  IrqIsTaken
says that of each line: it is taken or withdrawn in the end, unless the handler
of another line runs infinitely often.

### Superloop: the two mailboxes

The loads and stores are the ones of the compiled loop (`obj/main.o`): each
counter is loaded once, so that the test, the masking and the copy work on one
value, and an increment in between is lost.  Interrupts come between any two
steps.  A datagram has two parts so that a mixture of two can be seen.

### MmcXfer: card initialisation and block transfers

`flags` is the set of mmc_api.c's global flags that are 1.  The call is one
thread, mmc0_isr and DMACompletionISR are atomic; the controller, the EDMA and
the card are external and may do what `may` allows in this behaviour.  The FIFO
holds two blocks, which is what makes the controller and the EDMA depend on each
other.

| Code | Actions |
|---|---|
| MMCReadCmdSend, MMCWriteCmdSend, with MMCXferSetup (169-178) | XferSetup, XferReturn |
| MMC0CmdSend, mmc0_get_cmd_status (183-228, 71-84) | CmdSend, CmdStatus |
| mmc0_get_xfer_status (91-111) | XferStatus, CallbackBegin, CallbackPoll, CallbackSeen, CallbackStatus |
| MMCStopCmdSend (327-337) | StopSend, then CmdStatus and the waits |
| disk_initialize, MMCCardInit, MMCBusWidthSet, MMCTranSpeedSet | InitBegin, InitSetup, InitXferEnds, and CmdSend, CmdStatus and the waits for each command |
| mmc0_isr, DMACompletionISR with callback | MmcIsr, DmaIsr |
| controller, EDMA, card (external) | CmdAnswered, CmdTimesOut, BlockOnBus, DataDone, DataTimesOut, BusyEnds; DmaMove; CardRemove, CardInsert |

`stage` tells a read or write from its CMD12 and from an initialisation.  The
initialisation is a list of commands (`Script`); what the code makes of the
status of each (`StepEnds`: give up, go on regardless, go round the power-up
loop, skip) leads to the next.  The card answers a command only in the state
the SD specification has it in, so a step that goes on after a failure is not
free to succeed.  Assumed: the busy signal of CMD7 ends with its answer.  CMD16,
for cards of the old addressing, expects no answer and is left out.

### FatFs: files of the card

ff.c sees FAT and directory through one sector, the window (`win`, `winflag`),
which it writes back when it needs another one, or at a sync.  `fat` and `dir`
are what it sees through it, `card` is what is really there.  A step of the
module ends with at most one write of the window behind it, so that a reset can
fall between any two of them.  Two files can be open: the log of the UDP
application ("log"), which stays open from one command to the next, and the
destination of a copy ("wr"), which is open within a command.  An entry may be
a directory, whose first sector is then its table.

| Code | Actions |
|---|---|
| Cmd_udplog, f_open with FA_CREATE_ALWAYS (796-883) | LogOpen, RemoveNext, RemoveEnd |
| udp_rx_process: f_write, then f_sync (udp_apps.c 136-149) | LogWrite, Write..., Sync... |
| Cmd_udplog0: f_close | LogStop, Sync... |
| Cmd_cat to a file: f_open, f_read and f_write in turns, f_close | CatOpen, CatRead, CatWrite, Write..., CatClose, Sync... |
| Cmd_rm: f_unlink (1373-1414), remove_chain (231-252) | Unlink, RemoveNext, RemoveEnd |
| f_write within a sector; at a sector, at a cluster boundary (987-1036) | WriteBuffer, WriteNextSector, WriteKnownCluster, WriteGrown, WriteFull, WriteEnd |
| create_chain (264-310) | WriteAllocate, WriteLink |
| Cmd_mkdir: f_mkdir (1421-1481), the new table written sector by sector through the window | Mkdir, MkdirAllocate, MkdirTable, MkdirEntry, MkdirSync |
| f_sync (1050-1084), sync (104-125) | SyncNothing, SyncEntry, SyncFlush |
| an access of the card fails: fw_error (1038-1040), the returns of f_sync, remove_chain and f_mkdir; the board is reset | ChainFails, DataFails, SyncFails, RemoveFails, MkdirFails, TableFails, Reset |

Of the data the module keeps how much of each sector is what its file wrote
there: a write anywhere else than in its place leaves nothing.  Of a directory's
table it is whether the sector is clean; nothing is put below it, so f_unlink
always finds it empty.  cat has two early returns without f_close, where the
source is missing and where f_read fails.  They leave what a close leaves that
finds nothing written, or that fails at its first access, so CatClose with
SyncNothing or SyncFails stands for them.  The directory the commands work in
is one that exists and fits its sector, dates and attributes are left out, and
so is the second FAT, which move_window writes and nothing reads.

Two constants say what the callers do, for the promises depend on it:
`GoesOnWhenFull`, that they write again after a write came out short, and
`TouchesOpenLog`, that rm and cat name the file the log is open on.  The
program forbids neither.  The passing run has both FALSE; section 5 says what
happens otherwise.

### TcpConn, TcpServer: a connection of the echo or the HTTP server

`TcpConn` has what lwIP does to one `tcp_pcb`, as operators on a record; it is
pure.  `TcpServer` is the connection: the client, the segments on their way,
tcp_input, and the callbacks of the server the client has chosen (`app`).
tcp_input runs to its end in the receive interrupt, but is cut into its stages
(`pc`) where it calls an application (`call` is what the callback still has to
run), for what a callback does to the block is what the next stage finds.

| Code | Actions |
|---|---|
| tcp_listen_input (tcp_in.c) | ClientConnect |
| tcp_input: find the block, hand refused data to recv again | SegArrives, SynRepeated, FreshArrives; RefusedAgain |
| tcp_process, tcp_receive: acknowledge, reassemble, change state; accept | Process, ProcessSyn, AcceptFails |
| a RST; tcp_alloc taking the block for another connection; a segment for nobody | ResetArrives, Killed, NobodyListens |
| http_sent, http_recv, http_send_data | HttpSent, HttpRecv, HttpSendData |
| echo_recv with echo_send_data | EchoRecv |
| recv with no pbuf (the client's FIN), data after tcp_close | RecvFin, RecvClosed |
| http_close_conn, echo_close_conn, tcp_close: a RST, a FIN, or no room for it | CloseReset, CloseFin, CloseFails |
| tcp_output at the end of tcp_input | Output |
| the client (external) | Client... |

A position stands for a segment's worth of bytes, and sequence numbers are
positions.  tcp_write puts what it is given in the send queue whole, and is
told only by its room and by memory, which may be short at any call.  How far
tcp_output gets (window, congestion window, Nagle) is a choice, except that it
sends when nothing is in flight.  The client keeps to the window it was told,
but segments of it may be lost, repeated, cut otherwise and overtake each
other.  Segments of the server arrive in the end: **nothing in this program
calls tcp_tmr** (NO_SYS_NO_TIMERS, and no caller), so lwIP sends nothing again by
itself, polls nobody (http_poll never runs) and reclaims no block in TIME_WAIT.
What it does send again - the oldest segment at a third duplicate acknowledgement
(tcp_in.c:902-933), the SYN|ACK when the SYN is repeated (tcp_in.c:724) - is no
step of its own here, for that nothing of the server is lost for good is assumed
already.

A request always finds a page: the pages compiled in have /404.html, so the
branch of http_recv that returns ERR_ABRT without it (httpd.c:260-263) is left
out.

`cause` is a history of what has happened to the connection that may justify an
incomplete answer: `more` (a second segment to the HTTP server), `halfclose`
(the client closed before the answer was complete), `reset`, `killed`,
`noaccept` (http_accept had no memory), `nomem` (tcp_write was short of it),
`notclosed` (tcp_close failed) and `refused` (tcp_write failed in echo_recv).
Each property names the ones it allows.  Any of them excuses a missing answer
(Answered), for after nomem or notclosed a connection may stand still; but only
those of `Excuses`, which these two are not among, excuse that a block goes with
data outstanding (DroppedHasCause).

### DhcpClient: the start of the board's network

lwIPInit's loop of trials (`pc`, `trial`), dhcp.c's handlers, which come between
any two of its steps, and the servers.  A trial clears the client whatever
became of it (dhcp_start zeroes `struct dhcp`), so answers to earlier trials
meet a client that has begun anew; the transaction number, a static counter of
dhcp_create_msg, tells them apart.

| Code | Actions |
|---|---|
| lwIPInit (lwiplib.c): netif_add, trials, the address at the end | NetifAdd, Start, Result |
| dhcp_start, dhcp_discover up to the sending, and its end, the count of tries | Start, Discovered |
| lwIPDHCPComplete, and the end of its five seconds | PollBound, PollExpires |
| dhcp_recv with dhcp_handle_offer and dhcp_select, dhcp_handle_ack and dhcp_bind, dhcp_handle_nak | RecvOffer, RecvAck, RecvNak, RecvOther |
| DHCP servers (external) | Offer, Grant, Refuse, Declined |
| the network (external) | Lose |

A server has one address for the board and stands for it.  Datagrams of one
server stay in order.  `netif->flags` and the message buffer `p_out`, which
main and the handlers also share, are left out (section 5), and so is the ARP
check of an offered address, which this build has off.

## 3. The runs

| Run | Question | Bounds |
|---|---|---|
| CpswTx_fifo | Does the ring stay a queue, and do driver, interrupts and engine together implement the abstract queue, with its liveness? | 4 descriptors, chains of up to 3, 2 pbufs, 3 references, fair |
| CpswRx_ring | Where is every pbuf, and does every frame arrive? | 3 descriptors, 4 pbufs, lwIP keeps up to 1 or all 4, engine both ways |
| IrqDispatch_mask | Do handlers stay apart, does the main program go on, and which line may be left waiting? | 2 lines, 3 nested locks, 4 frames |
| Superloop_mailbox | Is a wake-up lost, or a key collected twice? | 5 keys, 5 datagrams, counters of 3 bits masked to 2 |
| MmcXfer_faults | What do success, failure, return and an initialised drive mean under timeouts and a changed card? | 3 blocks, 3 polls, 2 rounds of the power-up, three combinations of faults |
| FatFs_files | Is the card sound at every moment, whatever is written, copied, deleted, and wherever a reset or failure falls? | 3 clusters of 2 sectors of 2 units, 2 FAT sectors, 2 names of which mkdir may make one, writes of 5 units, 1 mishap |
| TcpServer_serve | Is the stream intact and complete, is nothing dropped or left behind, is every client answered? | window of 3, send buffer of 2, pages of 1 and 3, up to 3 segments from the client |
| DhcpClient_trials | Is a bound address granted, and does the board get one? | 2 servers, 3 trials, 2 faults, 2 requests refused |
| MmcXfer_stop, FatFs_full, IrqDispatch_late, TcpServer_refused | violated, see section 5 | small; TcpServer_refused as TcpServer_serve |

CpswTx_fifo runs with LinkAtFetch = FALSE and SlowEngine = FALSE.  For the other
engines TypeOK, RefPerFrame and RingIsQueue are theorems (section 4); some of
the other properties fail there (section 5).

**Why the bounds are enough.**  Ring code has no case that depends on the ring's
size other than empty, one, full, and wrapped; 4 descriptors (3 for receive)
with chains of up to 3 reach each of them, exactly-full and refused included.
Two pbufs are enough for one to be sent twice while another is in the ring
(receive needs more than NumBd, to see both a pool with and one without spare
pbufs).  Three clusters over two FAT sectors are enough for a file that grows across the
boundary of a FAT sector, a second one that crosses or follows it, a hole that
is used again and a full card; a write of 5 units from an aligned position fills
a cluster directly, goes on to the next and leaves an odd rest in the buffer, so
that the next one starts in the middle of a sector.  One mishap falls at every
step of every call.  Three polls show a counter that ends early, on its last round and after
it.  Three blocks are more than the FIFO holds.  Two rounds let a card be ready
at once, in either round, in the last or never.  `WordMax` = 7 stands for 2^32-1
and `Mask`, `Word` for 2^31-1 and 2^32, for TLC's integers have 32 bits; nothing
but "far more than the bounds" is used of them, and the Superloop counters do
wrap within 5 keys.  A page of 3 does not fit a send buffer of 2, so that
http_send_data must be called again from http_sent; one of 1 is written and
closed in one callback.  Three segments fill the window of the echo server and
exceed its send buffer, can arrive with a gap before and after, and leave one to
overtake the FIN.  Three trials with two faults let a fault hit two of them, a
late answer meet the second and the third, and still leave the one that must
succeed (the program is built with NUM_DHCP_TRIES = 5); with two servers one
grants what the other is then told to take back.

`CHECK_DEADLOCK FALSE` is set in the CpswTx run, where with all references used
up (MaxRef) nothing need happen any more; in the MmcXfer ones, where the
code really stops: that is what MmcXfer_stop shows; in those of TcpServer and
DhcpClient, where a behaviour is one connection, or one start of the board, and
ends.

**Fairness.**  Code that can go on does (weak fairness of the running thread and
of handlers): there is no scheduler that could stop it.  Hardware that has begun
something ends it (weak fairness of the CPDMA's completion, of the controller's
answer or timeout, of the EDMA).  An asserted interrupt is taken, strongly fair
where the mask closes and opens: the main loop does not mask for good.  Nothing
makes frames arrive, keys be pressed, lwIP send or free anything, cards move:
those are never fair.
In TcpServer the handler runs to its end, the client takes what reaches it and
repeats what is not acknowledged, strongly fair (FreshArrives), for between its
attempts the handler is busy.  It is the client's repetition that the answer
rests on, for the server repeats nothing unless a segment of the client makes it
do so; that segments of the server are not lost for good is an assumption for
the same reason, and Answered holds only under it.  In DhcpClient main runs,
the interrupt is taken and a server answers what it receives; a trial that
expires while an answer is on its way is one of the faults.

**Liveness properties.**  ImplementsFifo (its fairness part),
FrameIsDelivered, MailboxesEmptied, IrqIsTaken, Answered, GetsAddress, and
CallReturns of MmcXfer and of FatFs, the latter with every access of the card
returning, which is the former; that of MmcXfer has the loop of the power-up in
it, of which the card need not ever be done.  Commands and datagrams are never fair.

**Types.**  CpswTx has a type invariant, because it is a theorem and half of it
(the free count and the ring pointers staying in range) is what a slip in the
walk would break.  The other modules have none among their properties: a value
out of its range there stops TLC or breaks a property that says more.

**Properties.**  Each property of a passing run has a mutated definition in
`PROJECT.json` ("mutants") that is a plausible slip in the mapped code (a flag
not cleared, a test off by one, an acknowledgement that takes too much) and that
TLC refutes the property with.  The mutated operators stand in the modules right
before the definition they stand in for, marked `mutant:`.

## 4. What is proved

Each theorem holds for every value of the constants that their assumptions
allow; the runs check the same properties on one instance.  The scheme is the
same everywhere: an inductive invariant `IInv` as a conjunction of named parts,
which TLC checked before it was proved; a lemma for each action, or group of
actions, that disturbs it; the temporal step; and the properties from IInv.
Lengths are those of the rings, transfers and pools of the models, where the
bounds that TLC needs (MaxRef, MaxDepth, MaxKey, MaxFault and so on) are
arbitrary.

| Module | Theorem | Property | Holds for |
|---|---|---|---|
| CpswTxProofs | TypeCorrect | TypeOK | every ring, both kinds of engine |
| | ReferencesCoverFrames | RefPerFrame | likewise |
| | RingIsTheQueue | RingIsQueue | likewise |
| | EngineNeverStranded | EngineRunsWhileWaiting | every ring, LinkAtFetch = SlowEngine = FALSE |
| | NoCompletionHidden | CompletionIsSignalled | likewise |
| | EngineReadsReferenced | EngineReadsLivePbuf | likewise |
| | HdpIsZeroWhenWritten | HdpWrittenWhenStopped | likewise |
| | RingImplementsFifo | safety part of ImplementsFifo | likewise |
| CpswRxProofs | PbufsAccounted | EveryPbufInOnePlace | every ring and pool, both kinds of engine |
| | EngineWritesLent | EngineWritesLentPbuf | likewise |
| | FramesInOrder | UndeliveredInOrder | likewise |
| | RxHdpWrittenWhenStopped | HdpWrittenWhenStopped | likewise |
| | EngineKeepsRunning | EngineRunsWhileLent | likewise; the property has its condition in it |
| IrqDispatchProofs | NoNesting | HandlersNeverNest | all lines, nestings and depths, either LateIrq |
| | LockIsExclusive | ProtectedIsExclusive | likewise |
| | MainUndisturbed | MainGoesOn | likewise, LateIrq = FALSE |
| SuperloopProofs | NoWakeupLost | WakeupNotLost | every width of the counters; see below |
| | CollectedAtMostOnce | CollectedOnce | every width of the counters |
| MmcXferProofs | NoStaleFlagHolds | NoStaleFlag | every length, poll budget, all faults |
| | InitMeansReadyHolds | InitMeansReady | likewise; the property excludes a change of card |
| | SuccessMeansMovedHolds | SuccessMeansMoved | likewise; the property excludes a slow EDMA and a change of card |
| | BufferLeftAloneHolds | BufferLeftAlone | likewise |
| DhcpClientProofs | BoundIsGrantedHolds | BoundIsGranted | any servers, trials and faults |
| TcpServerProofs | HttpStateOwned | StateWhileReferred | every window, send buffer, pages, number of segments |
| | WindowReopens | WindowWhole | likewise |
| | WrittenInOrder | StreamIntact | likewise; the property excludes refused data |
| | EndIsEndOfPage | EndMeansWholePage | likewise; the property excludes a second request and an early close |
| | DroppedForCause | DroppedHasCause | likewise (an action property) |
| FatFsProofs | SyncReachesCard | SyncedIsOnCard | every card, cluster and sector size, any writes, names, resets and failures; TouchesOpenLog = GoesOnWhenFull = FALSE |
| | CurrentSectorIs | CurrentSector | likewise |
| | CardStaysSound | CardIsSound | likewise |
| | NothingGetsLost | NothingIsLost | likewise; the property excludes resets and failures |
| | DataStaysKept | DataIsKept | likewise |
| | Base, Chains, Tables | the invariants below | likewise |

Where a theorem has a condition, the property is false without it, and section 5
says what the code does then.

### CpswTxProofs

For every ring size NumBd >= 2, every longest chain shorter than the ring, every
finite set of pbufs, both values of LinkAtFetch and SlowEngine.  The free count
stays in 0..NumBd, ring pointers stay descriptors (no NULL is followed), no
reference goes below zero; and a pbuf has at least a reference for each frame in
the ring and one for lwIP's hold, so the pbuf_free of eth0_tx_isr cannot free a
pbuf whose frame is still there.

Neither is inductive.  TypeOK breaks as soon as a walk meets a NULL link or
counts a descriptor twice; to exclude that one has to know where every NULL is,
how many descriptors are in use, and where frames begin and end:

| Part | What it says |
|---|---|
| LinksInv | every link leads to the next descriptor, except the NULL behind the last frame; the free ones begin behind it |
| FillInv, ChainInv | what the locals of cpswif_transmit hold while it fills and chains a frame |
| WalkInv | what those of eth0_tx_isr hold while it walks a frame: no EOP passed, one pbuf |
| PositionInv | the `Busy` descriptors from send_head on are in use and end at free_head; free_num counts the others once a frame being filled and one being walked are put right |
| FlagsInv | within the busy ones SOP follows EOP, a frame has one pbuf, the last one carries EOP; behind them no flag is set |
| RefInv | the counting of references, a frame being filled included |

The engine touches nothing IInv speaks of but OWNER and EOQ, which is a lemma:
the ring and its references are safe whatever the engine does, at whatever time.

That the ring is the queue (RingIsTheQueue) needs the frames of `queue` tied to positions counted
from send_head: they follow one another without gap (OrderInv), a descriptor of
a frame has its pbuf and, at its ends only, its flags (FramesInv), no busy
descriptor is outside every frame (CoverInv), and the frame being chained is the
newest (NewestInv).  QueueInv is inductive on top of IInv: a frame is added at
free_head, behind all positions in use, and reclaiming the first shifts all
positions by its length.

**With the engine.**  The engine has no counter of its own, so EngineInv counts for it: there is an n
so that the first n frames of the queue have left, and the engine works on frame
n + 1 or, if every linked frame has left, has stopped with EOQ on the last
descriptor (ProgressInv).  A frame that is not linked yet, or linked behind a
tail that has its EOQ already (`Unlinked`), is out of its reach until
cpswif_transmit writes HDP.  Stating what is behind the engine's back in that
one place is what makes the EOQ test provable: Chain either extends what the
engine can reach, or leaves a frame that Restart must and does hand over.  With
LinkAtFetch the invariant is false in just that step.

The refinement is proved for the safety of TxFifo: Init maps to its Init,
cpswif_transmit's Close to Accept, the engine's end of a frame to Transmit,
IsrReclaim to Reclaim, everything else to a stutter.  The
mapping needs AreSent and SentNum to be n, which is ProgressInv.

### CpswRxProofs

Positions are counted from recv_head: first the frames received and not
delivered, then the descriptors the engine has yet to fill, then those without a
pbuf.  RingInv places the pointers and the one NULL link, FrameInv the frames,
DmaInv the engine, PbufInv every pbuf.  None holds without the others: that a
pbuf is not lent twice needs head and last to enclose exactly the descriptors
that were free, which needs the links.

While descriptors are linked behind the ring the NULL moves, in three steps,
with the engine running.  The invariant therefore remembers the old length of
the ring, as the code does in `saved`: the engine may follow the new link, but
has fetched none of the new descriptors before the EOQ test (OldOut).  Whether
it runs is a part of its own (RunInv), under the condition of
EngineRunsWhileLent (Ample): a stopped engine has filled the whole old ring
and left EOQ on its last descriptor, so that either the test finds it or there
was nothing to continue.  That lwIP's share leaves NumBd pbufs is used through
their number: a pool that is empty with a descriptor unlent would have to hold
fewer than lwIP may take.

### IrqDispatchProofs

What an IRQ finds depends on all the ones below it on the stack, so the
invariant speaks of every frame:

| Part | What it says |
|---|---|
| MaskInv | the mask is closed from the exception to the unmasking and open behind it; every saved state is of unmasked code |
| FrameInv | code interrupted before it popped its frame has one below its own |
| LockInv | the outermost level of the main program is the unmasked state, all others, and all of a handler, are masked ones; outside "main" no lock of the main program is open |
| SavedInv (LateIrq = FALSE) | the bottom frame is the main program's; every other, and the banked pair while it counts, is of code right behind the unmasking |

The first three are inductive by themselves; SavedInv is on top of them.  The
proof has three lemmas on sequences (Push, Pop, DropLast), one lemma per group
of actions and invariant, and the temporal steps.

### SuperloopProofs

A counter and the count the loop saw last are related modulo Word only: CountInv
says that the counter is j bumps ahead of it, and j > 0 where the mailbox holds
something the loop has not come by.  The test fails when j comes round to Word,
which no bound of the program excludes, so NoWakeupLost assumes that at no time
more than Mask keystrokes or datagrams (2^31 - 1) are outstanding
(FewOutstanding); that lost increments and the wrap itself do no harm is what
the theorem says.  CollectedAtMostOnce needs no such assumption.

### MmcXferProofs

A flag names no command, so its meaning is where the code is: CommandInv and
DataInv say that each of the flags, up in `flags` or latched in `stat`, was
raised for the command under way, at most one for the command and one for its
data, and that data which ends after its command failed cannot exist.  The
exception is the completion CMD7 brings in an initialisation, and DataInv says
how far it may get.  CardInv follows the card through the script of
MMCCardInit: a card that answered CMD7 is selected, and from there to the end
nothing takes it out of that state.  MoveInv counts the blocks on their way
between card, FIFO and memory; the completion of the data and that of the EDMA
are two flags, and only both together mean that none is left.

### DhcpClientProofs

Answers to an earlier trial stay on the wire for good.  They do no harm because
an identifier belongs to one DISCOVER or one REQUEST and its answers, never to
both (XidInv), although a trial clears the state the client would know it by;
and because an acknowledgement is of a server that has the lease in its books
already, which it never takes out again (GrantInv).

### TcpServerProofs

tcp_input is cut wherever it calls an application, so a property that holds
between segments has to be stated for every stage between: by what the segment
in hand still brings.

| Part | What it says |
|---|---|
| ControlInv | which states of a block go with a stage of tcp_input and with a callback that has still to run |
| StateInv | the callbacks and the state of the HTTP server are there exactly while the block is open; after tcp_close the receive side is shut |
| ItemInv | what is queued in the block and what the segment holds are parts of one stream of the client; nothing comes behind a FIN |
| WindowInv | the window lacks exactly what the segment in hand brings and no callback has taken (DataAhead, FinAhead) |
| WrittenInv | what was written is the file but for `left`, or the input but for the segment in hand |
| PageInv | the server's FIN follows the last byte of the page: the reason of a close, what was sent of it, and what the client may make of its end |

No part is inductive alone: that echo_recv is given the next bytes (WrittenInv)
and that the window comes back whole (WindowInv) both rest on a segment taken
into sequence holding no position twice, which is ItemInv; and each needs to
know which callbacks a block still has, which is StateInv.  The lemmas
that carry most are about the operators of TcpConn: what Taken brings into
sequence are the positions from rcvNxt on, each once, and what stays queued is
behind them; Advance moves a block only to states its callbacks allow.

DroppedForCause is about one step, but why tcp_close finds no reason for a RST
and the state machine takes a block away only when all is acknowledged lies in
the whole life of the connection.  QuietInv, inductive on top of IInv, follows it
while nothing has happened to it that is among `Excuses`.  The HTTP server closes first (HttpQuiet): a
FIN of its client carries an acknowledgement of the server's FIN, because the
client had the end before it closed.  A failed close leaves it open and is tried
again.  The echo client closes first (EchoQuiet):
its FIN comes when all it sent has been answered, so that nothing is in flight
and the server's own FIN goes out before the handler ends; if its close fails the
block stays in CLOSE_WAIT, callbacks gone and nothing outstanding, for good.

### FatFsProofs

The two conditions are what the callers must do (section 2, FatFs): without the
first CardIsSound is false, without the second CurrentSector (section 5).

The invariants are definitions of a module of their own, FatFsInv, without
theorems, so that TLC can check each layer: FatFs_files.cfg with BaseInv,
SyncInv, ChainInv, TableInv, SavedInv, LostInv and KeptInv as invariants of
FatFsInv passes in under a minute.

| Part | What it says |
|---|---|
| BaseInv: TypeOK, Coherent | the values of the state; the card differs from memory in the sector of the window only, and only while it is dirty |
| BaseInv: NamesInv, CallInv, FilesInv, EntryInv | names are unique; which file a running call works on; the sector count and mark of a file; an open file has an entry of its own |
| SyncInv | between two calls the log is as its entry says, in memory and on the card, and how a call that has written gets back to that |
| SoundInv | in memory, and on the card as it is at this moment: links lead to different clusters in use, a chain has one entry, and room for its size |
| OwnInv | a chain belongs to one entry, and an open file's to that file too; what a call holds (a cluster it has taken, the rest of a chain it removes) is nobody's |
| PlaceInv | where the position of an open file is: in which cluster of its chain, which sector of it, and how many are left |
| TableInv | the tables of the directories in memory and on the card are clean, and no file has their cluster |
| SavedInv | without mishaps, what an open file has and its entry has not is marked `written`, so that the close or sync that follows saves it |
| LostInv | without mishaps, a cluster in use is in a chain whose first cluster is in an entry, an open file or the hands of a call |
| KeptInv: PrefixInv | what the FAT on the card has of the chain of an entry begins the one in memory |
| KeptInv: AloneInv | while the table of a new directory is in the window, its cluster is in no entry and no open file |
| KeptInv: SizeInv | an entry says no more than the file open on its chain, one on the card no more than the one in memory |
| KeptInv: DataInv | what an entry counts, in memory or on the card, is in the sectors of its chain; what an open file has taken is there or in its buffer |

What a reset finds follows from Coherent: as only the sector in the window
differs, the card is either as it was or, once the window is written, what memory
was before the step.  So both pairs of FAT and directory are sound if the code
keeps memory sound at every step, which is an order of its own: the entry goes
before the chain is freed, a cluster is marked before it is linked, and the size
grows after the chain.

Chains are followed by `Walk`, a recursive function of the FAT.  What the proofs
need of it is not proved by induction but through least counterexamples: the
least place where two walks differ has a predecessor where they agree.  From
WalkIs, that Walk obeys its own definition, follow that a cluster is in one place
of one chain (OnePlace), that a chain is over before it has more clusters than
there are (ChainEnds, by counting), and that a change of a link the chain does not
have, or of its end, keeps what was there (AvoidsKeeps, GrowsKeeps).

DataIsKept needs all of this, for it compares four things that a step changes at
different times: the data sectors, the buffer of the open file, the FAT and the
entry, each in memory and on the card.  DataInv says it of the chains in memory
(`Full`: the first n units of a chain are in its sectors), where the buffer of a
dirty file counts as the contents of its sector.  PrefixInv carries it over to
the card, where the chain may still be shorter.  f_sync may write the size into
the entry because the buffer has gone to the card before, and the entry of the
card gets it last.  A sector that is written (`SectorsPut`) is one of the file's
own chain, by PlaceInv; that no other chain has it is OwnInv; that nothing that
counts is in the table of a new directory, AloneInv.  After a reset memory is
what the card was, of which the second half of DataInv speaks.  That unit
i of a file is in one sector of one cluster is the arithmetic of DivMod, Unit
and SectorAtIs.

### Only model-checked

Liveness is out of the prover's reach: FrameIsDelivered, MailboxesEmptied,
IrqIsTaken, CallReturns, Answered, GetsAddress and the fairness part of
ImplementsFifo.  Every safety property that a passing run checks, invariant or
action property, is a theorem, under the condition the table gives.

## 5. Where the code departs from its own words

Four runs end in a violation; `PROJECT.json` quotes the lines.

1. **MmcXfer_stop** - after a CMD12 that timed out, MMCStopCmdSend waits for a
   completion that cannot come (mmc_api.c:334).
2. **IrqDispatch_late** - irq_isr opens the mask before its last instructions
   (irq.s:130); an IRQ taken between the restoring of spsr and the return
   overwrites the banked spsr, and the main program goes on in IRQ mode.
3. **FatFs_full** - when the card is full f_write leaves with the count of left
   sectors at zero (ff.c:1001).  The caller is told by the count of bytes;
   udp_rx_process prints a message and writes the next datagram, cat does not
   look.  The next f_write decrements zero to 255 and takes the next sector,
   behind the last cluster of its chain.
4. **TcpServer_refused** - echo_recv frees the pbuf and then returns the error
   of tcp_write (echod.c:110); lwIP keeps a pbuf that was refused and hands it
   to echo_recv again, which frees it a second time.

Other behaviours show with other constants or with a condition taken out of a
property.  They depend on hardware or use, so the conditions are stated where
the property stands:

- LinkAtFetch = TRUE: an engine that has latched NULL and sets EOQ after the
  test of cpswif_transmit stops with a frame waiting until a later EOQ shows it;
  EngineRunsWhileWaiting fails in CpswTx_fifo.
- SlowEngine = TRUE: eth0_tx_isr gives up polling and frees a frame the engine
  is still reading; EngineReadsLivePbuf fails.
- env.maxHeld large: with the receive ring run empty, HDP is written at the end
  of the walk while free_head stays behind; after the next fill the engine can
  be left stopped with descriptors lent to it.  EngineRunsWhileLent has the
  condition in it.  No pbuf is lost even then, as the other properties show.
- "slow": the wait for the EDMA callback decrements its counter once more when
  it gives up, so the test for zero misses the failure (mmc_api.c:106) and the
  call reports success before the data has moved.  The loop that powers the card
  up has the same slip (mmc_api.c:391); there the card catches it, for one that
  is not powered up does not answer the CMD2 that follows.
- "card": the handler of a removed card wipes the flags a running call waits
  for; the call may hang, or succeed falsely for the reason just given.  A card
  changed while disk_initialize is at its last two commands, whose failure it
  ignores, is mounted by the handler, which clears initDone, and then marked as
  initialised by the call that was interrupted: InitMeansReady fails, and every
  later access fails until the card is inserted once more.
- Superloop: a key struck while char_collect runs is wiped (main.c:184), and a
  datagram that arrives while the one before is being logged is mixed into it
  (udp_apps.c:142).  There is nothing in the code to state as a property here;
  the ones of Superloop hold in spite of it.
- TouchesOpenLog = TRUE: rm of the log while it is open frees its clusters, and
  the log goes on writing to them when they are another file's; cat over it
  gives two views of one chain.  CardIsSound, DataIsKept and CurrentSector fail.
  (A chain that goes on from a freed cluster, where create_chain returns an
  error, is left out, so such a behaviour ends there: run TLC with -deadlock.)
- IrqDispatch: with one priority for all lines, and the INTC's choice open, a
  line that is raised again and again may keep another waiting for ever; the
  first disjunct of IrqIsTaken is this case.
- IrqDispatch: IRQs that come one after the other right after the unmasking pile
  up a frame each on the IRQ stack, for as long as they last; MaxDepth bounds
  them.

Some more were met while reading and have no run:

- A frame refused with ERR_MEM keeps the reference cpswif_output took
  (cpswif.c:1798), so its pbuf is never freed.  (CpswTx does model it:
  OutputErrMem; no property asks for the pbuf back.)
- Padding a short frame of several pbufs walks with the parameter `p` itself,
  and only the last pbuf is sent (cpswif.c:1787).  udptx builds such a frame:
  its pbuf has no room for headers (udp_apps.c:47), so lwIP chains one in front.
- irq_isr uses r12 without saving it (irq.s:106).  The shipped objects do use
  r12 (obj/ff.o, for one).  IrqDispatch models it and has no property on it.
- HTTP: a second segment, or a request with the FIN in the same segment, cuts
  the page short; that http_poll closes a silent connection after 8 seconds is
  not so, for it is never called.  A SYN that is repeated finds the count of
  acknowledged bytes of the segment before it and calls http_sent.
- Both servers: a block in TIME_WAIT, or in LAST_ACK or FIN_WAIT_2 with a silent
  peer, goes only when tcp_alloc takes it for another connection, which does not
  happen to those echo_accept has raised in priority.  echo_close_conn does not
  look at the result of tcp_close.
- DHCP: an answer that comes after the last trial brings the interface up when
  lwIPInit has already returned 0; the lease is never renewed
  (rawapi.txt:448 asks for the timers).  dhcp_start and dhcp_bind both write
  `netif->flags`, one in main, one in the interrupt.  Where dhcp_start has no
  memory for `struct dhcp`, lwIPDHCPComplete follows a NULL pointer.

## 6. What is not modelled, and why

- The data: frame contents and lengths (and with them padding), cache
  maintenance, block addresses, file and page contents.
- lwIP beyond one passive TCP connection and the DHCP client up to BOUND: its
  timers, which this program never calls (retransmission, polling, renewal),
  active opening, UDP, IP, ARP, ICMP, and what is in the tree but unused
  (sockets, netconn, SNMP, PPP, IPv6).  That udptx enters lwIP from the main
  loop with IRQs enabled is listed as a hazard: the receive interrupt may then
  run in the middle of any function of lwIP, and a faithful module would have
  to cut all of them between memory accesses.
- Several connections at once: the servers keep no state across connections but
  the pool of blocks, of which Killed is what one connection sees.
- The ports, statistics and bring-up of the driver (built in dual-MAC mode):
  registers are written once, before interrupts are on.
- The pages of the HTTP server (`fsdata_*.c`) and the register tables
  (`hw_*.h`, `hw_control_AM335x.h`), which are data and most of the lines.
- MMU, clocks, GPIO, PHY, MDIO: straight-line register access and bounded polls.
- Console editing and parsing, the LED pattern: no property worth a run.
- FatFs: what is below a directory, f_opendir and f_readdir, which change no
  state but the window; f_lseek, f_rename, f_chmod and f_getfree, which nothing
  calls; a directory that grows (reserve_direntry); FAT12 and FAT16,
  where an entry may straddle two sectors.  A failed read is modelled as one
  that leaves the window alone; a driver that transfers part of a sector first
  would put it in the window under the old number.
- The card's registers, its clock and bus width; the mount itself (f_mount,
  auto_mount) and the command line that the card-inserted handler runs.
- Planned and not written: ALE table.

## 7. Plan

Written, in this order: CpswTx (with TxFifo), CpswRx, IrqDispatch, Superloop,
MmcXfer, FatFs, TcpConn and TcpServer, DhcpClient; and the proofs.  The
order follows what the rest depends on: the two rings are where the program meets
an engine that never stops, and the dispatch carries the assumption that handlers
do not nest.

Next, model:

1. **FatFs**, the rest - a directory that grows in reserve_direntry, and entries
   below a directory, with what a reset leaves of them; an abstract
   specification of a file as a growing sequence.
2. **Mount** - the card-inserted handler with f_mount and a command line of its
   own, over a file operation of the main loop; composes with FatFs.
3. **AleTable** - the search and free-entry logic of cpswif.c 306-383, where an
   index and ERR_VAL share a signed byte.
4. **Driver** - CpswTx and CpswRx composed: both end in cpswif_rxbd_alloc, and
   lwIP's pbufs move from one to the other (echo).

Next, prove: the invariants of these, as each is checked.  Of what is modelled,
every safety property is proved, and for the properties that need a condition
(TouchesOpenLog, GoesOnWhenFull, LinkAtFetch, SlowEngine, LateIrq) section 5 says
what happens without it.
