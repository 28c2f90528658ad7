------------------------------ MODULE MmcXfer ------------------------------
(***************************************************************************)
(* The MMC driver (mmc_api.c) as disk_initialize, disk_read and disk_write *)
(* of diskio.c call it: the code that sends a command and spins on flags,  *)
(* the two interrupt handlers that raise them, and the hardware.           *)
(*                                                                         *)
(*   software  MMCReadCmdSend / MMCWriteCmdSend: program the EDMA channel, *)
(*             send the command, wait for it, for the data and for the     *)
(*             EDMA; after several blocks send CMD12 and wait again.       *)
(*             MMCCardInit: the commands that identify and select a card,  *)
(*             two of which read data in the same way.                     *)
(*   handlers  mmc0_isr and DMACompletionISR, which no IRQ interrupts.     *)
(*   hardware  the host controller (bus, fifo, stat), the EDMA channels    *)
(*             (left, ipr) and the card, which may be pulled out.          *)
(*                                                                         *)
(* The data is abstracted to the number of blocks the EDMA has moved for   *)
(* the call, `moved'.                                                      *)
(***************************************************************************)
EXTENDS Naturals, FiniteSets

CONSTANTS MaxBlks,      \* bound: blocks of one call (disk_read: 1..255)
          Budget,       \* polls of the callback flag, 0xFFFF
          Retries,      \* rounds of the power-up loop, 0xFFFF
          WordMax,      \* largest unsigned int, 2^32 - 1
          FaultSets     \* what may go wrong together: "slow", the EDMA
                        \* outlasts the polls; "cmd", a command but
                        \* CMD12 times out; "stop", CMD12 does; "data",
                        \* the data does; "card", it is pulled out and in

ASSUME SizeAssumption == MaxBlks \in Nat \ {0} /\ Budget \in Nat \ {0, 1}
ASSUME WordAssumption == WordMax \in Nat /\ WordMax >= Budget
                             /\ Retries \in 1 .. WordMax
ASSUME FaultAssumption ==
  FaultSets \subseteq SUBSET {"slow", "cmd", "stop", "data", "card"}

VARIABLES
  flags,                \* the global flags of mmc_api.c that are 1
  dmaEnable,            \* ctrlInfo.dmaEnable
  pc, stage, op, status, timeOut,      \* the running call and its locals
  stat, bus, dp, dir, sent, fifo,      \* controller: status bits, activity,
                                       \* DP bit and direction of the command,
                                       \* blocks that have crossed the bus and
                                       \* that are in the FIFO
  left, ipr,                           \* EDMA: blocks left per enabled
                                       \* channel, completions pending
  present, cstate,                     \* the card is in its slot, its state
  step, retry, ocr,                    \* MMCCardInit: the command under way,
                                       \* its counter, BIT31 of cmd.rsp[0]
  initDone,                            \* fat_devices[0].initDone
  may,                                 \* the faults of this behaviour
  moved, result                        \* history: blocks moved for the call,
                                       \* what the last call returned

ident == <<step, retry, ocr, initDone>>
slot == <<present, cstate>>
code == <<dmaEnable, pc, stage, op, status, timeOut, result, step, retry,
          initDone>>
host == <<stat, bus, dp, dir, sent, fifo>>
edma == <<left, ipr>>
vars == <<flags, code, ocr, host, edma, slot, may, moved>>

Channel == {"read", "write"}           \* DMA_CHA_MMC0_RX, DMA_CHA_MMC0_TX
FifoBlks == 2                          \* 1024 bytes

Init ==
  /\ flags = {} /\ dmaEnable = FALSE
  /\ pc = "idle" /\ stage = "main" /\ op = [kind |-> "read", n |-> 1]
  /\ status = 0 /\ timeOut = 0 /\ result = "none"
  /\ stat = {} /\ bus = "idle" /\ dp = FALSE /\ dir = "read"
  /\ sent = 0 /\ fifo = 0
  /\ left = [c \in Channel |-> 0] /\ ipr = {}
  /\ present = TRUE /\ cstate = "idle"
  /\ step = 0 /\ retry = 0 /\ ocr = FALSE /\ initDone = FALSE
  /\ may \in FaultSets /\ moved = 0
-----------------------------------------------------------------------------
(* The commands.  MMCCardInit and disk_initialize send these one after the *)
(* other; "app" is CMD55.  CMD16, which expects no answer, is left out.    *)

Script == <<"reset", "app", "app", "reset", "volt", "app", "op",
            "pollApp", "poll", "cid", "rca", "csd", "select",
            "scrApp", "scr", "widthApp", "width", "switch">>

DataStep == {"scr", "switch"}
Ignored == {"volt", "pollApp", "poll", "widthApp", "width", "switch"}

Command == CASE stage = "init" -> Script[step]
             [] stage = "main" -> "xfer"
             [] stage = "stop" -> "stop"
HasData == Command = "xfer" \/ Command \in DataStep

At(name) == CHOOSE k \in DOMAIN Script : Script[k] = name

StepTo(k) == /\ step' = k
             /\ pc' = IF Script[k] \in DataStep THEN "setup" ELSE "send"
             /\ UNCHANGED <<stage, result, ocr, initDone>>

AlwaysDone(ok) == TRUE                      \* mutant: no return on failure
WhenDone(ok) == ok

(* MMCCardInit returns 0, or disk_initialize ends: initDone = 1. *)
InitReturns(ok) ==
  /\ pc' = "idle" /\ stage' = "main" /\ step' = 0 /\ retry' = 0 /\ ocr' = FALSE
  /\ result' = IF ok THEN "ready" ELSE "fail"
  /\ initDone' = (initDone \/ WhenDone(ok))

(* while (!(rsp & BIT31) && retry--), then if (retry == 0) return 0: the   *)
(* test that finds zero leaves the largest word behind.                    *)
PollTest ==
  IF ~ocr /\ retry # 0
  THEN StepTo(At("pollApp")) /\ retry' = retry - 1
  ELSE LET r == IF ocr THEN retry ELSE WordMax
       IN  IF r = 0 THEN InitReturns(FALSE)
                        ELSE StepTo(At("cid")) /\ retry' = 0

(* The status of the command under way is looked at, or ignored. *)
StepEnds(ok) ==
  \/ ~ok /\ Command \notin Ignored /\ InitReturns(FALSE)
  \/ Command = "switch" /\ InitReturns(TRUE)
  \/ (Command = "poll" \/ (Command = "pollApp" /\ ~ok)) /\ PollTest
  \/ Command = "widthApp" /\ ~ok /\ StepTo(At("switch")) /\ UNCHANGED retry
  \/ /\ ok \/ Command \in Ignored \ {"pollApp", "widthApp"}
     /\ Command \notin {"poll", "switch"}
     /\ StepTo(step + 1) /\ UNCHANGED retry

(* disk_initialize of a drive that is not initialised *)
InitBegin ==
  /\ pc = "idle" /\ ~initDone
  /\ stage' = "init" /\ step' = 1 /\ retry' = Retries /\ pc' = "send"
  /\ result' = "none" /\ op' = [kind |-> "read", n |-> 1] /\ moved' = 0
  /\ UNCHANGED <<flags, dmaEnable, status, timeOut, ocr, initDone, host, edma,
                 slot, may>>
-----------------------------------------------------------------------------
(* MMCReadCmdSend, MMCWriteCmdSend *)

BlockCount(n) == n                          \* cCnt of the PaRAM entry

(* MMCXferSetup: the flags of the transfer fall, the channel is enabled. *)
Setup(kind, n) ==
  /\ flags' = flags \ {"callback", "xferComp"}
  /\ left' = [left EXCEPT ![kind] = BlockCount(n)]
  /\ dmaEnable' = TRUE
  /\ op' = [kind |-> kind, n |-> n] /\ moved' = 0
  /\ pc' = "send"
  /\ UNCHANGED <<ident, stage, status, timeOut, host, ipr, slot, result, may>>

(* A file operation mounts and so initialises the card first, but one that *)
(* is under way goes on when the card is changed.                          *)
XferSetup(kind, n) ==
  /\ pc = "idle" /\ stage = "main"
  /\ initDone \/ "card" \in may
  /\ Setup(kind, n)

(* MMCCardInit for the SCR, MMCTranSpeedSet *)
InitSetup == pc = "setup" /\ Setup("read", 1)

(* MMC0CmdSend, but for CMD12 *)
CmdSend ==
  /\ pc = "send"
  /\ bus' = "cmd" /\ dp' = HasData
  /\ IF HasData
     THEN stat' = stat \ {"TC"} /\ dir' = op.kind /\ sent' = 0 /\ fifo' = 0
     ELSE UNCHANGED <<stat, dir, sent, fifo>>
  /\ pc' = "cmd"
  /\ UNCHANGED <<ident, flags, dmaEnable, stage, op, status, timeOut, edma,
                 slot, moved, result, may>>

CmdEnded == pc = "cmd" /\ flags \cap {"cmdComp", "cmdTimeout"} # {}
CmdFlagKept == flags                        \* mutant: the flags stay up
CmdFlagTaken == flags \ {"cmdComp", "cmdTimeout"}

Return(r) == pc' = "idle" /\ result' = r

(* mmc0_get_cmd_status.  A failed read or write ends the call, and         *)
(* dmaEnable stays; MMCStopCmdSend goes on whatever became of CMD12.       *)
CmdStatus ==
  /\ CmdEnded
  /\ flags' = CmdFlagTaken
  /\ LET ok == "cmdTimeout" \notin flags
     IN  \/ /\ stage = "stop" \/ (ok /\ HasData)
            /\ pc' = "xfer" /\ UNCHANGED <<ident, stage, result>>
         \/ /\ stage = "main" /\ ~ok
            /\ Return("fail") /\ UNCHANGED <<ident, stage>>
         \/ /\ stage = "init" /\ ~(ok /\ HasData)
            /\ StepEnds(ok)
  /\ UNCHANGED <<dmaEnable, op, status, timeOut, host, edma, slot, moved, may>>

XferEnded == pc = "xfer" /\ flags \cap {"xferComp", "dataTimeout"} # {}

(* mmc0_get_xfer_status, the wait for the data *)
XferStatus ==
  /\ XferEnded
  /\ flags' = flags \ {"xferComp", "dataTimeout"}
  /\ status' = IF "dataTimeout" \in flags THEN 0 ELSE 1
  /\ pc' = "ended"
  /\ UNCHANGED <<ident, dmaEnable, stage, op, timeOut, host, edma, slot, moved,
                 result, may>>

NeverWaits == FALSE                         \* mutant: the EDMA not waited for
WaitsForCallback == dp

(* The command register holds a data command: wait for the EDMA too. *)
CallbackBegin ==
  /\ pc = "ended"
  /\ timeOut' = Budget
  /\ pc' = IF WaitsForCallback THEN "callback" ELSE "done"
  /\ UNCHANGED <<ident, flags, dmaEnable, stage, op, status, host, edma, slot,
                 moved, result, may>>

DmaReady(c) == /\ left[c] > 0 /\ c = dir
               /\ c = "read" => fifo > 0
               /\ c = "write" => bus = "data" /\ fifo < FifoBlks
DmaBusy == ipr # {} \/ \E c \in Channel : DmaReady(c)

(* while(callbackOccured == 0 && ((timeOut--) != 0)): the test that finds  *)
(* zero decrements once more.                                              *)
CallbackPoll ==
  /\ pc = "callback" /\ "callback" \notin flags
  /\ "slow" \in may \/ timeOut > 1 \/ ~DmaBusy
  /\ timeOut' = IF timeOut = 0 THEN WordMax ELSE timeOut - 1
  /\ pc' = IF timeOut = 0 THEN "waited" ELSE "callback"
  /\ UNCHANGED <<ident, flags, dmaEnable, stage, op, status, host, edma, slot,
                 moved, result, may>>

CallbackSeen ==
  /\ pc = "callback" /\ "callback" \in flags
  /\ pc' = "waited"
  /\ UNCHANGED <<ident, flags, dmaEnable, stage, op, status, timeOut, host,
                 edma, slot, moved, result, may>>

CallbackStatus ==
  /\ pc = "waited"
  /\ flags' = flags \ {"callback"}
  /\ status' = IF timeOut = 0 THEN 0 ELSE status
  /\ timeOut' = 0                            \* dead from here on, like
  /\ pc' = "done"                            \* status at the return
  /\ UNCHANGED <<ident, dmaEnable, stage, op, host, edma, slot, moved,
                 result, may>>

(* MMCStopCmdSend after several blocks, unless the transfer failed. *)
StopSend ==
  /\ pc = "done" /\ stage = "main" /\ status = 1 /\ op.n > 1
  /\ dmaEnable' = FALSE
  /\ stage' = "stop"
  /\ bus' = "cmd" /\ dp' = FALSE
  /\ pc' = "cmd"
  /\ UNCHANGED <<ident, flags, op, status, timeOut, stat, dir, sent, fifo, edma,
                 slot, moved, result, may>>

XferReturn ==
  /\ pc = "done" /\ stage # "init"
  /\ ~(stage = "main" /\ status = 1 /\ op.n > 1)
  /\ dmaEnable' = FALSE
  /\ Return(IF status = 1 THEN "ok" ELSE "fail")
  /\ stage' = "main" /\ status' = 0
  /\ UNCHANGED <<ident, flags, op, timeOut, host, edma, slot, moved,
                 may>>

InitXferEnds ==
  /\ pc = "done" /\ stage = "init"
  /\ dmaEnable' = FALSE
  /\ StepEnds(status = 1) /\ status' = 0
  /\ UNCHANGED <<flags, op, timeOut, host, edma, slot, moved, may>>
-----------------------------------------------------------------------------
(* The interrupt handlers *)

FlagOf == [CC |-> "cmdComp", CTO |-> "cmdTimeout", TC |-> "xferComp",
           DTO |-> "dataTimeout"]
DtoIgnored(s) == {FlagOf[b] : b \in s \cap {"CC", "CTO", "TC"}}    \* mutant
Raised(s) == {FlagOf[b] : b \in s \cap DOMAIN FlagOf}

(* mmc0_isr takes every status bit at once.  A new card is mounted         *)
(* (FATFsMount: initDone = 0); a removed one wipes all flags and resets    *)
(* the controller (mmc0_init).                                             *)
MmcIsr ==
  /\ stat # {}
  /\ stat' = {}
  /\ IF "CREM" \in stat
     THEN flags' = {} /\ bus' = "idle" /\ dp' = FALSE /\ fifo' = 0
     ELSE flags' = flags \cup Raised(stat) /\ UNCHANGED <<bus, dp, fifo>>
  /\ initDone' = (initDone /\ "CINS" \notin stat)
  /\ UNCHANGED <<dmaEnable, pc, stage, op, status, timeOut, result, step, retry,
                 ocr, dir, sent, edma, slot, moved, may>>

(* DMACompletionISR and callback: the channel is disabled. *)
DmaIsr(c) ==
  /\ c \in ipr
  /\ ipr' = ipr \ {c}
  /\ flags' = flags \cup {"callback"}
  /\ left' = [left EXCEPT ![c] = 0]
  /\ UNCHANGED <<code, ocr, host, slot, moved, may>>
-----------------------------------------------------------------------------
(* The controller, the EDMA and the card *)

(* The state of the card a command is taken in, and the one it leads to: a *)
(* card in another one does not answer.  It may or may not be powered up.  *)
TakenIn ==
  [app |-> "idle", volt |-> "idle", op |-> "idle", pollApp |-> "idle",
   poll |-> "idle", cid |-> "ready", rca |-> "ident", csd |-> "stby",
   select |-> "stby", scrApp |-> "tran", scr |-> "tran", widthApp |-> "tran",
   width |-> "tran", switch |-> "tran", xfer |-> "tran", stop |-> "tran"]

LeadsTo(c) == CASE c \in {"op", "poll"} -> {"idle", "ready"}
                [] c = "cid" -> {"ident"}
                [] c = "rca" -> {"stby"}
                [] c = "select" -> {"tran"}
                [] OTHER -> {TakenIn[c]}

(* CMD0 wants no answer.  The card is busy with CMD7 no longer than it     *)
(* takes to answer.                                                        *)
CmdAnswered ==
  /\ bus = "cmd"
  /\ \/ Command = "reset" /\ cstate' = "idle"
     \/ /\ Command # "reset" /\ present /\ cstate = TakenIn[Command]
        /\ cstate' \in LeadsTo(Command)
  /\ ocr' = IF Command \in {"op", "poll"} THEN cstate' = "ready" ELSE ocr
  /\ stat' = stat \cup {"CC"} \cup (IF Command = "select" THEN {"TC"} ELSE {})
  /\ bus' = IF dp THEN "data" ELSE IF Command = "stop" THEN "busy" ELSE "idle"
  /\ UNCHANGED <<flags, code, dp, dir, sent, fifo, edma, present, moved, may>>

CmdTimesOut ==
  /\ bus = "cmd" /\ Command # "reset"
  /\ \/ ~present \/ cstate # TakenIn[Command]
     \/ (IF Command = "stop" THEN "stop" ELSE "cmd") \in may
  /\ stat' = stat \cup {"CTO"}
  /\ bus' = "idle"
  /\ UNCHANGED <<flags, code, ocr, dp, dir, sent, fifo, edma, slot, moved, may>>

(* One block between the card and the FIFO. *)
BlockOnBus ==
  /\ bus = "data" /\ present /\ sent < op.n
  /\ sent' = sent + 1
  /\ IF dir = "read" THEN fifo < FifoBlks /\ fifo' = fifo + 1
                         ELSE fifo > 0 /\ fifo' = fifo - 1
  /\ UNCHANGED <<flags, code, ocr, stat, bus, dp, dir, edma, slot, moved, may>>

DataDone ==
  /\ bus = "data" /\ sent = op.n
  /\ stat' = stat \cup {"TC"}
  /\ bus' = "idle"
  /\ UNCHANGED <<flags, code, ocr, dp, dir, sent, fifo, edma, slot, moved, may>>

DataTimesOut ==
  /\ bus = "data" /\ sent < op.n /\ (~present \/ "data" \in may)
  /\ stat' = stat \cup {"DTO"}
  /\ bus' = "idle"
  /\ UNCHANGED <<flags, code, ocr, dp, dir, sent, fifo, edma, slot, moved, may>>

BusyEnds ==
  /\ bus = "busy"
  /\ stat' = stat \cup {"TC"}
  /\ bus' = "idle"
  /\ UNCHANGED <<flags, code, ocr, dp, dir, sent, fifo, edma, slot, moved, may>>

(* One block between the FIFO and memory; the last one completes. *)
DmaMove(c) ==
  /\ DmaReady(c)
  /\ fifo' = IF c = "read" THEN fifo - 1 ELSE fifo + 1
  /\ left' = [left EXCEPT ![c] = @ - 1]
  /\ ipr' = IF left[c] = 1 THEN ipr \cup {c} ELSE ipr
  /\ moved' = moved + 1
  /\ UNCHANGED <<flags, code, ocr, stat, bus, dp, dir, sent, slot, may>>

CardRemove ==
  /\ "card" \in may /\ present
  /\ present' = FALSE
  /\ stat' = stat \cup {"CREM"} /\ UNCHANGED cstate
  /\ UNCHANGED <<flags, code, ocr, bus, dp, dir, sent, fifo, edma, moved, may>>

CardInsert ==
  /\ "card" \in may /\ ~present
  /\ present' = TRUE /\ cstate' = "idle"
  /\ stat' = stat \cup {"CINS"}
  /\ UNCHANGED <<flags, code, ocr, bus, dp, dir, sent, fifo, edma, moved, may>>
-----------------------------------------------------------------------------
Begin == \/ InitBegin
         \/ \E kind \in Channel, n \in 1 .. MaxBlks : XferSetup(kind, n)
Call  == \/ InitSetup \/ InitXferEnds \/ CmdSend \/ CmdStatus \/ XferStatus
         \/ CallbackBegin \/ CallbackPoll \/ CallbackSeen \/ CallbackStatus
         \/ StopSend \/ XferReturn
Irq   == MmcIsr \/ \E c \in Channel : DmaIsr(c)
Host  == CmdAnswered \/ CmdTimesOut \/ BlockOnBus \/ DataDone \/ DataTimesOut
           \/ BusyEnds
Edma  == \E c \in Channel : DmaMove(c)
Slot  == CardRemove \/ CardInsert

Next == Begin \/ Call \/ Irq \/ Host \/ Edma \/ Slot

Spec == Init /\ [][Next]_vars

(* The code runs on, interrupts are taken, the controller answers or times *)
(* out and the EDMA moves what it can.  Calls and the card come as they    *)
(* like.                                                                   *)
Fairness == WF_vars(Call) /\ WF_vars(Irq) /\ WF_vars(Host) /\ WF_vars(Edma)

FairSpec == Spec /\ Fairness
-----------------------------------------------------------------------------
(* Properties *)

(* A call that returns 1 has moved all its blocks, "return  1 success | 0  *)
(* fail" (mmc_api.c:509), as long as the EDMA is faster than the polls and *)
(* the card stays where it is.                                             *)
SuccessMeansMoved ==
  /\ may \cap {"slow", "card"} = {}
  /\ pc = "idle" /\ result = "ok"
  => moved = op.n

(* Between two calls no flag of a command or of its data is up or on its   *)
(* way, so the waits of mmc0_get_cmd_status and mmc0_get_xfer_status never *)
(* end on what an earlier command left: only the transfer completion of a  *)
(* CMD7 may be there while the card is not initialised, which the next     *)
(* MMCXferSetup takes away.                                                *)
NoStaleFlag ==
  pc = "idle" =>
    /\ flags \subseteq {"callback"} \cup (IF initDone THEN {} ELSE {"xferComp"})
    /\ stat \subseteq {"CREM", "CINS"}

(* A drive that disk_initialize calls initialised has a card that has been *)
(* powered up and selected, although MMCCardInit goes on when the retries  *)
(* of the power-up have run out and four failures go unnoticed, as long as *)
(* nobody changes the card meanwhile.                                      *)
InitMeansReady == initDone /\ "card" \notin may => cstate = "tran"

(* Once a call has returned, failed or not, the EDMA leaves the caller's   *)
(* buffer alone under the same conditions (MMCReadCmdSend,                 *)
(* mmc0_get_xfer_status).                                                  *)
BufferLeftAlone ==
  [][pc = "idle" /\ may \cap {"slow", "card"} = {} => moved' <= moved]_vars

(* A call returns, however slow the EDMA and whatever times out, but for   *)
(* CMD12 and a removed card: "wait for cmd completion flag   which is set  *)
(* by isr" (mmc_api.c:69).                                                 *)
CallReturns ==
  (pc # "idle" /\ may \cap {"stop", "card"} = {}) ~> (pc = "idle")

(* MMCStopCmdSend returns: "return status;  // success 1    fail 0"        *)
(* (mmc_api.c:336).                                                        *)
StopReturns == (stage = "stop" /\ pc = "cmd") ~> (pc = "idle")
=============================================================================
