---------------------------- MODULE MmcXferProofs ----------------------------
(***************************************************************************)
(* Proofs about the MMC driver, for transfers of any length, every poll    *)
(* budget and any combination of faults.                                   *)
(*                                                                         *)
(* IInv says in its parts where the code may be (ControlInv), that every   *)
(* flag the code waits for is raised once per command and belongs to the   *)
(* command under way (CommandInv, DataInv), how far the card has come      *)
(* while nobody pulls it (CardInv), and where the blocks of a transfer are *)
(* while the EDMA keeps up as well (MoveInv).                              *)
(***************************************************************************)
EXTENDS MmcXfer, TLAPS

Waits == {"ended", "callback", "waited", "done"}

Flag == {"cmdComp", "cmdTimeout", "xferComp", "dataTimeout", "callback"}
Bit  == {"CC", "CTO", "TC", "DTO", "CREM", "CINS"}
Pc   == {"idle", "setup", "send", "cmd", "xfer"} \cup Waits

CodeTypeOK ==
  /\ pc \in Pc /\ stage \in {"main", "init", "stop"} /\ step \in 0 .. 18
  /\ op \in [kind : Channel, n : Nat] /\ status \in {0, 1} /\ timeOut \in Nat
  /\ initDone \in BOOLEAN

HostTypeOK ==
  /\ flags \subseteq Flag /\ stat \subseteq Bit
  /\ bus \in {"idle", "cmd", "data", "busy"} /\ dp \in BOOLEAN /\ dir \in Channel
  /\ sent \in Nat /\ fifo \in Nat /\ moved \in Nat
  /\ left \in [Channel -> Nat] /\ ipr \subseteq Channel
  /\ present \in BOOLEAN

TypeOK == CodeTypeOK /\ HostTypeOK

(* MMCCardInit runs for a card that is not initialised, and the code waits *)
(* for data only where the command has some, or for the busy of CMD12.     *)
ControlInv ==
  /\ stage = "init" => step # 0 /\ pc # "idle" /\ ~initDone
  /\ pc = "setup" => stage = "init"
  /\ stage = "stop" => pc \in {"cmd", "xfer"} \cup Waits
  /\ pc \in {"setup", "xfer"} \cup Waits => HasData \/ stage = "stop"

(* The flags of a command and of its data, up or on their way. *)
CmdRaised  == "cmdComp" \in flags \/ "cmdTimeout" \in flags
CmdLatched == "CC" \in stat \/ "CTO" \in stat
CmdFailed  == "cmdTimeout" \in flags \/ "CTO" \in stat
DataRaised  == "xferComp" \in flags \/ "dataTimeout" \in flags
DataLatched == "TC" \in stat \/ "DTO" \in stat

(* A command is answered once, and DP says whether it has data. *)
CommandInv ==
  /\ CmdRaised \/ CmdLatched => pc = "cmd" /\ bus # "cmd"
  /\ ~(CmdRaised /\ CmdLatched)
  /\ bus = "cmd" => pc = "cmd" /\ dp = HasData

Expects == pc \in {"cmd", "xfer"} /\ (HasData \/ stage = "stop")

(* Its data ends once, and not at all if the command failed.  What is      *)
(* latched outside a transfer is the completion CMD7 brings.               *)
DataInv ==
  /\ bus \in {"data", "busy"} => Expects /\ ~DataRaised /\ ~DataLatched
  /\ bus = "data" => stage # "stop"
  /\ bus = "busy" => stage = "stop"
  /\ Expects => /\ DataRaised \/ DataLatched => bus = "idle" /\ ~CmdFailed
                /\ ~(DataRaised /\ DataLatched)
                /\ CmdFailed => bus = "idle"
  /\ ~Expects =>
       /\ "dataTimeout" \notin flags /\ "DTO" \notin stat
       /\ "TC" \in stat => pc = "cmd" /\ Command = "select" /\ "CC" \in stat
       /\ "xferComp" \in flags => /\ ~initDone
                                  /\ pc \in {"idle", "setup", "send", "cmd"}
                                  /\ pc = "send" => ~HasData

(* As long as the card is not changed, a card that has been selected stays *)
(* so until the next CMD0.                                                 *)
CardInv ==
  "card" \notin may =>
    /\ present /\ "CREM" \notin stat /\ "CINS" \notin stat
    /\ \/ initDone
       \/ stage = "init" /\ step >= 14
       \/ Command = "select" /\ ("CC" \in stat \/ "cmdComp" \in flags)
       => cstate = "tran"

Steady == may \cap {"slow", "card"} = {}

(* A transfer is under way, from CmdSend to the end of the call. *)
Active == pc \in {"cmd", "xfer"} \cup Waits /\ stage # "stop" /\ HasData

(* Neither the EDMA nor a completion of it has anything left to do. *)
Quiet == ipr = {} /\ (dir = "read" => fifo = 0)

(* Where the blocks are. *)
BlocksInv ==
  /\ dp /\ dir = op.kind /\ sent <= op.n /\ left[dir] + moved = op.n
  /\ IF dir = "read" THEN moved + fifo = sent ELSE moved = sent + fifo
  /\ ipr \subseteq {dir} /\ (ipr # {} => left[dir] = 0)
  /\ "callback" \in flags => left[dir] = 0 /\ ipr = {}
  /\ bus = "cmd" \/ CmdFailed => moved = 0 /\ sent = 0 /\ fifo = 0 /\ left[dir] > 0
  /\ \/ "TC" \in stat \/ "xferComp" \in flags
     \/ status = 1 /\ pc \in Waits
     => sent = op.n

MoveInv ==
  Steady =>
    /\ Active => BlocksInv
    /\ ~Active \/ pc \in {"waited", "done"} => Quiet
    /\ pc = "send" /\ HasData =>
         "callback" \notin flags /\ left[op.kind] = op.n /\ moved = 0 /\ op.n > 0
    /\ \/ stage = "stop"
       \/ Active /\ pc \in {"waited", "done"} /\ status = 1
       \/ pc = "idle" /\ result = "ok"
       => moved = op.n

IInv == TypeOK /\ ControlInv /\ CommandInv /\ DataInv /\ CardInv /\ MoveInv
-----------------------------------------------------------------------------
(* The commands *)

(* Where the commands that matter stand in the script of MMCCardInit. *)
LEMMA ScriptIs ==
  /\ DOMAIN Script = 1 .. 18
  /\ \A k \in 1 .. 18 :
       /\ Script[k] \in DataStep <=> k \in {15, 18}
       /\ Script[k] = "pollApp" <=> k = 8
       /\ Script[k] = "poll" <=> k = 9
       /\ Script[k] = "cid" <=> k = 10
       /\ Script[k] = "select" <=> k = 13
       /\ Script[k] = "widthApp" <=> k = 16
       /\ Script[k] = "switch" <=> k = 18
       /\ k >= 14 => Script[k] \in {"scrApp", "scr", "widthApp", "width", "switch"}
       /\ Script[k] \notin {"xfer", "stop"}
  <1>1. DOMAIN Script = 1 .. 18
    BY DEF Script
  <1>2. /\ Script[1] = "reset" /\ Script[2] = "app" /\ Script[3] = "app"
        /\ Script[4] = "reset" /\ Script[5] = "volt" /\ Script[6] = "app"
        /\ Script[7] = "op" /\ Script[8] = "pollApp" /\ Script[9] = "poll"
        /\ Script[10] = "cid" /\ Script[11] = "rca" /\ Script[12] = "csd"
        /\ Script[13] = "select" /\ Script[14] = "scrApp" /\ Script[15] = "scr"
        /\ Script[16] = "widthApp" /\ Script[17] = "width" /\ Script[18] = "switch"
    BY DEF Script
  <1>3. \A k \in 1 .. 18 : k \in {1, 2, 3, 4, 5, 6, 7, 8, 9, 10, 11, 12, 13, 14, 15, 16, 17, 18}
    OBVIOUS
  <1> QED BY <1>1, <1>2, <1>3 DEF DataStep

LEMMA AtIs == At("pollApp") = 8 /\ At("cid") = 10 /\ At("switch") = 18
  BY ScriptIs DEF At

(* What the code sends, now and in the next state. *)
LEMMA CommandIs ==
  ASSUME TypeOK, stage = "init" => step # 0
  PROVE  /\ stage = "main" => Command = "xfer"
         /\ stage = "stop" => Command = "stop"
         /\ stage = "init" => step \in 1 .. 18 /\ Command = Script[step]
         /\ HasData <=> stage = "main" \/ (stage = "init" /\ step \in {15, 18})
         /\ Command = "select" <=> stage = "init" /\ step = 13
  <1>1. /\ stage = "main" => Command = "xfer"
        /\ stage = "stop" => Command = "stop"
        /\ stage = "init" => step \in 1 .. 18 /\ Command = Script[step]
    BY DEF Command, TypeOK, CodeTypeOK
  <1> QED BY <1>1, ScriptIs DEF HasData, DataStep, TypeOK, CodeTypeOK

LEMMA CommandIsNext ==
  ASSUME stage' \in {"main", "init", "stop"}, step' \in 0 .. 18,
         stage' = "init" => step' # 0
  PROVE  /\ HasData' <=> stage' = "main" \/ (stage' = "init" /\ step' \in {15, 18})
         /\ Command' = "select" <=> stage' = "init" /\ step' = 13
  <1>1. /\ stage' = "main" => Command' = "xfer"
        /\ stage' = "stop" => Command' = "stop"
        /\ stage' = "init" => step' \in 1 .. 18 /\ Command' = Script[step']
    BY DEF Command
  <1> QED BY <1>1, ScriptIs DEF HasData, DataStep

(* MMCCardInit goes on with another command or returns, with success only  *)
(* after the last one, and gets beyond CMD7 only if that is answered.      *)
LEMMA StepEndsCases ==
  ASSUME TypeOK, stage = "init", step # 0, NEW ok \in BOOLEAN, StepEnds(ok)
  PROVE  \/ /\ pc' = "idle" /\ stage' = "main" /\ step' = 0
            /\ result' \in {"ready", "fail"}
            /\ initDone' = initDone \/ (step = 18 /\ initDone' = TRUE)
         \/ /\ UNCHANGED <<stage, result, initDone>>
            /\ step' \in 1 .. 18
            /\ pc' = (IF step' \in {15, 18} THEN "setup" ELSE "send")
            /\ step' >= 14 => step >= 14 \/ (step = 13 /\ ok)
  <1>1. step \in 1 .. 18 /\ Command = Script[step]
    BY CommandIs
  <1>2. ASSUME NEW r \in BOOLEAN, InitReturns(r), r => step = 18
        PROVE  /\ pc' = "idle" /\ stage' = "main" /\ step' = 0
               /\ result' \in {"ready", "fail"}
               /\ initDone' = initDone \/ (step = 18 /\ initDone' = TRUE)
    BY <1>2 DEF InitReturns, WhenDone, TypeOK, CodeTypeOK
  <1>3. ASSUME NEW k \in 1 .. 18, StepTo(k), k >= 14 => step >= 14 \/ (step = 13 /\ ok)
        PROVE  /\ UNCHANGED <<stage, result, initDone>>
               /\ step' \in 1 .. 18
               /\ pc' = (IF step' \in {15, 18} THEN "setup" ELSE "send")
               /\ step' >= 14 => step >= 14 \/ (step = 13 /\ ok)
    BY <1>3, ScriptIs DEF StepTo
  <1>4. CASE ~ok /\ InitReturns(FALSE)
    BY <1>2, <1>4
  <1>5. CASE Command = "switch" /\ InitReturns(TRUE)
    <2>1. step = 18
      BY <1>1, <1>5, ScriptIs
    <2> QED BY <1>2, <1>5, <2>1
  <1>6. CASE Command \in {"poll", "pollApp"} /\ PollTest
    <2>1. InitReturns(FALSE) \/ StepTo(8) \/ StepTo(10)
      BY <1>6, AtIs DEF PollTest
    <2>2. CASE InitReturns(FALSE)
      BY <1>2, <2>2
    <2>3. CASE StepTo(8) \/ StepTo(10)
      BY <1>3, <2>3
    <2> QED BY <2>1, <2>2, <2>3
  <1>7. CASE Command = "widthApp" /\ StepTo(At("switch"))
    <2>1. step = 16
      BY <1>1, <1>7, ScriptIs
    <2> QED BY <1>3, <1>7, <2>1, AtIs
  <1>8. CASE /\ ok \/ Command \in Ignored \ {"pollApp", "widthApp"}
             /\ Command # "switch"
             /\ StepTo(step + 1)
    <2>1. step # 18 /\ (step = 13 => Command \notin Ignored)
      BY <1>1, <1>8, ScriptIs DEF Ignored
    <2>2. step + 1 \in 1 .. 18 /\ (step + 1 >= 14 => step >= 14 \/ (step = 13 /\ ok))
      BY <1>1, <1>8, <2>1
    <2> QED BY <1>3, <1>8, <2>2
  <1> QED BY <1>4, <1>5, <1>6, <1>7, <1>8 DEF StepEnds

(* The flags mmc0_isr raises. *)
LEMMA RaisedIs ==
  /\ "cmdComp" \in Raised(stat) <=> "CC" \in stat
  /\ "cmdTimeout" \in Raised(stat) <=> "CTO" \in stat
  /\ "xferComp" \in Raised(stat) <=> "TC" \in stat
  /\ "dataTimeout" \in Raised(stat) <=> "DTO" \in stat
  /\ Raised(stat) \subseteq {"cmdComp", "cmdTimeout", "xferComp", "dataTimeout"}
  BY DEF Raised, FlagOf
-----------------------------------------------------------------------------
(* Types and control *)

(* The status of a command takes the flags and leads on. *)
LEMMA CmdStatusCases ==
  ASSUME TypeOK, ControlInv, CmdStatus
  PROVE  /\ pc = "cmd" /\ CmdRaised /\ flags' = flags \ {"cmdComp", "cmdTimeout"}
         /\ UNCHANGED <<dmaEnable, op, status, timeOut, host, edma, slot, moved, may>>
         /\ \/ /\ stage = "stop" \/ (HasData /\ "cmdTimeout" \notin flags)
               /\ pc' = "xfer" /\ UNCHANGED <<stage, step, result, initDone>>
            \/ /\ stage = "main" /\ "cmdTimeout" \in flags
               /\ pc' = "idle" /\ result' = "fail" /\ UNCHANGED <<stage, step, initDone>>
            \/ /\ stage = "init" /\ ("cmdTimeout" \in flags \/ ~HasData)
               /\ pc' = "idle" /\ stage' = "main" /\ step' = 0
               /\ result' \in {"ready", "fail"}
               /\ initDone' = initDone \/ (step = 18 /\ initDone' = TRUE)
            \/ /\ stage = "init" /\ ("cmdTimeout" \in flags \/ ~HasData)
               /\ UNCHANGED <<stage, result, initDone>>
               /\ step' \in 1 .. 18
               /\ pc' = (IF step' \in {15, 18} THEN "setup" ELSE "send")
               /\ step' >= 14 => step >= 14 \/ (step = 13 /\ "cmdTimeout" \notin flags)
  <1>1. /\ pc = "cmd" /\ CmdRaised /\ flags' = flags \ {"cmdComp", "cmdTimeout"}
        /\ UNCHANGED <<dmaEnable, op, status, timeOut, host, edma, slot, moved, may>>
    BY DEF CmdStatus, CmdEnded, CmdFlagTaken, CmdRaised
  <1> DEFINE ok == "cmdTimeout" \notin flags
  <1>2. CASE /\ stage = "stop" \/ (ok /\ HasData)
             /\ pc' = "xfer" /\ UNCHANGED <<ident, stage, result>>
    BY <1>1, <1>2 DEF ident
  <1>3. CASE stage = "main" /\ ~ok /\ Return("fail") /\ UNCHANGED <<ident, stage>>
    BY <1>1, <1>3 DEF ident, Return
  <1>4. CASE stage = "init" /\ ~(ok /\ HasData) /\ StepEnds(ok)
    <2>1. step # 0 /\ ok \in BOOLEAN
      BY <1>4 DEF ControlInv
    <2> HIDE DEF ok
    <2>2. \/ /\ pc' = "idle" /\ stage' = "main" /\ step' = 0
             /\ result' \in {"ready", "fail"}
             /\ initDone' = initDone \/ (step = 18 /\ initDone' = TRUE)
          \/ /\ UNCHANGED <<stage, result, initDone>>
             /\ step' \in 1 .. 18
             /\ pc' = (IF step' \in {15, 18} THEN "setup" ELSE "send")
             /\ step' >= 14 => step >= 14 \/ (step = 13 /\ ok)
      BY <1>4, <2>1, StepEndsCases
    <2> QED BY <1>1, <1>4, <2>2 DEF ok
  <1> QED BY <1>2, <1>3, <1>4 DEF CmdStatus

LEMMA InitXferEndsCases ==
  ASSUME TypeOK, ControlInv, InitXferEnds
  PROVE  /\ pc = "done" /\ stage = "init" /\ status' = 0
         /\ UNCHANGED <<flags, op, timeOut, host, edma, slot, moved, may>>
         /\ \/ /\ pc' = "idle" /\ stage' = "main" /\ step' = 0
               /\ result' \in {"ready", "fail"}
               /\ initDone' = initDone \/ (step = 18 /\ initDone' = TRUE)
            \/ /\ UNCHANGED <<stage, result, initDone>>
               /\ step' \in 1 .. 18
               /\ pc' = (IF step' \in {15, 18} THEN "setup" ELSE "send")
               /\ step' >= 14 => step >= 14
  <1>1. /\ pc = "done" /\ stage = "init" /\ status' = 0 /\ StepEnds(status = 1)
        /\ UNCHANGED <<flags, op, timeOut, host, edma, slot, moved, may>>
    BY DEF InitXferEnds
  <1>2. step # 0 /\ HasData
    BY <1>1 DEF ControlInv, Waits
  <1>3. step \in {15, 18}
    BY <1>1, <1>2, CommandIs
  <1> DEFINE ok == status = 1
  <1>4. ok \in BOOLEAN
    OBVIOUS
  <1>5. StepEnds(ok)
    BY <1>1
  <1> HIDE DEF ok
  <1>6. \/ /\ pc' = "idle" /\ stage' = "main" /\ step' = 0
           /\ result' \in {"ready", "fail"}
           /\ initDone' = initDone \/ (step = 18 /\ initDone' = TRUE)
        \/ /\ UNCHANGED <<stage, result, initDone>>
           /\ step' \in 1 .. 18
           /\ pc' = (IF step' \in {15, 18} THEN "setup" ELSE "send")
           /\ step' >= 14 => step >= 14 \/ (step = 13 /\ ok)
    BY <1>1, <1>2, <1>4, <1>5, StepEndsCases
  <1> QED BY <1>1, <1>3, <1>6

(* A step of the hardware or of a handler leaves the code where it is. *)
Outside == Irq \/ Host \/ Edma \/ Slot \/ UNCHANGED vars

LEMMA OutsideCode ==
  ASSUME Outside
  PROVE  /\ UNCHANGED <<pc, stage, step, op, status, timeOut, result, may>>
         /\ initDone' = initDone \/ (MmcIsr /\ initDone' = (initDone /\ "CINS" \notin stat))
  <1> USE DEF code
  <1>1. CASE MmcIsr
    BY <1>1 DEF MmcIsr
  <1>2. ASSUME NEW c, DmaIsr(c) \/ DmaMove(c)
        PROVE  UNCHANGED <<pc, stage, step, op, status, timeOut, result, may, initDone>>
    BY <1>2 DEF DmaIsr, DmaMove
  <1>3. CASE CmdAnswered \/ CmdTimesOut \/ BlockOnBus
    BY <1>3 DEF CmdAnswered, CmdTimesOut, BlockOnBus
  <1>4. CASE DataDone \/ DataTimesOut \/ BusyEnds
    BY <1>4 DEF DataDone, DataTimesOut, BusyEnds
  <1>5. CASE CardRemove \/ CardInsert
    BY <1>5 DEF CardRemove, CardInsert
  <1>6. CASE UNCHANGED vars
    BY <1>6 DEF vars
  <1> QED BY <1>1, <1>2, <1>3, <1>4, <1>5, <1>6 DEF Outside, Irq, Host, Edma, Slot

LEMMA CodeTypeStep ==
  ASSUME TypeOK, ControlInv, [Next]_vars
  PROVE  CodeTypeOK'
  <1>0. CodeTypeOK
    BY DEF TypeOK
  <1> USE DEF CodeTypeOK, ident, Pc, Waits
  <1>1. ASSUME NEW kind \in Channel, NEW n \in Nat, Setup(kind, n)
        PROVE  CodeTypeOK'
    BY <1>0, <1>1 DEF Setup
  <1>2. CASE InitBegin
    BY <1>0, <1>2 DEF InitBegin, Channel
  <1>3. ASSUME NEW kind \in Channel, NEW n \in 1 .. MaxBlks, XferSetup(kind, n)
        PROVE  CodeTypeOK'
    BY <1>1, <1>3, SizeAssumption DEF XferSetup
  <1>4. CASE InitSetup
    BY <1>1, <1>4 DEF InitSetup, Channel
  <1>5. CASE CmdSend
    BY <1>0, <1>5 DEF CmdSend
  <1>6. CASE CmdStatus
    <2>1. pc' \in Pc
      BY <1>6, CmdStatusCases
    <2>2. stage' = stage \/ stage' = "main"
      BY <1>6, CmdStatusCases
    <2>5. step' = step \/ step' = 0 \/ step' \in 1 .. 18
      BY <1>6, CmdStatusCases
    <2>3. initDone' = initDone \/ initDone' = TRUE
      BY <1>6, CmdStatusCases
    <2>4. UNCHANGED <<op, status, timeOut>>
      BY <1>6, CmdStatusCases
    <2>6. initDone' \in BOOLEAN
      BY <1>0, <2>3
    <2>7. step' \in 0 .. 18
      BY <1>0, <2>5
    <2> QED BY <1>0, <2>1, <2>2, <2>4, <2>6, <2>7
  <1>7. CASE InitXferEnds
    <2>1. pc' \in Pc
      BY <1>7, InitXferEndsCases
    <2>2. stage' = stage \/ stage' = "main"
      BY <1>7, InitXferEndsCases
    <2>5. step' = step \/ step' = 0 \/ step' \in 1 .. 18
      BY <1>7, InitXferEndsCases
    <2>3. initDone' = initDone \/ initDone' = TRUE
      BY <1>7, InitXferEndsCases
    <2>4. UNCHANGED <<op, timeOut>> /\ status' = 0
      BY <1>7, InitXferEndsCases
    <2>6. initDone' \in BOOLEAN
      BY <1>0, <2>3
    <2>7. step' \in 0 .. 18
      BY <1>0, <2>5
    <2> QED BY <1>0, <2>1, <2>2, <2>4, <2>6, <2>7
  <1>8. CASE XferStatus \/ CallbackSeen \/ CallbackStatus
    BY <1>0, <1>8 DEF XferStatus, CallbackSeen, CallbackStatus
  <1>9. CASE CallbackBegin
    BY <1>0, <1>9, SizeAssumption DEF CallbackBegin
  <1>10. CASE CallbackPoll
    <2>1. timeOut' \in Nat
      BY <1>0, <1>10, WordAssumption DEF CallbackPoll
    <2> QED BY <1>0, <1>10, <2>1 DEF CallbackPoll
  <1>11. CASE StopSend \/ XferReturn
    BY <1>0, <1>11 DEF StopSend, XferReturn, Return
  <1>12. CASE Outside
    BY <1>0, <1>12, OutsideCode
  <1> QED BY <1>2, <1>3, <1>4, <1>5, <1>6, <1>7, <1>8, <1>9, <1>10, <1>11, <1>12
          DEF Next, Begin, Call, Outside

LEMMA HostTypeStep ==
  ASSUME TypeOK, ControlInv, [Next]_vars
  PROVE  HostTypeOK'
  <1>0. HostTypeOK /\ op \in [kind : Channel, n : Nat]
    BY DEF TypeOK, CodeTypeOK
  <1> USE DEF HostTypeOK, slot, host, edma
  <1>1. ASSUME NEW kind \in Channel, NEW n \in Nat, Setup(kind, n)
        PROVE  HostTypeOK'
    BY <1>0, <1>1 DEF Setup, BlockCount
  <1>2. CASE InitBegin
    BY <1>0, <1>2 DEF InitBegin
  <1>3. ASSUME NEW kind \in Channel, NEW n \in 1 .. MaxBlks, XferSetup(kind, n)
        PROVE  HostTypeOK'
    BY <1>1, <1>3, SizeAssumption DEF XferSetup
  <1>4. CASE InitSetup
    BY <1>1, <1>4 DEF InitSetup, Channel
  <1>5. CASE CmdSend
    BY <1>0, <1>5 DEF CmdSend, HasData
  <1>6. CASE CmdStatus
    BY <1>0, <1>6 DEF CmdStatus, CmdFlagTaken
  <1>7. CASE InitXferEnds \/ XferStatus \/ CallbackSeen \/ CallbackStatus
    BY <1>0, <1>7 DEF InitXferEnds, XferStatus, CallbackSeen, CallbackStatus
  <1>8. CASE CallbackBegin \/ CallbackPoll \/ StopSend \/ XferReturn
    BY <1>0, <1>8 DEF CallbackBegin, CallbackPoll, StopSend, XferReturn
  <1>9. CASE MmcIsr
    <2>1. Raised(stat) \subseteq Flag
      BY RaisedIs DEF Flag
    <2>2. UNCHANGED <<dir, sent, moved, left, ipr, present>> /\ stat' = {}
      BY <1>9 DEF MmcIsr
    <2>3. /\ flags' \subseteq Flag /\ bus' \in {"idle", "cmd", "data", "busy"}
          /\ dp' \in BOOLEAN /\ fifo' \in Nat
      <3>1. CASE "CREM" \in stat
        <4>1. flags' = {} /\ bus' = "idle" /\ dp' = FALSE /\ fifo' = 0
          BY <1>9, <3>1 DEF MmcIsr
        <4> QED BY <4>1
      <3>2. CASE "CREM" \notin stat
        <4>1. flags' = flags \cup Raised(stat) /\ UNCHANGED <<bus, dp, fifo>>
          BY <1>9, <3>2 DEF MmcIsr
        <4> QED BY <1>0, <2>1, <4>1
      <3> QED BY <3>1, <3>2
    <2> QED BY <1>0, <2>2, <2>3
  <1>10. ASSUME NEW c \in Channel, DmaIsr(c)
         PROVE  HostTypeOK'
    BY <1>0, <1>10 DEF DmaIsr, Flag
  <1>11. CASE CmdAnswered \/ CmdTimesOut
    BY <1>0, <1>11 DEF CmdAnswered, CmdTimesOut, Bit
  <1>12. CASE BlockOnBus
    BY <1>0, <1>12 DEF BlockOnBus
  <1>13. CASE DataDone \/ DataTimesOut \/ BusyEnds
    BY <1>0, <1>13 DEF DataDone, DataTimesOut, BusyEnds, Bit
  <1>14. CASE CardRemove \/ CardInsert
    BY <1>0, <1>14 DEF CardRemove, CardInsert, Bit
  <1>15. ASSUME NEW c \in Channel, DmaMove(c)
         PROVE  HostTypeOK'
    BY <1>0, <1>15 DEF DmaMove, DmaReady
  <1>16. CASE UNCHANGED vars
    BY <1>0, <1>16 DEF vars
  <1> QED BY <1>2, <1>3, <1>4, <1>5, <1>6, <1>7, <1>8, <1>9, <1>10, <1>11, <1>12, <1>13,
             <1>14, <1>15, <1>16 DEF Next, Begin, Call, Irq, Host, Edma, Slot

LEMMA ControlStep ==
  ASSUME TypeOK, ControlInv, TypeOK', [Next]_vars
  PROVE  ControlInv'
  <1> USE DEF ControlInv
  <1>0. HasData <=> stage = "main" \/ (stage = "init" /\ step \in {15, 18})
    BY CommandIs
  <1>1. ASSUME /\ stage' = "init" => step' # 0 /\ pc' # "idle" /\ ~initDone'
               /\ pc' = "setup" => stage' = "init"
               /\ stage' = "stop" => pc' \in {"cmd", "xfer"} \cup Waits
               /\ pc' \in {"setup", "xfer"} \cup Waits =>
                    stage' \in {"main", "stop"} \/ (stage' = "init" /\ step' \in {15, 18})
        PROVE  ControlInv'
    <2>1. HasData' <=> stage' = "main" \/ (stage' = "init" /\ step' \in {15, 18})
      BY <1>1, CommandIsNext DEF TypeOK, CodeTypeOK
    <2> QED BY <1>1, <2>1 DEF Waits
  <1> USE DEF Waits
  <1>2. CASE Outside
    <2>1. UNCHANGED <<pc, stage, step>>
      BY <1>2, OutsideCode
    <2>2. ~initDone => ~initDone'
      BY <1>2, OutsideCode
    <2> QED BY <1>0, <1>1, <2>1, <2>2
  <1>3. CASE InitBegin
    BY <1>1, <1>3 DEF InitBegin
  <1>4. ASSUME NEW kind, NEW n, XferSetup(kind, n)
        PROVE  ControlInv'
    BY <1>1, <1>4 DEF XferSetup, Setup, ident
  <1>5. CASE InitSetup
    BY <1>1, <1>5 DEF InitSetup, Setup, ident
  <1>6. CASE CmdSend
    BY <1>1, <1>6 DEF CmdSend, ident
  <1>7. CASE CmdStatus
    <2>1. pc' \in {"xfer", "idle", "setup", "send"}
      BY <1>7, CmdStatusCases
    <2>2. stage' = "stop" => pc' = "xfer"
      BY <1>7, CmdStatusCases
    <2>3. stage' = "init" => step' # 0 /\ pc' # "idle" /\ ~initDone'
      BY <1>7, CmdStatusCases
    <2>4. pc' = "setup" => stage' = "init" /\ step' \in {15, 18}
      BY <1>7, CmdStatusCases
    <2>5. pc' = "xfer" =>
            stage' \in {"main", "stop"} \/ (stage' = "init" /\ step' \in {15, 18})
      BY <1>0, <1>7, CmdStatusCases
    <2> QED BY <1>1, <2>1, <2>2, <2>3, <2>4, <2>5
  <1>8. CASE InitXferEnds
    <2>1. pc' \in {"idle", "setup", "send"} /\ stage' # "stop"
      BY <1>8, InitXferEndsCases
    <2>2. stage' = "init" => step' # 0 /\ pc' # "idle" /\ ~initDone'
      BY <1>8, InitXferEndsCases
    <2>3. pc' = "setup" => stage' = "init" /\ step' \in {15, 18}
      BY <1>8, InitXferEndsCases
    <2> QED BY <1>1, <2>1, <2>2, <2>3
  <1>9. CASE \/ XferStatus \/ CallbackBegin \/ CallbackPoll \/ CallbackSeen
             \/ CallbackStatus
    <2>1. /\ UNCHANGED <<stage, step, initDone>>
          /\ pc \in {"xfer"} \cup Waits /\ pc' \in Waits
      BY <1>9 DEF XferStatus, XferEnded, CallbackBegin, CallbackPoll, CallbackSeen,
                 CallbackStatus, ident
    <2> QED BY <1>0, <1>1, <2>1
  <1>10. CASE StopSend
    BY <1>1, <1>10 DEF StopSend, ident
  <1>11. CASE XferReturn
    BY <1>1, <1>11 DEF XferReturn, Return, ident
  <1> QED BY <1>2, <1>3, <1>4, <1>5, <1>6, <1>7, <1>8, <1>9, <1>10, <1>11
          DEF Next, Begin, Call, Outside
-----------------------------------------------------------------------------
(* Flags *)

(* Steps that leave the command where it is. *)
LEMMA CommandSame ==
  ASSUME UNCHANGED <<stage, step>>
  PROVE  Command' = Command /\ HasData' = HasData
  <1>1. Command' = Command
    BY DEF Command
  <1> QED BY <1>1 DEF HasData

(* The handler takes all status bits at once, or wipes everything. *)
LEMMA FlagsIsr ==
  ASSUME TypeOK, ControlInv, CommandInv, DataInv, MmcIsr
  PROVE  CommandInv' /\ DataInv'
  <1>1. /\ stat' = {} /\ UNCHANGED <<pc, stage, step>>
        /\ ~initDone => ~initDone'
    BY DEF MmcIsr
  <1>2. /\ Expects' = Expects /\ HasData' = HasData
        /\ Command = "select" => stage = "init"
    BY <1>1, CommandSame, CommandIs DEF Expects, ControlInv
  <1>3. CASE flags' = {} /\ bus' = "idle"
    BY <1>1, <1>2, <1>3 DEF CommandInv, DataInv, CmdRaised, CmdLatched, CmdFailed,
           DataRaised, DataLatched
  <1>4. CASE flags' = flags \cup Raised(stat) /\ bus' = bus /\ dp' = dp
    <2>1. /\ CmdRaised' <=> CmdRaised \/ CmdLatched
          /\ CmdFailed' <=> CmdFailed
          /\ DataRaised' <=> DataRaised \/ DataLatched
          /\ ~CmdLatched' /\ ~DataLatched'
      BY <1>1, <1>4, RaisedIs DEF CmdRaised, CmdLatched, CmdFailed, DataRaised, DataLatched
    <2>2. CommandInv'
      BY <1>1, <1>2, <1>4, <2>1 DEF CommandInv
    <2>3. CASE Expects
      BY <1>1, <1>2, <1>4, <2>1, <2>2, <2>3 DEF DataInv
    <2>4. CASE ~Expects
      <3>1. /\ "dataTimeout" \notin flags' /\ "DTO" \notin stat' /\ "TC" \notin stat'
            /\ "xferComp" \in flags' => "xferComp" \in flags \/ "TC" \in stat
        BY <1>1, <1>4, <2>4, RaisedIs DEF DataInv
      <3>2. "TC" \in stat => ~initDone /\ pc = "cmd"
        BY <1>2, <2>4 DEF DataInv, ControlInv
      <3> QED BY <1>1, <1>2, <1>4, <2>2, <2>4, <3>1, <3>2 DEF DataInv
    <2> QED BY <2>3, <2>4
  <1> QED BY <1>3, <1>4 DEF MmcIsr

(* Only the EDMA handler raises the callback flag; the EDMA raises none,   *)
(* and the card only its own status bits.                                  *)
LEMMA FlagsSame ==
  ASSUME TypeOK, ControlInv, CommandInv, DataInv,
         \/ \E c \in Channel : DmaIsr(c) \/ DmaMove(c)
         \/ BlockOnBus \/ CardRemove \/ CardInsert \/ UNCHANGED vars
  PROVE  CommandInv' /\ DataInv'
  <1>1. /\ UNCHANGED <<pc, stage, step, bus, dp, initDone>>
        /\ flags' = flags \/ flags' = flags \cup {"callback"}
        /\ stat' = stat \/ stat' = stat \cup {"CREM"} \/ stat' = stat \cup {"CINS"}
    <2>1. ASSUME NEW c, DmaIsr(c) \/ DmaMove(c)
          PROVE  /\ UNCHANGED <<pc, stage, step, bus, dp, initDone, stat>>
                 /\ flags' = flags \/ flags' = flags \cup {"callback"}
      BY <2>1 DEF DmaIsr, DmaMove, code, host
    <2>2. CASE BlockOnBus \/ CardRemove \/ CardInsert
      BY <2>2 DEF BlockOnBus, CardRemove, CardInsert, code
    <2>3. CASE UNCHANGED vars
      BY <2>3 DEF vars, code, host
    <2> QED BY <2>1, <2>2, <2>3
  <1>2. /\ CmdRaised' = CmdRaised /\ CmdLatched' = CmdLatched /\ CmdFailed' = CmdFailed
        /\ DataRaised' = DataRaised /\ DataLatched' = DataLatched
        /\ "TC" \in stat' <=> "TC" \in stat
        /\ "CC" \in stat' <=> "CC" \in stat
        /\ "DTO" \in stat' <=> "DTO" \in stat
        /\ "xferComp" \in flags' <=> "xferComp" \in flags
        /\ "dataTimeout" \in flags' <=> "dataTimeout" \in flags
    BY <1>1 DEF CmdRaised, CmdLatched, CmdFailed, DataRaised, DataLatched
  <1>3. Expects' = Expects /\ HasData' = HasData /\ Command' = Command
    BY <1>1, CommandSame DEF Expects
  <1> QED BY <1>1, <1>2, <1>3 DEF CommandInv, DataInv

(* The controller ends a command, or its data. *)
LEMMA FlagsHost ==
  ASSUME TypeOK, ControlInv, CommandInv, DataInv,
         CmdAnswered \/ CmdTimesOut \/ DataDone \/ DataTimesOut \/ BusyEnds
  PROVE  CommandInv' /\ DataInv'
  <1>1. UNCHANGED <<pc, stage, step, flags, initDone>>
    BY DEF CmdAnswered, CmdTimesOut, DataDone, DataTimesOut, BusyEnds, code
  <1>2. Expects' = Expects /\ HasData' = HasData /\ Command' = Command
    BY <1>1, CommandSame DEF Expects
  <1> USE DEF CmdRaised, CmdLatched, CmdFailed, DataRaised, DataLatched
  <1>3. CASE CmdAnswered
    <2>1. /\ bus = "cmd" /\ stat' = stat \cup {"CC"} \cup
                                (IF Command = "select" THEN {"TC"} ELSE {})
          /\ bus' = IF dp THEN "data" ELSE IF Command = "stop" THEN "busy" ELSE "idle"
      BY <1>3 DEF CmdAnswered
    <2>2. pc = "cmd" /\ dp = HasData /\ ~CmdRaised /\ ~CmdLatched
      BY <2>1 DEF CommandInv
    <2>3. /\ Command = "stop" <=> stage = "stop"
          /\ stage = "stop" => ~HasData
          /\ Command = "select" => stage = "init" /\ ~HasData
      <3>1. stage = "init" => Command # "stop"
        BY CommandIs, ScriptIs DEF ControlInv
      <3> QED BY <3>1, CommandIs DEF ControlInv, TypeOK, CodeTypeOK
    <2>4. bus' # "cmd" /\ CommandInv'
      BY <1>1, <2>1, <2>2 DEF CommandInv
    <2>5. CASE Expects
      <3>1. ~DataRaised /\ ~DataLatched /\ Command # "select"
        BY <2>1, <2>3, <2>5 DEF DataInv, Expects
      <3>2. stat' = stat \cup {"CC"}
        BY <2>1, <3>1
      <3>3. (bus' = "data" => stage # "stop") /\ (bus' = "busy" => stage = "stop")
        BY <2>1, <2>2, <2>3
      <3>4. ~DataRaised' /\ ~DataLatched' /\ ~CmdFailed'
        BY <1>1, <2>2, <3>1, <3>2
      <3> QED BY <1>1, <1>2, <2>4, <2>5, <3>3, <3>4 DEF DataInv
    <2>6. CASE ~Expects
      <3>1. bus' = "idle"
        BY <2>1, <2>2, <2>3, <2>6 DEF Expects
      <3>2. /\ "DTO" \notin stat' /\ "CC" \in stat'
            /\ "TC" \in stat' => Command = "select"
        BY <2>1, <2>2, <2>6 DEF DataInv
      <3> QED BY <1>1, <1>2, <2>2, <2>4, <2>6, <3>1, <3>2 DEF DataInv
    <2> QED BY <2>4, <2>5, <2>6
  <1>4. CASE CmdTimesOut
    <2>1. bus = "cmd" /\ stat' = stat \cup {"CTO"} /\ bus' = "idle"
      BY <1>4 DEF CmdTimesOut
    <2>2. CommandInv'
      BY <1>1, <2>1 DEF CommandInv
    <2>3. Expects => ~DataRaised /\ ~DataLatched
      BY <2>1 DEF DataInv
    <2>4. pc = "cmd" /\ "CC" \notin stat
      BY <2>1 DEF CommandInv
    <2>5. CASE Expects
      <3>1. ~DataRaised' /\ ~DataLatched'
        BY <1>1, <2>1, <2>3, <2>5
      <3> QED BY <1>1, <1>2, <2>1, <2>2, <2>5, <3>1 DEF DataInv
    <2>6. CASE ~Expects
      <3>1. "DTO" \notin stat' /\ "TC" \notin stat'
        BY <2>1, <2>4, <2>6 DEF DataInv
      <3> QED BY <1>1, <1>2, <2>1, <2>2, <2>6, <3>1 DEF DataInv
    <2> QED BY <2>2, <2>5, <2>6
  <1>5. CASE DataDone \/ DataTimesOut \/ BusyEnds
    <2>1. /\ bus \in {"data", "busy"} /\ bus' = "idle"
          /\ stat' = stat \cup {"TC"} \/ stat' = stat \cup {"DTO"}
      BY <1>5 DEF DataDone, DataTimesOut, BusyEnds
    <2>2. Expects /\ ~DataRaised /\ ~DataLatched /\ ~CmdFailed
      BY <2>1 DEF DataInv
    <2>3. /\ CmdRaised' = CmdRaised /\ CmdLatched' = CmdLatched /\ ~CmdFailed'
          /\ ~DataRaised'
      BY <1>1, <2>1, <2>2
    <2>4. CommandInv'
      BY <1>1, <2>1, <2>3 DEF CommandInv
    <2>5. DataInv'
      BY <1>1, <1>2, <2>1, <2>2, <2>3 DEF DataInv
    <2> QED BY <2>4, <2>5
  <1> QED BY <1>3, <1>4, <1>5

(* The code takes flags away, and begins a command only where none is up.  *)
LEMMA FlagsCode ==
  ASSUME TypeOK, ControlInv, CommandInv, DataInv, ControlInv', TypeOK',
         \/ InitBegin \/ (\E kind \in Channel, n \in 1 .. MaxBlks : XferSetup(kind, n))
         \/ Call
  PROVE  CommandInv' /\ DataInv'
  <1> USE DEF CmdRaised, CmdLatched, CmdFailed, DataRaised, DataLatched
  <1>0. /\ HasData <=> stage = "main" \/ (stage = "init" /\ step \in {15, 18})
        /\ HasData' <=> stage' = "main" \/ (stage' = "init" /\ step' \in {15, 18})
        /\ stage \in {"main", "init", "stop"} /\ stage' \in {"main", "init", "stop"}
    BY CommandIs, CommandIsNext DEF TypeOK, CodeTypeOK, ControlInv
  <1>1. CASE InitBegin
    <2>1. /\ pc = "idle" /\ ~initDone /\ pc' = "send" /\ stage' = "init" /\ step' = 1
          /\ UNCHANGED <<flags, initDone, stat, bus, dp>>
      BY <1>1 DEF InitBegin, host
    <2>2. ~Expects /\ ~Expects' /\ ~HasData'
      BY <1>0, <2>1 DEF Expects
    <2>3. CommandInv'
      BY <2>1 DEF CommandInv
    <2> QED BY <2>1, <2>2, <2>3 DEF DataInv
  <1>2. ASSUME NEW kind, NEW n, Setup(kind, n), pc \in {"idle", "setup"}
        PROVE  CommandInv' /\ DataInv'
    <2>1. /\ pc' = "send" /\ flags' = flags \ {"callback", "xferComp"}
          /\ UNCHANGED <<initDone, stat, bus, dp>>
      BY <1>2 DEF Setup, host, ident
    <2>2. ~Expects /\ ~Expects'
      BY <1>2, <2>1 DEF Expects
    <2>3. CommandInv'
      BY <1>2, <2>1 DEF CommandInv
    <2> QED BY <1>2, <2>1, <2>2, <2>3 DEF DataInv
  <1>3. CASE CmdSend
    <2>1. /\ pc = "send" /\ pc' = "cmd" /\ bus' = "cmd" /\ dp' = HasData
          /\ stat' = IF HasData THEN stat \ {"TC"} ELSE stat
          /\ UNCHANGED <<flags, initDone, stage, step>>
      BY <1>3 DEF CmdSend, ident
    <2>2. HasData' = HasData /\ ~Expects /\ stage # "stop"
      BY <2>1, CommandSame DEF Expects, ControlInv, Waits
    <2>3. /\ "DTO" \notin stat /\ "TC" \notin stat /\ "dataTimeout" \notin flags
          /\ HasData => "xferComp" \notin flags
          /\ "xferComp" \in flags => ~initDone
      BY <2>1, <2>2 DEF DataInv
    <2>4. ~CmdRaised /\ ~CmdLatched
      BY <2>1 DEF CommandInv
    <2>5. CommandInv'
      BY <2>1, <2>2, <2>4 DEF CommandInv
    <2>6. Expects' <=> HasData
      BY <2>1, <2>2 DEF Expects
    <2> QED BY <2>1, <2>2, <2>3, <2>4, <2>5, <2>6 DEF DataInv
  <1>4. CASE CmdStatus
    <2>1. /\ pc = "cmd" /\ CmdRaised /\ flags' = flags \ {"cmdComp", "cmdTimeout"}
          /\ UNCHANGED <<stat, bus, dp>>
      BY <1>4, CmdStatusCases DEF host
    <2>2. ~CmdLatched /\ bus # "cmd"
      BY <2>1 DEF CommandInv
    <2>3. CommandInv'
      BY <2>1, <2>2 DEF CommandInv
    <2>4. CASE /\ stage = "stop" \/ (HasData /\ "cmdTimeout" \notin flags)
               /\ pc' = "xfer" /\ UNCHANGED <<stage, step, result, initDone>>
      <3>1. Expects /\ Expects'
        BY <1>0, <2>1, <2>4 DEF Expects
      <3> QED BY <2>1, <2>2, <2>3, <2>4, <3>1 DEF DataInv
    <2>5. CASE /\ stage # "stop" /\ ("cmdTimeout" \in flags \/ ~HasData)
               /\ pc' \in {"idle", "setup", "send"}
               /\ pc' = "send" => ~HasData'
               /\ initDone' = initDone \/ HasData
      <3>1. ~Expects'
        BY <2>5 DEF Expects
      <3>2. bus = "idle"
        BY <2>1, <2>2, <2>5 DEF DataInv, Expects, TypeOK, HostTypeOK
      <3>3. CASE HasData
        <4>1. Expects /\ ~DataRaised /\ ~DataLatched
          BY <2>1, <2>5, <3>3 DEF DataInv, Expects
        <4> QED BY <2>1, <2>3, <3>1, <3>2, <4>1 DEF DataInv
      <3>4. CASE ~HasData
        <4>1. ~Expects /\ initDone' = initDone
          BY <2>5, <3>4 DEF Expects
        <4> QED BY <2>1, <2>2, <2>3, <2>5, <3>1, <3>2, <4>1 DEF DataInv
      <3> QED BY <3>3, <3>4
    <2>6. \/ /\ stage = "stop" \/ (HasData /\ "cmdTimeout" \notin flags)
             /\ pc' = "xfer" /\ UNCHANGED <<stage, step, result, initDone>>
          \/ /\ stage # "stop" /\ ("cmdTimeout" \in flags \/ ~HasData)
             /\ pc' \in {"idle", "setup", "send"}
             /\ pc' = "send" => stage' = "init" /\ step' \notin {15, 18}
             /\ initDone' = initDone \/ (stage = "init" /\ step = 18)
      BY <1>4, CmdStatusCases
    <2> QED BY <1>0, <2>4, <2>5, <2>6
  <1>5. CASE InitXferEnds \/ XferReturn
    <2>1. /\ pc = "done" /\ UNCHANGED <<flags, stat, bus, dp>>
          /\ pc' \in {"idle", "setup", "send"}
          /\ pc' = "send" => stage' = "init" /\ step' \notin {15, 18}
      <3>1. CASE InitXferEnds
        BY <3>1, InitXferEndsCases DEF host
      <3>2. CASE XferReturn
        BY <3>2 DEF XferReturn, Return, host
      <3> QED BY <1>5, <3>1, <3>2
    <2>2. ~Expects /\ ~Expects'
      BY <2>1 DEF Expects
    <2>3. bus = "idle" /\ ~CmdRaised /\ ~CmdLatched /\ ~DataRaised /\ ~DataLatched
      BY <2>1, <2>2 DEF DataInv, CommandInv, TypeOK, HostTypeOK
    <2> QED BY <2>1, <2>2, <2>3 DEF CommandInv, DataInv
  <1>6. CASE XferStatus
    <2>1. /\ pc = "xfer" /\ DataRaised /\ pc' = "ended"
          /\ flags' = flags \ {"xferComp", "dataTimeout"}
          /\ UNCHANGED <<stat, bus, dp, initDone>>
      BY <1>6 DEF XferStatus, XferEnded, host, ident
    <2>2. Expects /\ ~Expects'
      BY <2>1 DEF Expects, ControlInv
    <2>3. bus = "idle" /\ ~DataLatched /\ ~CmdRaised /\ ~CmdLatched
      BY <2>1, <2>2 DEF DataInv, CommandInv
    <2> QED BY <2>1, <2>2, <2>3 DEF CommandInv, DataInv
  <1>7. CASE CallbackBegin \/ CallbackPoll \/ CallbackSeen \/ CallbackStatus
    <2>1. /\ pc \in Waits /\ pc' \in Waits
          /\ flags' = flags \/ flags' = flags \ {"callback"}
          /\ UNCHANGED <<stat, bus, dp, initDone>>
      BY <1>7 DEF CallbackBegin, CallbackPoll, CallbackSeen, CallbackStatus, Waits, host,
                 ident
    <2>2. ~Expects /\ ~Expects'
      BY <2>1 DEF Expects, Waits
    <2>3. bus = "idle" /\ ~CmdRaised /\ ~CmdLatched /\ ~DataRaised /\ ~DataLatched
      BY <2>1, <2>2 DEF DataInv, CommandInv, Waits, TypeOK, HostTypeOK
    <2> QED BY <2>1, <2>2, <2>3 DEF CommandInv, DataInv
  <1>8. CASE StopSend
    <2>1. /\ pc = "done" /\ pc' = "cmd" /\ stage' = "stop" /\ bus' = "cmd" /\ dp' = FALSE
          /\ UNCHANGED <<flags, stat, initDone>>
      BY <1>8 DEF StopSend, ident
    <2>2. ~Expects /\ Expects' /\ ~HasData'
      BY <1>0, <2>1 DEF Expects
    <2>3. ~CmdRaised /\ ~CmdLatched /\ ~DataRaised /\ ~DataLatched
      BY <2>1, <2>2 DEF DataInv, CommandInv
    <2>4. CommandInv'
      BY <2>1, <2>2, <2>3 DEF CommandInv, HasData
    <2> QED BY <2>1, <2>2, <2>3, <2>4 DEF DataInv
  <1> QED BY <1>1, <1>2, <1>3, <1>4, <1>5, <1>6, <1>7, <1>8
          DEF Call, XferSetup, InitSetup
-----------------------------------------------------------------------------
(* The card *)

(* In the transfer state the commands that are sent leave it there. *)
LEMMA TranStays ==
  /\ LeadsTo("select") = {"tran"}
  /\ \A c \in {"xfer", "stop", "scrApp", "scr", "widthApp", "width", "switch"} :
       LeadsTo(c) = {"tran"} /\ c # "reset" /\ c # "select"
  BY DEF LeadsTo, TakenIn

(* What may go wrong is settled from the start. *)
LEMMA MaySame ==
  ASSUME [Next]_vars
  PROVE  may' = may
  BY DEF Next, Begin, Call, InitBegin, XferSetup, InitSetup, Setup, InitXferEnds, CmdSend,
         CmdStatus, XferStatus, CallbackBegin, CallbackPoll, CallbackSeen, CallbackStatus,
         StopSend, XferReturn, Irq, MmcIsr, DmaIsr, Host, CmdAnswered, CmdTimesOut,
         BlockOnBus, DataDone, DataTimesOut, BusyEnds, Edma, DmaMove, Slot, CardRemove,
         CardInsert, vars

LEMMA CardStep ==
  ASSUME TypeOK, ControlInv, CommandInv, CardInv, ControlInv', TypeOK', [Next]_vars
  PROVE  CardInv'
  <1> DEFINE selected(i, g, k, s, f) ==
               \/ i \/ (g = "init" /\ k >= 14)
               \/ g = "init" /\ k = 13 /\ ("CC" \in s \/ "cmdComp" \in f)
  <1>0. /\ Command = "select" <=> stage = "init" /\ step = 13
        /\ Command' = "select" <=> stage' = "init" /\ step' = 13
        /\ stage = "init" => ~initDone
    BY CommandIs, CommandIsNext DEF TypeOK, CodeTypeOK, ControlInv
  <1> SUFFICES ASSUME "card" \notin may'
               PROVE  /\ present' /\ "CREM" \notin stat' /\ "CINS" \notin stat'
                      /\ selected(initDone', stage', step', stat', flags') => cstate' = "tran"
    BY <1>0 DEF CardInv
  <1>1. may' = may
    BY MaySame
  <1>2. /\ present /\ "CREM" \notin stat /\ "CINS" \notin stat
        /\ selected(initDone, stage, step, stat, flags) => cstate = "tran"
    BY <1>0, <1>1 DEF CardInv
  <1>3. ASSUME UNCHANGED slot, stat' \subseteq stat,
               selected(initDone', stage', step', stat', flags')
                 => selected(initDone, stage, step, stat, flags)
        PROVE  /\ present' /\ "CREM" \notin stat' /\ "CINS" \notin stat'
               /\ selected(initDone', stage', step', stat', flags') => cstate' = "tran"
    BY <1>2, <1>3 DEF slot
  <1>4. CASE InitBegin \/ (\E kind, n : XferSetup(kind, n)) \/ InitSetup
    BY <1>3, <1>4 DEF InitBegin, XferSetup, InitSetup, Setup, host, ident
  <1>5. CASE CmdSend
    BY <1>3, <1>5 DEF CmdSend, ident
  <1>6. CASE CmdStatus
    <2>1. /\ UNCHANGED <<slot, stat>> /\ CmdRaised
          /\ flags' = flags \ {"cmdComp", "cmdTimeout"}
          /\ \/ UNCHANGED <<stage, step, initDone>>
             \/ stage' = "main" /\ (initDone' = initDone \/ (stage = "init" /\ step = 18))
             \/ /\ UNCHANGED <<stage, initDone>> /\ stage = "init"
                /\ step' >= 14 => step >= 14 \/ (step = 13 /\ "cmdTimeout" \notin flags)
      BY <1>6, CmdStatusCases DEF host
    <2>2. "CC" \notin stat
      BY <2>1 DEF CommandInv, CmdRaised, CmdLatched
    <2>3. "cmdTimeout" \notin flags => "cmdComp" \in flags
      BY <2>1 DEF CmdRaised
    <2> QED BY <1>3, <2>1, <2>2, <2>3
  <1>7. CASE InitXferEnds
    <2>1. /\ UNCHANGED <<slot, stat, flags>> /\ stage = "init"
          /\ \/ stage' = "main" /\ (initDone' = initDone \/ step = 18)
             \/ /\ UNCHANGED <<stage, initDone>>
                /\ step' >= 14 => step >= 14
      BY <1>7, InitXferEndsCases DEF host
    <2>2. "CC" \notin stat /\ "cmdComp" \notin flags
      BY <1>7 DEF InitXferEnds, CommandInv, CmdRaised, CmdLatched
    <2> QED BY <1>3, <2>1, <2>2
  <1>8. CASE XferStatus \/ CallbackBegin \/ CallbackPoll \/ CallbackSeen \/ CallbackStatus
    BY <1>3, <1>8 DEF XferStatus, CallbackBegin, CallbackPoll, CallbackSeen, CallbackStatus,
                      host, ident
  <1>9. CASE StopSend \/ XferReturn
    BY <1>3, <1>9 DEF StopSend, XferReturn, Return, host, ident
  <1>10. CASE MmcIsr
    <2>1. /\ UNCHANGED <<slot, stage, step>> /\ stat' = {}
          /\ flags' = flags \cup Raised(stat)
          /\ initDone' => initDone
      BY <1>2, <1>10 DEF MmcIsr
    <2> QED BY <1>3, <2>1, RaisedIs
  <1>11. CASE \E c \in Channel : DmaIsr(c) \/ DmaMove(c)
    BY <1>3, <1>11 DEF DmaIsr, DmaMove, code, host
  <1>12. CASE CmdAnswered
    <2>1. /\ UNCHANGED <<present, stage, step, initDone, flags>>
          /\ stat' \subseteq stat \cup {"CC", "TC"}
          /\ Command = "reset" \/ cstate' \in LeadsTo(Command)
      BY <1>12 DEF CmdAnswered, code
    <2>2. /\ stage = "main" => Command = "xfer"
          /\ stage = "stop" => Command = "stop"
          /\ stage = "init" /\ step >= 14 =>
               Command \in {"scrApp", "scr", "widthApp", "width", "switch"}
          /\ stage \in {"main", "init", "stop"}
      BY CommandIs, ScriptIs DEF ControlInv, TypeOK, CodeTypeOK
    <2>3. selected(initDone', stage', step', stat', flags') => cstate' = "tran"
      <3> SUFFICES ASSUME selected(initDone', stage', step', stat', flags')
                   PROVE  cstate' = "tran"
        OBVIOUS
      <3>1. \/ Command = "select"
            \/ Command \in {"xfer", "stop", "scrApp", "scr", "widthApp", "width", "switch"}
        BY <1>0, <2>1, <2>2
      <3> QED BY <2>1, <3>1, TranStays
    <2> QED BY <1>2, <2>1, <2>3
  <1>13. CASE CmdTimesOut \/ DataDone \/ DataTimesOut \/ BusyEnds \/ BlockOnBus
    <2>1. /\ UNCHANGED <<slot, stage, step, initDone, flags>>
          /\ "CC" \in stat' => "CC" \in stat
          /\ "CREM" \in stat' => "CREM" \in stat
          /\ "CINS" \in stat' => "CINS" \in stat
      BY <1>13 DEF CmdTimesOut, DataDone, DataTimesOut, BusyEnds, BlockOnBus, code
    <2> QED BY <1>2, <2>1 DEF slot
  <1>14. CASE CardRemove \/ CardInsert
    BY <1>1, <1>14 DEF CardRemove, CardInsert
  <1>15. CASE UNCHANGED vars
    BY <1>3, <1>15 DEF vars, code, host
  <1> QED BY <1>4, <1>5, <1>6, <1>7, <1>8, <1>9, <1>10, <1>11, <1>12, <1>13, <1>14, <1>15
          DEF Next, Begin, Call, Irq, Host, Edma, Slot
-----------------------------------------------------------------------------
(* The blocks *)

(* A transfer is under way while a block may cross the bus. *)
LEMMA BusActive ==
  ASSUME TypeOK, ControlInv, DataInv, bus = "data"
  PROVE  Active /\ pc \in {"cmd", "xfer"} /\ ~CmdFailed /\ ~DataRaised /\ ~DataLatched
  BY DEF DataInv, Expects, Active, Waits

(* The code starts a transfer, or goes on with one. *)
LEMMA MoveBegin ==
  ASSUME TypeOK, ControlInv, CommandInv, DataInv, MoveInv, TypeOK', ControlInv', Steady,
         \/ InitBegin \/ InitSetup \/ CmdSend
         \/ \E kind \in Channel, n \in 1 .. MaxBlks : XferSetup(kind, n)
  PROVE  MoveInv'
  <1>0. /\ HasData <=> stage = "main" \/ (stage = "init" /\ step \in {15, 18})
        /\ HasData' <=> stage' = "main" \/ (stage' = "init" /\ step' \in {15, 18})
        /\ stage \in {"main", "init", "stop"} /\ stage' \in {"main", "init", "stop"}
        /\ stage = "stop" => pc \in {"cmd", "xfer"} \cup Waits
    BY CommandIs, CommandIsNext DEF TypeOK, CodeTypeOK, ControlInv
  <1>1. ASSUME pc \in {"idle", "setup", "send"}
        PROVE  ~Active /\ Quiet /\ stage # "stop"
    BY <1>0, <1>1 DEF Active, Waits, MoveInv
  <1>2. CASE InitBegin
    <2>1. /\ pc = "idle" /\ pc' = "send" /\ stage' = "init" /\ step' = 1
          /\ UNCHANGED <<ipr, dir, fifo>>
      BY <1>2 DEF InitBegin, host, edma
    <2>2. ~HasData' /\ ~Active' /\ Quiet'
      BY <1>0, <1>1, <2>1 DEF Active, Quiet, Waits
    <2> QED BY <2>1, <2>2 DEF MoveInv
  <1>3. ASSUME NEW kind \in Channel, NEW n \in Nat \ {0}, Setup(kind, n), pc \in {"idle", "setup"}
        PROVE  MoveInv'
    <2>1. /\ pc' = "send" /\ UNCHANGED <<stage, ipr, dir, fifo>>
          /\ "callback" \notin flags' /\ left' = [left EXCEPT ![kind] = n]
          /\ op' = [kind |-> kind, n |-> n] /\ moved' = 0
      BY <1>3 DEF Setup, host, BlockCount
    <2>2. ~Active' /\ Quiet' /\ stage' # "stop"
      BY <1>1, <1>3, <2>1 DEF Active, Quiet, Waits
    <2>3. left'[op'.kind] = op'.n /\ op'.n > 0
      BY <1>3, <2>1 DEF TypeOK, HostTypeOK
    <2> QED BY <2>1, <2>2, <2>3 DEF MoveInv
  <1>4. CASE CmdSend /\ HasData
    <2>1. /\ pc = "send" /\ pc' = "cmd" /\ bus' = "cmd" /\ dp' = HasData
          /\ stat' = stat \ {"TC"} /\ dir' = op.kind /\ sent' = 0 /\ fifo' = 0
          /\ UNCHANGED <<flags, stage, step, op, left, ipr, moved, status>>
      BY <1>4 DEF CmdSend, ident, edma
    <2>2. HasData' = HasData
      BY <2>1, CommandSame
    <2>3. Quiet /\ stage # "stop"
      BY <1>1, <2>1
    <2>4. /\ "callback" \notin flags /\ left[op.kind] = op.n /\ moved = 0 /\ op.n > 0
          /\ op.n \in Nat
      BY <1>4, <2>1 DEF MoveInv, TypeOK, CodeTypeOK
    <2>5. "xferComp" \notin flags
      BY <1>4, <2>1 DEF DataInv, Expects
    <2>6. BlocksInv'
      BY <1>4, <2>1, <2>3, <2>4, <2>5 DEF BlocksInv, Quiet, Waits
    <2> QED BY <1>4, <2>1, <2>2, <2>3, <2>6 DEF MoveInv, Active
  <1>5. CASE CmdSend /\ ~HasData
    <2>1. /\ pc = "send" /\ pc' = "cmd"
          /\ UNCHANGED <<stage, step, dir, fifo, ipr>>
      BY <1>5 DEF CmdSend, ident, edma
    <2>2. HasData' = HasData
      BY <2>1, CommandSame
    <2>3. ~Active' /\ Quiet' /\ stage' # "stop"
      BY <1>1, <1>5, <2>1, <2>2 DEF Active, Quiet
    <2> QED BY <2>1, <2>3 DEF MoveInv
  <1>6. ASSUME NEW kind \in Channel, NEW n \in 1 .. MaxBlks, XferSetup(kind, n)
        PROVE  MoveInv'
    BY <1>3, <1>6, SizeAssumption DEF XferSetup
  <1>7. CASE InitSetup
    BY <1>3, <1>7 DEF InitSetup, Channel
  <1> QED BY <1>2, <1>4, <1>5, <1>6, <1>7

(* Waiting for the command and for the data. *)
LEMMA MoveWait ==
  ASSUME TypeOK, ControlInv, CommandInv, DataInv, MoveInv, TypeOK', ControlInv', Steady,
         CmdStatus \/ XferStatus \/ CallbackBegin
  PROVE  MoveInv'
  <1>0. /\ HasData <=> stage = "main" \/ (stage = "init" /\ step \in {15, 18})
        /\ HasData' <=> stage' = "main" \/ (stage' = "init" /\ step' \in {15, 18})
        /\ stage \in {"main", "init", "stop"} /\ stage' \in {"main", "init", "stop"}
    BY CommandIs, CommandIsNext DEF TypeOK, CodeTypeOK, ControlInv
  <1>1. CASE CmdStatus
    <2>1. /\ pc = "cmd" /\ CmdRaised /\ flags' = flags \ {"cmdComp", "cmdTimeout"}
          /\ UNCHANGED <<op, status, stat, bus, dp, dir, sent, fifo, left, ipr, moved>>
      BY <1>1, CmdStatusCases DEF host, edma
    <2>2. CASE pc' = "xfer" /\ stage = "stop" /\ UNCHANGED stage
      <3>1. ~Active /\ ~Active' /\ Quiet
        BY <2>2 DEF Active, MoveInv
      <3> QED BY <2>1, <2>2, <3>1 DEF MoveInv, Quiet
    <2>3. CASE /\ pc' = "xfer" /\ stage # "stop" /\ HasData /\ "cmdTimeout" \notin flags
               /\ UNCHANGED <<stage, step>>
      <3>1. Active /\ Active'
        BY <1>0, <2>1, <2>3 DEF Active
      <3>2. BlocksInv
        BY <3>1 DEF MoveInv
      <3>3. BlocksInv'
        BY <2>1, <2>3, <3>2 DEF BlocksInv, CmdFailed, Waits
      <3> QED BY <2>3, <3>1, <3>3 DEF MoveInv
    <2>4. CASE /\ stage # "stop" /\ ("cmdTimeout" \in flags \/ ~HasData)
               /\ pc' \in {"idle", "setup", "send"} /\ stage' # "stop"
               /\ pc' = "send" => ~HasData'
               /\ pc' = "idle" => result' # "ok"
      <3>1. ~Active'
        BY <2>4 DEF Active, Waits
      <3>2. Quiet
        <4>1. CASE HasData
          <5>1. BlocksInv
            BY <2>1, <2>4, <4>1 DEF MoveInv, Active
          <5> QED BY <2>4, <4>1, <5>1 DEF BlocksInv, CmdFailed, Quiet
        <4>2. CASE ~HasData
          BY <4>2 DEF MoveInv, Active
        <4> QED BY <4>1, <4>2
      <3> QED BY <2>1, <2>4, <3>1, <3>2 DEF MoveInv, Quiet
    <2>5. \/ pc' = "xfer" /\ stage = "stop" /\ UNCHANGED stage
          \/ /\ pc' = "xfer" /\ stage # "stop" /\ HasData /\ "cmdTimeout" \notin flags
             /\ UNCHANGED <<stage, step>>
          \/ /\ stage # "stop" /\ ("cmdTimeout" \in flags \/ ~HasData)
             /\ pc' \in {"idle", "setup", "send"} /\ stage' # "stop"
             /\ pc' = "send" => stage' = "init" /\ step' \notin {15, 18}
             /\ pc' = "idle" => result' # "ok"
      BY <1>0, <1>1, CmdStatusCases
    <2> QED BY <1>0, <2>2, <2>3, <2>4, <2>5
  <1>2. CASE XferStatus
    <2>1. /\ pc = "xfer" /\ DataRaised /\ pc' = "ended"
          /\ flags' = flags \ {"xferComp", "dataTimeout"}
          /\ status' = IF "dataTimeout" \in flags THEN 0 ELSE 1
          /\ UNCHANGED <<stage, step, op, stat, bus, dp, dir, sent, fifo, left, ipr, moved>>
      BY <1>2 DEF XferStatus, XferEnded, DataRaised, host, edma, ident
    <2>2. Active' <=> Active
      BY <1>0, <2>1 DEF Active, Waits
    <2>3. ASSUME Active PROVE BlocksInv'
      <3>1. BlocksInv /\ (status' = 1 => "xferComp" \in flags)
        BY <2>1, <2>3 DEF MoveInv, DataRaised
      <3> QED BY <2>1, <3>1 DEF BlocksInv, CmdFailed
    <2> QED BY <2>1, <2>2, <2>3 DEF MoveInv, Quiet
  <1>3. CASE CallbackBegin
    <2>1. /\ pc = "ended" /\ pc' = (IF dp THEN "callback" ELSE "done")
          /\ UNCHANGED <<flags, stage, step, op, status, stat, bus, dp, dir, sent, fifo, left,
                         ipr, moved>>
      BY <1>3 DEF CallbackBegin, WaitsForCallback, host, edma, ident
    <2>2. Active' <=> Active
      BY <1>0, <2>1 DEF Active, Waits
    <2>3. ASSUME Active PROVE BlocksInv' /\ pc' = "callback"
      <3>1. BlocksInv
        BY <2>3 DEF MoveInv
      <3> QED BY <2>1, <3>1 DEF BlocksInv, CmdFailed, Waits
    <2> QED BY <2>1, <2>2, <2>3 DEF MoveInv, Quiet
  <1> QED BY <1>1, <1>2, <1>3

(* The end of the waits: either way the EDMA is through, and if the data   *)
(* came without a timeout all of it has been moved.                        *)
LEMMA MoveEnd ==
  ASSUME TypeOK, ControlInv, CommandInv, DataInv, MoveInv, TypeOK', ControlInv', Steady,
         \/ CallbackPoll \/ CallbackSeen \/ CallbackStatus \/ StopSend \/ XferReturn
         \/ InitXferEnds
  PROVE  MoveInv'
  <1>0. /\ HasData <=> stage = "main" \/ (stage = "init" /\ step \in {15, 18})
        /\ HasData' <=> stage' = "main" \/ (stage' = "init" /\ step' \in {15, 18})
        /\ stage \in {"main", "init", "stop"} /\ stage' \in {"main", "init", "stop"}
    BY CommandIs, CommandIsNext DEF TypeOK, CodeTypeOK, ControlInv
  <1>1. ASSUME pc' \in Waits, pc \in Waits,
               UNCHANGED <<stage, step, op, stat, bus, dp, dir, sent, fifo, left, ipr, moved>>,
               flags' \subseteq flags, "xferComp" \in flags' <=> "xferComp" \in flags,
               "cmdTimeout" \in flags' <=> "cmdTimeout" \in flags,
               status' = 1 => status = 1,
               Active /\ BlocksInv /\ pc' \in {"waited", "done"} =>
                 Quiet /\ (status = 1 => moved = op.n),
               ~Active => Quiet
        PROVE  MoveInv'
    <2>1. Active' <=> Active
      BY <1>0, <1>1 DEF Active
    <2>2. Active => BlocksInv
      BY DEF MoveInv
    <2>3. Active => BlocksInv'
      BY <1>1, <2>2 DEF BlocksInv, CmdFailed
    <2>4. Quiet' = Quiet
      BY <1>1 DEF Quiet
    <2>5. stage = "stop" => moved = op.n
      BY DEF MoveInv
    <2> QED BY <1>1, <2>1, <2>2, <2>3, <2>4, <2>5 DEF MoveInv, Waits
  <1>2. ~Active => Quiet
    BY DEF MoveInv
  <1>3. ASSUME Active, BlocksInv, pc \in Waits, ipr = {},
               left[dir] = 0 \/ (dir = "read" /\ fifo = 0) \/ dir = "write"
        PROVE  Quiet /\ (status = 1 => moved = op.n)
    <2>1. /\ left[dir] + moved = op.n /\ sent <= op.n
          /\ IF dir = "read" THEN moved + fifo = sent ELSE moved = sent + fifo
          /\ status = 1 => sent = op.n
      BY <1>3 DEF BlocksInv
    <2>2. /\ left[dir] \in Nat /\ moved \in Nat /\ op.n \in Nat /\ sent \in Nat /\ fifo \in Nat
          /\ dir \in {"read", "write"}
      BY DEF TypeOK, HostTypeOK, CodeTypeOK, Channel
    <2> QED BY <1>3, <2>1, <2>2 DEF Quiet
  <1>4. CASE CallbackPoll
    <2>1. /\ pc = "callback" /\ timeOut \in Nat
          /\ timeOut > 1 \/ ~DmaBusy
          /\ pc' = (IF timeOut = 0 THEN "waited" ELSE "callback")
          /\ UNCHANGED <<stage, step, op, flags, status, stat, bus, dp, dir, sent, fifo, left,
                         ipr, moved>>
      BY <1>4 DEF CallbackPoll, Steady, host, edma, ident, TypeOK, CodeTypeOK
    <2>2. ASSUME Active, BlocksInv, pc' \in {"waited", "done"}
          PROVE  Quiet /\ (status = 1 => moved = op.n)
      <3>1. ~DmaBusy
        BY <2>1, <2>2
      <3>2. ipr = {} /\ (left[dir] = 0 \/ (dir = "read" /\ fifo = 0) \/ dir = "write")
        BY <3>1 DEF DmaBusy, DmaReady, TypeOK, HostTypeOK, Channel
      <3> QED BY <1>3, <2>1, <2>2, <3>2 DEF Waits
    <2> QED BY <1>1, <1>2, <2>1, <2>2 DEF Waits
  <1>5. CASE CallbackSeen
    <2>1. /\ pc = "callback" /\ pc' = "waited" /\ "callback" \in flags
          /\ UNCHANGED <<stage, step, op, flags, status, stat, bus, dp, dir, sent, fifo, left,
                         ipr, moved>>
      BY <1>5 DEF CallbackSeen, host, edma, ident
    <2>2. Active /\ BlocksInv => Quiet /\ (status = 1 => moved = op.n)
      BY <1>3, <2>1 DEF BlocksInv, Waits
    <2> QED BY <1>1, <1>2, <2>1, <2>2 DEF Waits
  <1>6. CASE CallbackStatus
    <2>1. /\ pc = "waited" /\ pc' = "done" /\ flags' = flags \ {"callback"}
          /\ status' = IF timeOut = 0 THEN 0 ELSE status
          /\ UNCHANGED <<stage, step, op, stat, bus, dp, dir, sent, fifo, left, ipr, moved>>
      BY <1>6 DEF CallbackStatus, host, edma, ident
    <2>2. Active => Quiet /\ (status = 1 => moved = op.n)
      BY <2>1 DEF MoveInv
    <2> QED BY <1>1, <1>2, <2>1, <2>2 DEF Waits
  <1>7. CASE StopSend
    <2>1. /\ pc = "done" /\ stage = "main" /\ status = 1
          /\ pc' = "cmd" /\ stage' = "stop"
          /\ UNCHANGED <<op, dir, fifo, ipr, moved>>
      BY <1>7 DEF StopSend, edma
    <2>2. Quiet /\ moved = op.n /\ ~Active'
      BY <1>0, <2>1 DEF MoveInv, Active, Waits
    <2> QED BY <2>1, <2>2 DEF MoveInv, Quiet
  <1>8. CASE XferReturn
    <2>1. /\ pc = "done" /\ stage # "init" /\ pc' = "idle" /\ stage' = "main"
          /\ result' = (IF status = 1 THEN "ok" ELSE "fail")
          /\ UNCHANGED <<op, dir, fifo, ipr, moved>>
      BY <1>8 DEF XferReturn, Return, host, edma
    <2>2. Quiet /\ ~Active' /\ (status = 1 => moved = op.n)
      BY <1>0, <2>1 DEF MoveInv, Active, Waits
    <2> QED BY <2>1, <2>2 DEF MoveInv, Quiet
  <1>9. CASE InitXferEnds
    <2>1. /\ pc = "done" /\ pc' \in {"idle", "setup", "send"} /\ stage' # "stop"
          /\ pc' = "send" => stage' = "init" /\ step' \notin {15, 18}
          /\ pc' = "idle" => result' # "ok"
          /\ UNCHANGED <<dir, fifo, ipr>>
      BY <1>9, InitXferEndsCases DEF host, edma
    <2>2. Quiet /\ ~Active'
      BY <2>1 DEF MoveInv, Active, Waits
    <2> QED BY <1>0, <2>1, <2>2 DEF MoveInv, Quiet
  <1> QED BY <1>4, <1>5, <1>6, <1>7, <1>8, <1>9

(* The handlers, the controller and the EDMA move the blocks on. *)
LEMMA MoveOutside ==
  ASSUME TypeOK, ControlInv, CommandInv, DataInv, CardInv, MoveInv, Steady, Outside
  PROVE  MoveInv'
  <1>0. /\ UNCHANGED <<pc, stage, step, op, status, timeOut, result, may, HasData>>
        /\ Active' = Active
    <2>1. UNCHANGED <<pc, stage, step, op, status, timeOut, result, may>>
      BY OutsideCode
    <2> QED BY <2>1, CommandSame DEF Active
  <1>1. /\ left[dir] \in Nat /\ moved \in Nat /\ op.n \in Nat /\ sent \in Nat /\ fifo \in Nat
        /\ dir \in Channel /\ left \in [Channel -> Nat]
    BY DEF TypeOK, HostTypeOK, CodeTypeOK
  <1>2. Active => BlocksInv
    BY DEF MoveInv
  <1>3. bus = "data" => /\ Active /\ pc \in {"cmd", "xfer"}
                        /\ ~CmdFailed /\ ~DataRaised /\ ~DataLatched
    BY BusActive
  <1>4. ASSUME UNCHANGED <<dir, fifo, left, ipr, moved>>, "callback" \in flags' => "callback" \in flags,
               Active => BlocksInv'
        PROVE  MoveInv'
    BY <1>0, <1>4 DEF MoveInv, Quiet
  <1>5. CASE MmcIsr
    <2>1. /\ UNCHANGED <<dir, sent, fifo, left, ipr, moved, bus, dp>>
          /\ stat' = {} /\ flags' = flags \cup Raised(stat)
      BY <1>5 DEF MmcIsr, edma, CardInv, Steady
    <2>2. /\ "callback" \in flags' <=> "callback" \in flags
          /\ CmdFailed' <=> CmdFailed
          /\ "TC" \in stat' \/ "xferComp" \in flags' <=> "TC" \in stat \/ "xferComp" \in flags
      BY <2>1, RaisedIs DEF CmdFailed
    <2>3. Active => BlocksInv'
      BY <1>0, <1>2, <2>1, <2>2 DEF BlocksInv
    <2> QED BY <1>4, <2>1, <2>2, <2>3
  <1>6. ASSUME NEW c \in Channel, DmaIsr(c)
        PROVE  MoveInv'
    <2>1. /\ c \in ipr /\ ipr' = ipr \ {c} /\ flags' = flags \cup {"callback"}
          /\ left' = [left EXCEPT ![c] = 0]
          /\ UNCHANGED <<stat, bus, dp, dir, sent, fifo, moved>>
      BY <1>6 DEF DmaIsr, host
    <2>2. ~Quiet /\ Active /\ ~(pc \in {"waited", "done"})
      BY <2>1 DEF Quiet, MoveInv
    <2>3. c = dir /\ left[dir] = 0
      BY <1>2, <2>1, <2>2 DEF BlocksInv
    <2>4. ipr' = {} /\ left' = left
      BY <1>1, <1>2, <2>1, <2>2, <2>3 DEF BlocksInv
    <2>5. CmdFailed' <=> CmdFailed
      BY <2>1 DEF CmdFailed
    <2>6. BlocksInv'
      BY <1>0, <1>2, <2>1, <2>2, <2>3, <2>4, <2>5 DEF BlocksInv
    <2> QED BY <1>0, <2>1, <2>2, <2>6 DEF MoveInv, Active, Waits
  <1>7. CASE CmdAnswered \/ CmdTimesOut
    <2>1. /\ bus = "cmd" /\ bus' # "cmd"
          /\ UNCHANGED <<flags, dp, dir, sent, fifo, left, ipr, moved>>
          /\ "TC" \in stat' => "TC" \in stat \/ Command = "select"
          /\ "xferComp" \in flags' <=> "xferComp" \in flags
      BY <1>7 DEF CmdAnswered, CmdTimesOut, edma
    <2>3. ASSUME Active PROVE BlocksInv'
      <3>1. Command # "select"
        BY <2>3, CommandIs DEF Active, ControlInv
      <3> QED BY <1>0, <1>2, <2>1, <2>3, <3>1 DEF BlocksInv
    <2> QED BY <1>4, <2>1, <2>3
  <1>8. CASE BlockOnBus
    <2>1. /\ bus = "data" /\ sent < op.n /\ sent' = sent + 1
          /\ IF dir = "read" THEN fifo' = fifo + 1 ELSE fifo > 0 /\ fifo' = fifo - 1
          /\ UNCHANGED <<flags, stat, bus, dp, dir, left, ipr, moved>>
      BY <1>8 DEF BlockOnBus, edma
    <2>2. /\ Active /\ pc \in {"cmd", "xfer"} /\ ~CmdFailed
          /\ "TC" \notin stat /\ "xferComp" \notin flags
      BY <1>3, <2>1 DEF DataRaised, DataLatched
    <2>3. BlocksInv
      BY <1>2, <2>2
    <2>4. /\ sent' <= op.n /\ left[dir] + moved = op.n
          /\ IF dir = "read" THEN moved + fifo' = sent' ELSE moved = sent' + fifo'
      BY <1>1, <2>1, <2>3 DEF BlocksInv
    <2>5. CmdFailed' <=> CmdFailed
      BY <2>1 DEF CmdFailed
    <2>6. BlocksInv'
      BY <1>0, <2>1, <2>2, <2>3, <2>4, <2>5 DEF BlocksInv, Waits
    <2> QED BY <1>0, <2>1, <2>2, <2>6 DEF MoveInv, Active, Waits
  <1>9. CASE DataDone \/ DataTimesOut
    <2>1. /\ bus = "data" /\ bus' = "idle"
          /\ \/ stat' = stat \cup {"TC"} /\ sent = op.n
             \/ stat' = stat \cup {"DTO"}
          /\ UNCHANGED <<flags, dp, dir, sent, fifo, left, ipr, moved>>
      BY <1>9 DEF DataDone, DataTimesOut, edma
    <2>2. CmdFailed' <=> CmdFailed
      BY <2>1 DEF CmdFailed
    <2>3. Active => BlocksInv'
      BY <1>0, <1>2, <2>1, <2>2 DEF BlocksInv
    <2> QED BY <1>4, <2>1, <2>3
  <1>10. CASE BusyEnds
    <2>1. /\ bus = "busy" /\ UNCHANGED <<flags, dir, fifo, left, ipr, moved>>
      BY <1>10 DEF BusyEnds, edma
    <2>2. ~Active
      BY <2>1 DEF DataInv, Active
    <2> QED BY <1>4, <2>1, <2>2
  <1>11. ASSUME NEW c \in Channel, DmaMove(c)
         PROVE  MoveInv'
    <2>1. /\ c = dir /\ left[dir] > 0
          /\ c = "read" => fifo > 0
          /\ c = "write" => bus = "data"
          /\ fifo' = (IF c = "read" THEN fifo - 1 ELSE fifo + 1)
          /\ left' = [left EXCEPT ![c] = @ - 1]
          /\ ipr' = (IF left[c] = 1 THEN ipr \cup {c} ELSE ipr)
          /\ moved' = moved + 1
          /\ UNCHANGED <<flags, stat, bus, dp, dir, sent>>
      BY <1>11 DEF DmaMove, DmaReady
    <2>2. Active /\ pc \notin {"waited", "done"}
      BY <1>1, <1>3, <2>1 DEF MoveInv, Quiet, Channel
    <2>3. BlocksInv
      BY <1>2, <2>2
    <2>4. ~(bus = "cmd") /\ ~CmdFailed
      BY <1>1, <1>3, <2>1, <2>3 DEF BlocksInv, Channel
    <2>5. left'[dir] = left[dir] - 1
      BY <1>1, <2>1
    <2>6. /\ left'[dir] + moved' = op.n
          /\ IF dir = "read" THEN moved' + fifo' = sent ELSE moved' = sent + fifo'
      BY <1>1, <2>1, <2>3, <2>5 DEF BlocksInv
    <2>7. "callback" \notin flags /\ ipr = {} /\ ipr' \subseteq {dir}
      BY <2>1, <2>3 DEF BlocksInv
    <2>8. ipr' # {} => left'[dir] = 0
      BY <1>1, <2>1, <2>5, <2>7
    <2>9. CmdFailed' <=> CmdFailed
      BY <2>1 DEF CmdFailed
    <2>10. BlocksInv'
      BY <1>0, <2>1, <2>3, <2>4, <2>6, <2>7, <2>8, <2>9 DEF BlocksInv
    <2> QED BY <1>0, <2>2, <2>10 DEF MoveInv, Active, Waits
  <1>12. CASE CardRemove \/ CardInsert
    BY <1>12 DEF CardRemove, CardInsert, Steady
  <1>13. CASE UNCHANGED vars
    <2>1. UNCHANGED <<flags, stat, bus, dp, dir, sent, fifo, left, ipr, moved>>
      BY <1>13 DEF vars, host, edma
    <2>2. Active => BlocksInv'
      BY <1>0, <1>2, <2>1 DEF BlocksInv, CmdFailed
    <2> QED BY <1>4, <2>1, <2>2
  <1> QED BY <1>5, <1>6, <1>7, <1>8, <1>9, <1>10, <1>11, <1>12, <1>13
          DEF Outside, Irq, Host, Edma, Slot

LEMMA MoveStep ==
  ASSUME TypeOK, ControlInv, CommandInv, DataInv, CardInv, MoveInv, TypeOK', ControlInv',
         [Next]_vars
  PROVE  MoveInv'
  <1>1. CASE Steady
    <2>1. Outside \/ Begin \/ Call
      BY DEF Next, Outside
    <2> QED BY <1>1, <2>1, MoveBegin, MoveWait, MoveEnd, MoveOutside DEF Begin, Call
  <1>2. CASE ~Steady
    BY <1>2, MaySame DEF MoveInv, Steady
  <1> QED BY <1>1, <1>2
-----------------------------------------------------------------------------
(* The invariant *)

LEMMA InitIInv == Init => IInv
  <1> SUFFICES ASSUME Init
               PROVE  IInv
    OBVIOUS
  <1>1. TypeOK
    <2>1. CodeTypeOK
      <3>1. op \in [kind : Channel, n : Nat]
        BY DEF Init, Channel
      <3>2. /\ pc \in Pc /\ stage \in {"main", "init", "stop"} /\ status \in {0, 1}
            /\ step \in 0 .. 18 /\ timeOut \in Nat
        BY DEF Init, Pc
      <3>3. initDone \in BOOLEAN
        BY DEF Init
      <3> QED BY <3>1, <3>2, <3>3 DEF CodeTypeOK
    <2>2. left \in [Channel -> Nat] /\ dir \in Channel
      BY DEF Init, Channel
    <2>3. HostTypeOK
      BY <2>2 DEF Init, HostTypeOK
    <2> QED BY <2>1, <2>3 DEF TypeOK
  <1>2. /\ pc = "idle" /\ stage = "main" /\ flags = {} /\ stat = {} /\ bus = "idle"
        /\ dir = "read" /\ fifo = 0 /\ ipr = {} /\ present = TRUE /\ initDone = FALSE
        /\ result = "none"
    BY DEF Init
  <1>3. ControlInv
    BY <1>2 DEF ControlInv, Waits
  <1>4. Command # "select" /\ ~Expects /\ ~Active
    BY <1>1, <1>2, CommandIs DEF Expects, Active, Waits
  <1>5. CommandInv /\ DataInv
    BY <1>2, <1>4 DEF CommandInv, DataInv, CmdRaised, CmdLatched
  <1>6. CardInv
    BY <1>2, <1>4 DEF CardInv
  <1>7. MoveInv
    BY <1>2, <1>4 DEF MoveInv, Quiet
  <1> QED BY <1>1, <1>3, <1>5, <1>6, <1>7 DEF IInv

LEMMA NextIInv ==
  ASSUME IInv, [Next]_vars
  PROVE  IInv'
  <1>1. TypeOK /\ ControlInv /\ CommandInv /\ DataInv /\ CardInv /\ MoveInv
    BY DEF IInv
  <1>2. TypeOK'
    BY <1>1, CodeTypeStep, HostTypeStep DEF TypeOK
  <1>3. ControlInv'
    BY <1>1, <1>2, ControlStep
  <1>4. CommandInv' /\ DataInv'
    BY <1>1, <1>2, <1>3, FlagsIsr, FlagsSame, FlagsHost, FlagsCode
       DEF Next, Begin, Irq, Host, Edma, Slot
  <1>5. CardInv'
    BY <1>1, <1>2, <1>3, CardStep
  <1>6. MoveInv'
    BY <1>1, <1>2, <1>3, MoveStep
  <1> QED BY <1>2, <1>3, <1>4, <1>5, <1>6 DEF IInv

(* What the calls of mmc_api.c, their handlers, the controller, the EDMA   *)
(* and the card keep at each step.                                         *)
THEOREM IInvHolds == Spec => []IInv
  BY InitIInv, NextIInv, PTL DEF Spec

(* Between two calls no flag of a command or of its data is up or on its   *)
(* way, whatever timed out in the call before and whether the card was     *)
(* changed: the waits of mmc0_get_cmd_status and mmc0_get_xfer_status end  *)
(* on the answer to the command that was sent for them.                    *)
THEOREM NoStaleFlagHolds == Spec => []NoStaleFlag
  <1>1. ASSUME IInv
        PROVE  NoStaleFlag
    <2> SUFFICES ASSUME pc = "idle"
                 PROVE  /\ flags \subseteq {"callback"} \cup (IF initDone THEN {} ELSE {"xferComp"})
                        /\ stat \subseteq {"CREM", "CINS"}
      BY DEF NoStaleFlag
    <2>1. ~Expects /\ ~CmdRaised /\ ~CmdLatched
      BY <1>1 DEF Expects, IInv, CommandInv
    <2>2. /\ "dataTimeout" \notin flags /\ "DTO" \notin stat /\ "TC" \notin stat
          /\ "xferComp" \in flags => ~initDone
      BY <1>1, <2>1 DEF IInv, DataInv
    <2>3. flags \subseteq Flag /\ stat \subseteq Bit
      BY <1>1 DEF IInv, TypeOK, HostTypeOK
    <2> QED BY <2>1, <2>2, <2>3 DEF CmdRaised, CmdLatched, Flag, Bit
  <1> QED BY <1>1, IInvHolds, PTL

(* The drive that disk_initialize marks as initialised has a card in the   *)
(* transfer state, although MMCCardInit goes on when the power-up loop has *)
(* run out and after some commands that failed, unless the card is changed.*)
THEOREM InitMeansReadyHolds == Spec => []InitMeansReady
  <1>1. IInv => InitMeansReady
    BY DEF IInv, CardInv, InitMeansReady
  <1> QED BY <1>1, IInvHolds, PTL

(* MMCReadCmdSend and MMCWriteCmdSend that return 1 have moved every block *)
(* of the call, for any number of blocks and polls, as long as the EDMA    *)
(* does not outlast the polls and the card stays where it is.              *)
THEOREM SuccessMeansMovedHolds == Spec => []SuccessMeansMoved
  <1>1. IInv => SuccessMeansMoved
    BY DEF IInv, MoveInv, SuccessMeansMoved, Steady
  <1> QED BY <1>1, IInvHolds, PTL

(* After the call has returned, with or without success, no late EDMA      *)
(* transfer touches the caller's buffer, under the same conditions.        *)
THEOREM BufferLeftAloneHolds == Spec => BufferLeftAlone
  <1>1. ASSUME IInv, [Next]_vars, pc = "idle", Steady
        PROVE  moved' <= moved
    <2>1. /\ moved \in Nat /\ dir \in Channel
          /\ Quiet /\ bus # "data"
      BY <1>1 DEF IInv, TypeOK, HostTypeOK, MoveInv, Active, Waits, DataInv, Expects
    <2>2. ASSUME NEW c \in Channel
          PROVE  ~DmaMove(c)
      BY <2>1, <2>2 DEF DmaMove, DmaReady, Quiet, Channel
    <2>3. moved' = moved \/ moved' = 0
      BY <1>1, <2>2
         DEF Next, Begin, Call, InitBegin, XferSetup, InitSetup, Setup, InitXferEnds, CmdSend,
             CmdStatus, CmdEnded, XferStatus, XferEnded, CallbackBegin, CallbackPoll,
             CallbackSeen, CallbackStatus, StopSend, XferReturn, Irq, MmcIsr, DmaIsr, Host,
             CmdAnswered, CmdTimesOut, BlockOnBus, DataDone, DataTimesOut, BusyEnds, Edma,
             Slot, CardRemove, CardInsert, vars
    <2> QED BY <2>1, <2>3
  <1>2. ASSUME IInv, [Next]_vars
        PROVE  [pc = "idle" /\ may \cap {"slow", "card"} = {} => moved' <= moved]_vars
    BY <1>1, <1>2 DEF Steady
  <1> QED BY <1>2, IInvHolds, PTL DEF Spec, BufferLeftAlone
=============================================================================
