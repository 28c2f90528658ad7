----------------------------- MODULE Superloop -----------------------------
(***************************************************************************)
(* The endless loop of main.c and its two mailboxes, each a buffer and a   *)
(* counter that an interrupt bumps and the loop compares with the count it *)
(* saw last:                                                               *)
(*                                                                         *)
(*   console  uart0_isr stores a keystroke in uart0_rbuf; the loop hands   *)
(*            it to char_collect and clears the buffer;                    *)
(*   UDP      udp_incoming, called by lwIP within eth0_rx_isr, copies a    *)
(*            datagram to udp_buf; udp_rx_process prints and logs it.      *)
(*                                                                         *)
(* Nothing masks interrupts here.  The counters are not volatile: the      *)
(* compiled loop loads a counter once, and an increment between that load  *)
(* and the store of the masked value is lost.  A datagram is copied out of *)
(* udp_buf in two parts, between which another one may arrive.             *)
(***************************************************************************)
EXTENDS Naturals

CONSTANTS Mask,         \* 0x7fffffff
          Word,         \* 2^32
          MaxKey,       \* bound: keystrokes; they are numbered from 1
          MaxPacket     \* bound: datagrams; they are numbered from 1

ASSUME WidthAssumption == Mask \in Nat /\ Word = 2 * (Mask + 1)
ASSUME BoundAssumption == MaxKey \in Nat /\ MaxPacket \in Nat

VARIABLES
  uart0_irq_count, uart0_irq_old, uart0_rbuf,   \* console mailbox, 0: empty
  udp_rx_count, udp_rx_old, udp_buf,            \* UDP mailbox, its two parts
  pc, latch, char, part,                        \* the loop and its registers
  keys, packets,                                \* history: how many arrived,
  collected, processed, logged                  \* the last key collected, the
                                                \* last datagram taken up, the
                                                \* two parts last logged

console == <<uart0_irq_count, uart0_irq_old, uart0_rbuf>>
udp     == <<udp_rx_count, udp_rx_old, udp_buf>>
local   == <<latch, char, part>>
history == <<keys, packets, collected, processed, logged>>
vars    == <<console, udp, pc, local, history>>

Masked(n) == n % (Mask + 1)
Bumped(n) == (n + 1) % Word

Init ==
  /\ uart0_irq_count = 0 /\ uart0_irq_old = 0 /\ uart0_rbuf = 0
  /\ udp_rx_count = 0 /\ udp_rx_old = 0 /\ udp_buf = <<0, 0>>
  /\ pc = "udp" /\ latch = 0 /\ char = 0 /\ part = 0
  /\ keys = 0 /\ packets = 0 /\ collected = 0 /\ processed = 0
  /\ logged = <<0, 0>>
-----------------------------------------------------------------------------
(* Interrupts *)

(* A character: uart0_isr of the RHR interrupt. *)
UartRx ==
  /\ keys < MaxKey
  /\ keys' = keys + 1
  /\ uart0_rbuf' = keys + 1
  /\ uart0_irq_count' = Bumped(uart0_irq_count)
  /\ UNCHANGED <<uart0_irq_old, udp, pc, local, packets, collected, processed,
                 logged>>

(* A datagram for the bound port: udp_incoming. *)
UdpIncoming ==
  /\ packets < MaxPacket
  /\ packets' = packets + 1
  /\ udp_buf' = <<packets + 1, packets + 1>>
  /\ udp_rx_count' = Bumped(udp_rx_count)
  /\ UNCHANGED <<udp_rx_old, console, pc, local, keys, collected, processed,
                 logged>>
-----------------------------------------------------------------------------
(* The UDP half of the loop *)

UdpPoll ==
  /\ pc = "udp"
  /\ latch' = Masked(udp_rx_count)
  /\ pc' = IF udp_rx_old = udp_rx_count THEN "uart" ELSE "udpLatched"
  /\ UNCHANGED <<console, udp, char, part, history>>

UdpLatch ==
  /\ pc = "udpLatched"
  /\ udp_rx_count' = latch /\ udp_rx_old' = latch
  /\ pc' = "process"
  /\ UNCHANGED <<console, udp_buf, local, history>>

(* udp_rx_process: one part of the datagram, then the other. *)
ProcessFirst ==
  /\ pc = "process"
  /\ part' = udp_buf[1]
  /\ processed' = udp_buf[1]
  /\ pc' = "log"
  /\ UNCHANGED <<console, udp, latch, char, keys, packets, collected, logged>>

ProcessRest ==
  /\ pc = "log"
  /\ logged' = <<part, udp_buf[2]>>
  /\ pc' = "uart"
  /\ UNCHANGED <<console, udp, local, keys, packets, collected, processed>>
-----------------------------------------------------------------------------
(* The console half of the loop *)

UartPoll ==
  /\ pc = "uart"
  /\ latch' = Masked(uart0_irq_count)
  /\ pc' = IF uart0_irq_old = uart0_irq_count THEN "udp" ELSE "uartLatched"
  /\ UNCHANGED <<console, udp, char, part, history>>

UartReread == uart0_irq_old' = uart0_irq_count   \* mutant: seen after the read
UartSeen   == uart0_irq_old' = latch

UartLatch ==
  /\ pc = "uartLatched"
  /\ uart0_irq_count' = latch /\ UartSeen
  /\ pc' = "read"
  /\ UNCHANGED <<uart0_rbuf, udp, local, history>>

UartRead ==
  /\ pc = "read"
  /\ char' = uart0_rbuf
  /\ pc' = IF uart0_rbuf = 0 THEN "udp" ELSE "collect"
  /\ UNCHANGED <<console, udp, latch, part, history>>

(* char_collect: a carriage return runs a whole console command in it. *)
CharCollect ==
  /\ pc = "collect"
  /\ collected' = char
  /\ pc' = "clear"
  /\ UNCHANGED <<console, udp, local, keys, packets, processed, logged>>

NotCleared == UNCHANGED uart0_rbuf             \* mutant: the buffer stays full
Cleared == uart0_rbuf' = 0

Clear ==
  /\ pc = "clear"
  /\ Cleared
  /\ pc' = "udp"
  /\ UNCHANGED <<uart0_irq_count, uart0_irq_old, udp, local, history>>
-----------------------------------------------------------------------------
Irq  == UartRx \/ UdpIncoming
Loop == \/ UdpPoll \/ UdpLatch \/ ProcessFirst \/ ProcessRest
        \/ UartPoll \/ UartLatch \/ UartRead \/ CharCollect \/ Clear

Next == Irq \/ Loop

Spec == Init /\ [][Next]_vars

(* The loop never blocks for good; interrupts come as they like. *)
FairSpec == Spec /\ WF_vars(Loop)
-----------------------------------------------------------------------------
(* Properties *)

(* Where the loop polls a mailbox that holds something new, the counters   *)
(* differ, although increments can be lost: the loop never passes over a   *)
(* datagram or a keystroke that is still there (main.c, the two tests).    *)
WakeupNotLost ==
  /\ pc = "udp" /\ udp_buf[1] # processed => udp_rx_old # udp_rx_count
  /\ pc = "uart" /\ uart0_rbuf # 0 => uart0_irq_old # uart0_irq_count

(* No keystroke reaches char_collect twice, and none overtakes another,    *)
(* although one interrupt may be seen by two rounds of the loop.           *)
CollectedOnce ==
  [][pc = "collect" /\ pc' = "clear" => collected' > collected]_vars

(* A keystroke in the buffer is taken out, and the last datagram is taken  *)
(* up (main.c).                                                            *)
MailboxesEmptied ==
  /\ (uart0_rbuf # 0) ~> (uart0_rbuf = 0)
  /\ (udp_buf[1] # processed) ~> (udp_buf[1] = processed)
=============================================================================
