--------------------------- MODULE SuperloopProofs ---------------------------
(***************************************************************************)
(* Proofs about the main loop and its two mailboxes, for every width of    *)
(* the counters and any number of keystrokes and datagrams.                *)
(*                                                                         *)
(* A counter and the count the loop saw last are related modulo Word: the  *)
(* difference is how often the interrupt came since the loop latched the   *)
(* counter.  The test of the loop is sound as long as the difference does  *)
(* not come round to zero, and that is all it rests on.                    *)
(***************************************************************************)
EXTENDS Superloop, TLAPS

(* At no time are there 2^31 keystrokes the loop has not collected, or     *)
(* 2^31 datagrams it has not taken up.                                     *)
FewOutstanding == keys - collected <= Mask /\ packets - processed <= Mask

TypeOK ==
  /\ uart0_irq_count \in 0 .. Word - 1 /\ uart0_irq_old \in 0 .. Word - 1
  /\ udp_rx_count \in 0 .. Word - 1 /\ udp_rx_old \in 0 .. Word - 1
  /\ pc \in {"udp", "udpLatched", "process", "log",
             "uart", "uartLatched", "read", "collect", "clear"}
  /\ latch \in 0 .. Mask
  /\ keys \in Nat /\ packets \in Nat /\ char \in Nat
  /\ collected \in 0 .. keys /\ processed \in 0 .. packets

(* The numbers of what lies in the mailboxes. *)
MailInv ==
  /\ uart0_rbuf \in {0, keys}
  /\ udp_buf = <<packets, packets>>
  /\ uart0_rbuf # 0 /\ pc # "clear" => uart0_rbuf > collected
  /\ pc = "collect" => char \in collected + 1 .. keys

(* A counter that was bumped j times since it was equal to old. *)
Ahead(count, old, j) == count = old + j \/ count = old + j - Word

(* The console counter: the bumps since UartLatch, and what follows from   *)
(* none.  Only Mask of them can fall between UartLatch and UartRead.       *)
ConsoleAhead(j) ==
  /\ Ahead(uart0_irq_count, uart0_irq_old, j)
  /\ uart0_rbuf # 0 /\ pc \notin {"uartLatched", "read", "collect", "clear"} => j > 0
  /\ j <= (IF pc = "read" THEN 0 ELSE Mask)
            + keys - (IF pc = "collect" THEN char ELSE collected)

(* The same of the UDP counter, UdpLatch and ProcessFirst. *)
UdpAhead(j) ==
  /\ Ahead(udp_rx_count, udp_rx_old, j)
  /\ packets > processed /\ pc \notin {"udpLatched", "process"} => j > 0
  /\ j <= (IF pc = "process" THEN 0 ELSE Mask) + packets - processed

CountInv == (\E j \in Nat : ConsoleAhead(j)) /\ (\E j \in Nat : UdpAhead(j))

IInv == TypeOK /\ MailInv /\ CountInv
-----------------------------------------------------------------------------
(* Counters *)

LEMMA Widths ==
  /\ Mask \in Nat /\ Word \in Nat /\ Word = 2 * Mask + 2 /\ Word > 0
  BY WidthAssumption

LEMMA MaskedRange ==
  ASSUME NEW n \in Nat
  PROVE  Masked(n) \in 0 .. Mask
  BY WidthAssumption DEF Masked

LEMMA BumpedValue ==
  ASSUME NEW n \in 0 .. Word - 1
  PROVE  /\ Bumped(n) \in 0 .. Word - 1
         /\ Bumped(n) = n + 1 \/ Bumped(n) = n + 1 - Word
  <1>1. n + 1 \in 0 .. Word /\ Word \in Nat /\ Word > 0
    BY Widths
  <1>2. CASE n + 1 = Word
    BY <1>1, <1>2 DEF Bumped
  <1>3. CASE n + 1 < Word
    BY <1>1, <1>3 DEF Bumped
  <1> QED BY <1>1, <1>2, <1>3

(* One interrupt more. *)
LEMMA AheadBumped ==
  ASSUME NEW count \in 0 .. Word - 1, NEW old \in 0 .. Word - 1,
         NEW j \in Nat, j + 1 < Word, Ahead(count, old, j)
  PROVE  Ahead(Bumped(count), old, j + 1)
  <1>1. Bumped(count) \in 0 .. Word - 1 /\ Word \in Nat
        /\ (Bumped(count) = count + 1 \/ Bumped(count) = count + 1 - Word)
    BY BumpedValue, Widths
  <1> QED BY <1>1 DEF Ahead

(* Counters that are ahead by less than a whole round differ. *)
LEMMA AheadDiffers ==
  ASSUME NEW count \in 0 .. Word - 1, NEW old \in 0 .. Word - 1,
         NEW j \in Nat, j < Word, j > 0, Ahead(count, old, j)
  PROVE  count # old
  BY Widths DEF Ahead
-----------------------------------------------------------------------------
(* The invariant *)

LEMMA InitIInv == Init => IInv
  <1> SUFFICES ASSUME Init PROVE IInv
    OBVIOUS
  <1>1. TypeOK /\ MailInv
    BY Widths DEF Init, TypeOK, MailInv
  <1>2. ConsoleAhead(0) /\ UdpAhead(0)
    BY Widths DEF Init, ConsoleAhead, UdpAhead, Ahead
  <1> QED BY <1>1, <1>2 DEF IInv, CountInv

LEMMA TypeStep ==
  ASSUME TypeOK, MailInv, [Next]_vars
  PROVE  TypeOK' /\ MailInv'
  <1> USE DEF TypeOK, MailInv, console, udp, local, history
  <1>1. CASE UartRx
    <2>1. Bumped(uart0_irq_count) \in 0 .. Word - 1
      BY BumpedValue
    <2> QED BY <1>1, <2>1 DEF UartRx
  <1>2. CASE UdpIncoming
    <2>1. Bumped(udp_rx_count) \in 0 .. Word - 1
      BY BumpedValue
    <2> QED BY <1>2, <2>1 DEF UdpIncoming
  <1>3. CASE UdpPoll \/ UartPoll
    <2>1. Masked(udp_rx_count) \in 0 .. Mask /\ Masked(uart0_irq_count) \in 0 .. Mask
      BY MaskedRange
    <2> QED BY <1>3, <2>1 DEF UdpPoll, UartPoll
  <1>4. CASE UdpLatch \/ UartLatch
    <2>1. latch \in 0 .. Word - 1
      BY Widths
    <2> QED BY <1>4, <2>1 DEF UdpLatch, UartLatch, UartSeen
  <1>5. CASE ProcessFirst \/ ProcessRest
    BY <1>5 DEF ProcessFirst, ProcessRest
  <1>6. CASE UartRead
    BY <1>6 DEF UartRead
  <1>7. CASE CharCollect
    BY <1>7 DEF CharCollect
  <1>8. CASE Clear
    BY <1>8 DEF Clear, Cleared
  <1>9. CASE UNCHANGED vars
    BY <1>9 DEF vars
  <1> QED BY <1>1, <1>2, <1>3, <1>4, <1>5, <1>6, <1>7, <1>8, <1>9 DEF Next, Irq, Loop

(* The console counter: it is bumped by UartRx, stored by UartLatch, and   *)
(* left alone by every other step.                                         *)
LEMMA ConsoleStep ==
  ASSUME IInv, FewOutstanding, FewOutstanding', [Next]_vars
  PROVE  (\E j \in Nat : ConsoleAhead(j))'
  <1> USE DEF IInv, TypeOK, MailInv, FewOutstanding
  <1>1. PICK j \in Nat : ConsoleAhead(j)
    BY DEF CountInv
  <1>2. CASE UartRx
    <2>1. /\ keys' = keys + 1 /\ UNCHANGED <<pc, char, collected, uart0_irq_old>>
          /\ uart0_irq_count' = Bumped(uart0_irq_count)
      BY <1>2 DEF UartRx, local
    <2>2. j + 1 < Word
      BY <1>1, <2>1, Widths DEF ConsoleAhead
    <2>3. Ahead(uart0_irq_count', uart0_irq_old', j + 1)
      BY <1>1, <2>1, <2>2, AheadBumped DEF ConsoleAhead
    <2>4. ConsoleAhead(j + 1)'
      BY <1>1, <2>1, <2>3, Widths DEF ConsoleAhead
    <2> QED BY <2>4
  <1>3. CASE UartLatch
    <2>1. ConsoleAhead(0)'
      BY <1>3, Widths DEF UartLatch, UartSeen, ConsoleAhead, Ahead, history, local
    <2> QED BY <2>1
  <1>4. CASE \/ UdpIncoming \/ UdpPoll \/ UdpLatch \/ ProcessFirst \/ ProcessRest
             \/ UartPoll \/ UartRead \/ CharCollect \/ Clear \/ UNCHANGED vars
    <2>1. /\ UNCHANGED <<uart0_irq_count, uart0_irq_old, keys>>
          /\ uart0_rbuf' = uart0_rbuf \/ uart0_rbuf' = 0
      BY <1>4 DEF UdpIncoming, UdpPoll, UdpLatch, ProcessFirst, ProcessRest, UartPoll,
             UartRead, CharCollect, Clear, Cleared, vars, console, history
    <2>2. \/ /\ pc \notin {"uartLatched", "read", "collect", "clear"}
             /\ pc' \notin {"read", "collect", "clear"}
             /\ collected' = collected
          \/ pc = "read" /\ pc' = "udp" /\ uart0_rbuf = 0 /\ collected' = collected
          \/ pc = "read" /\ pc' = "collect" /\ uart0_rbuf = keys /\ char' = keys
          \/ pc = "collect" /\ pc' = "clear" /\ collected' = char
          \/ pc = "clear" /\ pc' = "udp" /\ uart0_rbuf' = 0 /\ collected' = collected
          \/ UNCHANGED <<pc, collected, char>>
      BY <1>4 DEF UdpIncoming, UdpPoll, UdpLatch, ProcessFirst, ProcessRest, UartPoll,
             UartRead, CharCollect, Clear, Cleared, vars, local, history
    <2>3. ConsoleAhead(j)'
      BY <1>1, <2>1, <2>2, Widths DEF ConsoleAhead
    <2> QED BY <2>3
  <1> QED BY <1>2, <1>3, <1>4 DEF Next, Irq, Loop

(* The UDP counter, in the same way. *)
LEMMA UdpStep ==
  ASSUME IInv, FewOutstanding, FewOutstanding', [Next]_vars
  PROVE  (\E j \in Nat : UdpAhead(j))'
  <1> USE DEF IInv, TypeOK, MailInv, FewOutstanding
  <1>1. PICK j \in Nat : UdpAhead(j)
    BY DEF CountInv
  <1>2. CASE UdpIncoming
    <2>1. /\ packets' = packets + 1 /\ UNCHANGED <<pc, processed, udp_rx_old>>
          /\ udp_rx_count' = Bumped(udp_rx_count)
      BY <1>2 DEF UdpIncoming
    <2>2. j + 1 < Word
      BY <1>1, <2>1, Widths DEF UdpAhead
    <2>3. Ahead(udp_rx_count', udp_rx_old', j + 1)
      BY <1>1, <2>1, <2>2, AheadBumped DEF UdpAhead
    <2>4. UdpAhead(j + 1)'
      BY <1>1, <2>1, <2>3, Widths DEF UdpAhead
    <2> QED BY <2>4
  <1>3. CASE UdpLatch
    <2>1. UdpAhead(0)'
      BY <1>3, Widths DEF UdpLatch, UdpAhead, Ahead, history
    <2> QED BY <2>1
  <1>4. CASE \/ UartRx \/ UdpPoll \/ ProcessFirst \/ ProcessRest \/ UartPoll
             \/ UartLatch \/ UartRead \/ CharCollect \/ Clear \/ UNCHANGED vars
    <2>1. UNCHANGED <<udp_rx_count, udp_rx_old, packets>>
      BY <1>4 DEF UartRx, UdpPoll, ProcessFirst, ProcessRest, UartPoll, UartLatch,
             UartRead, CharCollect, Clear, vars, udp, history
    <2>2. \/ pc = "udp" /\ pc' \in {"uart", "udpLatched"} /\ processed' = processed
          \/ pc = "process" /\ pc' = "log" /\ processed' = packets
          \/ /\ pc \notin {"udpLatched", "process"} /\ pc' \notin {"udpLatched", "process"}
             /\ processed' = processed
          \/ UNCHANGED <<pc, processed>>
      BY <1>4 DEF UartRx, UdpPoll, ProcessFirst, ProcessRest, UartPoll, UartLatch,
             UartRead, CharCollect, Clear, vars, local, history
    <2>3. UdpAhead(j)'
      BY <1>1, <2>1, <2>2, Widths DEF UdpAhead
    <2> QED BY <2>3
  <1> QED BY <1>2, <1>3, <1>4 DEF Next, Irq, Loop
-----------------------------------------------------------------------------
(* What main.c promises *)

(* The loop never passes over a datagram or a keystroke that is still      *)
(* there, although the masking in main.c loses increments.                 *)
THEOREM NoWakeupLost == Spec /\ []FewOutstanding => []WakeupNotLost
  <1>1. IInv /\ FewOutstanding /\ FewOutstanding' /\ [Next]_vars => IInv'
    <2> SUFFICES ASSUME IInv, FewOutstanding, FewOutstanding', [Next]_vars
                 PROVE  TypeOK' /\ MailInv' /\ CountInv'
      BY DEF IInv
    <2>1. TypeOK' /\ MailInv'
      BY TypeStep DEF IInv
    <2>2. CountInv'
      BY ConsoleStep, UdpStep DEF CountInv
    <2> QED BY <2>1, <2>2
  <1>2. IInv /\ FewOutstanding => WakeupNotLost
    <2> SUFFICES ASSUME IInv, FewOutstanding PROVE WakeupNotLost
      OBVIOUS
    <2> USE DEF IInv, TypeOK, MailInv, FewOutstanding
    <2>1. ASSUME pc = "udp", udp_buf[1] # processed
          PROVE  udp_rx_old # udp_rx_count
      <3>1. PICK j \in Nat : UdpAhead(j)
        BY DEF CountInv
      <3>2. j > 0 /\ j < Word
        BY <2>1, <3>1, Widths DEF UdpAhead
      <3> QED BY <3>1, <3>2, AheadDiffers DEF UdpAhead
    <2>2. ASSUME pc = "uart", uart0_rbuf # 0
          PROVE  uart0_irq_old # uart0_irq_count
      <3>1. PICK j \in Nat : ConsoleAhead(j)
        BY DEF CountInv
      <3>2. j > 0 /\ j < Word
        BY <2>2, <3>1, Widths DEF ConsoleAhead
      <3> QED BY <3>1, <3>2, AheadDiffers DEF ConsoleAhead
    <2> QED BY <2>1, <2>2 DEF WakeupNotLost
  <1> QED BY <1>1, <1>2, InitIInv, PTL DEF Spec

(* char_collect gets every keystroke at most once and in order: the buffer *)
(* is cleared after it, and a later keystroke only replaces an earlier.    *)
THEOREM CollectedAtMostOnce == Spec => CollectedOnce
  <1>1. Init => TypeOK /\ MailInv
    BY InitIInv DEF IInv
  <1>2. TypeOK /\ MailInv /\ [Next]_vars => (TypeOK /\ MailInv)'
    BY TypeStep
  <1>3. TypeOK /\ MailInv /\ [Next]_vars =>
          [pc = "collect" /\ pc' = "clear" => collected' > collected]_vars
    <2> SUFFICES ASSUME TypeOK, MailInv, Next, pc = "collect", pc' = "clear"
                 PROVE  collected' > collected
      OBVIOUS
    <2>1. CharCollect
      BY DEF Next, Irq, Loop, UartRx, UdpIncoming, UdpPoll, UdpLatch, ProcessFirst,
             ProcessRest, UartPoll, UartLatch, UartRead, Clear, local
    <2> QED BY <2>1 DEF CharCollect, TypeOK, MailInv
  <1> QED BY <1>1, <1>2, <1>3, PTL DEF Spec, CollectedOnce
=============================================================================
