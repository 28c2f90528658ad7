---------------------------- MODULE IrqDispatch ----------------------------
(***************************************************************************)
(* How an interrupt is taken, dispatched and left (irq_isr of irq.s), and  *)
(* the lock that lwIP and the Ethernet driver build from the IRQ mask      *)
(* (sys_arch_protect and sys_arch_unprotect of sys_arch.c).                *)
(*                                                                         *)
(* The processor has banked copies of lr and spsr for the IRQ mode: taking *)
(* an IRQ overwrites them.  irq_isr saves them on the IRQ stack and runs   *)
(* the handler with IRQs masked, but opens the mask again (`unmask') four  *)
(* instructions before it has left, while its frame is on the stack.       *)
(* The INTC asserts no further IRQ from the moment one is taken until      *)
(* NEWIRQAGR is written, `agr'.                                            *)
(***************************************************************************)
EXTENDS Naturals, Sequences

CONSTANTS Line,         \* interrupt lines with a handler
          MaxProtect,   \* bound: sys_arch_protect calls inside each other
          MaxDepth,     \* bound: frames on the IRQ stack (16384 / 24 bytes)
          LateIrq       \* an IRQ may also come between the last four
                        \* instructions, not only right after the unmasking

ASSUME BoundAssumption == MaxProtect \in Nat /\ MaxDepth \in Nat \ {0}
ASSUME LateAssumption  == LateIrq \in BOOLEAN

VARIABLES
  pc, mode, masked,     \* the processor: where it is, CPSR mode and I bit
  lr, spsr, r12,        \* IRQ-mode lr and spsr; r12, which is not banked
  stack,                \* IRQ stack, the top first
  levels,               \* what the open protect calls have returned
  pending, agr, line    \* INTC: lines asserted, agreement, SIR_IRQ

cpu  == <<pc, mode, masked, lr, spsr, r12>>
intc == <<pending, agr, line>>
vars == <<cpu, stack, levels, intc>>

Psr(m, i) == [mode |-> m, masked |-> i]
Own == Psr("own", FALSE)            \* what the interrupted code keeps in r12

Init ==
  /\ pc = "main" /\ mode = "sys" /\ masked = FALSE
  /\ lr = "main" /\ spsr = Psr("sys", FALSE) /\ r12 = Own
  /\ stack = <<>>
  /\ levels = [c \in {"main", "handler"} |-> <<>>]
  /\ pending = {} /\ agr = TRUE /\ line \in Line
-----------------------------------------------------------------------------
(* The peripherals and the processor *)

Raise(l) ==
  /\ l \notin pending /\ pending' = pending \cup {l}
  /\ UNCHANGED <<cpu, stack, levels, agr, line>>

Withdraw(l) ==
  /\ l \in pending /\ pending' = pending \ {l}
  /\ UNCHANGED <<cpu, stack, levels, agr, line>>

Interrupt ==
  /\ agr /\ pending # {} /\ ~masked
  /\ pc \in {"setSpsr", "popRegs", "return"} => LateIrq
  /\ Len(stack) < MaxDepth
  /\ lr' = pc /\ spsr' = Psr(mode, masked)
  /\ mode' = "irq" /\ masked' = TRUE
  /\ agr' = FALSE
  /\ pc' = "save"
  /\ UNCHANGED <<r12, stack, levels, pending, line>>
-----------------------------------------------------------------------------
(* irq_isr *)

Save ==
  /\ pc = "save"
  /\ stack' = <<[lr |-> lr, spsr |-> spsr]>> \o stack
  /\ r12' = spsr
  /\ pc' = "dispatch"
  /\ UNCHANGED <<mode, masked, lr, spsr, levels, intc>>

SpuriousLeft == "unmask"            \* mutant: NEWIRQAGR not written
SpuriousTo == "ack"

Dispatch ==
  /\ pc = "dispatch"
  /\ \/ \E l \in pending : line' = l /\ pc' = "handler"
     \/ pending = {} /\ pc' = SpuriousTo /\ UNCHANGED line
  /\ UNCHANGED <<mode, masked, lr, spsr, r12, stack, levels, pending, agr>>

(* The handler has served its line. *)
HandlerEnd ==
  /\ pc = "handler" /\ levels["handler"] = <<>>
  /\ pending' = pending \ {line}
  /\ pc' = "ack"
  /\ UNCHANGED <<mode, masked, lr, spsr, r12, stack, levels, agr, line>>

Ack ==
  /\ pc = "ack"
  /\ agr' = TRUE
  /\ pc' = "unmask"
  /\ UNCHANGED <<mode, masked, lr, spsr, r12, stack, levels, pending, line>>

Unmask ==
  /\ pc = "unmask"
  /\ masked' = FALSE
  /\ pc' = "popSpsr"
  /\ UNCHANGED <<mode, lr, spsr, r12, stack, levels, intc>>

PopSpsr ==
  /\ pc = "popSpsr"
  /\ r12' = Head(stack).spsr
  /\ pc' = "setSpsr"
  /\ UNCHANGED <<mode, masked, lr, spsr, stack, levels, intc>>

SpsrKept == spsr' = spsr            \* mutant: spsr not restored
SpsrRestored == spsr' = r12

SetSpsr ==
  /\ pc = "setSpsr"
  /\ SpsrRestored
  /\ pc' = "popRegs"
  /\ UNCHANGED <<mode, masked, lr, r12, stack, levels, intc>>

PopRegs ==
  /\ pc = "popRegs"
  /\ lr' = Head(stack).lr
  /\ stack' = Tail(stack)
  /\ pc' = "return"
  /\ UNCHANGED <<mode, masked, spsr, r12, levels, intc>>

Return ==
  /\ pc = "return"
  /\ pc' = lr /\ mode' = spsr.mode /\ masked' = spsr.masked
  /\ UNCHANGED <<lr, spsr, r12, stack, levels, intc>>
-----------------------------------------------------------------------------
(* The lock, called by the main program and by handlers *)

Protect ==
  /\ pc \in {"main", "handler"} /\ Len(levels[pc]) < MaxProtect
  /\ levels' = [levels EXCEPT ![pc] = Append(@, masked)]
  /\ masked' = TRUE
  /\ UNCHANGED <<pc, mode, lr, spsr, r12, stack, intc>>

AlwaysEnabled(lev) == FALSE         \* mutant: the level is ignored
MaskAfter(lev) == lev /\ masked

Unprotect ==
  /\ pc \in {"main", "handler"} /\ levels[pc] # <<>>
  /\ masked' = MaskAfter(levels[pc][Len(levels[pc])])
  /\ levels' = [levels EXCEPT ![pc] = SubSeq(@, 1, Len(@) - 1)]
  /\ UNCHANGED <<pc, mode, lr, spsr, r12, stack, intc>>
-----------------------------------------------------------------------------
IrqIsr == \/ Save \/ Dispatch \/ HandlerEnd \/ Ack \/ Unmask
          \/ PopSpsr \/ SetSpsr \/ PopRegs \/ Return

Next == \/ IrqIsr \/ Protect \/ Unprotect \/ Interrupt
        \/ \E l \in Line : Raise(l) \/ Withdraw(l)

Spec == Init /\ [][Next]_vars

(* Code runs on, handlers end and critical sections too; the processor     *)
(* takes an IRQ that is asserted while the mask opens again and again.     *)
LeaveLock(depth) == Unprotect /\ Len(levels[pc]) = depth
Fairness == /\ WF_vars(IrqIsr) /\ SF_vars(HandlerEnd) /\ SF_vars(Interrupt)
            /\ \A depth \in 1 .. MaxProtect : SF_vars(LeaveLock(depth))

FairSpec == Spec /\ Fairness
-----------------------------------------------------------------------------
(* Properties *)

(* A handler is never interrupted, although it calls the lock itself and   *)
(* irq_isr opens the mask early: no frame on the stack returns into one,   *)
(* or into the code around it ("No IRQs within IRQs", main.c:34).  The     *)
(* other modules rely on it.                                               *)
HandlersNeverNest ==
  \A i \in DOMAIN stack :
    stack[i].lr \notin {"save", "dispatch", "handler", "ack", "unmask"}

(* The main program always goes on in its own mode, with an empty IRQ      *)
(* stack, and masked exactly within its critical sections (irq_isr).       *)
MainGoesOn ==
  pc = "main" => /\ mode = "sys" /\ stack = <<>>
                 /\ masked = (levels["main"] # <<>>)

(* No interrupt code runs between sys_arch_protect and the matching        *)
(* sys_arch_unprotect of the main program, nested as they may be.          *)
ProtectedIsExclusive == levels["main"] # <<>> => pc = "main"

(* Of several lines the INTC may present any (all have one priority,       *)
(* irq.s:35), so that a line may wait for as long as others are raised.    *)
(* But no line waits for ever once the handlers of the others have fallen  *)
(* quiet: its own handler runs, or it is withdrawn.  It depends on irq_isr *)
(* writing NEWIRQAGR on every path.                                        *)
Serves(l) == pc = "handler" /\ line = l
IrqIsTaken ==
  \A l \in Line : \/ \E m \in Line \ {l} : []<>Serves(m)
                  \/ l \in pending ~> (Serves(l) \/ l \notin pending)

(* irq_isr gives the interrupted code its mode back: "restore spsr"        *)
(* (irq.s:132).                                                            *)
ModeRestored == pc = "main" => mode = "sys"
=============================================================================
