------------------------- MODULE IrqDispatchProofs -------------------------
(***************************************************************************)
(* Theorems about the dispatch of interrupts and the lock, for any number  *)
(* of lines, nested locks and frames on the IRQ stack.  What concerns the  *)
(* mask holds whenever IRQs come; what the main program finds when it goes *)
(* on holds if none comes between the last instructions of irq_isr.        *)
(***************************************************************************)
EXTENDS IrqDispatch, SequenceTheorems, TLAPS

Closed == {"save", "dispatch", "handler", "ack", "unmask"}  \* IRQs masked
Open   == {"popSpsr", "setSpsr", "popRegs", "return"}       \* open again
State  == [mode : {"sys", "irq"}, masked : {FALSE}]

(* All saved states are of code that was not masked. *)
MaskInv ==
  /\ pc \in {"main"} \cup Closed \cup Open
  /\ pc \in Closed => masked
  /\ pc \in Open => ~masked
  /\ mode \in {"sys", "irq"} /\ spsr \in State /\ lr \in {"main"} \cup Open
  /\ pc \notin {"main", "save"} => r12 \in State
  /\ stack \in Seq([lr : {"main"} \cup Open, spsr : State])
  /\ pc \in (Closed \ {"save"}) \cup {"popSpsr", "setSpsr", "popRegs"}
       => stack # <<>>

(* Who will pop: code that was interrupted before it popped its frame      *)
(* still has one.                                                          *)
FrameInv ==
  /\ \A i \in 1 .. Len(stack) :
       stack[i].lr \in {"popSpsr", "setSpsr", "popRegs"} => i < Len(stack)
  /\ pc \in {"save", "return"} /\ lr \in {"popSpsr", "setSpsr", "popRegs"}
       => stack # <<>>

(* The lock: the outermost level is the unmasked state, the others are     *)
(* not; within a handler all of them are masked.                           *)
LockInv ==
  /\ levels \in [{"main", "handler"} -> Seq(BOOLEAN)]
  /\ \A i \in 1 .. Len(levels["main"]) : levels["main"][i] <=> i # 1
  /\ \A i \in 1 .. Len(levels["handler"]) : levels["handler"][i]
  /\ pc = "main" => (masked <=> levels["main"] # <<>>)
  /\ pc # "main" => levels["main"] = <<>>

Inv == MaskInv /\ FrameInv /\ LockInv /\ masked \in BOOLEAN

(* Without late IRQs the frame at the bottom is the main program's, and    *)
(* all others, and the banked registers, are of code that had opened the   *)
(* mask and not yet popped anything.                                       *)
FrameOf(bottom) == IF bottom THEN [lr |-> "main", spsr |-> Psr("sys", FALSE)]
                   ELSE [lr |-> "popSpsr", spsr |-> Psr("irq", FALSE)]

SavedInv ==
  /\ mode = IF pc = "main" THEN "sys" ELSE "irq"
  /\ pc = "main" => stack = <<>>
  /\ \A i \in 1 .. Len(stack) : stack[i] = FrameOf(i = Len(stack))
  /\ pc = "setSpsr" => r12 = stack[1].spsr
  /\ pc = "popRegs" => spsr = stack[1].spsr
  /\ pc \in {"save", "return"} =>
       [lr |-> lr, spsr |-> spsr] = FrameOf(stack = <<>>)
-----------------------------------------------------------------------------
(* The IRQ stack *)

LEMMA Push ==
  ASSUME NEW S, NEW s \in Seq(S), NEW x \in S
  PROVE  /\ <<x>> \o s \in Seq(S) /\ Len(<<x>> \o s) = Len(s) + 1
         /\ (<<x>> \o s)[1] = x
         /\ \A i \in 2 .. Len(s) + 1 : (<<x>> \o s)[i] = s[i - 1]
         /\ <<x>> \o s # <<>>
  <1>1. <<x>> \in Seq(S) /\ Len(<<x>>) = 1 /\ <<x>>[1] = x /\ Len(s) \in Nat
    OBVIOUS
  <1>2. /\ <<x>> \o s \in Seq(S) /\ Len(<<x>> \o s) = Len(s) + 1
        /\ \A i \in 1 .. Len(s) + 1 :
             (<<x>> \o s)[i] = IF i <= 1 THEN <<x>>[i] ELSE s[i - 1]
    BY <1>1, ConcatProperties
  <1>3. <<x>> \o s # <<>>
    BY <1>1, <1>2, EmptySeq
  <1> QED BY <1>1, <1>2, <1>3

LEMMA Pop ==
  ASSUME NEW S, NEW s \in Seq(S), s # <<>>
  PROVE  /\ Head(s) = s[1] /\ s[1] \in S /\ Len(s) \in Nat \ {0}
         /\ Tail(s) \in Seq(S) /\ Len(Tail(s)) = Len(s) - 1
         /\ \A i \in 1 .. Len(s) - 1 : Tail(s)[i] = s[i + 1]
         /\ Tail(s) = <<>> <=> Len(s) = 1
  <1>1. /\ Head(s) \in S /\ Head(s) = s[1] /\ Len(s) \in Nat \ {0}
        /\ Tail(s) \in Seq(S) /\ Len(Tail(s)) = Len(s) - 1
        /\ \A i \in 1 .. Len(Tail(s)) : Tail(s)[i] = s[i + 1]
    BY HeadTailProperties, EmptySeq
  <1>2. /\ Tail(s) # <<>> => Len(Tail(s)) \in Nat \ {0}
        /\ Tail(s) = <<>> => Len(Tail(s)) = 0
    BY <1>1, EmptySeq
  <1>3. Tail(s) = <<>> <=> Len(s) = 1
    BY <1>1, <1>2
  <1> QED BY <1>1, <1>3

LEMMA DropLast ==
  ASSUME NEW S, NEW s \in Seq(S), s # <<>>
  PROVE  LET t == SubSeq(s, 1, Len(s) - 1) IN
         /\ t \in Seq(S) /\ Len(t) = Len(s) - 1
         /\ \A i \in 1 .. Len(s) - 1 : t[i] = s[i]
         /\ t = <<>> <=> Len(s) = 1
  <1> DEFINE t == SubSeq(s, 1, Len(s) - 1)
  <1>1. Len(s) \in Nat \ {0} /\ \A i \in 1 .. Len(s) - 1 : s[i] \in S
    BY EmptySeq
  <1>2. /\ t \in Seq(S) /\ Len(t) = Len(s) - 1
        /\ \A i \in 1 .. Len(s) - 1 : t[i] = s[i]
    <2>1. 1 \in Int /\ Len(s) - 1 \in Int
      BY <1>1
    <2>2. /\ t \in Seq(S)
          /\ Len(t) = IF 1 <= Len(s) - 1 THEN (Len(s) - 1) - 1 + 1 ELSE 0
          /\ \A i \in 1 .. (Len(s) - 1) - 1 + 1 : t[i] = s[1 + i - 1]
      BY <1>1, <2>1, SubSeqProperties
    <2> HIDE DEF t
    <2>3. Len(t) = Len(s) - 1
      <3>1. PICK n \in Nat \ {0} : n = Len(s)
        BY <1>1
      <3>2. Len(t) = IF 1 <= n - 1 THEN (n - 1) - 1 + 1 ELSE 0
        BY <2>2, <3>1
      <3>3. Len(t) = n - 1
        BY <3>2
      <3> QED BY <3>1, <3>3
    <2>4. ASSUME NEW i \in 1 .. Len(s) - 1 PROVE t[i] = s[i]
      <3>1. i \in 1 .. (Len(s) - 1) - 1 + 1 /\ 1 + i - 1 = i
        BY <1>1
      <3> QED BY <2>2, <3>1
    <2> QED BY <2>2, <2>3, <2>4
  <1> HIDE DEF t
  <1>3. /\ t # <<>> => Len(t) \in Nat \ {0}
        /\ t = <<>> => Len(t) = 0
    BY <1>2, EmptySeq
  <1>4. t = <<>> <=> Len(s) = 1
    BY <1>1, <1>2, <1>3
  <1> QED BY <1>2, <1>4 DEF t
-----------------------------------------------------------------------------
(* The mask and the lock, whenever IRQs come *)

Frame == [lr : {"main"} \cup Open, spsr : State]

LEMMA InitInv == Init => Inv
  <1> SUFFICES ASSUME Init PROVE Inv
    OBVIOUS
  <1>1. stack \in Seq(Frame) /\ Len(stack) = 0
    BY EmptySeq DEF Init
  <1>2. levels \in [{"main", "handler"} -> Seq(BOOLEAN)]
    BY EmptySeq DEF Init
  <1>3. /\ levels["main"] = <<>> /\ levels["handler"] = <<>>
        /\ Len(levels["main"]) = 0 /\ Len(levels["handler"]) = 0
    BY EmptySeq DEF Init
  <1>4. MaskInv
    BY <1>1 DEF Init, MaskInv, Frame, State, Psr, Closed, Open
  <1>5. FrameInv
    BY <1>1 DEF Init, FrameInv
  <1>6. LockInv
    <2>1. masked <=> levels["main"] # <<>>
      BY <1>3 DEF Init
    <2>2. /\ \A i \in 1 .. Len(levels["main"]) : levels["main"][i] <=> i # 1
          /\ \A i \in 1 .. Len(levels["handler"]) : levels["handler"][i]
      BY <1>3
    <2> QED BY <1>2, <1>3, <2>1, <2>2 DEF LockInv
  <1> QED BY <1>4, <1>5, <1>6 DEF Init, Inv

LEMMA InterruptStep == Inv /\ Interrupt => Inv'
  <1> SUFFICES ASSUME Inv, Interrupt PROVE Inv'
    OBVIOUS
  <1>0. Psr(mode, masked) \in State
    BY DEF Inv, MaskInv, Interrupt, State, Psr
  <1>1. MaskInv' /\ FrameInv'
    BY <1>0 DEF Inv, Interrupt, MaskInv, FrameInv, Closed, Open
  <1>2. LockInv'
    BY DEF Inv, Interrupt, MaskInv, LockInv, Closed, Open
  <1> QED BY <1>1, <1>2 DEF Inv, Interrupt

LEMMA SaveStep == Inv /\ Save => Inv'
  <1> SUFFICES ASSUME Inv, Save PROVE Inv'
    OBVIOUS
  <1> DEFINE f == [lr |-> lr, spsr |-> spsr]
  <1>1. f \in Frame /\ stack \in Seq(Frame) /\ stack' = <<f>> \o stack
    BY DEF Inv, Save, MaskInv, Frame
  <1>2. /\ stack' \in Seq(Frame) /\ Len(stack') = Len(stack) + 1
        /\ stack'[1] = f /\ stack' # <<>> /\ Len(stack) \in Nat
        /\ \A i \in 2 .. Len(stack) + 1 : stack'[i] = stack[i - 1]
    BY <1>1, Push
  <1>3. MaskInv'
    BY <1>2 DEF Inv, Save, MaskInv, Frame, State, Closed, Open
  <1>4. FrameInv'
    <2>1. stack # <<>> => Len(stack) >= 1
      BY <1>1, EmptySeq
    <2> QED BY <1>2, <2>1 DEF Inv, Save, FrameInv
  <1>5. LockInv'
    BY DEF Inv, Save, LockInv
  <1> QED BY <1>3, <1>4, <1>5 DEF Inv, Save

(* The steps between the frame's push and its pop. *)
LEMMA HandlingStep ==
  Inv /\ (Dispatch \/ HandlerEnd \/ Ack \/ Unmask) => Inv'
  <1> SUFFICES ASSUME Inv, Dispatch \/ HandlerEnd \/ Ack \/ Unmask PROVE Inv'
    OBVIOUS
  <1>1. MaskInv'
    BY DEF Inv, MaskInv, Closed, Open, Dispatch, SpuriousTo, HandlerEnd, Ack,
           Unmask
  <1>2. FrameInv'
    BY DEF Inv, FrameInv, Dispatch, SpuriousTo, HandlerEnd, Ack, Unmask
  <1>3. LockInv'
    BY DEF Inv, LockInv, Dispatch, SpuriousTo, HandlerEnd, Ack, Unmask
  <1> QED BY <1>1, <1>2, <1>3 DEF Inv, Dispatch, HandlerEnd, Ack, Unmask

LEMMA RestoreStep ==
  Inv /\ (PopSpsr \/ SetSpsr) => Inv'
  <1> SUFFICES ASSUME Inv, PopSpsr \/ SetSpsr PROVE Inv'
    OBVIOUS
  <1>0. pc = "popSpsr" => Head(stack).spsr \in State
    <2> SUFFICES ASSUME pc = "popSpsr" PROVE Head(stack).spsr \in State
      OBVIOUS
    <2>1. stack \in Seq(Frame) /\ stack # <<>>
      BY DEF Inv, MaskInv, Frame
    <2>2. Head(stack) \in Frame
      BY <2>1, HeadTailProperties
    <2> QED BY <2>2 DEF Frame
  <1>1. MaskInv'
    BY <1>0 DEF Inv, MaskInv, Closed, Open, PopSpsr, SetSpsr, SpsrRestored
  <1>2. FrameInv'
    BY DEF Inv, FrameInv, PopSpsr, SetSpsr
  <1>3. LockInv'
    BY DEF Inv, LockInv, PopSpsr, SetSpsr
  <1> QED BY <1>1, <1>2, <1>3 DEF Inv, PopSpsr, SetSpsr

LEMMA PopRegsStep == Inv /\ PopRegs => Inv'
  <1> SUFFICES ASSUME Inv, PopRegs PROVE Inv'
    OBVIOUS
  <1>1. /\ stack \in Seq(Frame) /\ stack # <<>> /\ stack' = Tail(stack)
        /\ lr' = Head(stack).lr
    BY DEF Inv, PopRegs, MaskInv, Frame
  <1>2. /\ Head(stack) = stack[1] /\ stack[1] \in Frame
        /\ Len(stack) \in Nat \ {0}
        /\ stack' \in Seq(Frame) /\ Len(stack') = Len(stack) - 1
        /\ \A i \in 1 .. Len(stack) - 1 : stack'[i] = stack[i + 1]
        /\ stack' = <<>> <=> Len(stack) = 1
    BY <1>1, Pop
  <1>3. MaskInv'
    BY <1>1, <1>2 DEF Inv, PopRegs, MaskInv, Frame, Closed, Open
  <1>4. FrameInv'
    BY <1>1, <1>2 DEF Inv, PopRegs, FrameInv
  <1>5. LockInv'
    BY DEF Inv, PopRegs, LockInv
  <1> QED BY <1>3, <1>4, <1>5 DEF Inv, PopRegs

LEMMA ReturnStep == Inv /\ Return => Inv'
  <1> SUFFICES ASSUME Inv, Return PROVE Inv'
    OBVIOUS
  <1>0. masked' = FALSE /\ mode' \in {"sys", "irq"}
    BY DEF Inv, MaskInv, Return, State
  <1>1. pc' = lr /\ pc' \in {"main"} \cup Open /\ UNCHANGED <<lr, spsr, stack>>
    BY DEF Inv, MaskInv, Return
  <1>2. pc' \in {"popSpsr", "setSpsr", "popRegs"} => stack # <<>>
    BY <1>1 DEF Inv, FrameInv, Return
  <1>3. r12' \in State
    BY DEF Inv, MaskInv, Return
  <1>4. MaskInv'
    BY <1>0, <1>1, <1>2, <1>3 DEF Inv, MaskInv, Return, Closed, Open
  <1>5. FrameInv'
    BY <1>1 DEF Inv, FrameInv, Return
  <1>6. LockInv'
    BY <1>0 DEF Inv, LockInv, Return
  <1> QED BY <1>0, <1>4, <1>5, <1>6 DEF Inv, Return

LEMMA ProtectStep == Inv /\ Protect => Inv'
  <1> SUFFICES ASSUME Inv, Protect PROVE Inv'
    OBVIOUS
  <1>1. MaskInv' /\ FrameInv'
    BY DEF Inv, MaskInv, FrameInv, Protect, Closed, Open
  <1>2. PICK c \in {"main", "handler"} : c = pc
    BY DEF Protect
  <1> DEFINE s == levels[c]
  <1>3. /\ s \in Seq(BOOLEAN) /\ masked \in BOOLEAN
        /\ levels' = [levels EXCEPT ![c] = Append(s, masked)]
    BY <1>2 DEF Inv, LockInv, Protect
  <1>4. /\ Append(s, masked) \in Seq(BOOLEAN) /\ Append(s, masked) # <<>>
        /\ Len(Append(s, masked)) = Len(s) + 1 /\ Len(s) \in Nat
        /\ \A i \in 1 .. Len(s) : Append(s, masked)[i] = s[i]
        /\ Append(s, masked)[Len(s) + 1] = masked
        /\ s = <<>> <=> Len(s) = 0
    BY <1>3, AppendProperties, EmptySeq
  <1>5. LockInv'
    <2>1. CASE c = "main"
      <3>1. masked <=> Len(s) # 0
        BY <1>2, <1>4, <2>1 DEF Inv, LockInv
      <3>2. levels'["main"] = Append(s, masked)
            /\ levels'["handler"] = levels["handler"]
        BY <1>3, <2>1 DEF Inv, LockInv
      <3>3. \A i \in 1 .. Len(levels'["main"]) : levels'["main"][i] <=> i # 1
        BY <1>4, <2>1, <3>1, <3>2 DEF Inv, LockInv
      <3>4. levels' \in [{"main", "handler"} -> Seq(BOOLEAN)]
        BY <1>3, <1>4 DEF Inv, LockInv
      <3>5. masked' /\ levels'["main"] # <<>> /\ pc' = "main"
        BY <1>2, <1>4, <2>1, <3>2 DEF Protect
      <3> QED BY <3>2, <3>3, <3>4, <3>5 DEF Inv, LockInv
    <2>2. CASE c = "handler"
      <3>1. masked
        BY <1>2, <2>2 DEF Inv, MaskInv, Closed
      <3>2. levels'["handler"] = Append(s, masked)
            /\ levels'["main"] = levels["main"]
        BY <1>3, <2>2 DEF Inv, LockInv
      <3>3. \A i \in 1 .. Len(levels'["handler"]) : levels'["handler"][i]
        BY <1>4, <2>2, <3>1, <3>2 DEF Inv, LockInv
      <3> QED BY <1>2, <1>3, <1>4, <2>2, <3>2, <3>3 DEF Inv, LockInv, Protect
    <2> QED BY <2>1, <2>2
  <1> QED BY <1>1, <1>5 DEF Inv, Protect

LEMMA UnprotectStep == Inv /\ Unprotect => Inv'
  <1> SUFFICES ASSUME Inv, Unprotect PROVE Inv'
    OBVIOUS
  <1>1. PICK c \in {"main", "handler"} : c = pc
    BY DEF Unprotect
  <1> DEFINE s == levels[c]
             t == SubSeq(s, 1, Len(s) - 1)
  <1>2. /\ s \in Seq(BOOLEAN) /\ s # <<>> /\ masked \in BOOLEAN
        /\ levels' = [levels EXCEPT ![c] = t]
        /\ masked' \in BOOLEAN /\ (masked' <=> s[Len(s)] /\ masked)
    BY <1>1 DEF Inv, LockInv, Unprotect, MaskAfter
  <1>3. Len(s) \in Nat \ {0}
    BY <1>2, EmptySeq
  <1>4. /\ t \in Seq(BOOLEAN) /\ Len(t) = Len(s) - 1
        /\ \A i \in 1 .. Len(s) - 1 : t[i] = s[i]
        /\ t = <<>> <=> Len(s) = 1
    BY <1>2, DropLast
  <1> HIDE DEF t
  <1>5. CASE c = "main"
    <2>1. levels'["main"] = t /\ levels'["handler"] = levels["handler"]
      BY <1>2, <1>5 DEF Inv, LockInv
    <2>2. s[Len(s)] <=> Len(s) # 1
      <3>1. Len(s) \in 1 .. Len(s)
        BY <1>3
      <3> QED BY <1>5, <3>1 DEF Inv, LockInv
    <2>0. masked
      <3>1. masked <=> levels["main"] # <<>>
        BY <1>1, <1>5 DEF Inv, LockInv
      <3> QED BY <1>2, <1>5, <3>1
    <2>3. masked' <=> levels'["main"] # <<>>
      BY <1>2, <1>4, <2>0, <2>1, <2>2
    <2>4. \A i \in 1 .. Len(levels'["main"]) : levels'["main"][i] <=> i # 1
      BY <1>3, <1>4, <1>5, <2>1 DEF Inv, LockInv
    <2>5. LockInv'
      BY <1>1, <1>2, <1>4, <1>5, <2>1, <2>3, <2>4 DEF Inv, LockInv, Unprotect
    <2>6. MaskInv' /\ FrameInv'
      BY <1>1, <1>5 DEF Inv, MaskInv, FrameInv, Unprotect, Closed, Open
    <2> QED BY <1>2, <2>5, <2>6 DEF Inv
  <1>6. CASE c = "handler"
    <2>1. levels'["handler"] = t /\ levels'["main"] = levels["main"]
      BY <1>2, <1>6 DEF Inv, LockInv
    <2>2. s[Len(s)] /\ masked
      BY <1>1, <1>3, <1>6 DEF Inv, LockInv, MaskInv, Closed
    <2>3. masked'
      BY <1>2, <2>2
    <2>4. \A i \in 1 .. Len(levels'["handler"]) : levels'["handler"][i]
      BY <1>3, <1>4, <1>6, <2>1 DEF Inv, LockInv
    <2>5. LockInv'
      BY <1>1, <1>2, <1>4, <1>6, <2>1, <2>4 DEF Inv, LockInv, Unprotect
    <2>6. MaskInv' /\ FrameInv'
      BY <1>1, <1>2, <1>6, <2>3
      DEF Inv, MaskInv, FrameInv, Unprotect, Closed, Open
    <2> QED BY <1>2, <2>5, <2>6 DEF Inv
  <1> QED BY <1>5, <1>6

LEMMA NextInv == Inv /\ [Next]_vars => Inv'
  <1> SUFFICES ASSUME Inv, [Next]_vars PROVE Inv'
    OBVIOUS
  <1>1. CASE IrqIsr
    BY <1>1, SaveStep, HandlingStep, RestoreStep, PopRegsStep, ReturnStep
    DEF IrqIsr
  <1>2. CASE Protect \/ Unprotect
    BY <1>2, ProtectStep, UnprotectStep
  <1>3. CASE Interrupt
    BY <1>3, InterruptStep
  <1>4. CASE (\E l \in Line : Raise(l) \/ Withdraw(l)) \/ UNCHANGED vars
    <2>1. UNCHANGED <<cpu, stack, levels>>
      BY <1>4 DEF Raise, Withdraw, vars
    <2> QED BY <2>1 DEF cpu, Inv, MaskInv, FrameInv, LockInv
  <1> QED BY <1>1, <1>2, <1>3, <1>4 DEF Next

LEMMA InvHolds == Spec => []Inv
  BY InitInv, NextInv, PTL DEF Spec

(* No frame on the IRQ stack returns into a handler or the code around it: *)
(* handlers do not nest, whenever IRQs come and whatever the lock does     *)
(* (irq_isr, sys_arch_protect, sys_arch_unprotect).                        *)
THEOREM NoNesting == Spec => []HandlersNeverNest
  <1>1. Inv => HandlersNeverNest
    <2> SUFFICES ASSUME Inv, NEW i \in DOMAIN stack
                 PROVE  stack[i].lr \notin {"save", "dispatch", "handler", "ack",
                                           "unmask"}
      BY DEF HandlersNeverNest
    <2>1. stack \in Seq(Frame)
      BY DEF Inv, MaskInv, Frame
    <2>2. stack[i] \in Frame
      BY <2>1
    <2> QED BY <2>2 DEF Frame, Open
  <1> QED BY <1>1, InvHolds, PTL

(* No interrupt code runs while the main program is inside the lock, at    *)
(* any depth and whenever IRQs come (sys_arch_protect).                    *)
THEOREM LockIsExclusive == Spec => []ProtectedIsExclusive
  <1>1. Inv => ProtectedIsExclusive
    BY DEF Inv, LockInv, ProtectedIsExclusive
  <1> QED BY <1>1, InvHolds, PTL
-----------------------------------------------------------------------------
(* What the main program finds, if no IRQ comes late *)

LEMMA InitSaved == Init => SavedInv
  <1>1. Init => Len(stack) = 0
    BY EmptySeq DEF Init
  <1> QED BY <1>1 DEF Init, SavedInv

LEMMA StackType == Inv => stack \in Seq(Frame)
  BY DEF Inv, MaskInv, Frame

LEMMA NextSaved ==
  ASSUME LateIrq = FALSE
  PROVE  Inv /\ SavedInv /\ [Next]_vars => SavedInv'
  <1> SUFFICES ASSUME Inv, SavedInv, [Next]_vars PROVE SavedInv'
    OBVIOUS
  <1>0. /\ stack \in Seq(Frame)
        /\ Len(stack) \in Nat /\ (stack # <<>> <=> Len(stack) # 0)
    BY StackType, EmptySeq
  <1>1. CASE Save
    <2> DEFINE f == [lr |-> lr, spsr |-> spsr]
    <2>1. f \in Frame /\ f = FrameOf(stack = <<>>)
      BY <1>1 DEF Inv, MaskInv, SavedInv, Save, Frame
    <2>2. /\ stack' = <<f>> \o stack
          /\ Len(stack') = Len(stack) + 1 /\ stack'[1] = f /\ stack' # <<>>
          /\ \A i \in 2 .. Len(stack) + 1 : stack'[i] = stack[i - 1]
      BY <1>0, <1>1, <2>1, Push DEF Save
    <2>3. ASSUME NEW i \in 1 .. Len(stack')
          PROVE  stack'[i] = FrameOf(i = Len(stack'))
      <3>1. CASE i = 1
        BY <1>0, <2>1, <2>2, <3>1 DEF FrameOf
      <3>2. CASE i # 1
        <4>1. i - 1 \in 1 .. Len(stack) /\ i \in 2 .. Len(stack) + 1
          BY <1>0, <2>2, <3>2
        <4>2. stack'[i] = FrameOf(i - 1 = Len(stack))
          BY <2>2, <4>1 DEF SavedInv
        <4> QED BY <1>0, <2>2, <4>1, <4>2 DEF FrameOf
      <3> QED BY <3>1, <3>2
    <2> QED BY <1>1, <2>2, <2>3 DEF SavedInv, Save
  <1>2. CASE PopRegs
    <2>1. stack # <<>>
      BY <1>2 DEF Inv, MaskInv, PopRegs, Closed
    <2>2. /\ Head(stack) = stack[1] /\ stack' = Tail(stack)
          /\ Len(stack') = Len(stack) - 1
          /\ \A i \in 1 .. Len(stack) - 1 : stack'[i] = stack[i + 1]
          /\ stack' = <<>> <=> Len(stack) = 1
      BY <1>0, <1>2, <2>1, Pop DEF PopRegs
    <2>3. stack[1] = FrameOf(Len(stack) = 1)
      <3>1. 1 \in 1 .. Len(stack)
        BY <1>0, <2>1
      <3> QED BY <3>1 DEF SavedInv, FrameOf
    <2>4. [lr |-> lr', spsr |-> spsr'] = FrameOf(stack' = <<>>)
      BY <1>2, <2>2, <2>3 DEF SavedInv, PopRegs, FrameOf
    <2>5. ASSUME NEW i \in 1 .. Len(stack')
          PROVE  stack'[i] = FrameOf(i = Len(stack'))
      <3>1. i \in 1 .. Len(stack) - 1 /\ i + 1 \in 1 .. Len(stack)
        BY <1>0, <2>1, <2>2
      <3>2. stack'[i] = FrameOf(i + 1 = Len(stack))
        BY <2>2, <3>1 DEF SavedInv
      <3> QED BY <1>0, <2>2, <3>1, <3>2 DEF FrameOf
    <2> QED BY <1>2, <2>4, <2>5 DEF SavedInv, PopRegs
  <1>3. CASE Return
    <2>1. [lr |-> lr, spsr |-> spsr] = FrameOf(stack = <<>>)
      BY <1>3 DEF SavedInv, Return
    <2>2. /\ pc' = IF stack = <<>> THEN "main" ELSE "popSpsr"
          /\ mode' = IF stack = <<>> THEN "sys" ELSE "irq"
      BY <1>3, <2>1 DEF Return, FrameOf, Psr
    <2> QED BY <1>3, <2>2 DEF SavedInv, Return
  <1>4. CASE Interrupt
    <2>1. pc \in {"main", "popSpsr"}
      BY <1>4 DEF Interrupt, Inv, MaskInv, Closed, Open
    <2>2. pc = "main" <=> stack = <<>>
      BY <2>1 DEF Inv, MaskInv, SavedInv
    <2>3. masked = FALSE
      BY <1>4 DEF Inv, Interrupt
    <2>4. [lr |-> lr', spsr |-> spsr'] = FrameOf(stack = <<>>)
      BY <1>4, <2>1, <2>2, <2>3 DEF Interrupt, SavedInv, FrameOf
    <2> QED BY <1>4, <2>4 DEF Interrupt, SavedInv
  <1>5. CASE PopSpsr \/ SetSpsr
    <2>1. pc = "popSpsr" => Head(stack) = stack[1]
      BY <1>0, Pop DEF Inv, MaskInv
    <2> QED BY <1>5, <2>1 DEF SavedInv, PopSpsr, SetSpsr, SpsrRestored
  <1>6. CASE Dispatch \/ HandlerEnd \/ Ack \/ Unmask
    BY <1>6 DEF SavedInv, Dispatch, SpuriousTo, HandlerEnd, Ack, Unmask
  <1>7. CASE Protect \/ Unprotect
    BY <1>7 DEF SavedInv, Protect, Unprotect
  <1>8. CASE (\E l \in Line : Raise(l) \/ Withdraw(l)) \/ UNCHANGED vars
    <2>1. UNCHANGED <<cpu, stack, levels>>
      BY <1>8 DEF Raise, Withdraw, vars
    <2> QED BY <2>1 DEF cpu, SavedInv
  <1> QED
    BY <1>1, <1>2, <1>3, <1>4, <1>5, <1>6, <1>7, <1>8 DEF Next, IrqIsr

(* Unless an IRQ comes within the last instructions of irq_isr, the main   *)
(* program goes on in its own mode, with an empty IRQ stack, and masked    *)
(* exactly inside its lock.                                                *)
THEOREM MainUndisturbed ==
  ASSUME LateIrq = FALSE
  PROVE  Spec => []MainGoesOn
  <1>1. Init => Inv /\ SavedInv
    BY InitInv, InitSaved
  <1>2. Inv /\ SavedInv /\ [Next]_vars => (Inv /\ SavedInv)'
    BY NextInv, NextSaved
  <1>3. Inv /\ SavedInv => MainGoesOn
    BY DEF Inv, LockInv, SavedInv, MainGoesOn
  <1> QED BY <1>1, <1>2, <1>3, PTL DEF Spec
=============================================================================
