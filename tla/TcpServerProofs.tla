--------------------------- MODULE TcpServerProofs ---------------------------
(***************************************************************************)
(* Proofs about one connection of the HTTP or the echo server, for any     *)
(* window, send buffer and pages, and however many segments the client     *)
(* sends.                                                                  *)
(*                                                                         *)
(* tcp_input is cut where it calls an application, so IInv says at every   *)
(* stage what the segment in hand still brings: what the window lacks      *)
(* (WindowInv), what the server has yet to write (WrittenInv), and why the *)
(* connection is being closed (PageInv).  What makes them inductive is     *)
(* that the states of a block, its callbacks and the state of the server   *)
(* go together (StateInv), and that whatever is queued is a part of one    *)
(* stream of the client (ItemInv).                                         *)
(*                                                                         *)
(* Why a block goes is a matter of its whole life: QuietInv, on top of     *)
(* IInv, says how far either server and its client have come while nothing *)
(* has happened to the connection that would excuse a loss.                *)
(***************************************************************************)
EXTENDS TcpServer, TLAPS, FiniteSetTheorems, SequenceTheorems

Item  == [at : Nat, fin : BOOLEAN]
Open  == {"ESTABLISHED", "CLOSE_WAIT"}
State == {"SYN_RCVD", "FIN_WAIT_1", "FIN_WAIT_2", "CLOSING", "LAST_ACK", "TIME_WAIT"} \cup Open
Pcb   == [state : State, rcvNxt : Nat \ {0}, rcvWnd : Int, ooseq : SUBSET Item,
          refused : SUBSET Item, lastack : Nat, sndNxt : Nat, written : Nat,
          fin : BOOLEAN, acked : Nat, rxclosed : BOOLEAN,
          recv : BOOLEAN, arg : BOOLEAN]
Segment == [items : SUBSET Item, ack : Nat, syn : BOOLEAN, fin : BOOLEAN]

Peer == [sent : Nat, fin : Nat, got : Nat, end : {"closed", "open", "fin", "rst"}]

Here == pcb # NoPcb
Queued == IF Here THEN pcb.ooseq ELSE {}

TypeOK ==
  /\ app \in {"http", "echo"} /\ pcb \in Pcb \cup {NoPcb}
  /\ hs \in [live : BOOLEAN, file : BOOLEAN, left : Nat] /\ out \in Seq(Nat)
  /\ pc \in {"idle", "refused", "process", "sent", "recv", "fin", "output"}
  /\ call \in {"none", "send_data", "close"} /\ seg \in Segment
  /\ wire \in [upto : Nat, fin : BOOLEAN]
  /\ cli \in Peer
  /\ page \in Nat
  /\ IsFiniteSet(seg.items) /\ IsFiniteSet(Queued)
  /\ Here => IsFiniteSet(pcb.refused)

(* The client has closed its side. *)
HasClosed == cli.fin > 0

(* The stages of tcp_input, and what a callback still has to run. *)
ControlInv ==
  /\ pc # "idle" => Here
  /\ pc = "idle" => seg = NoSeg
  /\ pc \in {"idle", "refused", "process", "sent"} => call = "none"
  /\ pc \in {"refused", "process"} => Active(pcb) /\ ~seg.fin
  /\ pc = "refused" => pcb.refused # {}
  /\ pc \in {"refused", "process"} /\ seg.syn => seg.items = {}
  /\ pc = "sent" => pcb.arg /\ pcb.acked > 0
  /\ pc \in {"recv", "fin"} => pcb.state # "SYN_RCVD"
  /\ pc = "recv" => seg.items # {}
  /\ pc = "fin" => seg.fin
  /\ call # "none" => Here /\ pcb.state \in Open
  /\ call = "send_data" => app = "http" /\ hs.file /\ (pc = "output" => ~seg.fin)
  /\ pc = "output" /\ seg.fin /\ pcb.state \in Open => call # "none" \/ pcb.rxclosed

(* What comes with the state of a block: the callbacks are there exactly   *)
(* while it is open, unless a close has failed, and hs while arg is.       *)
StateInv ==
  /\ cli.end = "closed" => ~Here /\ out = <<>> /\ ~wire.fin /\ cli.sent = 0 /\ ~HasClosed
  /\ hs.live <=> Here /\ pcb.arg
  /\ ~hs.live => hs = NoHs
  /\ Here =>
       /\ pcb.state = "SYN_RCVD" =>
            /\ pcb.rcvNxt = 1 /\ pcb.rcvWnd = Wnd /\ pcb.written = 0
            /\ ~pcb.rxclosed /\ ~pcb.recv /\ ~pcb.arg /\ pcb.acked = 0
       /\ pcb.state \in Open => /\ pcb.arg <=> app = "http"
                                /\ pcb.recv \/ (pcb.rxclosed /\ app = "echo")
       /\ pcb.state \in {"SYN_RCVD"} \cup Open => ~pcb.fin
       /\ pcb.state \notin {"SYN_RCVD"} \cup Open => pcb.rxclosed /\ ~pcb.recv /\ ~pcb.arg
       /\ pcb.acked > 0 => pcb.written > 0
       /\ pcb.refused # {} => pcb.state \in Open /\ app = "echo"

(* No two items are of one position, and nothing follows a FIN. *)
Coherent(items) ==
  \A x, y \in items : /\ x.at = y.at => x = y
                      /\ x.fin => y = x \/ (y.at < x.at /\ ~y.fin)

Alive == cli.end \in {"open", "fin"}

ItemInv ==
  /\ Coherent(Queued \cup seg.items)
  /\ Alive => Queued \cup seg.items \subseteq Stream
  /\ Alive /\ seg.fin => HasClosed

(* What the segment in hand takes of the window until it is handed on. *)
DataAhead == IF pc \in {"sent", "recv"} THEN Cardinality(seg.items) ELSE 0
FinAhead  == IF pc \in {"sent", "recv", "fin"} /\ seg.fin THEN 1 ELSE 0

WindowInv ==
  Here /\ pcb.state \in Open => pcb.rcvWnd = Wnd - DataAhead - FinAhead

(* What was written is the file so far, or what the client has sent but    *)
(* for the segment in hand; a FIN closes the block before the next one.    *)
Echoing == Here /\ pcb.state \in Open /\ ~pcb.rxclosed /\ app = "echo"

WrittenInv ==
  /\ Here => Len(out) = pcb.written
  /\ Here /\ pcb.state \in Open /\ hs.file => page > 0 /\ pcb.written + hs.left = page
  /\ Here /\ ~hs.file /\ app = "http" /\ pcb.state \in Open =>
        pcb.written = 0 /\ hs.left = 0
  /\ Here /\ pcb.refused # {} => "refused" \in cause
  /\ "refused" \notin cause =>
       /\ \A i \in 1 .. Len(out) : out[i] = i
       /\ Echoing => pcb.written + DataAhead + (IF seg.fin THEN 1 ELSE 0) = pcb.rcvNxt - 1
       /\ Echoing /\ pc = "recv" => /\ \E x \in seg.items : x.at = pcb.written + 1
                                    /\ \A x \in seg.items : x.at > pcb.written

(* A client of the HTTP server that keeps to one request and one answer.   *)
Plain == app = "http" /\ Alive /\ cause \cap {"more", "halfclose"} = {}

PageInv ==
  /\ hs.file => pcb.rcvNxt > 1
  /\ pc \in {"sent", "recv"} /\ seg.items # {} => pcb.rcvNxt > 1
  /\ pc \in {"sent", "recv"} /\ hs.file => \A x \in seg.items : x.at > 1
  /\ pc \in {"sent", "recv"} => \A x \in seg.items : ~x.fin
  /\ Here /\ Active(pcb) => wire.upto = pcb.sndNxt
  /\ wire.fin /\ Here => pcb.fin /\ (Active(pcb) => pcb.sndNxt = pcb.written + 2)
  /\ cli.end = "fin" => wire.fin /\ cli.got = wire.upto - 1
  /\ Plain =>
       /\ cli.sent <= 1
       /\ HasClosed => cli.end = "fin"
       /\ call = "close" => hs.file /\ hs.left = 0
       /\ Here /\ pcb.fin => page > 0 /\ pcb.written = page
       /\ wire.fin => page > 0 /\ wire.upto = page + 2

(* While nothing has happened that would excuse a loss: no reset or abort, *)
(* no second request or early close, no data refused.  Memory may be short *)
(* and a close may fail.                                                   *)
Quiet == cause \cap Excuses = {}

AllSeen == pcb.lastack = pcb.sndNxt /\ pcb.sndNxt = pcb.written + 1

Unharmed ==
  /\ Alive /\ ~rst
  /\ pcb.lastack <= pcb.sndNxt /\ pcb.sndNxt <= SndEnd(pcb)
  /\ seg.ack <= cli.got + 1 /\ cli.got + 1 <= wire.upto
  /\ \A x \in pcb.ooseq : ~x.fin
  /\ pc \in {"refused", "process"} /\ (\E x \in seg.items : x.fin) => seg.ack >= cli.fin
  /\ HasClosed => pcb.rcvNxt > cli.sent

(* The HTTP server closes first, and its client has the end before it does.*)
HttpQuiet ==
  /\ pcb.state \in {"SYN_RCVD", "ESTABLISHED", "FIN_WAIT_1", "FIN_WAIT_2"}
  /\ page > 0 => pcb.rcvNxt > 1
  /\ HasClosed => cli.fin = wire.upto

(* The client of the echo server closes first, with all it sent answered;  *)
(* the server's FIN goes out before the handler ends, or the close fails   *)
(* and the block stays as it is, without its callbacks.                    *)
EchoQuiet ==
  /\ pcb.state \in {"SYN_RCVD", "ESTABLISHED", "CLOSE_WAIT", "LAST_ACK"}
  /\ pcb.state \in {"SYN_RCVD", "ESTABLISHED"} =>
        ~seg.fin /\ call = "none" /\ pcb.rcvNxt <= cli.sent + 1 /\ ~pcb.rxclosed
  /\ pcb.state \in {"CLOSE_WAIT", "LAST_ACK"} => HasClosed
  /\ HasClosed => cli.fin > cli.sent
  /\ pcb.state = "CLOSE_WAIT" =>
        AllSeen /\ (\/ pc = "fin" /\ call = "none" /\ ~pcb.rxclosed
                    \/ pc = "output" /\ call = "close"
                    \/ call = "none" /\ pcb.rxclosed /\ ~pcb.recv)
  /\ pcb.state = "LAST_ACK" => \/ pcb.sndNxt = SndEnd(pcb)
                               \/ AllSeen /\ pc = "output"

QuietInv ==
  /\ cli.end = "closed" => ~rst /\ cli.got = 0 /\ page = 0
  /\ cli.fin <= cli.got + 1
  /\ Quiet /\ Here /\ Active(pcb) =>
        /\ Unharmed
        /\ app = "http" => HttpQuiet
        /\ app = "echo" => EchoQuiet

IInv == TypeOK /\ ControlInv /\ StateInv /\ ItemInv /\ WindowInv /\ WrittenInv /\ PageInv
-----------------------------------------------------------------------------
(* The operators of TcpConn *)

(* A block is a record of Pcb, or there is none. *)
LEMMA NoPcbIs == NoPcb \notin Pcb /\ ~Active(NoPcb)
  <1>1. \A p \in Pcb : p.state \in State
    BY DEF Pcb
  <1>2. NoPcb.state = "CLOSED" /\ "CLOSED" \notin State
    BY DEF NoPcb, State, Open
  <1> QED BY <1>1, <1>2 DEF Active

LEMMA NoHsIs == ~NoHs.live /\ ~NoHs.file /\ NoHs.left = 0
  BY DEF NoHs

LEMMA HereIs ==
  ASSUME pcb \in Pcb \cup {NoPcb}
  PROVE  (Here <=> pcb \in Pcb) /\ (Active(pcb) => Here)
  BY NoPcbIs DEF Here

(* tcp_receive: an acknowledgement moves lastack, and no other pointer. *)
LEMMA AcknowledgeIs ==
  ASSUME NEW p \in Pcb, NEW ack \in Nat, p.acked > 0 => p.written > 0
  PROVE  LET q == Acknowledge(p, ack)
         IN  /\ q \in Pcb /\ (q.acked > 0 => q.written > 0)
             /\ q.state = p.state /\ q.rcvNxt = p.rcvNxt /\ q.rcvWnd = p.rcvWnd
             /\ q.ooseq = p.ooseq /\ q.refused = p.refused /\ q.sndNxt = p.sndNxt
             /\ q.written = p.written /\ q.fin = p.fin /\ q.rxclosed = p.rxclosed
             /\ q.recv = p.recv /\ q.arg = p.arg
  <1> DEFINE D == {i \in 1 .. p.written : i >= p.lastack /\ i < ack}
  <1>1. Cardinality(D) \in Nat /\ (Cardinality(D) > 0 => p.written > 0)
    <2>1. p.written \in Nat
      BY DEF Pcb
    <2>2. IsFiniteSet(1 .. p.written) /\ D \subseteq 1 .. p.written
      BY <2>1, FS_Interval
    <2>3. IsFiniteSet(D)
      BY <2>2, FS_Subset
    <2>4. D # {} => p.written > 0
      BY <2>1
    <2> QED BY <2>3, <2>4, FS_EmptySet, FS_CardinalityType
  <1> HIDE DEF D
  <1>2. CASE ack \in p.lastack + 1 .. p.sndNxt
    <2>1. Acknowledge(p, ack) = [p EXCEPT !.lastack = ack, !.acked = Cardinality(D)]
      BY <1>2 DEF Acknowledge, D
    <2> QED BY <1>1, <2>1 DEF Pcb
  <1>3. CASE ack \notin p.lastack + 1 .. p.sndNxt
    <2>1. Acknowledge(p, ack) = [p EXCEPT !.acked = 0]
      BY <1>3 DEF Acknowledge
    <2> QED BY <2>1 DEF Pcb
  <1> QED BY <1>2, <1>3

(* tcp_receive: what comes into sequence begins at rcv_nxt. *)
LEMMA TakenIs ==
  ASSUME NEW p \in Pcb, NEW items \in SUBSET Item, IsFiniteSet(items), IsFiniteSet(p.ooseq)
  PROVE  LET new == Taken(p, items)
         IN  /\ new \subseteq items \cup p.ooseq
             /\ IsFiniteSet(new) /\ Cardinality(new) \in Nat
             /\ new = {} <=> Cardinality(new) = 0
             /\ \A x \in new : x.at >= p.rcvNxt
             /\ new # {} => \E x \in new : x.at = p.rcvNxt
  <1>1. p.rcvNxt \in Nat /\ p.ooseq \in SUBSET Item
    BY DEF Pcb
  <1>2. Taken(p, items) \subseteq items \cup p.ooseq
    BY DEF Taken, InSequence
  <1>3. IsFiniteSet(Taken(p, items)) /\ Cardinality(Taken(p, items)) \in Nat
    BY <1>2, FS_Union, FS_Subset, FS_CardinalityType
  <1>4. \A x \in Taken(p, items) : x.at >= p.rcvNxt
    BY DEF Taken, InSequence
  <1>5. ASSUME Taken(p, items) # {}
        PROVE  \E x \in Taken(p, items) : x.at = p.rcvNxt
    <2>1. PICK x \in items : x.at = p.rcvNxt
      BY <1>5 DEF Taken
    <2>2. x \in InSequence(items \cup p.ooseq, p.rcvNxt)
      BY <1>1, <2>1 DEF InSequence
    <2> QED BY <2>1, <2>2 DEF Taken
  <1> QED BY <1>2, <1>3, <1>4, <1>5, FS_EmptySet

LEMMA ReassembleIs ==
  ASSUME NEW p \in Pcb, NEW items \in SUBSET Item, IsFiniteSet(items), IsFiniteSet(p.ooseq)
  PROVE  LET n == Cardinality(Taken(p, items))
             q == Reassemble(p, items)
         IN  /\ q \in Pcb /\ IsFiniteSet(q.ooseq) /\ q.ooseq \subseteq items \cup p.ooseq
             /\ q.rcvNxt = p.rcvNxt + n /\ q.rcvWnd = p.rcvWnd - n
             /\ q.state = p.state /\ q.refused = p.refused /\ q.sndNxt = p.sndNxt
             /\ q.lastack = p.lastack /\ q.acked = p.acked
             /\ q.written = p.written /\ q.fin = p.fin /\ q.rxclosed = p.rxclosed
             /\ q.recv = p.recv /\ q.arg = p.arg
  <1> DEFINE n == Cardinality(Taken(p, items))
             O == IF Taken(p, items) # {} THEN {x \in p.ooseq : x.at >= p.rcvNxt + n}
                  ELSE p.ooseq \cup {x \in items : \A y \in items : y.at > p.rcvNxt}
  <1>1. n \in Nat
    BY TakenIs
  <1>2. O \subseteq items \cup p.ooseq
    OBVIOUS
  <1>3. IsFiniteSet(O) /\ O \in SUBSET Item
    <2>1. IsFiniteSet(items \cup p.ooseq) /\ p.ooseq \in SUBSET Item
      BY FS_Union DEF Pcb
    <2> QED BY <1>2, <2>1, FS_Subset
  <1>4. Reassemble(p, items)
          = [p EXCEPT !.rcvNxt = @ + n, !.rcvWnd = @ - n, !.ooseq = O]
    BY DEF Reassemble
  <1> HIDE DEF n, O
  <1>5. Reassemble(p, items) \in Pcb
    <2>1. p.rcvNxt + n \in Nat \ {0} /\ p.rcvWnd - n \in Int
      BY <1>1 DEF Pcb
    <2> QED BY <1>3, <1>4, <2>1 DEF Pcb
  <1>6. p \in Pcb => /\ Reassemble(p, items).ooseq = O
                     /\ Reassemble(p, items).rcvNxt = p.rcvNxt + n
                     /\ Reassemble(p, items).rcvWnd = p.rcvWnd - n
    BY <1>4 DEF Pcb
  <1>7. LET q == Reassemble(p, items)
        IN  /\ q.state = p.state /\ q.refused = p.refused /\ q.sndNxt = p.sndNxt
            /\ q.lastack = p.lastack /\ q.acked = p.acked
            /\ q.written = p.written /\ q.fin = p.fin /\ q.rxclosed = p.rxclosed
            /\ q.recv = p.recv /\ q.arg = p.arg
    BY <1>4 DEF Pcb
  <1> QED BY <1>2, <1>3, <1>5, <1>6, <1>7 DEF n

(* All that the state machine can do to a block that stays.                *)
Kept(p, q) ==
  /\ p.state \in Open <=> q.state \in Open
  /\ p.state = "SYN_RCVD" <=> q.state = "SYN_RCVD"
  /\ q \in Pcb /\ IsFiniteSet(q.ooseq) /\ q.ooseq \in {{}, p.ooseq}
  /\ IsFiniteSet(q.refused) /\ q.refused \in {{}, p.refused}
  /\ q.rcvNxt = p.rcvNxt /\ q.rcvWnd = p.rcvWnd
  /\ q.sndNxt = p.sndNxt /\ q.lastack = p.lastack /\ q.acked = p.acked
  /\ q.written = p.written /\ q.fin = p.fin /\ q.rxclosed = p.rxclosed
  /\ q.recv = p.recv /\ q.arg = p.arg
  /\ Active(q) => Active(p)

(* tcp_process: the state machine closes an open block only to CLOSE_WAIT, *)
(* and takes a block away only from LAST_ACK.                              *)
LEMMA AdvanceIs ==
  ASSUME NEW p \in Pcb, NEW ack \in Nat, NEW fin \in BOOLEAN, IsFiniteSet(p.ooseq),
         IsFiniteSet(p.refused)
  PROVE  LET q == Advance(p, ack, fin)
         IN  /\ q = NoPcb => p.state = "LAST_ACK"
             /\ q \in Pcb \cup {NoPcb}
             /\ q # NoPcb => Kept(p, q)
  <1> DEFINE q == Advance(p, ack, fin)
  <1>1. \/ p.state = "LAST_ACK" /\ q = NoPcb
        \/ p.state \notin Open \cup {"SYN_RCVD"} /\ q = ToTimeWait(p)
        \/ p.state \in Open /\ q = [p EXCEPT !.state = "CLOSE_WAIT"]
        \/ p.state = "FIN_WAIT_1" /\ q = [p EXCEPT !.state = "CLOSING"]
        \/ p.state = "FIN_WAIT_1" /\ q = [p EXCEPT !.state = "FIN_WAIT_2"]
        \/ q = p
    BY DEF Advance, Open
  <1>2. ToTimeWait(p) = [p EXCEPT !.refused = {}, !.ooseq = {}, !.state = "TIME_WAIT"]
    BY DEF ToTimeWait, Purge
  <1>3. IsFiniteSet({}) /\ p # NoPcb
    BY FS_EmptySet, NoPcbIs
  <1> HIDE DEF q
  <1>5. ASSUME NEW s \in State, q = [p EXCEPT !.state = s],
               p.state \in Open <=> s \in Open, p.state # "SYN_RCVD", s # "SYN_RCVD",
               s # "TIME_WAIT" => p.state # "TIME_WAIT"
        PROVE  Kept(p, q)
    <2>1. q \in Pcb
      BY <1>5 DEF Pcb
    <2>2. q.state = s
      BY <1>5 DEF Pcb
    <2> QED BY <1>3, <1>5, <2>1, <2>2 DEF Kept, Pcb, Active, State, Open
  <1>6. ASSUME p.state \notin Open \cup {"SYN_RCVD"}, q = ToTimeWait(p)
        PROVE  Kept(p, q)
    <2>1. q \in Pcb
      BY <1>2, <1>6 DEF Pcb, State
    <2>2. q.state = "TIME_WAIT" /\ q.ooseq = {} /\ q.refused = {}
      BY <1>2, <1>6 DEF Pcb
    <2> QED BY <1>2, <1>3, <1>6, <2>1, <2>2 DEF Kept, Pcb, Active, Open
  <1>7. ASSUME q = p PROVE Kept(p, q)
    BY <1>3, <1>7 DEF Kept
  <1>8. Kept(p, q) \/ (q = NoPcb /\ p.state = "LAST_ACK")
    <2>1. CASE p.state \in Open /\ q = [p EXCEPT !.state = "CLOSE_WAIT"]
      BY <1>5, <2>1 DEF Open, State
    <2>2. CASE p.state = "FIN_WAIT_1" /\ q = [p EXCEPT !.state = "CLOSING"]
      BY <1>5, <2>2 DEF Open, State
    <2>3. CASE p.state = "FIN_WAIT_1" /\ q = [p EXCEPT !.state = "FIN_WAIT_2"]
      BY <1>5, <2>3 DEF Open, State
    <2> QED BY <1>1, <1>6, <1>7, <2>1, <2>2, <2>3
  <1>9. Kept(p, q) => q \in Pcb /\ q # NoPcb
    BY NoPcbIs DEF Kept
  <1> QED BY <1>8, <1>9 DEF q
-----------------------------------------------------------------------------
(* The client and its stream *)

LEMMA StreamIs ==
  ASSUME cli \in Peer
  PROVE  /\ Stream \subseteq Item /\ IsFiniteSet(Stream) /\ Coherent(Stream)
         /\ \A x \in Stream : /\ x.fin => HasClosed /\ x.at = cli.sent + 1
                              /\ ~x.fin => x.at <= cli.sent
  <1> DEFINE D == [at : 1 .. cli.sent, fin : {FALSE}]
             F == IF cli.fin > 0 THEN {[at |-> cli.sent + 1, fin |-> TRUE]} ELSE {}
  <1>1. cli.sent \in Nat /\ Stream = D \cup F
    BY DEF Stream, Peer
  <1>2. ASSUME NEW x \in D
        PROVE  x.at \in 1 .. cli.sent /\ x.fin = FALSE /\ x = [at |-> x.at, fin |-> FALSE]
    <2>1. x.at \in 1 .. cli.sent /\ x.fin = FALSE
      OBVIOUS
    <2>2. x = [at |-> x.at, fin |-> x.fin]
      OBVIOUS
    <2> QED BY <2>1, <2>2
  <1>3. \A x \in F : cli.fin > 0 /\ x = [at |-> cli.sent + 1, fin |-> TRUE]
    OBVIOUS
  <1>4. IsFiniteSet(D)
    <2> DEFINE f == [i \in 1 .. cli.sent |-> [at |-> i, fin |-> FALSE]]
    <2>1. f \in [1 .. cli.sent -> D]
      BY <1>1
    <2>2. \A x \in D : \E i \in 1 .. cli.sent : f[i] = x
      BY <1>2
    <2>3. f \in Surjection(1 .. cli.sent, D)
      BY <2>1, <2>2 DEF Surjection
    <2> QED BY <1>1, <2>3, FS_Surjection, FS_Interval
  <1>5. IsFiniteSet(F)
    BY FS_EmptySet, FS_Singleton
  <1> HIDE DEF D, F
  <1>6. IsFiniteSet(Stream)
    BY <1>1, <1>4, <1>5, FS_Union
  <1>7. \A x \in Stream : \/ x.fin = FALSE /\ x.at \in 1 .. cli.sent
                             /\ x = [at |-> x.at, fin |-> FALSE]
                          \/ x.fin = TRUE /\ x.at = cli.sent + 1 /\ cli.fin > 0
                             /\ x = [at |-> cli.sent + 1, fin |-> TRUE]
    <2> TAKE x \in Stream
    <2>1. CASE x \in D
      BY <1>2, <2>1
    <2>2. CASE x \in F
      <3>1. cli.fin > 0 /\ x = [at |-> cli.sent + 1, fin |-> TRUE]
        BY <1>3, <2>2
      <3>2. x.at = cli.sent + 1 /\ x.fin = TRUE
        BY <3>1
      <3> QED BY <3>1, <3>2
    <2> QED BY <1>1, <2>1, <2>2
  <1>8. Stream \subseteq Item
    <2> SUFFICES ASSUME NEW x \in Stream PROVE x \in Item
      OBVIOUS
    <2>1. \A n \in Nat, b \in BOOLEAN : [at |-> n, fin |-> b] \in Item
      BY DEF Item
    <2>2. CASE x = [at |-> x.at, fin |-> FALSE] /\ x.at \in 1 .. cli.sent
      <3>1. x.at \in Nat
        BY <1>1, <2>2
      <3>2. [at |-> x.at, fin |-> FALSE] \in Item
        BY <2>1, <3>1
      <3> QED BY <2>2, <3>2
    <2>3. CASE x = [at |-> cli.sent + 1, fin |-> TRUE]
      <3>1. cli.sent + 1 \in Nat
        BY <1>1
      <3>2. [at |-> cli.sent + 1, fin |-> TRUE] \in Item
        BY <2>1, <3>1
      <3> QED BY <2>3, <3>2
    <2> QED BY <1>7, <2>2, <2>3
  <1>9. Coherent(Stream)
    <2> SUFFICES ASSUME NEW x \in Stream, NEW y \in Stream
                 PROVE  /\ x.at = y.at => x = y
                        /\ x.fin => y = x \/ (y.at < x.at /\ ~y.fin)
      BY DEF Coherent
    <2>1. CASE x.fin = FALSE /\ y.fin = FALSE
      BY <1>1, <1>7, <2>1
    <2>2. CASE x.fin = TRUE /\ y.fin = FALSE
      BY <1>1, <1>7, <2>2
    <2>3. CASE x.fin = FALSE /\ y.fin = TRUE
      BY <1>1, <1>7, <2>3
    <2>4. CASE x.fin = TRUE /\ y.fin = TRUE
      BY <1>1, <1>7, <2>4
    <2> QED BY <1>7, <2>1, <2>2, <2>3, <2>4
  <1> QED BY <1>1, <1>6, <1>7, <1>8, <1>9 DEF HasClosed

(* Steps of the client leave the board alone.                              *)
LEMMA ClientBasics ==
  ASSUME IInv, UNCHANGED <<app, pcb, hs, out, pc, call, seg, wire, page>>,
         cause \subseteq cause', cli' \in Peer,
         cli'.end = "closed" => cli.end = "closed" /\ UNCHANGED cli
  PROVE  TypeOK' /\ ControlInv' /\ StateInv' /\ WindowInv' /\ WrittenInv'
  <1>1. TypeOK'
    BY DEF IInv, TypeOK, Here, Queued
  <1>2. ControlInv'
    BY DEF IInv, ControlInv, Here, Active
  <1>3. StateInv'
    BY DEF IInv, StateInv, Here, HasClosed
  <1>4. WindowInv'
    BY DEF IInv, WindowInv, Here, DataAhead, FinAhead
  <1>5. WrittenInv'
    BY DEF IInv, WrittenInv, Here, Echoing, DataAhead
  <1> QED BY <1>1, <1>2, <1>3, <1>4, <1>5

LEMMA ClientStep ==
  ASSUME IInv, ClientWrite \/ ClientClose \/ ClientReceive \/ ClientGetsReset \/ ClientAborts
  PROVE  IInv'
  <1>1. cli \in Peer /\ wire \in [upto : Nat, fin : BOOLEAN]
    BY DEF IInv, TypeOK
  <1>2. /\ UNCHANGED <<app, pcb, hs, out, pc, call, seg, wire, page>>
        /\ cause \subseteq cause'
    BY DEF ClientWrite, ClientClose, ClientReceive, ClientGetsReset, ClientAborts, history
  <1>3. CASE ClientWrite
    <2>1. /\ cli.end = "open" /\ cli.fin = 0 /\ ~HasClosed /\ cli' \in Peer
          /\ cli'.end = "open" /\ cli'.fin = 0 /\ ~HasClosed' /\ cli'.sent = cli.sent + 1 /\ cli'.got = cli.got
      BY <1>1, <1>3 DEF ClientWrite, Peer, HasClosed
    <2>2. Stream \subseteq Stream'
      <3>1. cli.sent \in Nat /\ 1 .. cli.sent \subseteq 1 .. cli'.sent
        BY <1>1, <2>1 DEF Peer
      <3>2. Stream = [at : 1 .. cli.sent, fin : {FALSE}]
        BY <2>1 DEF Stream
      <3>3. Stream' = [at : 1 .. cli'.sent, fin : {FALSE}]
        BY <2>1 DEF Stream
      <3> QED BY <3>1, <3>2, <3>3
    <2>3. ItemInv'
      BY <1>2, <2>1, <2>2 DEF IInv, ItemInv, Queued, Here, Alive
    <2>4. Plain' => Plain /\ cli.sent = 0
      BY <1>1, <1>2, <1>3, <2>1 DEF Plain, Alive, ClientWrite, Peer
    <2>5. PageInv'
      BY <1>2, <2>1, <2>4 DEF IInv, PageInv, Here, Active
    <2> QED BY <1>2, <2>1, <2>3, <2>5, ClientBasics DEF IInv
  <1>4. CASE ClientClose
    <2>1. /\ cli.end \in {"open", "fin"} /\ cli.fin = 0 /\ cli' \in Peer
          /\ cli'.end = cli.end /\ HasClosed' /\ ~HasClosed /\ cli'.sent = cli.sent /\ cli'.got = cli.got
      BY <1>1, <1>4 DEF ClientClose, Peer, HasClosed
    <2>2. Stream \subseteq Stream'
      <3>1. Stream = [at : 1 .. cli.sent, fin : {FALSE}]
        BY <2>1 DEF Stream
      <3>2. [at : 1 .. cli'.sent, fin : {FALSE}] \subseteq Stream'
        BY DEF Stream
      <3> QED BY <2>1, <3>1, <3>2
    <2>3. ItemInv'
      BY <1>2, <2>1, <2>2 DEF IInv, ItemInv, Queued, Here, Alive
    <2>4. Plain' => Plain /\ cli.end = "fin"
      BY <1>2, <1>4, <2>1 DEF Plain, Alive, ClientClose
    <2>5. PageInv'
      BY <1>2, <2>1, <2>4 DEF IInv, PageInv, Here, Active
    <2> QED BY <1>2, <2>1, <2>3, <2>5, ClientBasics DEF IInv
  <1>5. CASE ClientReceive
    <2>1. /\ cli.end = "open" /\ cli' \in Peer /\ cli'.end \in {"open", "fin"}
          /\ cli'.fin = cli.fin /\ HasClosed' = HasClosed /\ cli'.sent = cli.sent
          /\ cli'.end = "fin" => wire.fin /\ cli'.got = wire.upto - 1
      <3>1. PICK n \in cli.got + 1 .. wire.upto - 1 :
               cli' = [cli EXCEPT !.got = n,
                                  !.end = IF wire.fin /\ n = wire.upto - 1 THEN "fin" ELSE @]
        BY <1>5 DEF ClientReceive
      <3>2. cli.end = "open"
        BY <1>5 DEF ClientReceive
      <3>3. cli.got \in Nat /\ wire.upto \in Nat
        BY <1>1 DEF Peer
      <3>4. n \in Nat
        BY <3>3
      <3> QED BY <1>1, <3>1, <3>2, <3>4 DEF Peer, HasClosed
    <2>2. Stream' = Stream
      BY <2>1 DEF Stream
    <2>3. ItemInv'
      BY <1>2, <2>1, <2>2 DEF IInv, ItemInv, Queued, Here, Alive
    <2>4. Plain' => Plain
      BY <1>2, <2>1 DEF Plain, Alive
    <2>5. PageInv'
      BY <1>2, <2>1, <2>4 DEF IInv, PageInv, Here, Active
    <2> QED BY <1>2, <2>1, <2>3, <2>5, ClientBasics DEF IInv
  <1>6. CASE ClientGetsReset \/ ClientAborts
    <2>1. cli' \in Peer /\ cli'.end = "rst"
      BY <1>6 DEF ClientGetsReset, ClientAborts, Gone, Peer
    <2>2. ItemInv'
      BY <1>2, <2>1 DEF IInv, ItemInv, Queued, Here, Alive
    <2>3. PageInv'
      BY <1>2, <2>1 DEF IInv, PageInv, Here, Active, Plain, Alive
    <2> QED BY <1>2, <2>1, <2>2, <2>3, ClientBasics DEF IInv
  <1> QED BY <1>3, <1>4, <1>5, <1>6

LEMMA ConnectStep ==
  ASSUME IInv, ClientConnect
  PROVE  IInv'
  <1>1. /\ ~Here /\ out = <<>> /\ ~wire.fin /\ pc = "idle" /\ call = "none" /\ seg = NoSeg
        /\ cli \in Peer /\ cli.sent = 0 /\ ~HasClosed /\ ~hs.live /\ hs = NoHs
    BY DEF IInv, TypeOK, StateInv, ControlInv, ClientConnect
  <1>2. /\ UNCHANGED <<app, hs, out, pc, call, seg, page, cause>>
        /\ pcb' = NewPcb /\ wire' = [wire EXCEPT !.upto = 1]
        /\ cli' \in Peer /\ cli'.end = "open" /\ cli'.sent = 0 /\ ~HasClosed'
    BY <1>1 DEF ClientConnect, Peer, history, HasClosed
  <1>3. /\ pcb' \in Pcb /\ Here' /\ pcb'.state = "SYN_RCVD" /\ pcb'.ooseq = {}
        /\ pcb'.refused = {} /\ pcb'.rcvNxt = 1 /\ pcb'.rcvWnd = Wnd /\ pcb'.written = 0
        /\ ~pcb'.rxclosed /\ ~pcb'.recv /\ ~pcb'.arg /\ pcb'.acked = 0 /\ ~pcb'.fin
        /\ pcb'.sndNxt = 1
    <2>1. NewPcb \in Pcb
      BY ConnAssumption DEF NewPcb, Pcb, State
    <2> QED BY <1>2, <2>1, NoPcbIs DEF NewPcb, Here
  <1>4. wire' \in [upto : Nat, fin : BOOLEAN] /\ wire'.upto = 1 /\ ~wire'.fin
    BY <1>1, <1>2 DEF IInv, TypeOK
  <1>5. TypeOK'
    BY <1>1, <1>2, <1>3, <1>4, FS_EmptySet DEF IInv, TypeOK, Queued, NoSeg
  <1>6. ControlInv'
    BY <1>1, <1>2, <1>3 DEF ControlInv, NoSeg
  <1>7. StateInv'
    BY <1>1, <1>2, <1>3 DEF StateInv, Open, NoHs
  <1>8. ItemInv'
    BY <1>1, <1>2, <1>3 DEF ItemInv, Queued, NoSeg, Coherent
  <1>9. ~hs'.file /\ seg'.items = {} /\ Len(out') = 0 /\ page' \in Nat
    BY <1>1, <1>2, EmptySeq DEF NoHs, NoSeg, IInv, TypeOK
  <1>10. WindowInv' /\ WrittenInv'
    BY <1>2, <1>3, <1>9 DEF WindowInv, WrittenInv, Open, Echoing
  <1>11. PageInv'
    <2>1. cli'.end = "open" /\ cli'.sent = 0 /\ ~HasClosed' /\ pc' = "idle" /\ call' = "none"
      BY <1>1, <1>2
    <2>2. ~pcb'.fin /\ wire'.upto = pcb'.sndNxt /\ ~wire'.fin
      BY <1>3, <1>4
    <2> QED BY <1>9, <2>1, <2>2 DEF PageInv, Active
  <1> QED BY <1>5, <1>6, <1>7, <1>8, <1>10, <1>11 DEF IInv
-----------------------------------------------------------------------------
(* Segments, and blocks that go *)

(* A part of a stream is coherent, and finite.                             *)
LEMMA PartOfStream ==
  ASSUME cli \in Peer, NEW S \in SUBSET Stream
  PROVE  S \in SUBSET Item /\ IsFiniteSet(S) /\ Coherent(S)
  BY StreamIs, FS_Subset DEF Coherent

LEMMA StartStep ==
  ASSUME IInv, NEW s \in Segment, Start(s), s.items \subseteq Stream, ~s.fin,
         s.syn => s.items = {}, Alive, Active(pcb)
  PROVE  IInv'
  <1>1. /\ UNCHANGED <<app, pcb, hs, out, call, wire, cli, page, cause>>
        /\ seg' = s /\ pc = "idle" /\ seg = NoSeg /\ call = "none" /\ Here
        /\ pc' = IF pcb.refused # {} THEN "refused" ELSE "process"
    BY HereIs DEF Start, history, IInv, ControlInv, TypeOK
  <1>2. pc' \in {"refused", "process"} /\ (pc' = "refused" => pcb.refused # {})
    BY <1>1
  <1>3. ~seg.fin /\ seg.items = {} /\ ~seg'.fin /\ seg'.items = s.items
    BY <1>1 DEF NoSeg
  <1>4. Queued' \cup seg'.items \subseteq Stream /\ Queued' = Queued
    BY <1>1 DEF IInv, ItemInv, Queued, Here
  <1>5. /\ Coherent(Queued' \cup seg'.items) /\ IsFiniteSet(seg'.items)
    BY <1>3, <1>4, PartOfStream DEF IInv, TypeOK
  <1>6. TypeOK'
    BY <1>1, <1>2, <1>4, <1>5 DEF IInv, TypeOK, Here
  <1>7. ControlInv'
    BY <1>1, <1>2, <1>3 DEF IInv, ControlInv, Here, Active
  <1>8. StateInv'
    BY <1>1 DEF IInv, StateInv, Here, HasClosed
  <1>9. ItemInv'
    <2>1. Stream' = Stream /\ HasClosed' = HasClosed
      BY <1>1 DEF Stream, HasClosed
    <2> QED BY <1>1, <1>3, <1>4, <1>5, <2>1 DEF ItemInv, Alive
  <1>10. WindowInv'
    BY <1>1, <1>2 DEF IInv, WindowInv, Here, DataAhead, FinAhead
  <1>11. WrittenInv'
    BY <1>1, <1>2, <1>3 DEF IInv, WrittenInv, Here, Echoing, DataAhead
  <1>12. PageInv'
    BY <1>1, <1>2 DEF IInv, PageInv, Here, Active, Plain, Alive, HasClosed
  <1> QED BY <1>6, <1>7, <1>8, <1>9, <1>10, <1>11, <1>12 DEF IInv

LEMMA SegmentStep ==
  ASSUME IInv, SegArrives \/ SynRepeated \/ FreshArrives
  PROVE  IInv'
  <1>1. cli \in Peer
    BY DEF IInv, TypeOK
  <1>2. Sendable \subseteq Stream
    BY DEF Sendable
  <1>3. \A ack \in Nat, I \in SUBSET Stream :
          LET s == [NoSeg EXCEPT !.items = I, !.ack = ack]
          IN  s \in Segment /\ s.items = I /\ ~s.fin /\ ~s.syn
    <2> TAKE ack \in Nat, I \in SUBSET Stream
    <2>1. I \in SUBSET Item
      BY <1>1, StreamIs
    <2> QED BY <2>1 DEF NoSeg, Segment
  <1>4. CASE SegArrives
    <2>1. PICK a \in 1 .. cli.sent + 2, b \in 0 .. cli.sent + 1, ack \in 1 .. cli.got + 1 :
            Start([NoSeg EXCEPT !.items = {x \in Sendable : a <= x.at /\ x.at <= b},
                                !.ack = ack])
      BY <1>4 DEF SegArrives
    <2>2. {x \in Sendable : a <= x.at /\ x.at <= b} \in SUBSET Stream
      BY <1>2
    <2>3. ack \in Nat
      BY <1>1 DEF Peer
    <2>4. Alive /\ Active(pcb)
      BY <1>4 DEF SegArrives, Alive
    <2> HIDE DEF Sendable
    <2> QED BY <1>3, <2>1, <2>2, <2>3, <2>4, StartStep
  <1>5. CASE SynRepeated
    <2>1. Start([NoSeg EXCEPT !.syn = TRUE]) /\ Alive /\ Active(pcb)
      BY <1>5 DEF SynRepeated, Alive
    <2>2. LET s == [NoSeg EXCEPT !.syn = TRUE]
          IN  s \in Segment /\ s.items = {} /\ ~s.fin
      BY DEF NoSeg, Segment
    <2> QED BY <2>1, <2>2, StartStep
  <1>6. CASE FreshArrives
    <2>1. Start([NoSeg EXCEPT !.items = Sendable, !.ack = cli.got + 1]) /\ Alive /\ Active(pcb)
      BY <1>6 DEF FreshArrives, Alive
    <2>2. cli.got + 1 \in Nat
      BY <1>1 DEF Peer
    <2> QED BY <1>2, <1>3, <2>1, <2>2, StartStep
  <1> QED BY <1>4, <1>5, <1>6

(* The block is freed: by tcp_abort, a RST, the last acknowledgement, or   *)
(* for another connection.  http_err frees the state it refers to.         *)
LEMMA GoneStep ==
  ASSUME IInv, Here, pcb' = NoPcb, hs' = IF pcb.arg THEN NoHs ELSE hs,
         pc' = "idle", seg' = NoSeg, call = "none",
         UNCHANGED <<app, out, call, wire, cli, page>>, cause \subseteq cause'
  PROVE  IInv'
  <1>1. ~Here' /\ ~Active(pcb') /\ Queued' = {}
    BY NoPcbIs DEF Here, Queued
  <1>2. ~hs'.live /\ hs' = NoHs /\ ~hs'.file
    <2>1. hs' = NoHs
      BY DEF IInv, StateInv
    <2> QED BY <2>1, NoHsIs
  <1>3. seg'.items = {} /\ ~seg'.fin /\ seg' \in Segment
    BY DEF NoSeg, Segment
  <1>4. TypeOK'
    BY <1>1, <1>2, <1>3, FS_EmptySet DEF IInv, TypeOK, NoHs
  <1>5. ControlInv'
    BY <1>1, <1>2, <1>3 DEF ControlInv
  <1>6. StateInv'
    BY <1>1, <1>2 DEF IInv, StateInv, HasClosed
  <1>7. ItemInv'
    BY <1>1, <1>3 DEF ItemInv, Coherent
  <1>8. WindowInv'
    BY <1>1 DEF WindowInv
  <1>9. WrittenInv'
    BY <1>1 DEF IInv, WrittenInv, Echoing
  <1>10. PageInv'
    BY <1>1, <1>2, <1>3 DEF IInv, PageInv, Plain, Alive, HasClosed, Active
  <1> QED BY <1>4, <1>5, <1>6, <1>7, <1>8, <1>9, <1>10 DEF IInv

LEMMA AbortedStep ==
  ASSUME IInv, AcceptFails \/ ResetArrives \/ Killed \/ RecvClosed
  PROVE  IInv'
  <1>1. CASE AcceptFails
    BY <1>1, GoneStep DEF AcceptFails, Abort, HttpErr, IInv, ControlInv
  <1>2. CASE ResetArrives
    BY <1>2, GoneStep, HereIs DEF ResetArrives, HttpErr, IInv, ControlInv, TypeOK, NoSeg
  <1>3. CASE Killed
    <2>1. /\ pc = "idle" /\ pc' = "idle" /\ seg' = NoSeg /\ call = "none" /\ Here
          /\ pcb' = NoPcb /\ UNCHANGED <<app, out, call, wire, cli, page>>
          /\ cause \subseteq cause'
      BY <1>3, HereIs, NoPcbIs DEF Killed, Abort, IInv, ControlInv, TypeOK, NoPcb
    <2>2. hs' = IF pcb.arg THEN NoHs ELSE hs
      <3>1. CASE pcb.state = "TIME_WAIT"
        BY <1>3, <2>1, <3>1 DEF Killed, IInv, StateInv, Abort, Active, Open
      <3>2. CASE pcb.state # "TIME_WAIT"
        BY <1>3, <3>2 DEF Killed, Abort, HttpErr
      <3> QED BY <3>1, <3>2
    <2> QED BY <2>1, <2>2, GoneStep
  <1>4. CASE RecvClosed
    <2>1. /\ pc' = "idle" /\ seg' = NoSeg /\ call = "none" /\ Here
          /\ pcb' = NoPcb /\ UNCHANGED <<app, out, call, wire, cli, page>>
          /\ cause \subseteq cause'
      BY <1>4 DEF RecvClosed, Abort, Goto, IInv, ControlInv
    <2>2. hs' = IF pcb.arg THEN NoHs ELSE hs
      <3>1. CASE Active(pcb)
        BY <1>4, <3>1 DEF RecvClosed, Abort, HttpErr
      <3>2. CASE ~Active(pcb)
        <4>1. pcb.state \notin {"SYN_RCVD"} \cup Open
          BY <3>2 DEF Active, Open
        <4> QED BY <1>4, <2>1, <3>2, <4>1 DEF RecvClosed, IInv, StateInv
      <3> QED BY <3>1, <3>2
    <2> QED BY <2>1, <2>2, GoneStep
  <1> QED BY <1>1, <1>2, <1>3, <1>4
-----------------------------------------------------------------------------
(* tcp_process *)

LEMMA CoherentPart ==
  ASSUME NEW S, NEW T, S \subseteq T, Coherent(T)
  PROVE  Coherent(S)
  BY DEF Coherent

(* A FIN in sequence is the last item, and the only one without data.      *)
LEMMA DataAndFin ==
  ASSUME NEW S \in SUBSET Item, IsFiniteSet(S), Coherent(S)
  PROVE  LET D == {x \in S : ~x.fin}
             fin == \E x \in S : x.fin
         IN  /\ IsFiniteSet(D) /\ Cardinality(D) \in Nat
             /\ D = {} <=> Cardinality(D) = 0
             /\ Cardinality(S) = Cardinality(D) + (IF fin THEN 1 ELSE 0)
  <1> DEFINE D == {x \in S : ~x.fin}
  <1>1. IsFiniteSet(D) /\ Cardinality(D) \in Nat /\ (D = {} <=> Cardinality(D) = 0)
    BY FS_Subset, FS_CardinalityType, FS_EmptySet
  <1>2. CASE \E x \in S : x.fin
    <2>1. PICK x \in S : x.fin
      BY <1>2
    <2>2. x \notin D /\ S = D \cup {x}
      BY <2>1 DEF Coherent
    <2>3. Cardinality(S) = Cardinality(D) + 1
      BY <1>1, <2>2, FS_AddElement
    <2> QED BY <1>1, <1>2, <2>3
  <1>3. CASE ~ \E x \in S : x.fin
    <2>1. D = S
      BY <1>3
    <2>2. Cardinality(S) = Cardinality(D) + 0
      BY <1>1, <2>1
    <2> QED BY <1>1, <1>3, <2>2
  <1> QED BY <1>1, <1>2, <1>3

(* http_accept and echo_accept: what a block is when it comes to           *)
(* tcp_receive, and the state of the HTTP server with it.                  *)
FirstAccepted == IF pcb.state = "SYN_RCVD" THEN Accepted(pcb) ELSE pcb

LEMMA AcceptedIs ==
  ASSUME IInv, pc = "process", ~seg.syn,
         hs' = IF pcb.state = "SYN_RCVD" /\ app = "http" THEN [NoHs EXCEPT !.live = TRUE]
               ELSE hs
  PROVE  LET p == FirstAccepted
         IN  /\ p \in Pcb /\ p.state # "SYN_RCVD"
             /\ p.state \in Open <=> pcb.state \in {"SYN_RCVD"} \cup Open
             /\ p.rcvNxt = pcb.rcvNxt /\ p.rcvWnd = pcb.rcvWnd /\ p.ooseq = pcb.ooseq
             /\ p.refused = pcb.refused /\ p.sndNxt = pcb.sndNxt
             /\ p.written = pcb.written /\ p.fin = pcb.fin /\ p.rxclosed = pcb.rxclosed
             /\ p.acked > 0 => p.written > 0
             /\ p.state \in Open => /\ p.arg <=> app = "http"
                                    /\ p.recv \/ (p.rxclosed /\ app = "echo")
                                    /\ ~p.fin /\ p.rcvWnd = Wnd
             /\ p.state \notin Open => p.rxclosed /\ ~p.recv /\ ~p.arg
             /\ hs' \in [live : BOOLEAN, file : BOOLEAN, left : Nat]
             /\ hs'.live <=> p.arg
             /\ ~hs'.live => hs' = NoHs
             /\ hs'.file = hs.file /\ hs'.left = hs.left
  <1>1. pcb \in Pcb /\ Here
    BY HereIs DEF IInv, TypeOK, ControlInv
  <1>2. hs \in [live : BOOLEAN, file : BOOLEAN, left : Nat] /\ app \in {"http", "echo"}
    BY DEF IInv, TypeOK
  <1>3. CASE pcb.state = "SYN_RCVD"
    <2> DEFINE p == FirstAccepted
    <2>1. p = [pcb EXCEPT !.state = "ESTABLISHED", !.recv = TRUE, !.arg = (app = "http")]
      BY <1>3 DEF FirstAccepted, Accepted
    <2>2. /\ pcb.rcvWnd = Wnd /\ ~pcb.rxclosed /\ ~pcb.arg /\ pcb.acked = 0 /\ ~pcb.fin
          /\ ~hs.live
      BY <1>1, <1>3 DEF IInv, StateInv
    <2>3. hs = NoHs
      BY <2>2 DEF IInv, StateInv
    <2>4. p \in Pcb
      BY <1>1, <2>1 DEF Pcb, State, Open
    <2>5. /\ p.state = "ESTABLISHED" /\ p.recv = TRUE /\ p.arg = (app = "http")
          /\ p.rcvNxt = pcb.rcvNxt /\ p.rcvWnd = pcb.rcvWnd /\ p.ooseq = pcb.ooseq
          /\ p.refused = pcb.refused /\ p.sndNxt = pcb.sndNxt /\ p.acked = pcb.acked
          /\ p.written = pcb.written /\ p.fin = pcb.fin /\ p.rxclosed = pcb.rxclosed
      BY <1>1, <2>1 DEF Pcb
    <2> HIDE DEF p
    <2>6. "ESTABLISHED" \in Open /\ "ESTABLISHED" # "SYN_RCVD"
      BY DEF Open
    <2>7. /\ hs' \in [live : BOOLEAN, file : BOOLEAN, left : Nat]
          /\ hs'.live <=> app = "http"
          /\ ~hs'.live => hs' = NoHs
          /\ hs'.file = hs.file /\ hs'.left = hs.left
      <3>1. CASE app = "http"
        BY <1>3, <2>3, <3>1 DEF NoHs
      <3>2. CASE app # "http"
        BY <1>2, <2>2, <2>3, <3>2
      <3> QED BY <3>1, <3>2
    <2>8. p.acked > 0 => p.written > 0
      BY <2>2, <2>5
    <2> QED BY <1>3, <2>2, <2>4, <2>5, <2>6, <2>7, <2>8 DEF p
  <1>4. CASE pcb.state # "SYN_RCVD"
    <2>1. FirstAccepted = pcb /\ hs' = hs
      BY <1>4 DEF FirstAccepted
    <2>2. pcb.state \in Open => pcb.rcvWnd = Wnd
      <3>1. DataAhead = 0 /\ FinAhead = 0
        BY DEF DataAhead, FinAhead
      <3> QED BY <1>1, <3>1, ConnAssumption DEF IInv, WindowInv
    <2>3. /\ pcb.acked > 0 => pcb.written > 0
          /\ pcb.state \in Open => /\ pcb.arg <=> app = "http"
                                   /\ pcb.recv \/ (pcb.rxclosed /\ app = "echo")
                                   /\ ~pcb.fin
          /\ pcb.state \notin Open => pcb.rxclosed /\ ~pcb.recv /\ ~pcb.arg
          /\ hs.live <=> pcb.arg
          /\ ~hs.live => hs = NoHs
      BY <1>1, <1>4 DEF IInv, StateInv
    <2> QED BY <1>1, <1>2, <1>4, <2>1, <2>2, <2>3
  <1> QED BY <1>3, <1>4
(* tcp_receive and the state machine: what the segment has brought, n      *)
(* items from rcv_nxt on, is what the block has moved by and the window    *)
(* lacks.                                                                  *)
LEMMA ReceivedIs ==
  ASSUME IInv, Process, pc = "process", pcb' # NoPcb
  PROVE  LET p == FirstAccepted
             n == pcb'.rcvNxt - p.rcvNxt
         IN  /\ pcb' \in Pcb /\ IsFiniteSet(pcb'.ooseq) /\ IsFiniteSet(pcb'.refused)
             /\ pcb'.state \in Open <=> p.state \in Open
             /\ pcb'.state # "SYN_RCVD"
             /\ pcb'.rcvWnd = p.rcvWnd - n
             /\ pcb'.refused \in {{}, p.refused}
             /\ pcb'.sndNxt = p.sndNxt /\ pcb'.written = p.written /\ pcb'.fin = p.fin
             /\ pcb'.rxclosed = p.rxclosed /\ pcb'.recv = p.recv /\ pcb'.arg = p.arg
             /\ pcb'.acked > 0 => pcb'.written > 0
             /\ seg' \in Segment /\ IsFiniteSet(seg'.items) /\ ~seg'.syn
             /\ n \in Nat
             /\ Cardinality(seg'.items) \in Nat
             /\ seg'.items = {} <=> Cardinality(seg'.items) = 0
             /\ n = Cardinality(seg'.items) + (IF seg'.fin THEN 1 ELSE 0)
             /\ \A x \in seg'.items : x.at >= p.rcvNxt /\ ~x.fin
             /\ seg'.items # {} => \E x \in seg'.items : x.at = p.rcvNxt
             /\ pcb'.ooseq \cup seg'.items \subseteq pcb.ooseq \cup seg.items
             /\ seg'.fin => \E x \in pcb.ooseq \cup seg.items : x.fin
             /\ pc' = AfterProcess(seg', pcb')
  <1> DEFINE p0 == FirstAccepted
             p1 == Acknowledge(p0, seg.ack)
             new == Taken(p1, seg.items)
             fin == \E x \in new : x.fin
             q == Reassemble(p1, seg.items)
             s == [NoSeg EXCEPT !.items = {x \in new : ~x.fin}, !.fin = fin]
  <1>1. /\ pcb' = Advance(q, seg.ack, fin) /\ seg' = s
        /\ pc' = AfterProcess(s, pcb') /\ ~seg.syn
    BY DEF Process, FirstAccepted
  <1>2. /\ hs' = IF pcb.state = "SYN_RCVD" /\ app = "http" THEN [NoHs EXCEPT !.live = TRUE]
                 ELSE hs
    BY DEF Process
  <1>3. /\ p0 \in Pcb /\ p0.state # "SYN_RCVD" /\ (p0.acked > 0 => p0.written > 0)
        /\ p0.ooseq = pcb.ooseq /\ p0.refused = pcb.refused
    BY <1>1, <1>2, AcceptedIs
  <1>4. /\ pcb \in Pcb /\ Here /\ seg \in Segment /\ seg.ack \in Nat /\ seg.items \in SUBSET Item
        /\ IsFiniteSet(seg.items) /\ IsFiniteSet(pcb.ooseq) /\ IsFiniteSet(pcb.refused)
        /\ Coherent(pcb.ooseq \cup seg.items)
    BY HereIs DEF IInv, TypeOK, ControlInv, Queued, ItemInv, Segment
  <1> HIDE DEF p0
  <1>5. /\ p1 \in Pcb /\ (p1.acked > 0 => p1.written > 0)
        /\ p1.state = p0.state /\ p1.rcvNxt = p0.rcvNxt /\ p1.rcvWnd = p0.rcvWnd
        /\ p1.ooseq = p0.ooseq /\ p1.refused = p0.refused /\ p1.sndNxt = p0.sndNxt
        /\ p1.written = p0.written /\ p1.fin = p0.fin /\ p1.rxclosed = p0.rxclosed
        /\ p1.recv = p0.recv /\ p1.arg = p0.arg
    BY <1>3, <1>4, AcknowledgeIs
  <1> HIDE DEF p1
  <1>6. /\ new \subseteq seg.items \cup pcb.ooseq
        /\ IsFiniteSet(new) /\ Cardinality(new) \in Nat
        /\ \A x \in new : x.at >= p0.rcvNxt
        /\ new # {} => \E x \in new : x.at = p0.rcvNxt
    BY <1>3, <1>4, <1>5, TakenIs
  <1>7. /\ q \in Pcb /\ IsFiniteSet(q.ooseq) /\ q.ooseq \subseteq seg.items \cup pcb.ooseq
        /\ q.rcvNxt = p0.rcvNxt + Cardinality(new) /\ q.rcvWnd = p0.rcvWnd - Cardinality(new)
        /\ q.state = p0.state /\ q.refused = p0.refused /\ q.sndNxt = p0.sndNxt
        /\ q.acked = p1.acked
        /\ q.written = p0.written /\ q.fin = p0.fin /\ q.rxclosed = p0.rxclosed
        /\ q.recv = p0.recv /\ q.arg = p0.arg
    BY <1>3, <1>4, <1>5, ReassembleIs
  <1>8. new \in SUBSET Item /\ Coherent(new)
    <2>1. pcb.ooseq \in SUBSET Item
      BY <1>4 DEF Pcb
    <2> QED BY <1>4, <1>6, <2>1, CoherentPart
  <1> HIDE DEF q, new
  <1>9. Kept(q, pcb')
    BY <1>1, <1>3, <1>4, <1>7, AdvanceIs
  <1>10. /\ seg' \in Segment /\ seg'.items = {x \in new : ~x.fin} /\ seg'.fin = fin
         /\ ~seg'.syn
    <2>1. {x \in new : ~x.fin} \in SUBSET Item /\ fin \in BOOLEAN
      BY <1>8
    <2> QED BY <1>1, <2>1 DEF NoSeg, Segment
  <1>11. /\ IsFiniteSet(seg'.items) /\ Cardinality(seg'.items) \in Nat
         /\ seg'.items = {} <=> Cardinality(seg'.items) = 0
         /\ Cardinality(new) = Cardinality(seg'.items) + (IF seg'.fin THEN 1 ELSE 0)
    BY <1>6, <1>8, <1>10, DataAndFin
  <1>12. pcb'.rcvNxt - p0.rcvNxt = Cardinality(new) /\ pcb'.rcvWnd = p0.rcvWnd - Cardinality(new)
    <2>1. p0.rcvNxt \in Nat /\ p0.rcvWnd \in Int
      BY <1>3 DEF Pcb
    <2> QED BY <1>6, <1>7, <1>9, <2>1 DEF Kept
  <1>13. seg'.items # {} => \E x \in seg'.items : x.at = p0.rcvNxt
    <2>1. SUFFICES ASSUME NEW y \in seg'.items
                   PROVE  \E x \in seg'.items : x.at = p0.rcvNxt
      OBVIOUS
    <2>2. y \in new /\ ~y.fin
      BY <1>10, <2>1
    <2>3. PICK x \in new : x.at = p0.rcvNxt
      BY <1>6, <2>2
    <2>4. y.at >= x.at /\ x.at \in Nat /\ y.at \in Nat
      BY <1>6, <1>8, <2>2, <2>3 DEF Item
    <2>5. ~x.fin
      BY <1>8, <2>2, <2>3, <2>4 DEF Coherent
    <2> QED BY <1>10, <2>3, <2>5
  <1>14. \A x \in seg'.items : x.at >= p0.rcvNxt /\ ~x.fin
    BY <1>6, <1>10
  <1>15. /\ pcb'.ooseq \cup seg'.items \subseteq pcb.ooseq \cup seg.items
         /\ seg'.fin => \E x \in pcb.ooseq \cup seg.items : x.fin
    BY <1>6, <1>7, <1>9, <1>10 DEF Kept
  <1>16. pcb'.acked > 0 => pcb'.written > 0
    BY <1>5, <1>7, <1>9 DEF Kept
  <1>17. pc' = AfterProcess(seg', pcb')
    BY <1>1
  <1>18. /\ pcb' \in Pcb /\ IsFiniteSet(pcb'.ooseq) /\ IsFiniteSet(pcb'.refused)
         /\ pcb'.state \in Open <=> p0.state \in Open
         /\ pcb'.state # "SYN_RCVD"
         /\ pcb'.refused \in {{}, p0.refused}
         /\ pcb'.sndNxt = p0.sndNxt /\ pcb'.written = p0.written /\ pcb'.fin = p0.fin
         /\ pcb'.rxclosed = p0.rxclosed /\ pcb'.recv = p0.recv /\ pcb'.arg = p0.arg
    BY <1>3, <1>7, <1>9 DEF Kept
  <1> QED BY <1>6, <1>10, <1>11, <1>12, <1>13, <1>14, <1>15, <1>16, <1>17, <1>18 DEF p0
LEMMA ProcessStep ==
  ASSUME IInv, Process, pc = "process"
  PROVE  IInv'
  <1>1. /\ pcb \in Pcb /\ Here /\ Active(pcb) /\ ~seg.syn /\ call = "none" /\ call' = "none"
        /\ UNCHANGED <<app, out, call, wire, rst, cli, page, cause>>
        /\ hs' = IF pcb.state = "SYN_RCVD" /\ app = "http" THEN [NoHs EXCEPT !.live = TRUE]
                 ELSE hs
    BY HereIs DEF IInv, TypeOK, ControlInv, Process, history
  <1>2. CASE pcb' = NoPcb
    <2>1. pcb.state = "LAST_ACK"
      <3> DEFINE p0 == FirstAccepted
                 p1 == Acknowledge(p0, seg.ack)
                 q == Reassemble(p1, seg.items)
                 fin == \E x \in Taken(p1, seg.items) : x.fin
      <3>1. pcb' = Advance(q, seg.ack, fin)
        BY DEF Process, FirstAccepted
      <3>2. p0 \in Pcb /\ (p0.acked > 0 => p0.written > 0) /\ p0.ooseq = pcb.ooseq
            /\ p0.refused = pcb.refused
        BY <1>1, AcceptedIs
      <3>3. /\ seg.ack \in Nat /\ seg.items \in SUBSET Item
            /\ IsFiniteSet(seg.items) /\ IsFiniteSet(pcb.ooseq) /\ IsFiniteSet(pcb.refused)
        BY <1>1 DEF IInv, TypeOK, Queued, Segment
      <3>4. p0.state = "LAST_ACK" => pcb.state = "LAST_ACK"
        <4>1. CASE pcb.state = "SYN_RCVD"
          BY <1>1, <4>1 DEF FirstAccepted, Accepted, Pcb
        <4>2. CASE pcb.state # "SYN_RCVD"
          BY <4>2 DEF FirstAccepted
        <4> QED BY <4>1, <4>2
      <3> HIDE DEF p0
      <3>5. p1 \in Pcb /\ p1.state = p0.state /\ p1.ooseq = p0.ooseq /\ p1.refused = p0.refused
        BY <3>2, <3>3, AcknowledgeIs
      <3> HIDE DEF p1
      <3>6. q \in Pcb /\ q.state = p0.state /\ IsFiniteSet(q.ooseq) /\ IsFiniteSet(q.refused)
        BY <3>2, <3>3, <3>5, ReassembleIs
      <3> HIDE DEF q
      <3> QED BY <1>2, <3>1, <3>3, <3>4, <3>6, AdvanceIs
    <2>2. ~pcb.arg /\ hs' = hs
      BY <1>1, <2>1 DEF IInv, StateInv, Open
    <2>3. pc' = "idle" /\ seg' = NoSeg
      BY <1>2 DEF Process
    <2> QED BY <1>1, <1>2, <2>2, <2>3, GoneStep
  <1>3. CASE pcb' # NoPcb
    <2> DEFINE p == FirstAccepted
               n == pcb'.rcvNxt - p.rcvNxt
    <2>1. /\ p \in Pcb /\ p.state # "SYN_RCVD"
          /\ p.state \in Open <=> pcb.state \in {"SYN_RCVD"} \cup Open
          /\ p.rcvNxt = pcb.rcvNxt /\ p.rcvWnd = pcb.rcvWnd /\ p.ooseq = pcb.ooseq
          /\ p.refused = pcb.refused /\ p.sndNxt = pcb.sndNxt
          /\ p.written = pcb.written /\ p.fin = pcb.fin /\ p.rxclosed = pcb.rxclosed
          /\ p.acked > 0 => p.written > 0
          /\ p.state \in Open => /\ p.arg <=> app = "http"
                                 /\ p.recv \/ (p.rxclosed /\ app = "echo")
                                 /\ ~p.fin /\ p.rcvWnd = Wnd
          /\ p.state \notin Open => p.rxclosed /\ ~p.recv /\ ~p.arg
          /\ hs' \in [live : BOOLEAN, file : BOOLEAN, left : Nat]
          /\ hs'.live <=> p.arg
          /\ ~hs'.live => hs' = NoHs
          /\ hs'.file = hs.file /\ hs'.left = hs.left
      BY <1>1, AcceptedIs
    <2>2. /\ pcb' \in Pcb /\ IsFiniteSet(pcb'.ooseq) /\ IsFiniteSet(pcb'.refused)
          /\ pcb'.state \in Open <=> p.state \in Open
          /\ pcb'.state # "SYN_RCVD"
          /\ pcb'.rcvWnd = p.rcvWnd - n
          /\ pcb'.refused \in {{}, p.refused}
          /\ pcb'.sndNxt = p.sndNxt /\ pcb'.written = p.written /\ pcb'.fin = p.fin
          /\ pcb'.rxclosed = p.rxclosed /\ pcb'.recv = p.recv /\ pcb'.arg = p.arg
          /\ pcb'.acked > 0 => pcb'.written > 0
          /\ seg' \in Segment /\ IsFiniteSet(seg'.items) /\ ~seg'.syn
          /\ n \in Nat
          /\ Cardinality(seg'.items) \in Nat
          /\ seg'.items = {} <=> Cardinality(seg'.items) = 0
          /\ n = Cardinality(seg'.items) + (IF seg'.fin THEN 1 ELSE 0)
          /\ \A x \in seg'.items : x.at >= p.rcvNxt /\ ~x.fin
          /\ seg'.items # {} => \E x \in seg'.items : x.at = p.rcvNxt
          /\ pcb'.ooseq \cup seg'.items \subseteq pcb.ooseq \cup seg.items
          /\ seg'.fin => \E x \in pcb.ooseq \cup seg.items : x.fin
          /\ pc' = AfterProcess(seg', pcb')
      BY <1>3, ReceivedIs
    <2>3. \/ pc' = "sent" /\ pcb'.acked > 0 /\ pcb'.arg
          \/ pc' = "recv" /\ seg'.items # {} /\ ~(pcb'.acked > 0 /\ pcb'.arg)
          \/ pc' = "fin" /\ seg'.items = {} /\ seg'.fin /\ ~(pcb'.acked > 0 /\ pcb'.arg)
          \/ pc' = "output" /\ seg'.items = {} /\ ~seg'.fin /\ ~(pcb'.acked > 0 /\ pcb'.arg)
      BY <2>2 DEF AfterProcess, AfterSent, AfterRecv
    <2>4. Here' /\ p.rcvNxt \in Nat /\ p.rcvNxt > 0 /\ pcb'.rcvNxt = p.rcvNxt + n
      <3>1. p.rcvNxt \in Nat /\ p.rcvNxt > 0 /\ pcb'.rcvNxt \in Nat
        BY <2>1, <2>2 DEF Pcb
      <3> QED BY <1>3, <2>2, <3>1 DEF Here
    <2>5. pcb'.written = pcb.written /\ pcb.written \in Nat /\ p.rcvNxt = pcb.rcvNxt
      BY <1>1, <2>1, <2>2 DEF Pcb
    <2>6. Active(pcb') => Active(pcb)
      BY <1>1
    <2> HIDE DEF p
    <2>7. TypeOK'
      <3>1. Queued' = pcb'.ooseq
        BY <2>4 DEF Queued
      <3> QED BY <1>1, <2>1, <2>2, <2>3, <3>1 DEF IInv, TypeOK
    <2>8. ControlInv'
      BY <1>1, <2>2, <2>3, <2>4 DEF ControlInv
    <2>9. StateInv'
      <3>1. cli'.end # "closed"
        BY <1>1 DEF IInv, StateInv
      <3>2. pcb'.refused # {} => pcb'.state \in Open /\ app' = "echo"
        <4>1. pcb'.refused # {} => pcb.refused # {}
          BY <2>1, <2>2
        <4>2. pcb.refused # {} => pcb.state \in Open /\ app = "echo"
          BY <1>1 DEF IInv, StateInv
        <4> QED BY <1>1, <2>1, <2>2, <4>1, <4>2
      <3> QED BY <1>1, <2>1, <2>2, <2>4, <3>1, <3>2 DEF StateInv
    <2>10. ItemInv'
      <3>1. /\ Queued' \cup seg'.items \subseteq Queued \cup seg.items
            /\ seg'.fin => \E x \in Queued \cup seg.items : x.fin
        BY <1>1, <2>2, <2>4 DEF Queued
      <3>2. Coherent(Queued' \cup seg'.items)
        BY <3>1, CoherentPart DEF IInv, ItemInv
      <3>3. Stream' = Stream /\ HasClosed' = HasClosed /\ Alive' = Alive
        BY <1>1 DEF Stream, HasClosed, Alive
      <3>4. Alive /\ seg'.fin => HasClosed
        BY <3>1, StreamIs DEF IInv, ItemInv, TypeOK
      <3> HIDE DEF Stream
      <3> QED BY <3>1, <3>2, <3>3, <3>4 DEF IInv, ItemInv
    <2>11. DataAhead' + FinAhead' = n /\ DataAhead' \in Nat /\ FinAhead' \in Nat
      BY <2>2, <2>3 DEF DataAhead, FinAhead
    <2>12. WindowInv'
      BY <2>1, <2>2, <2>11, ConnAssumption DEF WindowInv
    <2>13. WrittenInv'
      <3>1. Len(out') = pcb'.written
        BY <1>1, <2>5 DEF IInv, WrittenInv
      <3>2. pcb'.state \in Open /\ pcb.state \notin Open =>
               pcb.state = "SYN_RCVD" /\ pcb.written = 0 /\ pcb.rcvNxt = 1 /\ hs = NoHs
        BY <1>1, <2>1, <2>2 DEF IInv, StateInv
      <3>3. /\ pcb'.state \in Open /\ hs'.file => page' > 0 /\ pcb'.written + hs'.left = page'
            /\ ~hs'.file /\ app' = "http" /\ pcb'.state \in Open =>
                  pcb'.written = 0 /\ hs'.left = 0
        BY <1>1, <2>1, <2>5, <3>2, NoHsIs DEF IInv, WrittenInv
      <3>4. pcb'.refused # {} => "refused" \in cause'
        BY <1>1, <2>1, <2>2 DEF IInv, WrittenInv
      <3>5. "refused" \notin cause' => \A i \in 1 .. Len(out') : out'[i] = i
        BY <1>1 DEF IInv, WrittenInv
      <3>6. ASSUME "refused" \notin cause', Echoing'
            PROVE  pcb.written = pcb.rcvNxt - 1 /\ ~pcb'.arg
        <4>1. app = "echo" /\ pcb'.state \in Open /\ ~pcb.rxclosed
          BY <1>1, <2>1, <2>2, <3>6 DEF Echoing
        <4>2. pcb.state \in Open => pcb.written = pcb.rcvNxt - 1
          <5>1. DataAhead = 0 /\ ~seg.fin
            BY <1>1 DEF DataAhead, IInv, ControlInv
          <5> QED BY <1>1, <2>5, <3>6, <4>1, <5>1 DEF IInv, WrittenInv, Echoing
        <4> QED BY <2>1, <2>2, <2>5, <3>2, <4>1, <4>2
      <3>7. ASSUME "refused" \notin cause', Echoing'
            PROVE  pcb'.written + DataAhead' + (IF seg'.fin THEN 1 ELSE 0) = pcb'.rcvNxt - 1
        <4>1. DataAhead' + (IF seg'.fin THEN 1 ELSE 0) = n /\ DataAhead' \in Nat
          BY <2>2, <2>3, <3>6, <3>7 DEF DataAhead
        <4> QED BY <2>4, <2>5, <3>6, <3>7, <4>1, <2>2
      <3>8. ASSUME "refused" \notin cause', Echoing', pc' = "recv"
            PROVE  /\ \E x \in seg'.items : x.at = pcb'.written + 1
                   /\ \A x \in seg'.items : x.at > pcb'.written
        <4>1. p.rcvNxt = pcb'.written + 1
          BY <2>4, <2>5, <3>6, <3>8
        <4>2. \A x \in seg'.items : x.at \in Nat
          BY <2>2 DEF Segment, Item
        <4> QED BY <2>2, <2>3, <2>5, <3>8, <4>1, <4>2
      <3> QED BY <3>1, <3>3, <3>4, <3>5, <3>7, <3>8 DEF WrittenInv
    <2>14. PageInv'
      <3>1. hs'.file => pcb.rcvNxt > 1 /\ pcb'.rcvNxt > 1
        BY <2>1, <2>2, <2>4, <2>5 DEF IInv, PageInv
      <3>2. seg'.items # {} => pcb'.rcvNxt > 1
        <4>1. seg'.items # {} => n > 0
          <5> DEFINE c == Cardinality(seg'.items)
          <5>1. seg'.items # {} => c # 0
            BY <2>2
          <5>2. c \in Nat /\ n = c + (IF seg'.fin THEN 1 ELSE 0)
            BY <2>2
          <5> HIDE DEF c, n
          <5> QED BY <5>1, <5>2
        <4> QED BY <2>2, <2>4, <4>1
      <3>3. hs'.file => \A x \in seg'.items : x.at > 1
        <4>1. \A x \in seg'.items : x.at \in Nat
          BY <2>2 DEF Segment, Item
        <4> QED BY <2>2, <2>4, <2>5, <3>1, <4>1
      <3>4. /\ Active(pcb') => wire'.upto = pcb'.sndNxt
            /\ wire'.fin => pcb'.fin /\ (Active(pcb') => pcb'.sndNxt = pcb'.written + 2)
        BY <1>1, <2>1, <2>2 DEF IInv, PageInv
      <3>5. cli'.end = "fin" => wire'.fin /\ cli'.got = wire'.upto - 1
        BY <1>1 DEF IInv, PageInv
      <3>6. Plain' => Plain /\ (HasClosed' <=> HasClosed)
        BY <1>1 DEF Plain, Alive, HasClosed
      <3> QED BY <1>1, <2>1, <2>2, <3>1, <3>2, <3>3, <3>4, <3>5, <3>6 DEF IInv, PageInv
    <2> QED BY <2>7, <2>8, <2>9, <2>10, <2>12, <2>13, <2>14 DEF IInv
  <1> QED BY <1>2, <1>3
-----------------------------------------------------------------------------
(* The stages after tcp_process, and the callbacks of the HTTP server *)

(* tcp_recved: the window grows by what was taken, and no further than     *)
(* TCP_WND.                                                                *)
LEMMA RecvedIs ==
  ASSUME NEW p \in Pcb, NEW n \in Nat
  PROVE  LET q == Recved(p, n)
         IN  /\ q \in Pcb
             /\ q.rcvWnd = IF p.rcvWnd + n > Wnd THEN Wnd ELSE p.rcvWnd + n
             /\ q.state = p.state /\ q.rcvNxt = p.rcvNxt /\ q.ooseq = p.ooseq
             /\ q.refused = p.refused /\ q.lastack = p.lastack /\ q.sndNxt = p.sndNxt
             /\ q.written = p.written /\ q.fin = p.fin /\ q.acked = p.acked
             /\ q.rxclosed = p.rxclosed /\ q.recv = p.recv /\ q.arg = p.arg
  <1> DEFINE w == IF p.rcvWnd + n > Wnd THEN Wnd ELSE p.rcvWnd + n
  <1>1. w \in Int
    BY ConnAssumption DEF Pcb
  <1>2. Recved(p, n) = [p EXCEPT !.rcvWnd = w]
    BY DEF Recved
  <1> HIDE DEF w
  <1>3. Recved(p, n) \in Pcb /\ Recved(p, n).rcvWnd = w
    BY <1>1, <1>2 DEF Pcb
  <1>4. LET q == Recved(p, n)
        IN  /\ q.state = p.state /\ q.rcvNxt = p.rcvNxt /\ q.ooseq = p.ooseq
            /\ q.refused = p.refused /\ q.lastack = p.lastack /\ q.sndNxt = p.sndNxt
            /\ q.written = p.written /\ q.fin = p.fin /\ q.acked = p.acked
            /\ q.rxclosed = p.rxclosed /\ q.recv = p.recv /\ q.arg = p.arg
    BY <1>2 DEF Pcb
  <1> QED BY <1>3, <1>4 DEF w

(* What every step of a handler finds that goes on with the segment.       *)
LEMMA HandlerFinds ==
  ASSUME IInv, pc # "idle"
  PROVE  /\ pcb \in Pcb /\ Here /\ Queued = pcb.ooseq
         /\ seg \in Segment /\ seg.items \in SUBSET Item /\ IsFiniteSet(seg.items)
         /\ Cardinality(seg.items) \in Nat
         /\ seg.items = {} <=> Cardinality(seg.items) = 0
         /\ cli.end # "closed" /\ Wnd \in Nat /\ cli \in Peer
         /\ pcb.rcvWnd \in Int /\ pcb.rcvNxt \in Nat /\ pcb.written \in Nat
         /\ hs \in [live : BOOLEAN, file : BOOLEAN, left : Nat]
         /\ pcb.sndNxt \in Nat
  <1>1. pcb \in Pcb /\ Here /\ Queued = pcb.ooseq /\ seg \in Segment /\ IsFiniteSet(seg.items)
        /\ cli.end # "closed" /\ cli \in Peer
        /\ hs \in [live : BOOLEAN, file : BOOLEAN, left : Nat]
    BY HereIs DEF IInv, TypeOK, ControlInv, StateInv, Queued
  <1>2. seg.items \in SUBSET Item
    BY <1>1 DEF Segment
  <1>3. pcb.rcvWnd \in Int /\ pcb.rcvNxt \in Nat /\ pcb.written \in Nat /\ pcb.sndNxt \in Nat
    BY <1>1 DEF Pcb
  <1> QED BY <1>1, <1>2, <1>3, ConnAssumption, FS_CardinalityType, FS_EmptySet

(* The queue and the segment in hand shrink, the client does nothing.      *)
LEMMA ItemsKept ==
  ASSUME IInv, UNCHANGED cli,
         Queued' \cup seg'.items \subseteq Queued \cup seg.items, seg'.fin => seg.fin
  PROVE  ItemInv'
  <1>1. Coherent(Queued' \cup seg'.items)
    BY CoherentPart DEF IInv, ItemInv
  <1>2. Stream' = Stream /\ HasClosed' = HasClosed /\ Alive' = Alive
    BY DEF Stream, HasClosed, Alive
  <1> HIDE DEF Stream
  <1> QED BY <1>1, <1>2 DEF IInv, ItemInv

LEMMA NobodyStep ==
  ASSUME IInv, NobodyListens
  PROVE  IInv'
  <1>1. UNCHANGED <<app, pcb, hs, out, pc, call, seg, wire, cli, page, cause>>
    BY DEF NobodyListens, history
  <1>2. TypeOK' /\ ControlInv'
    BY <1>1 DEF IInv, TypeOK, ControlInv, Here, Queued, Active
  <1>3. StateInv' /\ WindowInv'
    BY <1>1 DEF IInv, StateInv, WindowInv, Here, HasClosed, DataAhead, FinAhead
  <1>4. ItemInv'
    BY <1>1, ItemsKept DEF Queued, Here
  <1>5. WrittenInv' /\ PageInv'
    BY <1>1 DEF IInv, WrittenInv, PageInv, Here, Echoing, DataAhead, Active, Plain, Alive,
       HasClosed
  <1> QED BY <1>2, <1>3, <1>4, <1>5 DEF IInv

LEMMA SynStep ==
  ASSUME IInv, ProcessSyn
  PROVE  IInv'
  <1>1. /\ UNCHANGED <<app, pcb, hs, out, call, wire, cli, page, cause>>
        /\ seg' = NoSeg /\ pc = "process" /\ seg.items = {} /\ ~seg.fin
        /\ call = "none" /\ Active(pcb)
    BY DEF ProcessSyn, history, IInv, ControlInv
  <1>2. /\ pcb \in Pcb /\ Here /\ Here' /\ Queued = pcb.ooseq /\ Queued' = pcb.ooseq
        /\ cli.end # "closed"
    BY <1>1, HandlerFinds DEF Here, Queued
  <1>3. seg'.items = {} /\ ~seg'.fin /\ seg' \in Segment /\ ~seg'.syn
    BY <1>1 DEF NoSeg, Segment
  <1>4. (pc' = "sent" /\ pcb.arg /\ pcb.acked > 0) \/ pc' = "output"
    BY <1>1 DEF ProcessSyn, AfterProcess, AfterSent, AfterRecv
  <1>5. TypeOK'
    BY <1>1, <1>2, <1>3, <1>4, FS_EmptySet DEF IInv, TypeOK
  <1>6. ControlInv'
    BY <1>1, <1>2, <1>3, <1>4 DEF ControlInv
  <1>7. StateInv'
    BY <1>1, <1>2 DEF IInv, StateInv
  <1>8. ItemInv'
    BY <1>1, <1>2, <1>3, ItemsKept
  <1>9. DataAhead' = 0 /\ DataAhead = 0 /\ FinAhead' = 0 /\ FinAhead = 0
    BY <1>1, <1>3, FS_EmptySet DEF DataAhead, FinAhead
  <1>10. WindowInv'
    BY <1>1, <1>2, <1>9 DEF IInv, WindowInv
  <1>11. WrittenInv'
    BY <1>1, <1>2, <1>3, <1>4, <1>9 DEF IInv, WrittenInv, Echoing
  <1>12. PageInv'
    <2>1. Active(pcb') = Active(pcb)
      BY <1>1
    <2> QED BY <1>1, <1>2, <1>3, <2>1 DEF IInv, PageInv, Plain, Alive, HasClosed
  <1> QED BY <1>5, <1>6, <1>7, <1>8, <1>10, <1>11, <1>12 DEF IInv

LEMMA SentStep ==
  ASSUME IInv, HttpSent
  PROVE  IInv'
  <1>1. /\ UNCHANGED <<app, pcb, hs, out, seg, wire, cli, page, cause>>
        /\ pc = "sent" /\ call = "none"
        /\ call' = IF hs.left > 0 THEN "send_data" ELSE "close"
        /\ pc' = AfterSent(seg)
    BY DEF HttpSent, history, Goto
  <1>2. /\ pcb \in Pcb /\ Here /\ Here' /\ Queued = pcb.ooseq /\ Queued' = pcb.ooseq
        /\ seg.items = {} <=> Cardinality(seg.items) = 0
        /\ hs \in [live : BOOLEAN, file : BOOLEAN, left : Nat]
        /\ pcb.written \in Nat
    BY <1>1, HandlerFinds DEF Here, Queued
  <1>3. /\ pc' = "recv" <=> seg.items # {}
        /\ pc' = "fin" <=> seg.items = {} /\ seg.fin
        /\ pc' \in {"recv", "fin", "output"}
    BY <1>1 DEF AfterSent, AfterRecv
  <1>4. pcb.arg /\ pcb.acked > 0 /\ pcb.state \in Open /\ app = "http" /\ pcb.written > 0
        /\ pcb.state # "SYN_RCVD"
    BY <1>1, <1>2 DEF IInv, ControlInv, StateInv, Open
  <1>5. hs.file
    BY <1>2, <1>4 DEF IInv, WrittenInv
  <1>6. TypeOK'
    BY <1>1, <1>2, <1>3 DEF IInv, TypeOK
  <1>7. ControlInv'
    BY <1>1, <1>2, <1>3, <1>4, <1>5 DEF ControlInv
  <1>8. StateInv'
    BY <1>1, <1>2 DEF IInv, StateInv, HasClosed
  <1>9. ItemInv'
    BY <1>1, <1>2, ItemsKept
  <1>10. DataAhead' = DataAhead /\ FinAhead' = FinAhead
    BY <1>1, <1>2, <1>3 DEF DataAhead, FinAhead
  <1>11. WindowInv'
    BY <1>1, <1>2, <1>10 DEF IInv, WindowInv
  <1>12. WrittenInv'
    BY <1>1, <1>2, <1>4 DEF IInv, WrittenInv, Echoing
  <1>13. PageInv'
    <2>1. Active(pcb') = Active(pcb)
      BY <1>1
    <2>2. call' = "close" => hs'.file /\ hs'.left = 0
      BY <1>1, <1>2, <1>5
    <2> QED BY <1>1, <1>2, <1>3, <2>1, <2>2 DEF IInv, PageInv, Plain, Alive, HasClosed
  <1> QED BY <1>6, <1>7, <1>8, <1>9, <1>11, <1>12, <1>13 DEF IInv

LEMMA RecvFinStep ==
  ASSUME IInv, RecvFin
  PROVE  IInv'
  <1>1. /\ UNCHANGED <<app, hs, out, seg, wire, cli, page, cause>>
        /\ pc = "fin" /\ call = "none" /\ pc' = "output"
        /\ call' = IF pcb.recv THEN "close" ELSE "none"
        /\ pcb' = Recved(pcb, 1)
    BY DEF RecvFin, history, Goto, FinTaken
  <1>2. /\ pcb \in Pcb /\ Here /\ Queued = pcb.ooseq
        /\ cli.end # "closed" /\ Wnd \in Nat /\ pcb.rcvWnd \in Int /\ cli \in Peer
    BY <1>1, HandlerFinds
  <1>3. /\ pcb' \in Pcb
        /\ pcb'.rcvWnd = IF pcb.rcvWnd + 1 > Wnd THEN Wnd ELSE pcb.rcvWnd + 1
        /\ pcb'.state = pcb.state /\ pcb'.rcvNxt = pcb.rcvNxt /\ pcb'.ooseq = pcb.ooseq
        /\ pcb'.refused = pcb.refused /\ pcb'.lastack = pcb.lastack
        /\ pcb'.sndNxt = pcb.sndNxt /\ pcb'.written = pcb.written /\ pcb'.fin = pcb.fin
        /\ pcb'.acked = pcb.acked /\ pcb'.rxclosed = pcb.rxclosed
        /\ pcb'.recv = pcb.recv /\ pcb'.arg = pcb.arg
    BY <1>1, <1>2, RecvedIs
  <1>4. Here' /\ Queued' = pcb.ooseq /\ Active(pcb') = Active(pcb)
    BY <1>3, NoPcbIs DEF Here, Queued, Active
  <1>5. pcb.state # "SYN_RCVD" /\ (pcb.recv => pcb.state \in Open) /\ seg.fin
    BY <1>1, <1>2 DEF IInv, ControlInv, StateInv
  <1>6. TypeOK'
    BY <1>1, <1>2, <1>3, <1>4 DEF IInv, TypeOK
  <1>7. ControlInv'
    <2>1. pcb.state \in Open => pcb.recv \/ pcb.rxclosed
      BY <1>2 DEF IInv, StateInv
    <2> QED BY <1>1, <1>3, <1>4, <1>5, <2>1 DEF ControlInv
  <1>8. StateInv'
    BY <1>1, <1>2, <1>3, <1>4 DEF IInv, StateInv
  <1>9. ItemInv'
    BY <1>1, <1>2, <1>4, ItemsKept
  <1>10. DataAhead = 0 /\ DataAhead' = 0 /\ FinAhead = 1 /\ FinAhead' = 0
    BY <1>1, <1>5 DEF DataAhead, FinAhead
  <1>11. WindowInv'
    BY <1>2, <1>3, <1>10 DEF IInv, WindowInv
  <1>12. WrittenInv'
    BY <1>1, <1>2, <1>3, <1>4, <1>10 DEF IInv, WrittenInv, Echoing
  <1>13. Plain => call' # "close"
    <2>1. Plain => cli.end = "fin"
      BY <1>5 DEF IInv, ItemInv, PageInv, Plain
    <2>2. Plain => pcb.fin
      BY <1>2, <2>1 DEF IInv, PageInv
    <2>3. pcb.state \in Open => ~pcb.fin
      BY <1>2 DEF IInv, StateInv
    <2> QED BY <1>1, <1>5, <2>2, <2>3
  <1>14. PageInv'
    BY <1>1, <1>2, <1>3, <1>4, <1>13 DEF IInv, PageInv, Plain, Alive, HasClosed
  <1> QED BY <1>6, <1>7, <1>8, <1>9, <1>11, <1>12, <1>14 DEF IInv
LEMMA OutputStep ==
  ASSUME IInv, Output
  PROVE  IInv'
  <1>1. /\ UNCHANGED <<app, hs, out, call, cli, page, cause>>
        /\ pc = "output" /\ call = "none" /\ pc' = "idle" /\ seg' = NoSeg
    BY DEF Output, history
  <1>2. /\ pcb \in Pcb /\ Here /\ Queued = pcb.ooseq
        /\ cli.end # "closed" /\ pcb.sndNxt \in Nat /\ pcb.written \in Nat
        /\ wire \in [upto : Nat, fin : BOOLEAN] /\ cli \in Peer
    BY <1>1, HandlerFinds DEF IInv, TypeOK
  <1>3. DataAhead = 0 /\ DataAhead' = 0 /\ FinAhead = 0 /\ FinAhead' = 0
    BY <1>1 DEF DataAhead, FinAhead
  <1>4. /\ pcb' \in Pcb /\ pcb'.state = pcb.state /\ pcb'.rcvNxt = pcb.rcvNxt
        /\ pcb'.ooseq = pcb.ooseq /\ pcb'.refused = pcb.refused /\ pcb'.rcvWnd = pcb.rcvWnd
        /\ pcb'.written = pcb.written /\ pcb'.fin = pcb.fin /\ pcb'.acked = pcb.acked
        /\ pcb'.rxclosed = pcb.rxclosed /\ pcb'.recv = pcb.recv /\ pcb'.arg = pcb.arg
        /\ wire' \in [upto : Nat, fin : BOOLEAN]
        /\ Active(pcb) => wire'.upto = pcb'.sndNxt
        /\ wire'.fin => wire.fin \/ (pcb.fin /\ wire'.upto = pcb.written + 2)
        /\ wire'.fin /\ Active(pcb) => pcb.fin /\ pcb'.sndNxt = pcb.written + 2
        /\ wire.fin => wire' = wire
    <2>1. CASE Active(pcb)
      <3>1. PICK n \in OutputTo(pcb) :
               /\ pcb' = [pcb EXCEPT !.sndNxt = n]
               /\ wire' = [upto |-> n, fin |-> pcb.fin /\ n = SndEnd(pcb)]
        BY <2>1 DEF Output
      <3>2. SndEnd(pcb) \in Nat /\ (pcb.fin => SndEnd(pcb) = pcb.written + 2)
        BY <1>2 DEF SndEnd
      <3>3. n \in Nat /\ pcb.sndNxt =< n /\ n =< SndEnd(pcb)
        BY <1>2, <3>1, <3>2 DEF OutputTo
      <3>4. pcb.fin \in BOOLEAN
        BY <1>2 DEF Pcb
      <3>5. wire' \in [upto : Nat, fin : BOOLEAN] /\ wire'.upto = n
            /\ (wire'.fin <=> pcb.fin /\ n = SndEnd(pcb))
        BY <3>1, <3>3, <3>4
      <3>6. pcb' \in Pcb /\ pcb'.sndNxt = n
        BY <1>2, <3>1, <3>3 DEF Pcb
      <3>7. /\ pcb'.state = pcb.state /\ pcb'.rcvNxt = pcb.rcvNxt
            /\ pcb'.ooseq = pcb.ooseq /\ pcb'.refused = pcb.refused /\ pcb'.rcvWnd = pcb.rcvWnd
            /\ pcb'.written = pcb.written /\ pcb'.fin = pcb.fin /\ pcb'.acked = pcb.acked
            /\ pcb'.rxclosed = pcb.rxclosed /\ pcb'.recv = pcb.recv /\ pcb'.arg = pcb.arg
        BY <1>2, <3>1 DEF Pcb
      <3>8. wire.fin => wire' = wire
        <4>1. wire.fin => pcb.fin /\ pcb.sndNxt = pcb.written + 2 /\ wire.upto = pcb.sndNxt
          BY <1>2, <2>1 DEF IInv, PageInv
        <4>2. wire.fin => n = SndEnd(pcb) /\ wire.upto = n
          BY <1>2, <3>2, <3>3, <4>1
        <4>3. /\ wire = [upto |-> wire.upto, fin |-> wire.fin]
              /\ wire' = [upto |-> wire'.upto, fin |-> wire'.fin]
              /\ wire.fin \in BOOLEAN /\ wire'.fin \in BOOLEAN
          BY <1>2, <3>5
        <4>4. wire.fin => wire'.upto = wire.upto /\ wire'.fin
          BY <1>2, <3>5, <4>1, <4>2
        <4>5. wire.fin /\ wire'.fin => wire.fin = wire'.fin
          BY <4>3
        <4> QED BY <4>3, <4>4, <4>5
      <3> QED BY <3>2, <3>5, <3>6, <3>7, <3>8
    <2>2. CASE ~Active(pcb)
      BY <1>2, <2>2 DEF Output
    <2> QED BY <2>1, <2>2
  <1>5. Here' /\ Queued' = pcb.ooseq /\ Active(pcb') = Active(pcb)
    BY <1>4, NoPcbIs DEF Here, Queued, Active
  <1>6. seg'.items = {} /\ ~seg'.fin /\ seg' \in Segment
    BY <1>1 DEF NoSeg, Segment
  <1>7. TypeOK'
    BY <1>1, <1>2, <1>4, <1>5, <1>6, FS_EmptySet DEF IInv, TypeOK
  <1>8. ControlInv'
    BY <1>1, <1>6 DEF ControlInv
  <1>9. StateInv'
    BY <1>1, <1>2, <1>4, <1>5 DEF IInv, StateInv
  <1>10. ItemInv'
    BY <1>1, <1>2, <1>5, <1>6, ItemsKept
  <1>11. WindowInv'
    BY <1>2, <1>3, <1>4 DEF IInv, WindowInv
  <1>12. WrittenInv'
    <2>1. Echoing => ~seg.fin
      BY <1>1, <1>2 DEF IInv, ControlInv, Echoing
    <2> QED BY <1>1, <1>2, <1>3, <1>4, <1>5, <1>6, <2>1 DEF IInv, WrittenInv, Echoing
  <1>13. PageInv'
    <2>1. /\ Active(pcb') => wire'.upto = pcb'.sndNxt
          /\ wire'.fin => pcb'.fin /\ (Active(pcb') => pcb'.sndNxt = pcb'.written + 2)
      <3>1. wire.fin => pcb.fin
        BY <1>2 DEF IInv, PageInv
      <3> QED BY <1>4, <1>5, <3>1
    <2>2. cli'.end = "fin" => wire'.fin /\ cli'.got = wire'.upto - 1
      BY <1>1, <1>4 DEF IInv, PageInv
    <2>3. Plain' /\ wire'.fin => page' > 0 /\ wire'.upto = page' + 2
      BY <1>1, <1>2, <1>4 DEF IInv, PageInv, Plain, Alive
    <2> QED BY <1>1, <1>2, <1>4, <1>5, <1>6, <2>1, <2>2, <2>3
            DEF IInv, PageInv, Plain, Alive, HasClosed
  <1> QED BY <1>7, <1>8, <1>9, <1>10, <1>11, <1>12, <1>13 DEF IInv

(* http_recv takes the data, and opens a file if it has none: the request  *)
(* of a client that keeps to one is its first segment.                     *)
LEMMA HttpRecvStep ==
  ASSUME IInv, HttpRecv
  PROVE  IInv'
  <1> DEFINE n == Cardinality(seg.items)
  <1>1. /\ UNCHANGED <<app, out, seg, wire, cli, cause>>
        /\ pc = "recv" /\ call = "none" /\ ~pcb.rxclosed /\ app = "http"
        /\ pcb' = Recved(pcb, n) /\ pc' = AfterRecv(seg)
    BY DEF HttpRecv, DataTaken, Data, Goto
  <1>2. /\ pcb \in Pcb /\ Here /\ Queued = pcb.ooseq /\ cli \in Peer
        /\ cli.end # "closed" /\ Wnd \in Nat /\ pcb.rcvWnd \in Int /\ n \in Nat
        /\ hs \in [live : BOOLEAN, file : BOOLEAN, left : Nat]
        /\ seg \in Segment /\ seg.items \in SUBSET Item
    BY <1>1, HandlerFinds
  <1> HIDE DEF n
  <1>3. /\ pcb' \in Pcb
        /\ pcb'.rcvWnd = IF pcb.rcvWnd + n > Wnd THEN Wnd ELSE pcb.rcvWnd + n
        /\ pcb'.state = pcb.state /\ pcb'.rcvNxt = pcb.rcvNxt /\ pcb'.ooseq = pcb.ooseq
        /\ pcb'.refused = pcb.refused /\ pcb'.lastack = pcb.lastack
        /\ pcb'.sndNxt = pcb.sndNxt /\ pcb'.written = pcb.written /\ pcb'.fin = pcb.fin
        /\ pcb'.acked = pcb.acked /\ pcb'.rxclosed = pcb.rxclosed
        /\ pcb'.recv = pcb.recv /\ pcb'.arg = pcb.arg
    BY <1>1, <1>2, RecvedIs
  <1>4. Here' /\ Queued' = pcb.ooseq /\ Active(pcb') = Active(pcb)
    BY <1>3, NoPcbIs DEF Here, Queued, Active
  <1>5. /\ pcb.state \in Open /\ pcb.state # "SYN_RCVD" /\ pcb.arg /\ ~pcb.fin /\ hs.live
        /\ seg.items # {}
    BY <1>1, <1>2 DEF IInv, ControlInv, StateInv
  <1>6. (pc' = "fin" /\ seg.fin) \/ (pc' = "output" /\ ~seg.fin)
    BY <1>1 DEF AfterRecv
  <1>7. /\ hs' \in [live : BOOLEAN, file : BOOLEAN, left : Nat] /\ hs'.live /\ hs'.file
        /\ page' \in Nat
        /\ \/ call' = "close" /\ hs' = hs /\ page' = page
           \/ call' = "send_data" /\ ~hs.file /\ page' > 0 /\ hs'.left = page'
    <2>1. CASE hs.file
      BY <1>2, <1>5, <2>1 DEF HttpRecv, IInv, TypeOK
    <2>2. CASE ~hs.file
      <3>1. PICK len \in Pages : /\ hs' = [hs EXCEPT !.file = TRUE, !.left = len]
                                 /\ page' = len /\ call' = "send_data"
        BY <2>2 DEF HttpRecv
      <3>2. len \in Nat /\ len > 0
        BY ServerAssumption
      <3> QED BY <1>2, <1>5, <2>2, <3>1, <3>2
    <2> QED BY <2>1, <2>2
  <1>8. TypeOK'
    BY <1>1, <1>2, <1>3, <1>4, <1>6, <1>7 DEF IInv, TypeOK
  <1>9. ControlInv'
    BY <1>1, <1>3, <1>4, <1>5, <1>6, <1>7 DEF ControlInv
  <1>10. StateInv'
    BY <1>1, <1>2, <1>3, <1>4, <1>5, <1>7 DEF IInv, StateInv
  <1>11. ItemInv'
    BY <1>1, <1>2, <1>4, ItemsKept
  <1>12. /\ DataAhead = n /\ DataAhead' = 0
         /\ FinAhead = (IF seg.fin THEN 1 ELSE 0) /\ FinAhead' = FinAhead
    BY <1>1, <1>6 DEF DataAhead, FinAhead, n
  <1>13. WindowInv'
    <2>1. pcb.rcvWnd = Wnd - n - FinAhead /\ FinAhead \in 0 .. 1
      BY <1>2, <1>5, <1>12 DEF IInv, WindowInv
    <2> QED BY <1>2, <1>3, <1>12, <2>1 DEF WindowInv
  <1>14. WrittenInv'
    <2>1. pcb'.written + hs'.left = page' /\ page' > 0
      <3>1. CASE hs.file
        BY <1>2, <1>3, <1>5, <1>7, <3>1 DEF IInv, WrittenInv
      <3>2. CASE ~hs.file
        <4>1. pcb.written = 0
          BY <1>1, <1>2, <1>5, <3>2 DEF IInv, WrittenInv
        <4> QED BY <1>3, <1>7, <3>2, <4>1
      <3> QED BY <3>1, <3>2
    <2> QED BY <1>1, <1>2, <1>3, <1>4, <1>7, <2>1 DEF IInv, WrittenInv, Echoing
  <1>15. PageInv'
    <2>1. pcb'.rcvNxt > 1
      BY <1>1, <1>3, <1>5 DEF IInv, PageInv
    <2>2. ~wire.fin
      BY <1>2, <1>5 DEF IInv, PageInv
    <2>3. Plain => ~hs.file
      <3> SUFFICES ASSUME Plain, hs.file PROVE FALSE
        OBVIOUS
      <3>1. PICK x \in seg.items : TRUE
        BY <1>5
      <3>2. x.at > 1 /\ ~x.fin /\ x \in Stream /\ cli.sent =< 1
        BY <1>1, <3>1 DEF IInv, ItemInv, PageInv, Plain
      <3>3. x.at =< cli.sent
        BY <1>2, <3>2, StreamIs
      <3>4. x.at \in Nat /\ cli.sent \in Nat
        BY <1>2, <3>1 DEF Item, Peer
      <3> QED BY <3>2, <3>3, <3>4
    <2>4. Plain' => call' # "close" /\ Plain
      BY <1>1, <1>7, <2>3 DEF Plain, Alive
    <2>5. Plain' => cli'.sent =< 1 /\ (HasClosed' => cli'.end = "fin")
      BY <1>1, <2>4 DEF IInv, PageInv, HasClosed
    <2>6. /\ Active(pcb') => wire'.upto = pcb'.sndNxt
          /\ cli'.end # "fin"
      BY <1>1, <1>2, <1>3, <1>4, <2>2 DEF IInv, PageInv
    <2>7. pc' \notin {"sent", "recv"} /\ ~wire'.fin /\ ~pcb'.fin
      BY <1>1, <1>3, <1>5, <1>6, <2>2
    <2> QED BY <1>4, <2>1, <2>4, <2>5, <2>6, <2>7 DEF PageInv
  <1> QED BY <1>8, <1>9, <1>10, <1>11, <1>13, <1>14, <1>15 DEF IInv
-----------------------------------------------------------------------------
(* Writing and closing *)

(* tcp_write appends: the positions f(1) .. f(n) follow what was written.  *)
LEMMA AppendIs ==
  ASSUME NEW s \in Seq(Nat), NEW n \in Nat, NEW f \in [1 .. n -> Nat]
  PROVE  /\ s \o f \in Seq(Nat) /\ Len(s \o f) = Len(s) + n
         /\ \A i \in 1 .. Len(s) + n :
               (s \o f)[i] = IF i <= Len(s) THEN s[i] ELSE f[i - Len(s)]
  <1>1. f \in Seq(Nat)
    BY SeqDef
  <1>2. Len(f) = n
    BY <1>1, LenProperties
  <1> QED BY <1>1, <1>2, ConcatProperties

(* Any number of items has a first one.                                    *)
LEMMA FirstIs ==
  ASSUME NEW S \in SUBSET Item, S # {}
  PROVE  /\ FirstAt(S) \in Nat
         /\ \E x \in S : x.at = FirstAt(S)
         /\ \A x \in S : FirstAt(S) <= x.at
  <1> DEFINE A == {x.at : x \in S}
             T == {0 .. a : a \in A}
  <1>1. A \subseteq Nat /\ A # {} /\ \A a \in A : \E x \in S : x.at = a
    BY DEF Item
  <1>2. \A x \in S : x.at \in A
    OBVIOUS
  <1> HIDE DEF A
  <1>3. T \subseteq FiniteSubsetsOf(Nat) /\ T # {}
    <2>1. \A a \in A : 0 .. a \in SUBSET Nat /\ IsFiniteSet(0 .. a)
      BY <1>1, FS_Interval
    <2>2. \A a \in A : 0 .. a \in FiniteSubsetsOf(Nat)
      BY <2>1 DEF FiniteSubsetsOf
    <2> QED BY <1>1, <2>2
  <1>4. PICK I \in T : \A J \in T : ~ (<<J, I>> \in StrictSubsetOrdering(Nat))
    BY <1>3, FS_StrictSubsetOrderingWellFounded, WFMin
  <1>5. PICK m \in A : I = 0 .. m
    BY <1>4
  <1>6. \A a \in A : m <= a
    <2> SUFFICES ASSUME NEW a \in A, a < m PROVE FALSE
      BY <1>1
    <2>1. 0 .. a \in T /\ 0 .. a \in SUBSET Nat /\ I \in SUBSET Nat
      BY <1>1, <1>5
    <2>2. 0 .. a \subseteq I /\ 0 .. a # I
      BY <1>1, <1>5
    <2>3. <<0 .. a, I>> \in StrictSubsetOrdering(Nat)
      BY <2>1, <2>2 DEF StrictSubsetOrdering
    <2> QED BY <1>4, <2>1, <2>3
  <1>7. Min(A) \in A /\ \A a \in A : Min(A) <= a
    BY <1>6 DEF Min
  <1>8. FirstAt(S) = Min(A)
    BY DEF FirstAt, A
  <1> QED BY <1>1, <1>2, <1>7, <1>8

LEMMA SendDataStep ==
  ASSUME IInv, HttpSendData
  PROVE  IInv'
  <1>1. /\ UNCHANGED <<app, pc, seg, wire, cli, page>>
        /\ call = "send_data" /\ cause \subseteq cause'
        /\ "refused" \in cause' => "refused" \in cause
    BY DEF HttpSendData
  <1>2. /\ Here /\ pcb.state \in Open /\ app = "http" /\ hs.file /\ pc # "idle"
        /\ (pc = "output" => ~seg.fin) /\ pc \notin {"refused", "process", "sent"}
    BY <1>1 DEF IInv, ControlInv
  <1>3. /\ pcb \in Pcb /\ Queued = pcb.ooseq /\ cli.end # "closed" /\ cli \in Peer
        /\ pcb.written \in Nat
        /\ hs \in [live : BOOLEAN, file : BOOLEAN, left : Nat] /\ hs.left \in Nat
    BY <1>2, HandlerFinds
  <1>4. /\ pcb.state # "SYN_RCVD" /\ ~pcb.fin /\ pcb.arg /\ hs.live
        /\ page \in Nat /\ page > 0 /\ pcb.written + hs.left = page
        /\ out \in Seq(Nat) /\ Len(out) = pcb.written /\ ~wire.fin
    BY <1>2, <1>3 DEF IInv, StateInv, TypeOK, WrittenInv, PageInv, Open
  <1> DEFINE len == IF SndRoom(pcb) < hs.left THEN SndRoom(pcb) ELSE hs.left
  <1>5. len \in Int /\ len <= hs.left
    <2>1. SndRoom(pcb) \in Int
      BY <1>3, ConnAssumption DEF SndRoom, Pcb
    <2> QED BY <1>3, <2>1
  <1>6. PICK n \in 0 .. len :
           /\ out' = out \o [i \in 1 .. n |-> page - hs.left + i]
           /\ pcb' = [pcb EXCEPT !.written = @ + n]
           /\ hs' = [hs EXCEPT !.left = @ - n]
           /\ call' = IF Finished(n) THEN "close" ELSE "none"
    BY DEF HttpSendData
  <1>7. n \in Nat /\ hs.left - n \in Nat
    BY <1>3, <1>5
  <1> HIDE DEF len
  <1>8. /\ pcb' \in Pcb /\ pcb'.written = pcb.written + n
        /\ pcb'.rcvWnd = pcb.rcvWnd
        /\ pcb'.state = pcb.state /\ pcb'.rcvNxt = pcb.rcvNxt /\ pcb'.ooseq = pcb.ooseq
        /\ pcb'.refused = pcb.refused /\ pcb'.sndNxt = pcb.sndNxt /\ pcb'.fin = pcb.fin
        /\ pcb'.acked = pcb.acked /\ pcb'.rxclosed = pcb.rxclosed
        /\ pcb'.recv = pcb.recv /\ pcb'.arg = pcb.arg
    <2>1. pcb.written + n \in Nat
      BY <1>3, <1>7
    <2> QED BY <1>3, <1>6, <2>1 DEF Pcb
  <1>9. /\ hs' \in [live : BOOLEAN, file : BOOLEAN, left : Nat]
        /\ hs'.live /\ hs'.file /\ hs'.left = hs.left - n
    BY <1>2, <1>3, <1>4, <1>6, <1>7
  <1>10. Here' /\ Queued' = pcb.ooseq /\ Active(pcb') = Active(pcb)
    BY <1>8, NoPcbIs DEF Here, Queued, Active
  <1>11. (call' = "close" /\ hs'.left = 0) \/ call' = "none"
    BY <1>3, <1>6, <1>7, <1>9 DEF Finished
  <1>12. /\ out' \in Seq(Nat) /\ Len(out') = pcb'.written
         /\ (\A i \in 1 .. Len(out) : out[i] = i) => \A i \in 1 .. Len(out') : out'[i] = i
    <2> DEFINE f == [i \in 1 .. n |-> page - hs.left + i]
    <2>1. \A i \in 1 .. n : f[i] = pcb.written + i
      BY <1>3, <1>4
    <2>2. f \in [1 .. n -> Nat]
      BY <1>3, <1>7, <2>1
    <2>3. out' = out \o f
      BY <1>6
    <2> HIDE DEF f
    <2>4. /\ out \o f \in Seq(Nat) /\ Len(out \o f) = Len(out) + n
          /\ \A i \in 1 .. Len(out) + n :
                (out \o f)[i] = IF i <= Len(out) THEN out[i] ELSE f[i - Len(out)]
      <3>1. out \in Seq(Nat)
        BY <1>4
      <3> QED BY <1>7, <2>2, <3>1, AppendIs
    <2>5. /\ out' \in Seq(Nat) /\ Len(out') = pcb.written + n
          /\ \A i \in 1 .. pcb.written + n :
                out'[i] = IF i <= pcb.written THEN out[i] ELSE f[i - pcb.written]
      BY <1>4, <2>3, <2>4
    <2>6. ASSUME NEW i \in 1 .. pcb.written + n, \A j \in 1 .. Len(out) : out[j] = j
          PROVE  out'[i] = i
      <3>1. i \in Nat /\ i >= 1 /\ i <= pcb.written + n /\ pcb.written \in Nat
        BY <1>3, <1>7
      <3>2. CASE i <= pcb.written
        <4>1. out'[i] = out[i]
          BY <2>5, <3>2
        <4>2. Len(out) = pcb.written
          BY <1>4
        <4>3. i \in 1 .. Len(out)
          BY <3>1, <3>2, <4>2
        <4> QED BY <2>6, <4>1, <4>3
      <3>3. CASE ~(i <= pcb.written)
        <4>1. i - pcb.written \in 1 .. n
          BY <1>7, <3>1, <3>3
        <4>2. f[i - pcb.written] = pcb.written + (i - pcb.written)
          BY <2>1, <4>1
        <4>3. pcb.written + (i - pcb.written) = i
          BY <3>1
        <4>4. out'[i] = f[i - pcb.written]
          BY <2>5, <3>3
        <4> QED BY <4>2, <4>3, <4>4
      <3> QED BY <3>2, <3>3
    <2>7. Len(out') = pcb.written + n /\ pcb'.written = pcb.written + n
      BY <1>8, <2>5
    <2> QED BY <2>5, <2>6, <2>7
  <1>13. TypeOK'
    BY <1>1, <1>2, <1>3, <1>8, <1>9, <1>10, <1>11, <1>12 DEF IInv, TypeOK
  <1>14. ControlInv'
    BY <1>1, <1>2, <1>8, <1>10, <1>11 DEF IInv, ControlInv
  <1>15. StateInv'
    <2>1. pcb'.acked > 0 => pcb'.written > 0
      <3>1. pcb.acked > 0 => pcb.written > 0
        BY <1>2 DEF IInv, StateInv
      <3> QED BY <1>3, <1>7, <1>8, <3>1
    <2> QED BY <1>1, <1>2, <1>3, <1>4, <1>8, <1>9, <1>10, <2>1 DEF IInv, StateInv
  <1>16. ItemInv'
    BY <1>1, <1>3, <1>10, ItemsKept
  <1>17. WindowInv'
    BY <1>1, <1>2, <1>8 DEF IInv, WindowInv, DataAhead, FinAhead
  <1>18. WrittenInv'
    <2>1. pcb'.written + hs'.left = page' /\ page' > 0
      BY <1>1, <1>3, <1>4, <1>7, <1>8, <1>9
    <2> QED BY <1>1, <1>2, <1>8, <1>9, <1>10, <1>12, <2>1 DEF IInv, WrittenInv, Echoing
  <1>19. PageInv'
    <2>1. Plain' => Plain
      BY <1>1 DEF Plain, Alive
    <2>2. ~wire'.fin /\ ~pcb'.fin
      BY <1>1, <1>4, <1>8
    <2>3. cli'.end # "fin" /\ pc' \notin {"sent"}
      BY <1>1, <1>2, <1>4 DEF IInv, PageInv
    <2>4. Plain' => cli'.sent =< 1 /\ (HasClosed' => cli'.end = "fin")
      BY <1>1, <2>1 DEF IInv, PageInv, HasClosed
    <2>5. Active(pcb') => wire'.upto = pcb'.sndNxt
      BY <1>1, <1>2, <1>8, <1>10 DEF IInv, PageInv
    <2> QED BY <1>1, <1>2, <1>8, <1>9, <1>11, <2>2, <2>3, <2>4, <2>5 DEF IInv, PageInv
  <1> QED BY <1>13, <1>14, <1>15, <1>16, <1>17, <1>18, <1>19 DEF IInv
LEMMA CloseStep ==
  ASSUME IInv, CloseReset \/ CloseFin \/ CloseFails
  PROVE  IInv'
  <1>1. /\ UNCHANGED <<app, out, pc, seg, wire, cli, page>>
        /\ call = "close" /\ call' = "none" /\ cause \subseteq cause'
        /\ "refused" \in cause' => "refused" \in cause
    BY DEF CloseReset, CloseFin, CloseFails, history
  <1>2. /\ Here /\ pcb.state \in Open /\ pc # "idle" /\ pc \notin {"refused", "process", "sent"}
    BY <1>1 DEF IInv, ControlInv
  <1>3. /\ pcb \in Pcb /\ Queued = pcb.ooseq /\ cli.end # "closed" /\ cli \in Peer
        /\ hs \in [live : BOOLEAN, file : BOOLEAN, left : Nat] /\ pcb.written \in Nat
    BY <1>2, HandlerFinds
  <1>4. /\ pcb.state # "SYN_RCVD" /\ ~pcb.fin /\ ~wire.fin
        /\ pcb.arg <=> app = "http"
        /\ hs.live <=> pcb.arg
        /\ pcb.acked > 0 => pcb.written > 0
        /\ pcb.refused # {} => app = "echo"
        /\ app \in {"http", "echo"}
    BY <1>2, <1>3 DEF IInv, StateInv, PageInv, TypeOK, Open
  <1>5. Plain => hs.file /\ hs.left = 0 /\ page > 0 /\ pcb.written = page
    <2>1. Plain => hs.file /\ hs.left = 0
      BY <1>1 DEF IInv, PageInv
    <2> QED BY <1>2, <1>3, <2>1 DEF IInv, WrittenInv
  <1>6. /\ pcb' \in Pcb /\ pcb'.state # "SYN_RCVD" /\ pcb'.rxclosed
        /\ pcb'.rcvNxt = pcb.rcvNxt /\ pcb'.sndNxt = pcb.sndNxt
        /\ pcb'.written = pcb.written /\ pcb'.acked = pcb.acked /\ pcb'.rcvWnd = pcb.rcvWnd
        /\ pcb'.ooseq \in {{}, pcb.ooseq} /\ pcb'.refused \in {{}, pcb.refused}
        /\ \/ /\ pcb'.state \notin Open /\ ~pcb'.recv /\ ~pcb'.arg /\ hs' = NoHs
              /\ pcb'.refused = {}
              /\ \/ ~pcb'.fin /\ ~Active(pcb')
                 \/ pcb'.fin
           \/ /\ pcb'.state = pcb.state /\ pcb'.arg = pcb.arg /\ pcb'.fin = pcb.fin
              /\ (pcb'.recv <=> app = "http") /\ hs' = hs
    <2>1. CASE CloseReset
      <3>1. pcb' = [pcb EXCEPT !.refused = {}, !.ooseq = {}, !.state = "TIME_WAIT",
                               !.rxclosed = TRUE, !.recv = FALSE, !.arg = FALSE]
        BY <1>3, <2>1 DEF CloseReset, Detached, ToTimeWait, Purge, Pcb
      <3>2. hs' = NoHs
        BY <2>1 DEF CloseReset
      <3>3. "TIME_WAIT" \in State /\ "TIME_WAIT" \notin Open /\ "TIME_WAIT" # "SYN_RCVD"
        BY DEF State, Open
      <3>4. pcb' \in Pcb
        BY <1>3, <3>1, <3>3 DEF Pcb
      <3>5. /\ pcb'.state = "TIME_WAIT" /\ pcb'.rxclosed = TRUE /\ pcb'.recv = FALSE
            /\ pcb'.arg = FALSE /\ pcb'.refused = {} /\ pcb'.ooseq = {}
            /\ pcb'.rcvNxt = pcb.rcvNxt /\ pcb'.sndNxt = pcb.sndNxt /\ pcb'.fin = pcb.fin
            /\ pcb'.written = pcb.written /\ pcb'.acked = pcb.acked
            /\ pcb'.rcvWnd = pcb.rcvWnd
        BY <1>3, <3>1 DEF Pcb
      <3>6. ~Active(pcb')
        BY <3>5 DEF Active
      <3> QED BY <1>4, <3>2, <3>3, <3>4, <3>5, <3>6
    <2>2. CASE CloseFin
      <3> DEFINE st == IF pcb.state = "CLOSE_WAIT" THEN "LAST_ACK" ELSE "FIN_WAIT_1"
      <3>1. pcb' = [pcb EXCEPT !.fin = TRUE, !.rxclosed = TRUE, !.state = st,
                               !.recv = FALSE, !.arg = FALSE]
        BY <1>3, <2>2 DEF CloseFin, Detached, Closing, Pcb
      <3>2. hs' = NoHs /\ pcb.refused = {}
        BY <2>2 DEF CloseFin, ResetsOnClose
      <3>3. st \in State /\ st \notin Open /\ st # "SYN_RCVD"
        BY DEF State, Open
      <3> HIDE DEF st
      <3>4. pcb' \in Pcb
        BY <1>3, <3>1, <3>3 DEF Pcb
      <3>5. /\ pcb'.state = st /\ pcb'.rxclosed = TRUE /\ pcb'.recv = FALSE
            /\ pcb'.arg = FALSE /\ pcb'.refused = pcb.refused /\ pcb'.ooseq = pcb.ooseq
            /\ pcb'.rcvNxt = pcb.rcvNxt /\ pcb'.sndNxt = pcb.sndNxt /\ pcb'.fin = TRUE
            /\ pcb'.written = pcb.written /\ pcb'.acked = pcb.acked
            /\ pcb'.rcvWnd = pcb.rcvWnd
        BY <1>3, <3>1 DEF Pcb
      <3> QED BY <3>2, <3>3, <3>4, <3>5
    <2>3. CASE CloseFails
      <3>1. pcb' = [pcb EXCEPT !.rxclosed = TRUE, !.recv = (app = "http")] /\ hs' = hs
        BY <2>3 DEF CloseFails
      <3>2. pcb' \in Pcb
        BY <1>3, <3>1 DEF Pcb
      <3>3. /\ pcb'.state = pcb.state /\ pcb'.rxclosed = TRUE /\ pcb'.recv = (app = "http")
            /\ pcb'.arg = pcb.arg /\ pcb'.refused = pcb.refused /\ pcb'.ooseq = pcb.ooseq
            /\ pcb'.rcvNxt = pcb.rcvNxt /\ pcb'.sndNxt = pcb.sndNxt /\ pcb'.fin = pcb.fin
            /\ pcb'.written = pcb.written /\ pcb'.acked = pcb.acked
            /\ pcb'.rcvWnd = pcb.rcvWnd
        BY <1>3, <3>1 DEF Pcb
      <3> QED BY <1>4, <3>1, <3>2, <3>3
    <2> QED BY <2>1, <2>2, <2>3
  <1>7. Here' /\ Queued' \subseteq Queued /\ Queued' = pcb'.ooseq
    BY <1>3, <1>6, NoPcbIs DEF Here, Queued
  <1>8. /\ IsFiniteSet(pcb'.ooseq) /\ IsFiniteSet(pcb'.refused)
    BY <1>2, <1>3, <1>6, FS_EmptySet DEF IInv, TypeOK
  <1>9. TypeOK'
    <2>1. hs' \in [live : BOOLEAN, file : BOOLEAN, left : Nat]
      <3>1. NoHs \in [live : BOOLEAN, file : BOOLEAN, left : Nat]
        BY DEF NoHs
      <3>2. hs' = NoHs \/ hs' = hs
        BY <1>6
      <3> QED BY <1>3, <3>1, <3>2
    <2> QED BY <1>1, <1>2, <1>6, <1>7, <1>8, <2>1 DEF IInv, TypeOK
  <1>10. ControlInv'
    BY <1>1, <1>2, <1>6, <1>7 DEF IInv, ControlInv
  <1>11. StateInv'
    <2>1. pcb'.refused # {} => pcb'.state \in Open /\ app' = "echo"
      BY <1>1, <1>2, <1>4, <1>6
    <2>2. (hs'.live <=> pcb'.arg) /\ (~hs'.live => hs' = NoHs)
      BY <1>2, <1>4, <1>6, NoHsIs DEF IInv, StateInv
    <2>3. pcb'.acked > 0 => pcb'.written > 0
      BY <1>4, <1>6
    <2>4. pcb'.state \in Open => /\ pcb'.arg <=> app' = "http"
                                 /\ pcb'.recv \/ (pcb'.rxclosed /\ app' = "echo")
                                 /\ ~pcb'.fin
      BY <1>1, <1>4, <1>6
    <2>5. pcb'.state \notin Open => pcb'.rxclosed /\ ~pcb'.recv /\ ~pcb'.arg
      BY <1>2, <1>6
    <2> QED BY <1>1, <1>3, <1>6, <1>7, <2>1, <2>2, <2>3, <2>4, <2>5 DEF StateInv
  <1>12. ItemInv'
    BY <1>1, <1>7, ItemsKept
  <1>13. WindowInv'
    BY <1>1, <1>2, <1>6 DEF IInv, WindowInv, DataAhead, FinAhead
  <1>14. WrittenInv'
    <2>1. ~Echoing'
      BY <1>6 DEF Echoing
    <2>2. pcb'.state \in Open => hs' = hs /\ pcb'.written = pcb.written
      BY <1>6
    <2> QED BY <1>1, <1>2, <1>6, <2>1, <2>2 DEF IInv, WrittenInv
  <1>15. PageInv'
    <2>1. hs'.file => hs.file
      BY <1>6, NoHsIs
    <2>2. Plain' => Plain
      BY <1>1 DEF Plain, Alive
    <2>3. cli'.end # "fin" /\ ~wire'.fin
      BY <1>1, <1>4 DEF IInv, PageInv
    <2>4. Active(pcb') => wire'.upto = pcb'.sndNxt
      <3>1. Active(pcb)
        BY <1>2 DEF Active, Open
      <3> QED BY <1>1, <1>2, <1>6, <3>1 DEF IInv, PageInv
    <2>5. Plain' => cli'.sent =< 1 /\ (HasClosed' => cli'.end = "fin")
      BY <1>1, <2>2 DEF IInv, PageInv, HasClosed
    <2>6. Plain' => page' > 0 /\ pcb'.written = page'
      BY <1>1, <1>5, <1>6, <2>2
    <2> QED BY <1>1, <1>2, <1>6, <2>1, <2>3, <2>4, <2>5, <2>6 DEF IInv, PageInv
  <1> QED BY <1>9, <1>10, <1>11, <1>12, <1>13, <1>14, <1>15 DEF IInv
-----------------------------------------------------------------------------
(* The echo server *)

LEMMA EchoStep ==
  ASSUME IInv, EchoRecv
  PROVE  IInv'
  <1> DEFINE n == Cardinality(seg.items)
             q == Recved(pcb, n)
  <1>1. /\ UNCHANGED <<app, hs, call, seg, wire, cli, page>>
        /\ pc = "recv" /\ call = "none" /\ ~pcb.rxclosed /\ app = "echo"
        /\ pc' = AfterRecv(seg) /\ cause \subseteq cause'
    BY DEF EchoRecv, Goto
  <1>2. /\ pcb \in Pcb /\ Here /\ Queued = pcb.ooseq /\ cli \in Peer
        /\ cli.end # "closed" /\ Wnd \in Nat /\ pcb.rcvWnd \in Int /\ n \in Nat
        /\ pcb.written \in Nat /\ pcb.rcvNxt \in Nat
        /\ seg \in Segment /\ seg.items \in SUBSET Item /\ IsFiniteSet(seg.items)
    BY <1>1, HandlerFinds
  <1>3. /\ pcb.state \in Open /\ pcb.state # "SYN_RCVD" /\ ~pcb.arg /\ ~pcb.fin /\ pcb.recv
        /\ seg.items # {} /\ out \in Seq(Nat) /\ Len(out) = pcb.written
        /\ ~Plain
    BY <1>1, <1>2 DEF IInv, ControlInv, StateInv, TypeOK, WrittenInv, Plain
  <1>4. /\ q \in Pcb
        /\ q.rcvWnd = IF pcb.rcvWnd + n > Wnd THEN Wnd ELSE pcb.rcvWnd + n
        /\ q.state = pcb.state /\ q.rcvNxt = pcb.rcvNxt /\ q.ooseq = pcb.ooseq
        /\ q.refused = pcb.refused
        /\ q.sndNxt = pcb.sndNxt /\ q.written = pcb.written /\ q.fin = pcb.fin
        /\ q.acked = pcb.acked /\ q.rxclosed = pcb.rxclosed
        /\ q.recv = pcb.recv /\ q.arg = pcb.arg
    BY <1>2, RecvedIs
  <1>5. \/ /\ out' = out \o [i \in 1 .. n |-> FirstAt(seg.items) + i - 1]
           /\ pcb' = [q EXCEPT !.written = @ + n] /\ cause' = cause
        \/ /\ out' = out /\ pcb' = [q EXCEPT !.refused = seg.items]
           /\ "refused" \in cause'
    BY DEF EchoRecv, Data, DataTaken, Echoed
  <1> HIDE DEF q
  <1>6. /\ pcb' \in Pcb /\ pcb'.rcvWnd = q.rcvWnd
        /\ pcb'.state = pcb.state /\ pcb'.rcvNxt = pcb.rcvNxt /\ pcb'.ooseq = pcb.ooseq
        /\ pcb'.sndNxt = pcb.sndNxt /\ pcb'.fin = pcb.fin
        /\ pcb'.acked = pcb.acked /\ pcb'.rxclosed = pcb.rxclosed
        /\ pcb'.recv = pcb.recv /\ pcb'.arg = pcb.arg
        /\ \/ /\ out' = out \o [i \in 1 .. n |-> FirstAt(seg.items) + i - 1]
              /\ pcb'.written = pcb.written + n /\ cause' = cause
              /\ pcb'.refused = pcb.refused
           \/ /\ out' = out /\ pcb'.refused = seg.items /\ pcb'.written = pcb.written
              /\ "refused" \in cause'
    <2>1. CASE /\ out' = out \o [i \in 1 .. n |-> FirstAt(seg.items) + i - 1]
               /\ pcb' = [q EXCEPT !.written = @ + n] /\ cause' = cause
      <3>1. q.written + n \in Nat
        BY <1>2, <1>4
      <3> QED BY <1>4, <2>1, <3>1 DEF Pcb
    <2>2. CASE /\ out' = out /\ pcb' = [q EXCEPT !.refused = seg.items]
               /\ "refused" \in cause'
      BY <1>2, <1>4, <2>2 DEF Pcb
    <2> QED BY <1>5, <2>1, <2>2
  <1>7. Here' /\ Queued' = pcb.ooseq /\ Active(pcb') = Active(pcb)
    BY <1>6, NoPcbIs DEF Here, Queued, Active
  <1>8. (pc' = "fin" /\ seg.fin) \/ (pc' = "output" /\ ~seg.fin)
    BY <1>1 DEF AfterRecv
  <1>9. /\ DataAhead = n /\ DataAhead' = 0
        /\ FinAhead = (IF seg.fin THEN 1 ELSE 0) /\ FinAhead' = FinAhead
    BY <1>1, <1>8 DEF DataAhead, FinAhead
  <1> HIDE DEF n
  <1>10. /\ out' \in Seq(Nat) /\ Len(out') = pcb'.written
         /\ "refused" \notin cause' => \A i \in 1 .. Len(out') : out'[i] = i
    <2>1. CASE out' = out /\ pcb'.written = pcb.written /\ "refused" \in cause'
      BY <1>3, <2>1
    <2>2. CASE /\ out' = out \o [i \in 1 .. n |-> FirstAt(seg.items) + i - 1]
               /\ pcb'.written = pcb.written + n /\ cause' = cause
      <3> DEFINE m == FirstAt(seg.items)
                 f == [i \in 1 .. n |-> m + i - 1]
      <3>1. /\ m \in Nat /\ (\E x \in seg.items : x.at = m)
            /\ \A x \in seg.items : m <= x.at
        BY <1>2, <1>3, FirstIs
      <3>2. "refused" \notin cause' => m = pcb.written + 1
        <4>1. \A x \in seg.items : x.at \in Nat
          BY <1>2 DEF Item
        <4>2. "refused" \notin cause' => /\ \E x \in seg.items : x.at = pcb.written + 1
                                         /\ \A x \in seg.items : x.at > pcb.written
          BY <1>1, <1>2, <1>3, <2>2 DEF IInv, WrittenInv, Echoing
        <4> QED BY <1>2, <3>1, <4>1, <4>2
      <3> HIDE DEF m
      <3>3. f \in [1 .. n -> Nat] /\ \A i \in 1 .. n : f[i] = m + i - 1
        BY <1>2, <3>1
      <3>4. out' = out \o f
        BY <2>2 DEF m
      <3> HIDE DEF f
      <3>5. /\ out \o f \in Seq(Nat) /\ Len(out \o f) = Len(out) + n
            /\ \A i \in 1 .. Len(out) + n :
                  (out \o f)[i] = IF i <= Len(out) THEN out[i] ELSE f[i - Len(out)]
        BY <1>2, <1>3, <3>3, AppendIs
      <3>6. /\ out' \in Seq(Nat) /\ Len(out') = pcb.written + n
            /\ \A i \in 1 .. pcb.written + n :
                  out'[i] = IF i <= pcb.written THEN out[i] ELSE f[i - pcb.written]
        BY <1>3, <3>4, <3>5
      <3>7. ASSUME "refused" \notin cause', NEW i \in 1 .. pcb.written + n
            PROVE  out'[i] = i
        <4>1. i \in Nat /\ i >= 1 /\ i <= pcb.written + n /\ pcb.written \in Nat
          BY <1>2
        <4>2. CASE i <= pcb.written
          <5>1. out'[i] = out[i]
            BY <3>6, <4>2
          <5>2. \A j \in 1 .. pcb.written : out[j] = j
            BY <1>1, <1>3, <3>7 DEF IInv, WrittenInv
          <5>3. i \in 1 .. pcb.written
            BY <4>1, <4>2
          <5> QED BY <5>1, <5>2, <5>3
        <4>3. CASE ~(i <= pcb.written)
          <5>1. i - pcb.written \in 1 .. n
            BY <1>2, <4>1, <4>3
          <5>2. f[i - pcb.written] = m + (i - pcb.written) - 1
            BY <3>3, <5>1
          <5>3. m + (i - pcb.written) - 1 = i
            BY <3>2, <3>7, <4>1
          <5>4. out'[i] = f[i - pcb.written]
            BY <3>6, <4>3
          <5> QED BY <5>2, <5>3, <5>4
        <4> QED BY <4>2, <4>3
      <3> QED BY <2>2, <3>6, <3>7
    <2> QED BY <1>6, <2>1, <2>2
  <1>11. TypeOK'
    <2>1. IsFiniteSet(pcb'.refused) /\ IsFiniteSet(pcb'.ooseq)
      BY <1>2, <1>6 DEF IInv, TypeOK
    <2> QED BY <1>1, <1>2, <1>6, <1>7, <1>8, <1>10, <2>1 DEF IInv, TypeOK
  <1>12. ControlInv'
    BY <1>1, <1>2, <1>3, <1>6, <1>7, <1>8 DEF ControlInv
  <1>13. StateInv'
    <2>1. pcb'.acked > 0 => pcb'.written > 0
      <3>1. pcb.acked > 0 => pcb.written > 0
        BY <1>2 DEF IInv, StateInv
      <3>2. pcb'.acked = pcb.acked /\ pcb'.written >= pcb.written
        BY <1>2, <1>6
      <3>3. pcb'.written \in Nat
        BY <1>6 DEF Pcb
      <3> QED BY <1>2, <3>1, <3>2, <3>3
    <2>2. (hs'.live <=> pcb'.arg) /\ (~hs'.live => hs' = NoHs)
      BY <1>1, <1>2, <1>6 DEF IInv, StateInv
    <2> QED BY <1>1, <1>2, <1>3, <1>6, <1>7, <2>1, <2>2 DEF StateInv
  <1>14. ItemInv'
    BY <1>1, <1>2, <1>7, ItemsKept
  <1>15. WindowInv'
    <2>1. pcb.rcvWnd = Wnd - n - FinAhead /\ FinAhead \in 0 .. 1
      BY <1>2, <1>3, <1>9 DEF IInv, WindowInv
    <2> QED BY <1>2, <1>4, <1>6, <1>9, <2>1 DEF WindowInv
  <1>16. WrittenInv'
    <2>1. ~hs'.file
      <3>1. ~hs.live
        BY <1>2, <1>3 DEF IInv, StateInv
      <3>2. hs' = NoHs
        BY <1>1, <3>1 DEF IInv, StateInv
      <3> QED BY <3>2, NoHsIs
    <2>2. pcb'.refused # {} => "refused" \in cause'
      BY <1>1, <1>2, <1>6 DEF IInv, WrittenInv
    <2>3. "refused" \notin cause' => pcb'.written + (IF seg'.fin THEN 1 ELSE 0) = pcb'.rcvNxt - 1
      <3>1. "refused" \notin cause' =>
              pcb.written + n + (IF seg.fin THEN 1 ELSE 0) = pcb.rcvNxt - 1
        BY <1>1, <1>2, <1>3, <1>9 DEF IInv, WrittenInv, Echoing
      <3> QED BY <1>1, <1>2, <1>6, <3>1
    <2>4. DataAhead' = 0 /\ pc' # "recv" /\ pcb'.written \in Nat /\ app' # "http"
      BY <1>1, <1>6, <1>8, <1>9 DEF Pcb
    <2> QED BY <1>10, <2>1, <2>2, <2>3, <2>4 DEF WrittenInv
  <1>17. PageInv'
    <2>1. ~Plain'
      BY <1>1 DEF Plain
    <2>2. ~wire.fin
      BY <1>2, <1>3 DEF IInv, PageInv
    <2>3. Active(pcb') => wire'.upto = pcb'.sndNxt
      BY <1>1, <1>2, <1>6, <1>7 DEF IInv, PageInv
    <2>4. cli'.end # "fin" /\ ~wire'.fin /\ pc' \notin {"sent", "recv"}
      BY <1>1, <1>8, <2>2 DEF IInv, PageInv
    <2>5. hs'.file => pcb'.rcvNxt > 1
      BY <1>1, <1>6 DEF IInv, PageInv
    <2> QED BY <2>1, <2>3, <2>4, <2>5 DEF PageInv
  <1> QED BY <1>11, <1>12, <1>13, <1>14, <1>15, <1>16, <1>17 DEF IInv

(* The refused pbuf is handed over again: by then it may be anything, but  *)
(* only an open block of the echo server has one.                          *)
LEMMA RefusedStep ==
  ASSUME IInv, RefusedAgain
  PROVE  IInv'
  <1> DEFINE n == Cardinality(pcb.refused)
             q == Recved(pcb, n)
  <1>1. /\ UNCHANGED <<app, hs, call, wire, cli, page, cause>> /\ pc = "refused"
    BY DEF RefusedAgain, history
  <1>2. /\ call = "none" /\ pcb.refused # {} /\ Active(pcb) /\ ~seg.fin
    BY <1>1 DEF IInv, ControlInv
  <1>3. /\ pcb \in Pcb /\ Here /\ Queued = pcb.ooseq /\ cli \in Peer
        /\ cli.end # "closed" /\ Wnd \in Nat /\ pcb.rcvWnd \in Int
        /\ pcb.written \in Nat /\ pcb.refused \in SUBSET Item /\ IsFiniteSet(pcb.refused)
    <2>1. /\ pcb \in Pcb /\ Here /\ Queued = pcb.ooseq /\ cli \in Peer
          /\ cli.end # "closed" /\ Wnd \in Nat /\ pcb.rcvWnd \in Int /\ pcb.written \in Nat
      BY <1>1, HandlerFinds
    <2> QED BY <2>1 DEF IInv, TypeOK, Pcb
  <1>4. n \in Nat
    BY <1>3, FS_CardinalityType
  <1>5. /\ pcb.state \in Open /\ app = "echo" /\ "refused" \in cause /\ ~pcb.fin
        /\ out \in Seq(Nat) /\ Len(out) = pcb.written /\ pcb.state # "SYN_RCVD"
        /\ pcb.rcvWnd = Wnd
    <2>1. pcb.state \in Open /\ app = "echo" /\ "refused" \in cause /\ ~pcb.fin
          /\ out \in Seq(Nat) /\ Len(out) = pcb.written /\ pcb.state # "SYN_RCVD"
      BY <1>2, <1>3 DEF IInv, StateInv, TypeOK, WrittenInv, Open
    <2>2. DataAhead = 0 /\ FinAhead = 0
      BY <1>1 DEF DataAhead, FinAhead
    <2> QED BY <1>3, <2>1, <2>2 DEF IInv, WindowInv
  <1>6. /\ q \in Pcb /\ q.rcvWnd = Wnd
        /\ q.state = pcb.state /\ q.rcvNxt = pcb.rcvNxt /\ q.ooseq = pcb.ooseq
        /\ q.refused = pcb.refused
        /\ q.sndNxt = pcb.sndNxt /\ q.written = pcb.written /\ q.fin = pcb.fin
        /\ q.acked = pcb.acked /\ q.rxclosed = pcb.rxclosed
        /\ q.recv = pcb.recv /\ q.arg = pcb.arg
    <2>1. Wnd + n > Wnd \/ Wnd + n = Wnd
      BY <1>3, <1>4
    <2> QED BY <1>3, <1>4, <1>5, <2>1, RecvedIs
  <1>7. \/ /\ pcb' = [q EXCEPT !.refused = {}, !.written = @ + n]
           /\ \E was \in BOOLEAN :
                 out' = out \o [i \in 1 .. n |->
                                   IF was THEN FirstAt(pcb.refused) + i - 1 ELSE 0]
           /\ pc' = "process" /\ seg' = seg
        \/ /\ pcb' = q /\ out' = out
           /\ \/ pc' = "idle" /\ seg' = NoSeg
              \/ pc' = "process" /\ seg' = seg
    <2>1. Echoed([q EXCEPT !.refused = {}], n) = [q EXCEPT !.refused = {}, !.written = @ + n]
      BY <1>6 DEF Echoed, Pcb
    <2> QED BY <2>1 DEF RefusedAgain, Goto
  <1> HIDE DEF q
  <1>8. /\ pcb' \in Pcb /\ pcb'.rcvWnd = Wnd
        /\ pcb'.state = pcb.state /\ pcb'.rcvNxt = pcb.rcvNxt /\ pcb'.ooseq = pcb.ooseq
        /\ pcb'.sndNxt = pcb.sndNxt /\ pcb'.fin = pcb.fin
        /\ pcb'.acked = pcb.acked /\ pcb'.rxclosed = pcb.rxclosed
        /\ pcb'.recv = pcb.recv /\ pcb'.arg = pcb.arg
        /\ pcb'.refused \in {{}, pcb.refused} /\ pcb'.written >= pcb.written
        /\ out' \in Seq(Nat) /\ Len(out') = pcb'.written
    <2>1. CASE pcb' = q /\ out' = out
      BY <1>3, <1>5, <1>6, <2>1
    <2>2. ASSUME pcb' = [q EXCEPT !.refused = {}, !.written = @ + n],
                 NEW was \in BOOLEAN,
                 out' = out \o [i \in 1 .. n |->
                                   IF was THEN FirstAt(pcb.refused) + i - 1 ELSE 0]
          PROVE  <1>8!:
      <3> DEFINE f == [i \in 1 .. n |-> IF was THEN FirstAt(pcb.refused) + i - 1 ELSE 0]
      <3>1. FirstAt(pcb.refused) \in Nat
        BY <1>2, <1>3, FirstIs
      <3>2. f \in [1 .. n -> Nat]
        BY <1>4, <3>1
      <3>3. out' = out \o f
        BY <2>2
      <3> HIDE DEF f
      <3>4. out' \in Seq(Nat) /\ Len(out') = pcb.written + n
        <4>1. out \o f \in Seq(Nat) /\ Len(out \o f) = Len(out) + n
          BY <1>4, <1>5, <3>2, AppendIs
        <4> QED BY <1>5, <3>3, <4>1
      <3>5. q.written + n \in Nat /\ q.written + n >= pcb.written
        BY <1>3, <1>4, <1>6
      <3>6. pcb' \in Pcb /\ pcb'.written = q.written + n /\ pcb'.refused = {}
        BY <1>6, <2>2, <3>5 DEF Pcb
      <3>7. /\ pcb'.state = q.state /\ pcb'.rcvNxt = q.rcvNxt /\ pcb'.ooseq = q.ooseq
            /\ pcb'.sndNxt = q.sndNxt /\ pcb'.fin = q.fin /\ pcb'.rcvWnd = q.rcvWnd
            /\ pcb'.acked = q.acked /\ pcb'.rxclosed = q.rxclosed
            /\ pcb'.recv = q.recv /\ pcb'.arg = q.arg
        BY <1>6, <2>2, <3>5 DEF Pcb
      <3> QED BY <1>6, <3>4, <3>5, <3>6, <3>7
    <2> QED BY <1>7, <2>1, <2>2
  <1>9. \/ pc' = "process" /\ seg' = seg
        \/ pc' = "idle" /\ seg' = NoSeg
    BY <1>7
  <1>10. /\ Here' /\ Queued' = pcb.ooseq /\ Active(pcb') = Active(pcb)
    BY <1>8, NoPcbIs DEF Here, Queued, Active
  <1>11. /\ seg' \in Segment /\ IsFiniteSet(seg'.items) /\ seg'.items \subseteq seg.items
         /\ ~seg'.fin /\ (seg'.syn => seg.syn)
    <2>1. NoSeg \in Segment /\ NoSeg.items = {} /\ ~NoSeg.fin /\ ~NoSeg.syn
      BY DEF NoSeg, Segment
    <2>2. seg \in Segment /\ IsFiniteSet(seg.items)
      BY DEF IInv, TypeOK
    <2> QED BY <1>2, <1>9, <2>1, <2>2, FS_EmptySet
  <1>12. TypeOK'
    <2>1. IsFiniteSet(pcb'.refused) /\ IsFiniteSet(pcb'.ooseq)
      BY <1>3, <1>8, FS_EmptySet DEF IInv, TypeOK
    <2> QED BY <1>1, <1>8, <1>9, <1>10, <1>11, <2>1 DEF IInv, TypeOK
  <1>13. ControlInv'
    <2>1. pc' = "process" /\ seg'.syn => seg'.items = {}
      BY <1>1, <1>9 DEF IInv, ControlInv
    <2> QED BY <1>1, <1>2, <1>9, <1>10, <1>11, <2>1 DEF ControlInv
  <1>14. StateInv'
    <2>1. pcb'.acked > 0 => pcb'.written > 0
      <3>1. pcb.acked > 0 => pcb.written > 0
        BY <1>3 DEF IInv, StateInv
      <3>2. pcb'.written \in Nat
        BY <1>8 DEF Pcb
      <3> QED BY <1>3, <1>8, <3>1, <3>2
    <2> QED BY <1>1, <1>3, <1>5, <1>8, <1>10, <2>1 DEF IInv, StateInv
  <1>15. ItemInv'
    BY <1>1, <1>3, <1>10, <1>11, ItemsKept
  <1>16. WindowInv'
    <2>1. DataAhead' = 0 /\ FinAhead' = 0
      BY <1>9 DEF DataAhead, FinAhead
    <2> QED BY <1>3, <1>8, <2>1 DEF WindowInv
  <1>17. WrittenInv'
    <2>1. ~hs'.file
      <3>1. ~hs.live
        BY <1>3, <1>5 DEF IInv, StateInv, Open
      <3>2. hs' = NoHs
        BY <1>1, <3>1 DEF IInv, StateInv
      <3> QED BY <3>2, NoHsIs
    <2> QED BY <1>1, <1>5, <1>8, <2>1 DEF WrittenInv
  <1>18. PageInv'
    <2>1. ~Plain' /\ ~wire.fin
      BY <1>1, <1>3, <1>5 DEF Plain, IInv, PageInv
    <2>2. Active(pcb') => wire'.upto = pcb'.sndNxt
      BY <1>1, <1>3, <1>8, <1>10 DEF IInv, PageInv
    <2>3. cli'.end # "fin" /\ ~wire'.fin /\ pc' \notin {"sent", "recv"}
      BY <1>1, <1>9, <2>1 DEF IInv, PageInv
    <2>4. hs'.file => pcb'.rcvNxt > 1
      BY <1>1, <1>8 DEF IInv, PageInv
    <2> QED BY <2>1, <2>2, <2>3, <2>4 DEF PageInv
  <1> QED BY <1>12, <1>13, <1>14, <1>15, <1>16, <1>17, <1>18 DEF IInv
-----------------------------------------------------------------------------
(* The theorems *)

LEMMA InitIInv == Init => IInv
  <1> SUFFICES ASSUME Init PROVE IInv
    OBVIOUS
  <1>1. /\ app \in {"http", "echo"} /\ pcb = NoPcb /\ hs = NoHs /\ out = <<>>
        /\ pc = "idle" /\ call = "none" /\ seg = NoSeg /\ page = 0
        /\ wire = [upto |-> 0, fin |-> FALSE]
        /\ cli = [sent |-> 0, fin |-> 0, got |-> 0, end |-> "closed"]
    BY ServerAssumption DEF Init
  <1>2. ~Here /\ Queued = {} /\ ~Active(pcb) /\ ~HasClosed /\ ~Alive /\ ~Plain /\ ~Echoing
    BY <1>1, NoPcbIs DEF Here, Queued, HasClosed, Alive, Plain, Echoing
  <1>3. seg.items = {} /\ ~seg.fin /\ seg \in Segment
    BY <1>1 DEF NoSeg, Segment
  <1>4. hs \in [live : BOOLEAN, file : BOOLEAN, left : Nat]
    BY <1>1 DEF NoHs
  <1>5. cli \in Peer /\ cli.end = "closed" /\ cli.sent = 0 /\ ~wire.fin
        /\ wire \in [upto : Nat, fin : BOOLEAN]
    BY <1>1 DEF Peer
  <1>6. TypeOK
    BY <1>1, <1>2, <1>3, <1>4, <1>5, FS_EmptySet DEF TypeOK
  <1>7. ControlInv /\ StateInv
    BY <1>1, <1>2, <1>3, <1>5, NoHsIs DEF ControlInv, StateInv
  <1>8. ItemInv
    BY <1>2, <1>3 DEF ItemInv, Coherent
  <1>9. WindowInv /\ WrittenInv
    BY <1>1, <1>2, EmptySeq DEF WindowInv, WrittenInv
  <1>10. PageInv
    BY <1>1, <1>2, <1>5, NoHsIs DEF PageInv
  <1> QED BY <1>6, <1>7, <1>8, <1>9, <1>10 DEF IInv

LEMMA StutterIInv == IInv /\ UNCHANGED vars => IInv'
  <1> SUFFICES ASSUME IInv, UNCHANGED vars PROVE IInv'
    OBVIOUS
  <1>1. UNCHANGED <<app, pcb, hs, out, pc, call, seg, wire, cli, page, cause>>
    BY DEF vars
  <1>2. TypeOK' /\ ControlInv'
    BY <1>1 DEF IInv, TypeOK, ControlInv, Here, Queued, Active
  <1>3. StateInv' /\ WindowInv'
    BY <1>1 DEF IInv, StateInv, WindowInv, Here, HasClosed, DataAhead, FinAhead
  <1>4. ItemInv'
    BY <1>1, ItemsKept DEF Queued, Here
  <1>5. WrittenInv' /\ PageInv'
    BY <1>1 DEF IInv, WrittenInv, PageInv, Here, Echoing, DataAhead, Active, Plain, Alive,
       HasClosed
  <1> QED BY <1>2, <1>3, <1>4, <1>5 DEF IInv

LEMMA NextIInv == IInv /\ [Next]_vars => IInv'
  <1> SUFFICES ASSUME IInv, [Next]_vars PROVE IInv'
    OBVIOUS
  <1>1. CASE Client
    BY <1>1, ConnectStep, ClientStep DEF Client
  <1>2. CASE Segments
    BY <1>2, SegmentStep, NobodyStep, AbortedStep DEF Segments
  <1>3. CASE Handler
    <2>1. CASE Process
      BY <2>1, ProcessStep DEF Process
    <2>2. CASE ProcessSyn \/ HttpSent \/ HttpRecv \/ RecvFin \/ HttpSendData \/ Output
      BY <2>2, SynStep, SentStep, HttpRecvStep, RecvFinStep, SendDataStep, OutputStep
    <2>3. CASE CloseReset \/ CloseFin \/ CloseFails \/ EchoRecv \/ RefusedAgain
      BY <2>3, CloseStep, EchoStep, RefusedStep
    <2>4. CASE AcceptFails \/ RecvClosed
      BY <2>4, AbortedStep
    <2> QED BY <1>3, <2>1, <2>2, <2>3, <2>4 DEF Handler
  <1>4. CASE UNCHANGED vars
    BY <1>4, StutterIInv
  <1> QED BY <1>1, <1>2, <1>3, <1>4 DEF Next

(* Whatever is lost, repeated or overtaken: the states of a block, what    *)
(* its queues hold, its window and what was written fit together.          *)
THEOREM IInvHolds == Spec => []IInv
  BY InitIInv, NextIInv, PTL DEF Spec

(* The state of the HTTP server is there exactly while its block refers to *)
(* it: no callback of httpd.c finds it freed, and every way a block can go *)
(* - the close, a failed accept, a RST, tcp_kill_prio, data after the      *)
(* close - frees it (http_close_conn, http_err).                           *)
THEOREM HttpStateOwned == Spec => []StateWhileReferred
  <1>1. IInv => StateWhileReferred
    BY DEF IInv, StateInv, StateWhileReferred, Here
  <1> QED BY <1>1, IInvHolds, PTL

(* Between segments the receive window of a connection that is not closed  *)
(* is all of TCP_WND: each callback has taken what it was given, once, and *)
(* tcp_input allowed for the FIN (tcp_recved), or tcp_close would answer   *)
(* with a RST.                                                             *)
THEOREM WindowReopens == Spec => []WindowWhole
  <1>1. IInv => WindowWhole
    <2> SUFFICES ASSUME IInv, pc = "idle", pcb.state \in {"ESTABLISHED", "CLOSE_WAIT"}
                 PROVE  pcb.rcvWnd = Wnd
      BY DEF WindowWhole
    <2>1. Here
      BY DEF Here, NoPcb
    <2>2. DataAhead = 0 /\ FinAhead = 0
      BY DEF DataAhead, FinAhead
    <2> QED BY <2>1, <2>2, ConnAssumption DEF IInv, WindowInv, Open
  <1> QED BY <1>1, IInvHolds, PTL

(* What either server writes is its file, or what the client has sent, in  *)
(* order and once, unless echo_recv has had to refuse data (tcp_receive,   *)
(* http_send_data, echo_recv).                                             *)
THEOREM WrittenInOrder == Spec => []StreamIntact
  <1>1. IInv => StreamIntact
    BY DEF IInv, WrittenInv, StreamIntact
  <1> QED BY <1>1, IInvHolds, PTL

(* A client that keeps to one request and waits for the answer takes the   *)
(* end of the stream for the end of the page, and is right: the server     *)
(* sends its FIN only after the whole file (http_close_conn, tcp_output).  *)
THEOREM EndIsEndOfPage == Spec => []EndMeansWholePage
  <1>1. IInv => EndMeansWholePage
    <2> SUFFICES ASSUME IInv, app = "http", cli.end = "fin",
                        cause \cap {"more", "halfclose"} = {}
                 PROVE  page > 0 /\ cli.got = page + 1
      BY DEF EndMeansWholePage
    <2>1. Plain
      BY DEF Plain, Alive
    <2>2. wire.fin /\ cli.got = wire.upto - 1
      BY DEF IInv, PageInv
    <2>3. page > 0 /\ wire.upto = page + 2 /\ page \in Nat
      BY <2>1, <2>2 DEF IInv, PageInv, TypeOK
    <2> QED BY <2>2, <2>3
  <1> QED BY <1>1, IInvHolds, PTL
-----------------------------------------------------------------------------
(* A connection to which nothing happens *)

LEMMA QuietFinds ==
  ASSUME IInv
  PROVE  /\ cli \in Peer /\ cli.sent \in Nat /\ cli.fin \in Nat /\ cli.got \in Nat
         /\ wire \in [upto : Nat, fin : BOOLEAN] /\ wire.upto \in Nat
         /\ seg \in Segment /\ seg.ack \in Nat /\ page \in Nat
         /\ app \in {"http", "echo"}
         /\ Here => /\ pcb \in Pcb /\ pcb.state \in State
                    /\ pcb.lastack \in Nat /\ pcb.sndNxt \in Nat
                    /\ pcb.written \in Nat /\ pcb.rcvNxt \in Nat
                    /\ SndEnd(pcb) \in Nat
                    /\ SndEnd(pcb) = pcb.written + (IF pcb.fin THEN 2 ELSE 1)
  <1>1. cli \in Peer /\ wire \in [upto : Nat, fin : BOOLEAN] /\ seg \in Segment /\ page \in Nat
        /\ app \in {"http", "echo"}
    BY DEF IInv, TypeOK
  <1>2. cli.sent \in Nat /\ cli.fin \in Nat /\ cli.got \in Nat
    BY <1>1 DEF Peer
  <1>3. seg.ack \in Nat
    BY <1>1 DEF Segment
  <1>4. Here => pcb \in Pcb
    BY HereIs DEF IInv, TypeOK
  <1>5. Here => /\ pcb.state \in State
                /\ pcb.lastack \in Nat /\ pcb.sndNxt \in Nat
                /\ pcb.written \in Nat /\ pcb.rcvNxt \in Nat
    BY <1>4 DEF Pcb
  <1>6. SndEnd(pcb) = pcb.written + (IF pcb.fin THEN 2 ELSE 1)
    BY DEF SndEnd
  <1>7. Here => SndEnd(pcb) \in Nat
    BY <1>5, <1>6
  <1> QED BY <1>1, <1>2, <1>3, <1>4, <1>5, <1>6, <1>7

(* What has happened stays, and what would excuse a loss excludes a second *)
(* request, an early close and refused data.                               *)
LEMMA QuietIs ==
  /\ Quiet => cause \cap {"more", "halfclose"} = {} /\ "refused" \notin cause
  /\ cause \subseteq cause' => (Quiet' => Quiet)
  /\ UNCHANGED cause => Quiet' = Quiet
  /\ \A why \in Excuses : cause' = cause \cup {why} => ~Quiet'
  BY DEF Quiet, Excuses

(* The FIN of the server is the end of what it sends.                      *)
LEMMA EndIsSent ==
  ASSUME IInv, Here, Active(pcb), wire.fin
  PROVE  pcb.fin /\ pcb.sndNxt = SndEnd(pcb) /\ pcb.state \notin {"SYN_RCVD"} \cup Open
         /\ wire.upto = pcb.sndNxt
  <1>1. pcb.fin /\ pcb.sndNxt = pcb.written + 2 /\ wire.upto = pcb.sndNxt
    BY DEF IInv, PageInv
  <1>2. pcb.state \notin {"SYN_RCVD"} \cup Open
    BY <1>1 DEF IInv, StateInv
  <1> QED BY <1>1, <1>2 DEF SndEnd

(* A quiet client of the HTTP server closes when it has the whole answer.  *)
LEMMA QuietHttpClose ==
  ASSUME IInv, Here, Active(pcb), Quiet, app = "http", Alive, HasClosed
  PROVE  /\ cli.end = "fin" /\ wire.fin /\ cli.sent <= 1 /\ page > 0
         /\ pcb.fin /\ pcb.sndNxt = SndEnd(pcb)
         /\ wire.upto = pcb.sndNxt /\ pcb.state \notin {"SYN_RCVD"} \cup Open
  <1>1. Plain
    BY QuietIs DEF Plain
  <1>2. cli.end = "fin" /\ cli.sent <= 1
    BY <1>1 DEF IInv, PageInv
  <1>3. wire.fin
    BY <1>2 DEF IInv, PageInv
  <1>4. page > 0
    BY <1>1, <1>3 DEF IInv, PageInv
  <1> QED BY <1>2, <1>3, <1>4, EndIsSent

LEMMA ClientQuiet ==
  ASSUME IInv, QuietInv, ClientWrite \/ ClientClose \/ ClientReceive \/ ClientGetsReset
                         \/ ClientAborts
  PROVE  QuietInv'
  <1>1. /\ UNCHANGED <<app, pcb, hs, out, pc, call, seg, wire, rst, page>>
        /\ cause \subseteq cause'
    BY DEF ClientWrite, ClientClose, ClientReceive, ClientGetsReset, ClientAborts, history
  <1>2. /\ cli \in Peer /\ cli.sent \in Nat /\ cli.fin \in Nat /\ cli.got \in Nat
        /\ wire.upto \in Nat
    BY QuietFinds
  <1>3. Here' = Here /\ Active(pcb)' = Active(pcb) /\ (Quiet' => Quiet)
        /\ SndEnd(pcb)' = SndEnd(pcb) /\ AllSeen' = AllSeen
    BY <1>1, QuietIs DEF Here, Active, SndEnd, AllSeen
  <1>4. CASE ClientWrite
    <2>1. /\ cli' \in Peer /\ cli.end = "open" /\ cli'.end = "open" /\ cli'.fin = 0
          /\ cli.fin = 0 /\ cli'.got = cli.got /\ cli'.sent = cli.sent + 1
          /\ ~HasClosed /\ ~HasClosed'
      BY <1>2, <1>4 DEF ClientWrite, Peer, HasClosed
    <2>2. ASSUME Quiet', Here', Active(pcb)'
          PROVE  Unharmed' /\ (app = "http" => HttpQuiet') /\ (app = "echo" => EchoQuiet')
      <3>1. Unharmed /\ (app = "http" => HttpQuiet) /\ (app = "echo" => EchoQuiet)
        BY <1>3, <2>2 DEF QuietInv
      <3>2. Unharmed'
        BY <1>1, <1>3, <2>1, <3>1 DEF Unharmed, Alive
      <3>3. app = "http" => HttpQuiet'
        BY <1>1, <2>1, <3>1 DEF HttpQuiet
      <3>4. pcb.rcvNxt \in Nat
        BY <1>3, <2>2, QuietFinds
      <3>5. app = "echo" => EchoQuiet'
        BY <1>1, <1>2, <1>3, <2>1, <3>1, <3>4 DEF EchoQuiet
      <3> QED BY <3>2, <3>3, <3>5
    <2>3. cli'.end # "closed" /\ cli'.fin <= cli'.got + 1
      BY <1>2, <2>1
    <2> QED BY <1>1, <2>2, <2>3 DEF QuietInv
  <1>5. CASE ClientClose
    <2>1. /\ cli' \in Peer /\ cli.end \in {"open", "fin"} /\ cli'.end = cli.end
          /\ cli'.fin = cli.got + 1
          /\ cli.fin = 0 /\ cli'.got = cli.got /\ cli'.sent = cli.sent
          /\ ~HasClosed /\ HasClosed'
      BY <1>2, <1>5 DEF ClientClose, Peer, HasClosed
    <2>2. ASSUME Quiet', Here', Active(pcb)'
          PROVE  Unharmed' /\ (app = "http" => HttpQuiet') /\ (app = "echo" => EchoQuiet')
      <3>1. Unharmed /\ (app = "http" => HttpQuiet) /\ (app = "echo" => EchoQuiet)
        BY <1>3, <2>2 DEF QuietInv
      <3>2. Quiet /\ Here /\ Active(pcb) /\ Alive
        BY <1>3, <2>1, <2>2 DEF Alive
      <3>3. cli.end = "fin" \/ (app = "echo" /\ cli.got >= cli.sent)
        <4>1. ~(cli.end = "open" /\ (app = "http" \/ cli.got < cli.sent))
          BY <1>5, <2>2, QuietIs DEF ClientClose, Excuses
        <4> QED BY <1>2, <2>1, <4>1, QuietFinds
      <3>4. /\ pcb.lastack \in Nat /\ pcb.sndNxt \in Nat /\ pcb.state \in State
            /\ pcb.written \in Nat /\ pcb.rcvNxt \in Nat
        BY <3>2, QuietFinds
      <3>5. wire.upto = pcb.sndNxt
        BY <3>2 DEF IInv, PageInv
      <3>6. cli.end = "fin" => wire.fin /\ cli.got = wire.upto - 1
        BY DEF IInv, PageInv
      <3>7. app = "http" => cli.sent <= 1 /\ pcb.rcvNxt > 1 /\ cli'.fin = wire.upto
        <4>1. SUFFICES ASSUME app = "http" PROVE cli.sent <= 1 /\ pcb.rcvNxt > 1 /\ cli'.fin = wire.upto
          OBVIOUS
        <4>2. wire.fin /\ cli.got = wire.upto - 1
          BY <3>3, <3>6, <4>1
        <4>3. Plain
          BY <3>2, <4>1, QuietIs DEF Plain
        <4>4. cli.sent <= 1 /\ page > 0
          BY <4>2, <4>3 DEF IInv, PageInv
        <4> QED BY <1>2, <2>1, <3>1, <4>1, <4>2, <4>4 DEF HttpQuiet
      <3>8. app = "echo" => pcb.rcvNxt > cli.sent /\ cli.got >= cli.sent
        <4>1. SUFFICES ASSUME app = "echo" PROVE pcb.rcvNxt > cli.sent /\ cli.got >= cli.sent
          OBVIOUS
        <4>2. pcb.state \in {"SYN_RCVD"} \cup Open
          BY <2>1, <3>1, <4>1 DEF EchoQuiet, Open
        <4>3. cli.end # "fin" /\ cli.got >= cli.sent
          BY <3>2, <3>3, <3>6, <4>1, <4>2, EndIsSent
        <4>4. ~pcb.fin
          BY <3>2, <4>2 DEF IInv, StateInv
        <4>5. cli.got <= pcb.written
          <5>1. SndEnd(pcb) = pcb.written + 1
            BY <4>4 DEF SndEnd
          <5>2. cli.got + 1 <= wire.upto /\ pcb.sndNxt <= SndEnd(pcb)
            BY <3>1 DEF Unharmed
          <5> QED BY <1>2, <3>4, <3>5, <5>1, <5>2
        <4>6. CASE pcb.state = "SYN_RCVD"
          <5>1. pcb.written = 0 /\ pcb.rcvNxt = 1
            BY <3>2, <4>6 DEF IInv, StateInv
          <5> QED BY <1>2, <4>3, <4>5, <5>1
        <4>7. CASE pcb.state \in Open
          <5>1. Echoing
            BY <2>1, <3>1, <3>2, <4>1, <4>7 DEF Echoing, EchoQuiet, Open
          <5>2. pcb.written + DataAhead + (IF seg.fin THEN 1 ELSE 0) = pcb.rcvNxt - 1
            BY <3>2, <5>1, QuietIs DEF IInv, WrittenInv
          <5>3. DataAhead \in Nat
            <6>1. IsFiniteSet(seg.items)
              BY DEF IInv, TypeOK
            <6> QED BY <6>1, FS_CardinalityType DEF DataAhead
          <5> QED BY <1>2, <3>4, <4>3, <4>5, <5>2, <5>3
        <4> QED BY <4>2, <4>6, <4>7
      <3>9. pcb.rcvNxt > cli.sent
        BY <1>2, <3>4, <3>7, <3>8, QuietFinds
      <3>10. pc \in {"refused", "process"} => \A x \in seg.items : ~x.fin
        <4>1. seg.items \subseteq Stream
          BY <3>2 DEF IInv, ItemInv
        <4> QED BY <1>2, <2>1, <4>1, StreamIs
      <3>11. Unharmed'
        BY <1>1, <1>2, <1>3, <2>1, <3>1, <3>9, <3>10 DEF Unharmed, Alive
      <3>12. app = "http" => HttpQuiet'
        BY <1>1, <2>1, <3>1, <3>7 DEF HttpQuiet
      <3>13. app = "echo" => EchoQuiet'
        <4>1. cli'.fin > cli'.sent \/ app # "echo"
          BY <1>2, <2>1, <3>8
        <4> QED BY <1>1, <1>2, <1>3, <2>1, <3>1, <4>1 DEF EchoQuiet
      <3> QED BY <3>11, <3>12, <3>13
    <2>3. cli'.end # "closed" /\ cli'.fin <= cli'.got + 1
      BY <1>2, <2>1
    <2> QED BY <1>1, <2>2, <2>3 DEF QuietInv
  <1>6. CASE ClientReceive
    <2>1. /\ cli' \in Peer /\ cli.end = "open" /\ cli'.end \in {"open", "fin"}
          /\ cli'.fin = cli.fin /\ cli'.sent = cli.sent /\ HasClosed' = HasClosed
          /\ cli'.got \in Nat /\ cli'.got > cli.got /\ cli'.got <= wire.upto - 1
      <3>1. PICK n \in cli.got + 1 .. wire.upto - 1 :
               cli' = [cli EXCEPT !.got = n,
                                  !.end = IF wire.fin /\ n = wire.upto - 1 THEN "fin" ELSE @]
        BY <1>6 DEF ClientReceive
      <3>2. cli.end = "open"
        BY <1>6 DEF ClientReceive
      <3>3. n \in Nat /\ n > cli.got /\ n <= wire.upto - 1
        BY <1>2
      <3> QED BY <1>2, <3>1, <3>2, <3>3 DEF Peer, HasClosed
    <2>2. ASSUME Quiet', Here', Active(pcb)'
          PROVE  Unharmed' /\ (app = "http" => HttpQuiet') /\ (app = "echo" => EchoQuiet')
      <3>1. Unharmed /\ (app = "http" => HttpQuiet) /\ (app = "echo" => EchoQuiet)
        BY <1>3, <2>2 DEF QuietInv
      <3>2. seg.ack \in Nat
        BY QuietFinds
      <3>3. Unharmed'
        BY <1>1, <1>2, <1>3, <2>1, <3>1, <3>2 DEF Unharmed, Alive
      <3>4. app = "http" => HttpQuiet'
        BY <1>1, <2>1, <3>1 DEF HttpQuiet
      <3>5. app = "echo" => EchoQuiet'
        BY <1>1, <1>3, <2>1, <3>1 DEF EchoQuiet
      <3> QED BY <3>3, <3>4, <3>5
    <2>3. cli'.end # "closed" /\ cli'.fin <= cli'.got + 1
      <3>1. cli.fin <= cli.got + 1
        BY DEF QuietInv
      <3> QED BY <1>2, <2>1, <3>1
    <2> QED BY <1>1, <2>2, <2>3 DEF QuietInv
  <1>7. CASE ClientGetsReset \/ ClientAborts
    <2>1. cli'.end = "rst" /\ cli'.fin = 0 /\ cli'.got = 0
      BY <1>7 DEF ClientGetsReset, ClientAborts, Gone
    <2>2. ~(Quiet' /\ Here' /\ Active(pcb)')
      <3>1. CASE ClientAborts
        BY <3>1, QuietIs DEF ClientAborts, Excuses
      <3>2. CASE ClientGetsReset
        <4>1. rst
          BY <3>2 DEF ClientGetsReset
        <4> QED BY <1>3, <4>1 DEF QuietInv, Unharmed
      <3> QED BY <1>7, <3>1, <3>2
    <2> QED BY <2>1, <2>2 DEF QuietInv
  <1> QED BY <1>4, <1>5, <1>6, <1>7

LEMMA ConnectQuiet ==
  ASSUME IInv, QuietInv, ClientConnect
  PROVE  QuietInv'
  <1>1. /\ seg = NoSeg /\ pc = "idle" /\ call = "none" /\ cli \in Peer /\ ~HasClosed /\ cli.sent = 0
        /\ ~rst /\ cli.got = 0 /\ page = 0 /\ wire \in [upto : Nat, fin : BOOLEAN]
    BY DEF IInv, TypeOK, StateInv, ControlInv, ClientConnect, QuietInv
  <1>2. /\ UNCHANGED <<app, pc, call, seg, rst, page, cause>> /\ pcb' = NewPcb
        /\ wire' = [wire EXCEPT !.upto = 1] /\ cli' = [cli EXCEPT !.end = "open"]
    BY DEF ClientConnect, history
  <1>3. /\ cli'.end = "open" /\ cli'.got = 0 /\ cli'.sent = 0 /\ cli'.fin = 0 /\ ~HasClosed'
        /\ wire'.upto = 1
    BY <1>1, <1>2 DEF Peer, HasClosed
  <1>4. /\ pcb'.state = "SYN_RCVD" /\ pcb'.rcvNxt = 1 /\ pcb'.lastack = 0 /\ pcb'.sndNxt = 1
        /\ pcb'.written = 0 /\ pcb'.fin = FALSE /\ pcb'.ooseq = {} /\ pcb'.rxclosed = FALSE
    BY <1>2 DEF NewPcb
  <1>5. SndEnd(pcb)' = 1
    BY <1>4 DEF SndEnd
  <1>6. seg'.ack = 0 /\ ~seg'.fin /\ pc' = "idle" /\ call' = "none" /\ ~rst' /\ page' = 0
    BY <1>1, <1>2 DEF NoSeg
  <1>7. Unharmed'
    BY <1>3, <1>4, <1>5, <1>6 DEF Unharmed, Alive, Open
  <1>8. HttpQuiet' /\ EchoQuiet'
    BY <1>3, <1>4, <1>6 DEF HttpQuiet, EchoQuiet
  <1> QED BY <1>3, <1>7, <1>8 DEF QuietInv

(* A segment of the client acknowledges no more than it has got, and its   *)
(* FIN no less than it had at its close.                                   *)
LEMMA StartQuiet ==
  ASSUME IInv, QuietInv, NEW s \in Segment, Start(s), Alive, ~s.fin,
         s.ack <= cli.got + 1, (\E x \in s.items : x.fin) => s.ack >= cli.fin
  PROVE  QuietInv'
  <1>1. /\ UNCHANGED <<app, pcb, hs, out, call, wire, rst, cli, page, cause>>
        /\ seg' = s /\ pc = "idle" /\ pc' \in {"refused", "process"} /\ call = "none"
    BY DEF Start, history, IInv, ControlInv
  <1>2. /\ Here' = Here /\ Active(pcb)' = Active(pcb) /\ HasClosed' = HasClosed
        /\ SndEnd(pcb)' = SndEnd(pcb) /\ AllSeen' = AllSeen /\ Quiet' = Quiet
    BY <1>1, QuietIs DEF Here, Active, HasClosed, SndEnd, AllSeen
  <1>3. ASSUME Quiet', Here', Active(pcb)'
        PROVE  Unharmed' /\ (app = "http" => HttpQuiet') /\ (app = "echo" => EchoQuiet')
    <2>1. Unharmed /\ (app = "http" => HttpQuiet) /\ (app = "echo" => EchoQuiet)
      BY <1>1, <1>2, <1>3 DEF QuietInv
    <2>2. Unharmed'
      BY <1>1, <1>2, <2>1 DEF Unharmed, Alive
    <2>3. app = "http" => HttpQuiet'
      BY <1>1, <1>2, <2>1 DEF HttpQuiet
    <2>4. app = "echo" => EchoQuiet'
      BY <1>1, <1>2, <2>1 DEF EchoQuiet
    <2> QED BY <2>2, <2>3, <2>4
  <1> QED BY <1>1, <1>3 DEF QuietInv

LEMMA SegmentQuiet ==
  ASSUME IInv, QuietInv, SegArrives \/ SynRepeated \/ FreshArrives
  PROVE  QuietInv'
  <1>1. cli \in Peer /\ cli.got \in Nat /\ cli.fin \in Nat /\ cli.fin <= cli.got + 1
    BY QuietFinds DEF QuietInv
  <1>2. Sendable \subseteq Stream
    BY DEF Sendable
  <1>3. \A ack \in Nat, I \in SUBSET Stream :
          LET s == [NoSeg EXCEPT !.items = I, !.ack = ack]
          IN  s \in Segment /\ s.items = I /\ s.ack = ack /\ ~s.fin /\ ~s.syn
    <2> TAKE ack \in Nat, I \in SUBSET Stream
    <2>1. I \in SUBSET Item
      BY <1>1, StreamIs
    <2> QED BY <2>1 DEF NoSeg, Segment
  <1>4. CASE SegArrives
    <2>1. PICK a \in 1 .. cli.sent + 2, b \in 0 .. cli.sent + 1, ack \in 1 .. cli.got + 1 :
            LET items == {x \in Sendable : a <= x.at /\ x.at <= b}
            IN  /\ (\E x \in items : x.fin) => ack >= cli.fin
                /\ Start([NoSeg EXCEPT !.items = items, !.ack = ack])
      BY <1>4 DEF SegArrives
    <2> DEFINE items == {x \in Sendable : a <= x.at /\ x.at <= b}
    <2>2. items \in SUBSET Stream
      BY <1>2
    <2>3. ack \in Nat /\ ack <= cli.got + 1
      BY <1>1
    <2>4. Alive
      BY <1>4 DEF SegArrives, Alive
    <2>5. ((\E x \in items : x.fin) => ack >= cli.fin)
          /\ Start([NoSeg EXCEPT !.items = items, !.ack = ack])
      BY <2>1
    <2> HIDE DEF items
    <2> QED BY <1>3, <2>2, <2>3, <2>4, <2>5, StartQuiet
  <1>5. CASE SynRepeated
    <2>1. Start([NoSeg EXCEPT !.syn = TRUE]) /\ Alive
      BY <1>5 DEF SynRepeated, Alive
    <2>2. LET s == [NoSeg EXCEPT !.syn = TRUE]
          IN  s \in Segment /\ s.items = {} /\ s.ack = 0 /\ ~s.fin
      BY DEF NoSeg, Segment
    <2>3. 0 <= cli.got + 1
      BY <1>1
    <2> QED BY <2>1, <2>2, <2>3, StartQuiet
  <1>6. CASE FreshArrives
    <2>1. Start([NoSeg EXCEPT !.items = Sendable, !.ack = cli.got + 1]) /\ Alive
      BY <1>6 DEF FreshArrives, Alive
    <2>2. cli.got + 1 \in Nat /\ cli.got + 1 <= cli.got + 1 /\ cli.got + 1 >= cli.fin
      BY <1>1
    <2> DEFINE s == [NoSeg EXCEPT !.items = Sendable, !.ack = cli.got + 1]
    <2> HIDE DEF Sendable
    <2>3. s \in Segment /\ s.ack = cli.got + 1 /\ ~s.fin
      BY <1>2, <1>3, <2>2
    <2>4. Start(s)
      BY <2>1
    <2> HIDE DEF s
    <2> QED BY <2>1, <2>2, <2>3, <2>4, StartQuiet
  <1> QED BY <1>4, <1>5, <1>6

(* No block is left, or the client stands still and the block is gone.     *)
LEMMA GoneQuiet ==
  ASSUME IInv, QuietInv, NobodyListens \/ (UNCHANGED cli /\ Here /\ pcb' = NoPcb)
  PROVE  QuietInv'
  <1>1. ~Here' /\ UNCHANGED cli /\ cli.end # "closed"
    <2>1. CASE NobodyListens
      BY <2>1 DEF NobodyListens, Here
    <2>2. CASE UNCHANGED cli /\ Here /\ pcb' = NoPcb
      BY <2>2 DEF IInv, StateInv, Here
    <2> QED BY <2>1, <2>2
  <1> QED BY <1>1 DEF QuietInv

LEMMA AbortedQuiet ==
  ASSUME IInv, QuietInv, AcceptFails \/ ResetArrives \/ Killed \/ RecvClosed
  PROVE  QuietInv'
  <1>1. Here
    <2>1. AcceptFails \/ RecvClosed => pc # "idle"
      BY DEF AcceptFails, RecvClosed
    <2>2. ResetArrives \/ Killed => Active(pcb) \/ pcb.state = "TIME_WAIT"
      BY DEF ResetArrives, Killed
    <2> QED BY <2>1, <2>2, HereIs DEF IInv, ControlInv, TypeOK, NoPcb, Here
  <1>2. UNCHANGED cli /\ pcb' = NoPcb
    BY DEF AcceptFails, ResetArrives, Killed, RecvClosed, Abort
  <1> QED BY <1>1, <1>2, GoneQuiet

(* A step of the handler that keeps the block, and what the connection is  *)
(* quiet for: the pointers of the send side, and the queue.                *)
LEMMA KeptQuiet ==
  ASSUME IInv, QuietInv, pc # "idle", UNCHANGED <<app, rst, cli>>, cause \subseteq cause',
         Active(pcb), UNCHANGED wire, seg' \in {seg, NoSeg},
         pc' \notin {"refused", "process"},
         Here', pcb'.written \in Nat, pcb'.written >= pcb.written,
         pcb'.lastack = pcb.lastack, pcb'.sndNxt = pcb.sndNxt, pcb'.ooseq = pcb.ooseq,
         pcb'.rcvNxt = pcb.rcvNxt, pcb'.fin = pcb.fin, pcb'.rxclosed = pcb.rxclosed,
         pcb'.state = pcb.state,
         Quiet' => page' = page \/ pcb.rcvNxt > 1,
         Quiet' /\ app = "echo"
            => (EchoQuiet => EchoQuiet')
  PROVE  QuietInv'
  <1>1. /\ Here /\ (Quiet' => Quiet) /\ HasClosed' = HasClosed
        /\ cli.end # "closed" /\ cli.got \in Nat
    BY QuietFinds, QuietIs DEF HasClosed, IInv, ControlInv, StateInv
  <1>2. ASSUME Quiet'
        PROVE  Unharmed' /\ (app = "http" => HttpQuiet') /\ (app = "echo" => EchoQuiet')
    <2>1. Unharmed /\ (app = "http" => HttpQuiet) /\ (app = "echo" => EchoQuiet)
      BY <1>1, <1>2 DEF QuietInv
    <2>2. seg'.ack <= cli.got + 1
      BY <1>1, <2>1 DEF Unharmed, NoSeg
    <2>3. pcb'.sndNxt <= SndEnd(pcb)'
      <3>1. pcb.written \in Nat /\ pcb.sndNxt \in Nat /\ pcb.sndNxt <= SndEnd(pcb)
        BY <1>1, <2>1, QuietFinds DEF Unharmed
      <3> QED BY <3>1 DEF SndEnd
    <2>4. Unharmed'
      BY <1>1, <2>1, <2>2, <2>3 DEF Unharmed, Alive
    <2>5. app = "http" => HttpQuiet'
      BY <1>1, <1>2, <2>1 DEF HttpQuiet
    <2> QED BY <1>2, <2>1, <2>4, <2>5
  <1> QED BY <1>1, <1>2 DEF QuietInv

LEMMA HandlerQuiet ==
  ASSUME IInv, QuietInv, ProcessSyn \/ HttpSent \/ RecvFin \/ HttpRecv \/ HttpSendData,
         Active(pcb)
  PROVE  QuietInv'
  <1>1. pc # "idle" => /\ pcb \in Pcb /\ Here /\ pcb.written \in Nat /\ seg \in Segment
                       /\ Cardinality(seg.items) \in Nat /\ cli.end # "closed"
    BY HandlerFinds
  <1>2. CASE ProcessSyn
    <2>1. /\ pc = "process" /\ seg.syn /\ seg' = NoSeg /\ call = "none"
          /\ UNCHANGED <<app, pcb, hs, call, wire, rst, cli, page, cause>>
          /\ pc' = AfterProcess(seg, pcb) /\ seg.items = {} /\ ~seg.fin
      BY <1>2 DEF ProcessSyn, history, IInv, ControlInv
    <2>2. pc' \in {"sent", "output"} /\ ~seg'.fin
      BY <2>1 DEF AfterProcess, AfterSent, AfterRecv, NoSeg
    <2>3. Here' /\ HasClosed' = HasClosed /\ AllSeen' = AllSeen /\ SndEnd(pcb)' = SndEnd(pcb)
      BY <1>1, <2>1 DEF Here, HasClosed, AllSeen, SndEnd
    <2>4. EchoQuiet => EchoQuiet'
      BY <2>1, <2>2, <2>3 DEF EchoQuiet
    <2> QED BY <1>1, <2>1, <2>2, <2>3, <2>4, KeptQuiet
  <1>3. CASE HttpSent
    <2>1. /\ pc = "sent" /\ seg' = seg /\ UNCHANGED <<app, pcb, hs, wire, rst, cli, page, cause>>
          /\ pc' = AfterSent(seg) /\ pcb.arg
      BY <1>3 DEF HttpSent, history, Goto, IInv, ControlInv
    <2>2. pc' \in {"recv", "fin", "output"}
      BY <2>1 DEF AfterSent, AfterRecv
    <2>3. app = "http" /\ Here'
      BY <1>1, <2>1 DEF IInv, StateInv, Here, Open
    <2> QED BY <1>1, <2>1, <2>2, <2>3, KeptQuiet
  <1>4. CASE RecvFin
    <2>1. /\ pc = "fin" /\ seg' = seg /\ UNCHANGED <<app, hs, wire, rst, cli, page, cause>>
          /\ pc' = "output" /\ pcb' = FinTaken(pcb) /\ call = "none" /\ seg.fin
          /\ call' = IF pcb.recv THEN "close" ELSE "none"
      BY <1>4 DEF RecvFin, history, Goto, IInv, ControlInv
    <2>2. /\ pcb' \in Pcb
          /\ pcb'.state = pcb.state /\ pcb'.rcvNxt = pcb.rcvNxt /\ pcb'.ooseq = pcb.ooseq
          /\ pcb'.lastack = pcb.lastack /\ pcb'.sndNxt = pcb.sndNxt
          /\ pcb'.written = pcb.written /\ pcb'.fin = pcb.fin /\ pcb'.rxclosed = pcb.rxclosed
      <3>1. pcb \in Pcb /\ 1 \in Nat /\ pcb' = Recved(pcb, 1)
        BY <1>1, <2>1 DEF FinTaken
      <3> QED BY <3>1, RecvedIs
    <2>3. Here' /\ HasClosed' = HasClosed /\ AllSeen' = AllSeen /\ SndEnd(pcb)' = SndEnd(pcb)
      BY <1>1, <2>1, <2>2, NoPcbIs DEF Here, HasClosed, AllSeen, SndEnd
    <2>4. pcb'.recv = pcb.recv
      BY <1>1, <2>1 DEF FinTaken, Recved, Pcb
    <2>5. pcb.state = "CLOSE_WAIT" /\ ~pcb.rxclosed => call' = "close"
      BY <1>1, <2>1 DEF IInv, StateInv, Open
    <2>6. EchoQuiet => EchoQuiet'
      <3>1. pcb.state # "SYN_RCVD"
        BY <2>1 DEF IInv, ControlInv
      <3> QED BY <2>1, <2>2, <2>3, <2>4, <2>5, <3>1 DEF EchoQuiet
    <2>7. pcb'.written >= pcb.written
      BY <1>1, <2>1, <2>2
    <2> QED BY <1>1, <2>1, <2>2, <2>3, <2>6, <2>7, KeptQuiet
  <1>5. CASE HttpRecv
    <2>1. /\ pc = "recv" /\ seg' = seg /\ UNCHANGED <<app, wire, rst, cli, cause>>
          /\ pc' = AfterRecv(seg) /\ pcb' = DataTaken /\ app = "http"
      BY <1>5 DEF HttpRecv, history, Goto
    <2>2. /\ pcb' \in Pcb
          /\ pcb'.state = pcb.state /\ pcb'.rcvNxt = pcb.rcvNxt /\ pcb'.ooseq = pcb.ooseq
          /\ pcb'.lastack = pcb.lastack /\ pcb'.sndNxt = pcb.sndNxt
          /\ pcb'.written = pcb.written /\ pcb'.fin = pcb.fin /\ pcb'.rxclosed = pcb.rxclosed
      BY <1>1, <2>1, RecvedIs DEF DataTaken, Data
    <2>3. Here' /\ pc' \in {"fin", "output"}
      BY <2>1, <2>2, NoPcbIs DEF Here, AfterRecv
    <2>4. pcb.rcvNxt > 1
      BY <2>1 DEF IInv, PageInv, ControlInv
    <2>5. pcb'.written >= pcb.written
      BY <1>1, <2>1, <2>2
    <2> QED BY <1>1, <2>1, <2>2, <2>3, <2>4, <2>5, KeptQuiet
  <1>6. CASE HttpSendData
    <2>1. PICK n \in 0 .. (IF SndRoom(pcb) < hs.left THEN SndRoom(pcb) ELSE hs.left) :
              pcb' = [pcb EXCEPT !.written = @ + n]
      BY <1>6 DEF HttpSendData
    <2>2. /\ pc # "idle" /\ seg' = seg /\ UNCHANGED <<app, pc, wire, rst, cli, page>>
          /\ cause \subseteq cause' /\ app = "http" /\ pc \notin {"refused", "process"}
      BY <1>6 DEF HttpSendData, IInv, ControlInv
    <2>3. n \in Nat
      <3>1. SndRoom(pcb) \in Int /\ hs.left \in Nat
        <4>1. pcb.written \in Nat /\ pcb.lastack \in Nat
          BY <1>1, <2>2 DEF Pcb
        <4>2. hs.left \in Nat
          BY DEF IInv, TypeOK
        <4> QED BY <4>1, <4>2, ConnAssumption DEF SndRoom
      <3> QED BY <3>1
    <2>4. pcb.written + n \in Nat /\ pcb.written + n >= pcb.written
      BY <1>1, <2>2, <2>3
    <2>5. /\ pcb' \in Pcb
          /\ pcb'.state = pcb.state /\ pcb'.rcvNxt = pcb.rcvNxt /\ pcb'.ooseq = pcb.ooseq
          /\ pcb'.lastack = pcb.lastack /\ pcb'.sndNxt = pcb.sndNxt
          /\ pcb'.written = pcb.written + n /\ pcb'.fin = pcb.fin
          /\ pcb'.rxclosed = pcb.rxclosed
      BY <1>1, <2>1, <2>2, <2>4 DEF Pcb
    <2>6. Here'
      BY <2>5, NoPcbIs DEF Here
    <2> QED BY <1>1, <2>2, <2>4, <2>5, <2>6, KeptQuiet
  <1> QED BY <1>2, <1>3, <1>4, <1>5, <1>6

(* Nothing is asked of a block that is out of service.                     *)
LEMMA InactiveQuiet ==
  ASSUME QuietInv, UNCHANGED cli, cli.end # "closed", ~Quiet' \/ ~Active(pcb')
  PROVE  QuietInv'
  BY DEF QuietInv

(* No callback closes a quiet connection with data left, or with a window  *)
(* it has not opened: tcp_close sends a FIN.                               *)
LEMMA QuietClose ==
  ASSUME IInv, QuietInv, Quiet, call = "close"
  PROVE  /\ ~ResetsOnClose(pcb) /\ Active(pcb)
         /\ app = "http" => pcb.state = "ESTABLISHED"
         /\ app = "echo" => pcb.state = "CLOSE_WAIT" /\ pc = "output" /\ AllSeen
  <1>1. /\ pc # "idle" /\ Here /\ pcb.state \in Open /\ pcb \in Pcb
        /\ pc \notin {"refused", "process", "sent"} /\ pc \in {"idle", "refused", "process", "sent", "recv", "fin", "output"}
    BY HereIs DEF IInv, TypeOK, ControlInv
  <1>2. Active(pcb)
    BY <1>1 DEF Active, Open
  <1>3. Unharmed /\ (app = "http" => HttpQuiet) /\ (app = "echo" => EchoQuiet)
    BY <1>1, <1>2 DEF QuietInv
  <1>4. pcb.refused = {}
    BY <1>1, QuietIs DEF IInv, WrittenInv
  <1>5. app = "http" => pcb.state = "ESTABLISHED"
    BY <1>1, <1>3 DEF HttpQuiet, Open
  <1>6. app = "echo" => pcb.state = "CLOSE_WAIT" /\ pc = "output" /\ AllSeen
    BY <1>1, <1>3 DEF EchoQuiet, Open
  <1>7. DataAhead = 0
    <2>1. CASE app = "echo"
      BY <1>6, <2>1 DEF DataAhead
    <2>2. CASE app = "http"
      <3>1. Plain
        BY <1>3, <2>2, QuietIs DEF Plain, Unharmed
      <3>2. hs.file /\ cli.sent <= 1
        BY <3>1 DEF IInv, PageInv
      <3>3. ASSUME pc = "recv" PROVE FALSE
        <4>1. PICK x \in seg.items : x.at > 1 /\ ~x.fin
          BY <3>2, <3>3 DEF IInv, PageInv, ControlInv
        <4>2. x \in Stream
          BY <1>3 DEF Unharmed, IInv, ItemInv
        <4>3. x.at <= cli.sent /\ x.at \in Nat /\ cli.sent \in Nat
          BY <4>1, <4>2, StreamIs, QuietFinds DEF Item
        <4> QED BY <3>2, <4>1, <4>3
      <3> QED BY <1>1, <3>3 DEF DataAhead
    <2> QED BY <2>1, <2>2, QuietFinds
  <1>8. FinAhead = 0
    <2>1. CASE app = "echo"
      BY <1>6, <2>1 DEF FinAhead
    <2>2. CASE app = "http"
      <3>1. ASSUME seg.fin PROVE FALSE
        <4>1. HasClosed /\ Alive
          BY <1>3, <3>1 DEF Unharmed, IInv, ItemInv
        <4> QED BY <1>1, <1>2, <2>2, <4>1, QuietHttpClose
      <3> QED BY <3>1 DEF FinAhead
    <2> QED BY <2>1, <2>2, QuietFinds
  <1>9. pcb.rcvWnd = Wnd
    BY <1>1, <1>7, <1>8, ConnAssumption DEF IInv, WindowInv
  <1> QED BY <1>2, <1>4, <1>5, <1>6, <1>9 DEF ResetsOnClose

LEMMA CloseQuiet ==
  ASSUME IInv, QuietInv, CloseReset \/ CloseFin \/ CloseFails
  PROVE  QuietInv'
  <1>1. /\ pc # "idle" /\ call = "close" /\ call' = "none" /\ UNCHANGED <<app, cli, pc, seg, wire>>
        /\ Here /\ cli.end # "closed" /\ pcb \in Pcb
    BY HereIs DEF CloseReset, CloseFin, CloseFails, IInv, TypeOK, ControlInv, StateInv, history
  <1>2. CASE ~Quiet'
    BY <1>1, <1>2, InactiveQuiet
  <1>3. CASE Quiet' /\ CloseReset
    BY <1>1, <1>3, QuietClose, QuietIs DEF CloseReset, history
  <1>4. CASE Quiet' /\ CloseFails
    <2>1. /\ UNCHANGED <<rst, page>> /\ cause \subseteq cause'
          /\ pcb' = [pcb EXCEPT !.rxclosed = TRUE, !.recv = (app = "http")]
      BY <1>4 DEF CloseFails
    <2>2. Quiet
      BY <1>4, <2>1, QuietIs
    <2>3. /\ Active(pcb) /\ (app = "http" => pcb.state = "ESTABLISHED")
          /\ app = "echo" => pcb.state = "CLOSE_WAIT" /\ pc = "output" /\ AllSeen
      BY <1>1, <2>2, QuietClose
    <2>4. Unharmed /\ (app = "http" => HttpQuiet) /\ (app = "echo" => EchoQuiet)
      BY <1>1, <2>2, <2>3 DEF QuietInv
    <2>5. /\ pcb'.state = pcb.state /\ pcb'.rcvNxt = pcb.rcvNxt /\ pcb'.ooseq = pcb.ooseq
          /\ pcb'.lastack = pcb.lastack /\ pcb'.sndNxt = pcb.sndNxt
          /\ pcb'.written = pcb.written /\ pcb'.fin = pcb.fin
          /\ pcb'.rxclosed = TRUE /\ pcb'.recv = (app = "http")
      BY <1>1, <2>1 DEF Pcb
    <2>6. /\ HasClosed' = HasClosed /\ AllSeen' = AllSeen /\ SndEnd(pcb)' = SndEnd(pcb)
      BY <1>1, <2>5 DEF HasClosed, AllSeen, SndEnd
    <2>7. Unharmed'
      BY <1>1, <2>1, <2>4, <2>5, <2>6 DEF Unharmed, Alive
    <2>8. app = "http" => HttpQuiet'
      BY <1>1, <2>1, <2>3, <2>4, <2>5, <2>6 DEF HttpQuiet
    <2>9. app = "echo" => EchoQuiet'
      BY <1>1, <2>3, <2>4, <2>5, <2>6 DEF EchoQuiet
    <2> QED BY <1>1, <2>7, <2>8, <2>9 DEF QuietInv
  <1>5. CASE Quiet' /\ CloseFin
    <2>1. /\ UNCHANGED <<rst, page, cause>> /\ Quiet /\ pcb' = Detached(Closing(pcb))
      BY <1>5, QuietIs DEF CloseFin, history
    <2>2. /\ Active(pcb) /\ (app = "http" => pcb.state = "ESTABLISHED")
          /\ app = "echo" => pcb.state = "CLOSE_WAIT" /\ pc = "output" /\ AllSeen
      BY <1>1, <2>1, QuietClose
    <2>3. Unharmed /\ (app = "http" => HttpQuiet) /\ (app = "echo" => EchoQuiet)
      BY <1>1, <2>1, <2>2 DEF QuietInv
    <2>4. /\ pcb'.state = IF pcb.state = "CLOSE_WAIT" THEN "LAST_ACK" ELSE "FIN_WAIT_1"
          /\ pcb'.rcvNxt = pcb.rcvNxt /\ pcb'.ooseq = pcb.ooseq
          /\ pcb'.lastack = pcb.lastack /\ pcb'.sndNxt = pcb.sndNxt
          /\ pcb'.written = pcb.written /\ pcb'.fin = TRUE
      BY <1>1, <2>1 DEF Detached, Closing, Pcb
    <2>5. HasClosed' = HasClosed /\ AllSeen' = AllSeen
      BY <1>1, <2>4 DEF HasClosed, AllSeen
    <2>6. pcb'.sndNxt <= SndEnd(pcb)'
      <3>1. pcb.written \in Nat /\ pcb.sndNxt \in Nat /\ pcb.sndNxt <= SndEnd(pcb)
        BY <1>1, <2>3, QuietFinds DEF Unharmed
      <3> QED BY <2>4, <3>1 DEF SndEnd
    <2>7. Unharmed'
      BY <1>1, <2>1, <2>3, <2>4, <2>5, <2>6 DEF Unharmed, Alive, Open
    <2>8. app = "http" => HttpQuiet'
      BY <1>1, <2>1, <2>2, <2>3, <2>4, <2>5 DEF HttpQuiet
    <2>9. app = "echo" => EchoQuiet'
      BY <1>1, <2>1, <2>2, <2>3, <2>4, <2>5 DEF EchoQuiet
    <2> QED BY <1>1, <2>7, <2>8, <2>9 DEF QuietInv
  <1> QED BY <1>2, <1>3, <1>4, <1>5

LEMMA EchoQuietStep ==
  ASSUME IInv, QuietInv, EchoRecv \/ RefusedAgain
  PROVE  QuietInv'
  <1>1. /\ pc # "idle" /\ UNCHANGED <<app, cli, wire, rst, page>> /\ cause \subseteq cause'
        /\ pcb \in Pcb /\ Here /\ cli.end # "closed" /\ pcb.written \in Nat
        /\ Cardinality(seg.items) \in Nat
    BY HandlerFinds DEF EchoRecv, RefusedAgain, history
  <1>2. CASE ~Quiet' \/ ~Active(pcb')
    BY <1>1, <1>2, InactiveQuiet
  <1>3. CASE RefusedAgain
    <2>1. pcb.refused # {} /\ UNCHANGED cause
      BY <1>3 DEF RefusedAgain, history, IInv, ControlInv
    <2> QED BY <1>1, <1>2, <2>1, QuietIs DEF IInv, WrittenInv
  <1>4. CASE EchoRecv /\ Quiet' /\ Active(pcb')
    <2> DEFINE n == Cardinality(seg.items)
    <2>1. /\ pcb' = Echoed(DataTaken, n) /\ Quiet /\ pc = "recv" /\ pc' = AfterRecv(seg)
          /\ UNCHANGED <<seg, call>> /\ app = "echo" /\ call = "none" /\ ~pcb.rxclosed
      BY <1>4, QuietIs DEF EchoRecv, Goto, Data, Excuses
    <2> DEFINE r == Recved(pcb, n)
    <2>2. /\ r \in Pcb /\ pcb' = [r EXCEPT !.written = @ + n]
          /\ r.state = pcb.state /\ r.rcvNxt = pcb.rcvNxt /\ r.ooseq = pcb.ooseq
          /\ r.lastack = pcb.lastack /\ r.sndNxt = pcb.sndNxt
          /\ r.written = pcb.written /\ r.fin = pcb.fin /\ r.rxclosed = pcb.rxclosed
      BY <1>1, <2>1, RecvedIs DEF Echoed, DataTaken, Data
    <2> HIDE DEF r
    <2>3. pcb.written + n \in Nat /\ pcb.written + n >= pcb.written
      BY <1>1
    <2>4. /\ pcb' \in Pcb
          /\ pcb'.state = pcb.state /\ pcb'.rcvNxt = pcb.rcvNxt /\ pcb'.ooseq = pcb.ooseq
          /\ pcb'.lastack = pcb.lastack /\ pcb'.sndNxt = pcb.sndNxt
          /\ pcb'.written = pcb.written + n /\ pcb'.fin = pcb.fin
          /\ pcb'.rxclosed = pcb.rxclosed
      BY <2>2, <2>3 DEF Pcb
    <2>5. Here' /\ Active(pcb) /\ HasClosed' = HasClosed
      BY <1>1, <1>4, <2>4, NoPcbIs DEF Here, Active, HasClosed
    <2>6. EchoQuiet
      BY <1>1, <2>1, <2>5 DEF QuietInv
    <2>7. pcb.state = "ESTABLISHED"
      <3>1. pcb.state \in {"SYN_RCVD"} \cup Open
        BY <1>1, <1>4, <2>1 DEF EchoRecv, IInv, StateInv
      <3> QED BY <2>1, <2>6, <3>1 DEF EchoQuiet, IInv, ControlInv, Open
    <2>8. EchoQuiet'
      BY <1>1, <2>1, <2>4, <2>5, <2>6, <2>7 DEF EchoQuiet
    <2>9. pc' \in {"fin", "output"}
      BY <2>1 DEF AfterRecv
    <2> QED BY <1>1, <2>1, <2>3, <2>4, <2>5, <2>8, <2>9, KeptQuiet
  <1> QED BY <1>2, <1>3, <1>4

LEMMA OutputQuiet ==
  ASSUME IInv, QuietInv, Output
  PROVE  QuietInv'
  <1>1. /\ pc = "output" /\ call = "none" /\ pc' = "idle" /\ seg' = NoSeg
        /\ UNCHANGED <<app, call, rst, cli, page, cause>>
    BY DEF Output, history
  <1>2. Here /\ pcb \in Pcb /\ cli.end # "closed"
    BY <1>1, HandlerFinds
  <1>3. CASE ~Quiet \/ ~Active(pcb)
    BY <1>1, <1>2, <1>3, InactiveQuiet, QuietIs DEF Output
  <1>4. CASE Quiet /\ Active(pcb)
    <2>1. PICK n \in OutputTo(pcb) :
             /\ pcb' = [pcb EXCEPT !.sndNxt = n]
             /\ wire' = [upto |-> n, fin |-> pcb.fin /\ n = SndEnd(pcb)]
      BY <1>4 DEF Output
    <2>2. Unharmed /\ (app = "http" => HttpQuiet) /\ (app = "echo" => EchoQuiet)
      BY <1>2, <1>4 DEF QuietInv
    <2>3. /\ pcb.lastack \in Nat /\ pcb.sndNxt \in Nat /\ pcb.written \in Nat
          /\ SndEnd(pcb) \in Nat /\ SndEnd(pcb) = pcb.written + (IF pcb.fin THEN 2 ELSE 1)
          /\ cli.got \in Nat /\ wire.upto \in Nat /\ wire.upto = pcb.sndNxt
      BY <1>2, <1>4, QuietFinds DEF IInv, PageInv
    <2>4. /\ n \in Nat /\ n >= pcb.sndNxt /\ n <= SndEnd(pcb)
          /\ pcb.sndNxt < SndEnd(pcb) /\ ~(pcb.lastack < pcb.sndNxt) => n > pcb.sndNxt
          /\ pcb.fin /\ n > pcb.sndNxt => n # pcb.written + 1
      BY <2>3 DEF OutputTo, Unsent, Unacked
    <2>5. /\ pcb'.state = pcb.state /\ pcb'.rcvNxt = pcb.rcvNxt /\ pcb'.ooseq = pcb.ooseq
          /\ pcb'.lastack = pcb.lastack /\ pcb'.sndNxt = n
          /\ pcb'.written = pcb.written /\ pcb'.fin = pcb.fin
          /\ pcb'.rxclosed = pcb.rxclosed /\ wire'.upto = n
      BY <1>2, <2>1, <2>4 DEF Pcb
    <2>6. HasClosed' = HasClosed /\ SndEnd(pcb)' = SndEnd(pcb)
      BY <1>1, <2>5 DEF HasClosed, SndEnd
    <2>7. seg'.ack = 0 /\ seg'.items = {} /\ ~seg'.fin
      BY <1>1 DEF NoSeg
    <2>8. Unharmed'
      <3>1. pcb'.lastack <= pcb'.sndNxt /\ pcb'.sndNxt <= SndEnd(pcb)'
        BY <2>2, <2>3, <2>4, <2>5, <2>6 DEF Unharmed
      <3>2. seg'.ack <= cli'.got + 1 /\ cli'.got + 1 <= wire'.upto
        BY <1>1, <2>2, <2>3, <2>4, <2>5, <2>7 DEF Unharmed
      <3> QED BY <1>1, <2>2, <2>5, <2>6, <3>1, <3>2 DEF Unharmed, Alive
    <2>9. app = "http" => HttpQuiet'
      <3>1. app = "http" /\ HasClosed => n = pcb.sndNxt
        <4>1. Alive
          BY <2>2 DEF Unharmed
        <4>2. app = "http" /\ HasClosed => pcb.sndNxt = SndEnd(pcb)
          BY <1>2, <1>4, <4>1, QuietHttpClose
        <4> QED BY <2>3, <2>4, <4>2
      <3> QED BY <1>1, <2>2, <2>3, <2>5, <2>6, <3>1 DEF HttpQuiet
    <2>10. app = "echo" => EchoQuiet'
      <3>1. app = "echo" /\ pcb.state = "LAST_ACK" => n = SndEnd(pcb)
        <4>1. CASE pcb.sndNxt = SndEnd(pcb)
          BY <2>3, <2>4, <4>1
        <4>2. CASE AllSeen
          BY <2>3, <2>4, <4>2 DEF AllSeen
        <4> QED BY <2>2, <4>1, <4>2 DEF EchoQuiet
      <3>2. app = "echo" /\ pcb.state = "CLOSE_WAIT" => AllSeen' /\ pcb'.recv = pcb.recv
        <4>1. pcb.state = "CLOSE_WAIT" => ~pcb.fin
          BY <1>2 DEF IInv, StateInv, Open
        <4>2. app = "echo" /\ pcb.state = "CLOSE_WAIT" => n = pcb.sndNxt
          BY <2>2, <2>3, <2>4, <4>1 DEF EchoQuiet, AllSeen
        <4>3. pcb'.recv = pcb.recv
          BY <1>2, <2>1 DEF Pcb
        <4> QED BY <2>2, <2>5, <4>2, <4>3 DEF EchoQuiet, AllSeen
      <3> QED BY <1>1, <2>2, <2>5, <2>6, <2>7, <3>1, <3>2 DEF EchoQuiet
    <2> QED BY <1>1, <1>2, <2>8, <2>9, <2>10 DEF QuietInv
  <1> QED BY <1>3, <1>4

(* What tcp_receive leaves to the state machine, q, in a quiet connection: *)
(* nothing is lost of it or added but by the segment.                      *)
LEMMA AdvancedIs ==
  ASSUME IInv, Process, pc = "process"
  PROVE  \E q \in Pcb, fin \in BOOLEAN :
            /\ pcb' = Advance(q, seg.ack, fin)
            /\ q.state = IF pcb.state = "SYN_RCVD" THEN "ESTABLISHED" ELSE pcb.state
            /\ q.sndNxt = pcb.sndNxt /\ q.written = pcb.written /\ q.fin = pcb.fin
            /\ q.lastack = IF seg.ack \in pcb.lastack + 1 .. pcb.sndNxt THEN seg.ack
                           ELSE pcb.lastack
            /\ \A x \in q.ooseq : x \in pcb.ooseq \/ (x \in seg.items /\ x.at > pcb.rcvNxt)
            /\ fin => \E x \in seg.items \cup pcb.ooseq : x.fin
            /\ pcb' # NoPcb => seg'.fin = fin /\ seg'.ack = 0
            /\ IsFiniteSet(q.ooseq) /\ IsFiniteSet(q.refused)
  <1> DEFINE p0 == FirstAccepted
             p1 == Acknowledge(p0, seg.ack)
             new == Taken(p1, seg.items)
             fin == \E x \in new : x.fin
             q == Reassemble(p1, seg.items)
             s == [NoSeg EXCEPT !.items = {x \in new : ~x.fin}, !.fin = fin]
  <1>1. /\ pcb' = Advance(q, seg.ack, fin) /\ (pcb' # NoPcb => seg' = s)
        /\ hs' = IF pcb.state = "SYN_RCVD" /\ app = "http" THEN [NoHs EXCEPT !.live = TRUE]
                 ELSE hs
        /\ ~seg.syn
    BY DEF Process, FirstAccepted
  <1>2. /\ pcb \in Pcb /\ Here /\ seg.ack \in Nat /\ seg.items \in SUBSET Item
        /\ IsFiniteSet(seg.items) /\ IsFiniteSet(pcb.ooseq) /\ IsFiniteSet(pcb.refused)
    BY HandlerFinds, QuietFinds DEF IInv, TypeOK, Queued
  <1>3. /\ p0 \in Pcb /\ (p0.acked > 0 => p0.written > 0) /\ p0.rcvNxt = pcb.rcvNxt
        /\ p0.ooseq = pcb.ooseq /\ p0.refused = pcb.refused /\ p0.sndNxt = pcb.sndNxt
        /\ p0.written = pcb.written /\ p0.fin = pcb.fin
    BY <1>1, AcceptedIs
  <1>4. /\ p0.state = IF pcb.state = "SYN_RCVD" THEN "ESTABLISHED" ELSE pcb.state
        /\ p0.lastack = pcb.lastack
    BY <1>2 DEF FirstAccepted, Accepted, Pcb
  <1> HIDE DEF p0
  <1>5. /\ p1 \in Pcb /\ p1.state = p0.state /\ p1.rcvNxt = p0.rcvNxt
        /\ p1.ooseq = p0.ooseq /\ p1.refused = p0.refused /\ p1.sndNxt = p0.sndNxt
        /\ p1.written = p0.written /\ p1.fin = p0.fin
    BY <1>2, <1>3, AcknowledgeIs
  <1>6. p1.lastack = IF seg.ack \in p0.lastack + 1 .. p0.sndNxt THEN seg.ack ELSE p0.lastack
    BY <1>2, <1>3 DEF Acknowledge, Pcb
  <1> HIDE DEF p1
  <1>7. /\ q \in Pcb /\ IsFiniteSet(q.ooseq) /\ q.state = p0.state /\ q.refused = p0.refused
        /\ q.sndNxt = p0.sndNxt
        /\ q.lastack = p1.lastack /\ q.written = p0.written /\ q.fin = p0.fin
    BY <1>2, <1>3, <1>5, ReassembleIs
  <1>8. \A x \in q.ooseq : x \in pcb.ooseq \/ (x \in seg.items /\ x.at > pcb.rcvNxt)
    <2> DEFINE n == Cardinality(new)
               O == IF new # {} THEN {x \in p1.ooseq : x.at >= p1.rcvNxt + n}
                    ELSE p1.ooseq \cup {x \in seg.items : \A y \in seg.items : y.at > p1.rcvNxt}
    <2>1. q = [p1 EXCEPT !.rcvNxt = @ + n, !.rcvWnd = @ - n, !.ooseq = O]
      BY DEF Reassemble
    <2> HIDE DEF O, n
    <2>2. q.ooseq = O
      BY <1>5, <2>1 DEF Pcb
    <2>3. \A x \in O : x \in p1.ooseq \/ (x \in seg.items /\ x.at > p1.rcvNxt)
      BY DEF O
    <2> QED BY <1>3, <1>5, <2>2, <2>3
  <1>9. new \subseteq seg.items \cup pcb.ooseq
    BY <1>2, <1>3, <1>5, TakenIs
  <1>10. fin \in BOOLEAN /\ (fin => \E x \in seg.items \cup pcb.ooseq : x.fin)
    <2>1. \A x \in new : x \in Item
      BY <1>2, <1>9 DEF Pcb
    <2> QED BY <1>9, <2>1
  <1>11. pcb' # NoPcb => seg'.fin = fin /\ seg'.ack = 0
    BY <1>1 DEF NoSeg
  <1> HIDE DEF q, fin
  <1> QED BY <1>1, <1>2, <1>3, <1>4, <1>6, <1>7, <1>8, <1>10, <1>11

(* As many segments as there are positions, at most.                       *)
LEMMA PartIsBounded ==
  ASSUME NEW S \in SUBSET Item, IsFiniteSet(S), Coherent(S), NEW a \in Nat, NEW b \in Nat,
         a <= b + 1, \A x \in S : a <= x.at /\ x.at <= b
  PROVE  a + Cardinality(S) <= b + 1
  <1> DEFINE f == [x \in S |-> x.at]
  <1>1. f \in [S -> a .. b]
    BY DEF Item
  <1>2. \A x, y \in S : f[x] = f[y] => x = y
    BY DEF Coherent
  <1>3. f \in Injection(S, a .. b)
    BY <1>1, <1>2 DEF Injection, IsInjective
  <1>4. IsFiniteSet(a .. b) /\ Cardinality(a .. b) = IF a > b THEN 0 ELSE b - a + 1
    BY FS_Interval
  <1>5. Cardinality(S) <= Cardinality(a .. b)
    BY <1>3, <1>4, FS_Injection
  <1>6. Cardinality(S) \in Nat
    BY FS_CardinalityType
  <1> QED BY <1>4, <1>5, <1>6

(* The FIN of a quiet client is in the segment, which acknowledges all the *)
(* server has sent.                                                        *)
LEMMA QuietFin ==
  ASSUME IInv, QuietInv, Here, Active(pcb), Quiet, pc = "process",
         \E x \in seg.items \cup pcb.ooseq : x.fin
  PROVE  /\ HasClosed /\ seg.ack >= cli.fin /\ seg.ack <= pcb.sndNxt /\ Alive
         /\ app = "http" => /\ seg.ack = pcb.sndNxt /\ pcb.sndNxt = SndEnd(pcb)
                            /\ pcb.state \notin {"SYN_RCVD"} \cup Open
  <1>1. Unharmed /\ (app = "http" => HttpQuiet)
    BY DEF QuietInv
  <1>2. \E x \in seg.items : x.fin
    BY <1>1 DEF Unharmed
  <1>3. seg.ack >= cli.fin /\ seg.ack <= cli.got + 1 /\ cli.got + 1 <= wire.upto /\ Alive
    BY <1>1, <1>2 DEF Unharmed
  <1>4. HasClosed
    BY <1>2, <1>3, StreamIs, QuietFinds DEF IInv, ItemInv
  <1>5. wire.upto = pcb.sndNxt
    BY DEF IInv, PageInv
  <1>6. cli.got \in Nat /\ cli.fin \in Nat /\ wire.upto \in Nat /\ seg.ack \in Nat
    BY QuietFinds
  <1>7. app = "http" => /\ cli.fin = wire.upto /\ pcb.sndNxt = SndEnd(pcb)
                        /\ pcb.state \notin {"SYN_RCVD"} \cup Open
    BY <1>1, <1>3, <1>4, QuietHttpClose DEF HttpQuiet
  <1> QED BY <1>3, <1>4, <1>5, <1>6, <1>7

(* The client of the echo server closes with all it sent answered: its FIN *)
(* comes alone, and acknowledges all the server has sent.                  *)
LEMMA QuietEchoFin ==
  ASSUME IInv, QuietInv, Here, Active(pcb), Quiet, pc = "process", app = "echo",
         pcb.state \in {"SYN_RCVD", "ESTABLISHED"},
         \E x \in seg.items \cup pcb.ooseq : x.fin
  PROVE  /\ pcb.rcvNxt = cli.sent + 1
         /\ seg.ack = pcb.sndNxt /\ pcb.sndNxt = pcb.written + 1
         /\ pcb.lastack <= pcb.sndNxt
  <1>1. Unharmed /\ EchoQuiet
    BY DEF QuietInv
  <1>2. HasClosed /\ seg.ack >= cli.fin /\ seg.ack <= pcb.sndNxt
    BY QuietFin
  <1>3. /\ cli.sent \in Nat /\ cli.fin \in Nat /\ seg.ack \in Nat
        /\ pcb.lastack \in Nat /\ pcb.sndNxt \in Nat /\ pcb.written \in Nat
        /\ pcb.rcvNxt \in Nat
        /\ SndEnd(pcb) = pcb.written + (IF pcb.fin THEN 2 ELSE 1)
    BY QuietFinds
  <1>4. pcb.rcvNxt = cli.sent + 1 /\ cli.fin > cli.sent
    BY <1>1, <1>2, <1>3 DEF Unharmed, EchoQuiet
  <1>5. pcb.written = pcb.rcvNxt - 1 /\ ~pcb.fin
    <2>1. CASE pcb.state = "SYN_RCVD"
      BY <2>1 DEF IInv, StateInv
    <2>2. CASE pcb.state = "ESTABLISHED"
      <3>1. Echoing /\ pcb.state \in Open
        BY <1>1, <2>2 DEF Echoing, EchoQuiet, Open
      <3>2. DataAhead = 0 /\ ~seg.fin
        BY DEF DataAhead, IInv, ControlInv
      <3>3. pcb.written + DataAhead + (IF seg.fin THEN 1 ELSE 0) = pcb.rcvNxt - 1
        BY <3>1, QuietIs DEF IInv, WrittenInv
      <3>4. ~pcb.fin
        BY <3>1 DEF IInv, StateInv
      <3> QED BY <1>3, <3>2, <3>3, <3>4
    <2> QED BY <2>1, <2>2
  <1>6. pcb.lastack <= pcb.sndNxt /\ pcb.sndNxt <= SndEnd(pcb)
    BY <1>1 DEF Unharmed
  <1> QED BY <1>2, <1>3, <1>4, <1>5, <1>6

(* What the state machine does to a quiet connection that stays in service.*)
LEMMA ProcessQuiet ==
  ASSUME IInv, QuietInv, Process, pc = "process"
  PROVE  QuietInv'
  <1>1. /\ pcb \in Pcb /\ Here /\ Active(pcb) /\ ~seg.syn /\ call = "none" /\ ~seg.fin
        /\ UNCHANGED <<app, call, wire, rst, cli, page, cause>> /\ cli.end # "closed"
        /\ cli \in Peer
    BY HandlerFinds DEF IInv, ControlInv, Process, history
  <1>2. CASE ~Quiet \/ ~Active(pcb')
    BY <1>1, <1>2, InactiveQuiet, QuietIs
  <1>3. CASE Quiet /\ Active(pcb')
    <2>1. pcb' # NoPcb
      BY <1>3, NoPcbIs
    <2>2. PICK q \in Pcb, fin \in BOOLEAN :
            /\ pcb' = Advance(q, seg.ack, fin)
            /\ q.state = IF pcb.state = "SYN_RCVD" THEN "ESTABLISHED" ELSE pcb.state
            /\ q.sndNxt = pcb.sndNxt /\ q.written = pcb.written /\ q.fin = pcb.fin
            /\ q.lastack = IF seg.ack \in pcb.lastack + 1 .. pcb.sndNxt THEN seg.ack
                           ELSE pcb.lastack
            /\ \A x \in q.ooseq : x \in pcb.ooseq \/ (x \in seg.items /\ x.at > pcb.rcvNxt)
            /\ fin => \E x \in seg.items \cup pcb.ooseq : x.fin
            /\ pcb' # NoPcb => seg'.fin = fin /\ seg'.ack = 0
            /\ IsFiniteSet(q.ooseq) /\ IsFiniteSet(q.refused)
      BY AdvancedIs
    <2>3. Kept(q, pcb')
      <3>1. seg.ack \in Nat
        BY QuietFinds
      <3> QED BY <2>1, <2>2, <3>1, AdvanceIs
    <2>4. /\ pcb'.lastack = q.lastack /\ pcb'.sndNxt = pcb.sndNxt /\ pcb'.written = pcb.written
          /\ pcb'.fin = pcb.fin /\ pcb'.ooseq \in {{}, q.ooseq} /\ pcb' \in Pcb
      BY <2>2, <2>3 DEF Kept
    <2>5. SndEnd(pcb)' = SndEnd(pcb) /\ HasClosed' = HasClosed
      BY <1>1, <2>4 DEF SndEnd, HasClosed
    <2>6. Unharmed /\ (app = "http" => HttpQuiet) /\ (app = "echo" => EchoQuiet)
      BY <1>1, <1>3 DEF QuietInv
    <2>7. /\ cli.sent \in Nat /\ cli.fin \in Nat /\ cli.got \in Nat /\ seg.ack \in Nat
          /\ pcb.lastack \in Nat /\ pcb.sndNxt \in Nat /\ pcb.written \in Nat
          /\ pcb.rcvNxt \in Nat
      BY <1>1, QuietFinds
    <2> DEFINE n == pcb'.rcvNxt - pcb.rcvNxt
    <2>8. FirstAccepted.rcvNxt = pcb.rcvNxt /\ FirstAccepted.rxclosed = pcb.rxclosed
          /\ (FirstAccepted.state \in Open => pcb.state \in {"SYN_RCVD"} \cup Open)
          /\ (FirstAccepted.state \in Open => (FirstAccepted.arg <=> app = "http"))
      BY <1>1, AcceptedIs DEF Process
    <2>9. /\ n \in Nat /\ n = Cardinality(seg'.items) + (IF seg'.fin THEN 1 ELSE 0)
          /\ \A x \in seg'.items : x.at >= pcb.rcvNxt /\ ~x.fin
          /\ seg'.items \subseteq pcb.ooseq \cup seg.items
          /\ pcb'.rxclosed = pcb.rxclosed
          /\ pcb'.state \in Open => pcb.state \in {"SYN_RCVD"} \cup Open
          /\ pcb'.state \in Open => (pcb'.arg <=> app = "http")
          /\ pc' = AfterProcess(seg', pcb')
          /\ IsFiniteSet(seg'.items) /\ seg'.items \in SUBSET Item
      BY <2>1, <2>8, ReceivedIs DEF Segment
    <2>10. pcb'.rcvNxt \in Nat /\ pcb'.rcvNxt >= pcb.rcvNxt /\ pcb'.rcvNxt = pcb.rcvNxt + n
      <3>1. pcb'.rcvNxt \in Nat
        BY <2>4 DEF Pcb
      <3> QED BY <2>7, <2>9, <3>1
    <2> HIDE DEF n
    <2>11. seg.items \cup pcb.ooseq \subseteq Stream
      BY <1>1, <2>6 DEF IInv, ItemInv, Queued, Unharmed
    <2>12. pc' \notin {"refused", "process"}
      BY <2>9 DEF AfterProcess, AfterSent, AfterRecv
    <2>13. Unharmed'
      <3>1. q.lastack <= pcb.sndNxt
        BY <2>2, <2>6, <2>7 DEF Unharmed
      <3>2. \A x \in pcb'.ooseq : ~x.fin
        <4>1. SUFFICES ASSUME NEW x \in q.ooseq, x.fin PROVE FALSE
          BY <2>4
        <4>2. x \notin pcb.ooseq
          BY <2>6, <4>1 DEF Unharmed
        <4>3. x \in seg.items /\ x.at > pcb.rcvNxt
          BY <2>2, <4>1, <4>2
        <4>4. HasClosed /\ x.at = cli.sent + 1
          BY <1>1, <2>11, <4>1, <4>3, StreamIs
        <4>5. pcb.rcvNxt > cli.sent
          BY <2>6, <4>4 DEF Unharmed
        <4> QED BY <2>7, <4>3, <4>4, <4>5
      <3>3. seg'.ack <= cli'.got + 1 /\ cli'.got + 1 <= wire'.upto
        BY <1>1, <2>1, <2>2, <2>6, <2>7 DEF Unharmed
      <3>4. HasClosed' => pcb'.rcvNxt > cli'.sent
        BY <1>1, <2>5, <2>6, <2>7, <2>10 DEF Unharmed
      <3>6. Alive' /\ ~rst'
        BY <1>1, <2>6 DEF Unharmed, Alive
      <3>7. pcb'.lastack <= pcb'.sndNxt /\ pcb'.sndNxt <= SndEnd(pcb)'
        BY <2>4, <2>5, <2>6, <3>1 DEF Unharmed
      <3> QED BY <2>12, <3>2, <3>3, <3>4, <3>6, <3>7 DEF Unharmed
    <2>14. app = "http" => HttpQuiet'
      <3>1. SUFFICES ASSUME app = "http" PROVE HttpQuiet'
        OBVIOUS
      <3>2. fin => seg.ack = q.sndNxt /\ q.state \notin {"SYN_RCVD"} \cup Open
        <4>1. fin => /\ seg.ack = pcb.sndNxt
                     /\ pcb.state \notin {"SYN_RCVD"} \cup Open
          BY <1>1, <1>3, <2>2, <3>1, QuietFin
        <4> QED BY <2>2, <4>1
      <3>3. q.state \in {"ESTABLISHED", "FIN_WAIT_1", "FIN_WAIT_2"}
        BY <2>2, <2>6, <3>1 DEF HttpQuiet
      <3>4. pcb'.state \in {"ESTABLISHED", "FIN_WAIT_1", "FIN_WAIT_2"}
        <4>1. CASE q.state = "ESTABLISHED"
          BY <2>2, <3>2, <4>1 DEF Advance, Open
        <4>2. CASE q.state = "FIN_WAIT_1"
          <5>1. fin => pcb' = ToTimeWait(q)
            BY <2>2, <3>2, <4>2 DEF Advance, AllAcked
          <5>2. ToTimeWait(q).state = "TIME_WAIT"
            BY DEF ToTimeWait, Purge, Pcb
          <5>3. ~fin
            BY <1>3, <5>1, <5>2 DEF Active
          <5>4. pcb' \in {q, [q EXCEPT !.state = "FIN_WAIT_2"]}
            BY <2>2, <4>2, <5>3 DEF Advance
          <5> QED BY <4>2, <5>4 DEF Pcb
        <4>3. CASE q.state = "FIN_WAIT_2"
          <5>1. pcb' \in {q, ToTimeWait(q)}
            BY <2>2, <4>3 DEF Advance
          <5>2. ToTimeWait(q).state = "TIME_WAIT"
            BY DEF ToTimeWait, Purge, Pcb
          <5> QED BY <1>3, <4>3, <5>1, <5>2 DEF Active
        <4> QED BY <3>3, <4>1, <4>2, <4>3
      <3> QED BY <1>1, <2>5, <2>6, <2>7, <2>10, <3>1, <3>4 DEF HttpQuiet
    <2>15. app = "echo" => EchoQuiet'
      <3>1. SUFFICES ASSUME app = "echo" PROVE EchoQuiet'
        OBVIOUS
      <3>2. /\ EchoQuiet
            /\ pcb.state \in {"SYN_RCVD", "ESTABLISHED", "CLOSE_WAIT", "LAST_ACK"}
        BY <2>6, <3>1 DEF EchoQuiet
      <3>3. CASE pcb.state = "LAST_ACK"
        <4>1. pcb' \in {q, NoPcb}
          BY <2>2, <3>3 DEF Advance
        <4>2. pcb'.state = "LAST_ACK" /\ pcb.sndNxt = SndEnd(pcb)
          BY <1>1, <2>1, <2>2, <3>2, <3>3, <4>1 DEF EchoQuiet
        <4> QED BY <1>1, <2>4, <2>5, <3>2, <3>3, <4>2 DEF EchoQuiet
      <3>4. CASE pcb.state \in {"SYN_RCVD", "ESTABLISHED"} /\ ~fin
        <4>1. q.state = "ESTABLISHED" /\ pcb' = q
          BY <2>2, <3>4 DEF Advance
        <4>2. ~seg'.fin /\ n = Cardinality(seg'.items)
          <5>1. Cardinality(seg'.items) \in Nat
            BY <2>9, FS_CardinalityType
          <5> QED BY <2>1, <2>2, <2>9, <3>4, <5>1
        <4>3. pcb.rcvNxt <= cli.sent + 1
          BY <3>2, <3>4 DEF EchoQuiet
        <4>4. \A x \in seg'.items : pcb.rcvNxt <= x.at /\ x.at <= cli.sent
          <5>1. \A x \in seg'.items : x \in Stream /\ x.at \in Nat
            BY <2>9, <2>11 DEF Item
          <5> QED BY <1>1, <2>7, <2>9, <5>1, StreamIs
        <4>5. Coherent(seg'.items)
          BY <1>1, <2>9, <2>11, StreamIs, CoherentPart
        <4>6. pcb'.rcvNxt <= cli.sent + 1
          BY <2>7, <2>9, <2>10, <4>2, <4>3, <4>4, <4>5, PartIsBounded
        <4>7. ~pcb'.rxclosed
          BY <2>9, <3>2, <3>4 DEF EchoQuiet
        <4> QED BY <1>1, <2>5, <3>2, <4>1, <4>2, <4>6, <4>7 DEF EchoQuiet
      <3>5. CASE pcb.state \in {"SYN_RCVD", "ESTABLISHED"} /\ fin
        <4>1. pcb' = [q EXCEPT !.state = "CLOSE_WAIT"]
          BY <2>2, <3>5 DEF Advance
        <4>2. pcb'.state = "CLOSE_WAIT"
          BY <4>1 DEF Pcb
        <4>3. /\ pcb.rcvNxt = cli.sent + 1 /\ HasClosed
              /\ seg.ack = pcb.sndNxt /\ pcb.sndNxt = pcb.written + 1
              /\ pcb.lastack <= pcb.sndNxt
          BY <1>1, <1>3, <2>2, <3>1, <3>5, QuietEchoFin, QuietFin
        <4>4. q.lastack = pcb.sndNxt
          BY <2>2, <2>7, <4>3
        <4>5. AllSeen'
          BY <2>4, <4>3, <4>4 DEF AllSeen
        <4>6. seg'.items = {}
          <5>1. SUFFICES ASSUME NEW x \in seg'.items PROVE FALSE
            OBVIOUS
          <5>2. x \in Stream /\ x.at >= pcb.rcvNxt /\ ~x.fin /\ x.at \in Nat
            BY <2>9, <2>11, <5>1 DEF Item
          <5>3. x.at <= cli.sent
            BY <1>1, <5>2, StreamIs
          <5> QED BY <2>7, <4>3, <5>2, <5>3
        <4>7. pc' = "fin" /\ call' = "none"
          <5>1. seg'.fin /\ ~pcb'.arg
            BY <2>1, <2>2, <2>9, <3>1, <3>5, <4>2 DEF Open
          <5> QED BY <1>1, <2>9, <4>6, <5>1 DEF AfterProcess, AfterSent, AfterRecv
        <4>8. cli.fin > cli.sent
          BY <3>2, <4>3 DEF EchoQuiet
        <4>9. ~pcb'.rxclosed
          BY <2>9, <3>2, <3>5 DEF EchoQuiet
        <4> QED BY <1>1, <2>5, <4>2, <4>3, <4>5, <4>7, <4>8, <4>9 DEF EchoQuiet
      <3>6. CASE pcb.state = "CLOSE_WAIT"
        <4>1. AllSeen /\ pcb.rxclosed /\ ~pcb.recv /\ HasClosed /\ cli.fin > cli.sent
          BY <1>1, <3>2, <3>6 DEF EchoQuiet
        <4>2. q.state = "CLOSE_WAIT" /\ pcb' \in {q, [q EXCEPT !.state = "CLOSE_WAIT"]}
          BY <2>2, <3>6 DEF Advance
        <4>3. pcb'.state = "CLOSE_WAIT" /\ pcb'.rxclosed /\ q.lastack = pcb.sndNxt
          BY <2>2, <2>7, <2>9, <4>1, <4>2 DEF AllSeen, Pcb
        <4>4. AllSeen'
          BY <2>4, <4>1, <4>3 DEF AllSeen
        <4>5. ~pcb'.recv
          <5>1. FirstAccepted = pcb
            BY <3>6 DEF FirstAccepted
          <5> QED BY <1>1, <2>1, <4>1, <5>1, ReceivedIs
        <4> QED BY <1>1, <2>5, <4>1, <4>3, <4>4, <4>5 DEF EchoQuiet
      <3> QED BY <3>2, <3>3, <3>4, <3>5, <3>6
    <2> QED BY <1>1, <2>13, <2>14, <2>15 DEF QuietInv
  <1> QED BY <1>2, <1>3

LEMMA NextQuiet == IInv /\ QuietInv /\ [Next]_vars => QuietInv'
  <1> SUFFICES ASSUME IInv, QuietInv, [Next]_vars PROVE QuietInv'
    OBVIOUS
  <1>1. CASE Client
    BY <1>1, ConnectQuiet, ClientQuiet DEF Client
  <1>2. CASE Segments
    BY <1>2, SegmentQuiet, GoneQuiet, AbortedQuiet DEF Segments
  <1>3. CASE Handler
    <2>1. CASE Process
      BY <2>1, ProcessQuiet DEF Process
    <2>2. CASE ProcessSyn \/ HttpSent \/ HttpRecv \/ RecvFin \/ HttpSendData
      <3>1. CASE Active(pcb)
        BY <2>2, <3>1, HandlerQuiet
      <3>2. CASE ~Active(pcb)
        <4>1. /\ UNCHANGED cli /\ pc # "idle"
          BY <2>2 DEF ProcessSyn, HttpSent, HttpRecv, RecvFin, HttpSendData, IInv, ControlInv,
             history
        <4>2. pcb \in Pcb /\ cli.end # "closed" /\ Cardinality(seg.items) \in Nat /\ 1 \in Nat
          BY <4>1, HandlerFinds
        <4>3. \A n : [pcb EXCEPT !.written = n].state = pcb.state
          BY <4>2 DEF Pcb
        <4>4. \A n \in Nat : Recved(pcb, n).state = pcb.state
          BY <4>2, RecvedIs
        <4>5. ~Active(pcb')
          BY <2>2, <3>2, <4>2, <4>3, <4>4 DEF ProcessSyn, HttpSent, HttpRecv, RecvFin,
             HttpSendData, DataTaken, FinTaken, Data, Active
        <4> QED BY <4>1, <4>2, <4>5, InactiveQuiet
      <3> QED BY <3>1, <3>2
    <2>3. CASE CloseReset \/ CloseFin \/ CloseFails \/ EchoRecv \/ RefusedAgain \/ Output
      BY <2>3, CloseQuiet, EchoQuietStep, OutputQuiet
    <2>4. CASE AcceptFails \/ RecvClosed
      BY <2>4, AbortedQuiet
    <2> QED BY <1>3, <2>1, <2>2, <2>3, <2>4 DEF Handler
  <1>4. CASE UNCHANGED vars
    <2>1. UNCHANGED <<app, pcb, hs, out, pc, call, seg, wire, rst, cli, freed, page, cause>>
      BY <1>4 DEF vars, history
    <2>2. UNCHANGED <<Here, Active(pcb), Alive, HasClosed, AllSeen, SndEnd(pcb), Quiet>>
      BY <2>1, QuietIs DEF Here, Active, Alive, HasClosed, AllSeen, SndEnd
    <2>3. UNCHANGED <<Unharmed, HttpQuiet, EchoQuiet>>
      BY <2>1, <2>2 DEF Unharmed, HttpQuiet, EchoQuiet
    <2> QED BY <2>1, <2>2, <2>3 DEF QuietInv
  <1> QED BY <1>1, <1>2, <1>3, <1>4 DEF Next

LEMMA QuietInvHolds == Spec => [](IInv /\ QuietInv)
  <1>1. Init => QuietInv
    <2> SUFFICES ASSUME Init PROVE QuietInv
      OBVIOUS
    <2>1. cli = [sent |-> 0, fin |-> 0, got |-> 0, end |-> "closed"] /\ ~rst /\ page = 0
          /\ ~Here
      BY DEF Init, Here
    <2> QED BY <2>1 DEF QuietInv
  <1>2. Init => IInv
    BY InitIInv
  <1>3. IInv /\ QuietInv /\ [Next]_vars => (IInv /\ QuietInv)'
    BY NextIInv, NextQuiet
  <1> QED BY <1>1, <1>2, <1>3, PTL DEF Spec

(* The state machine takes a quiet block out of service only when the      *)
(* segment acknowledges all there is to send.                              *)
LEMMA QuietDrop ==
  ASSUME IInv, QuietInv, Process, pc = "process", Active(pcb), ~Active(pcb'), Quiet
  PROVE  seg.ack = SndEnd(pcb)
  <1>1. pcb \in Pcb /\ Here
    BY HandlerFinds
  <1>2. PICK q \in Pcb, fin \in BOOLEAN :
            /\ pcb' = Advance(q, seg.ack, fin)
            /\ q.state = IF pcb.state = "SYN_RCVD" THEN "ESTABLISHED" ELSE pcb.state
            /\ q.sndNxt = pcb.sndNxt
            /\ fin => \E x \in seg.items \cup pcb.ooseq : x.fin
    BY AdvancedIs
  <1>3. Unharmed /\ (app = "http" => HttpQuiet) /\ (app = "echo" => EchoQuiet)
        /\ app \in {"http", "echo"}
    BY <1>1, QuietFinds DEF QuietInv
  <1>4. fin /\ app = "http" => seg.ack = pcb.sndNxt /\ pcb.sndNxt = SndEnd(pcb)
    BY <1>1, <1>2, QuietFin
  <1>5. CASE app = "http"
    <2>1. q.state \in {"ESTABLISHED", "FIN_WAIT_1", "FIN_WAIT_2"}
      BY <1>2, <1>3, <1>5 DEF HttpQuiet
    <2>2. fin
      <3>1. ~fin => pcb' \in {q, [q EXCEPT !.state = "FIN_WAIT_2"]}
        BY <1>2, <2>1 DEF Advance
      <3>2. Active(q) /\ Active([q EXCEPT !.state = "FIN_WAIT_2"])
        BY <2>1 DEF Active, Pcb
      <3> QED BY <3>1, <3>2
    <2> QED BY <1>4, <1>5, <2>2
  <1>6. CASE app = "echo"
    <2>1. pcb.state \in {"SYN_RCVD", "ESTABLISHED", "CLOSE_WAIT", "LAST_ACK"}
      BY <1>3, <1>6 DEF EchoQuiet
    <2>2. q.state = "LAST_ACK"
      <3>1. q.state \in Open => pcb' \in {q, [q EXCEPT !.state = "CLOSE_WAIT"]}
        BY <1>2 DEF Advance, Open
      <3>2. q.state \in Open => Active(q) /\ Active([q EXCEPT !.state = "CLOSE_WAIT"])
        BY DEF Active, Pcb, Open
      <3> QED BY <1>2, <2>1, <3>1, <3>2 DEF Open
    <2>3. seg.ack = pcb.sndNxt
      <3>1. seg.ack # q.sndNxt => pcb' = q
        BY <1>2, <2>2 DEF Advance, AllAcked
      <3> QED BY <1>2, <2>2, <3>1 DEF Active
    <2>4. pcb.state = "LAST_ACK" => pcb.sndNxt = SndEnd(pcb)
      BY <1>3, <1>6 DEF EchoQuiet
    <2> QED BY <1>2, <2>1, <2>2, <2>3, <2>4
  <1> QED BY <1>3, <1>5, <1>6

LEMMA DropStep ==
  ASSUME IInv, QuietInv, [Next]_vars, Active(pcb), ~Active(pcb'), seg.ack < SndEnd(pcb)
  PROVE  cause' \cap Excuses # {}
  <1> SUFFICES ASSUME Quiet' PROVE FALSE
    BY DEF Quiet
  <1>1. pcb \in Pcb /\ Here
    BY HereIs DEF IInv, TypeOK
  <1>2. pcb' # pcb
    BY DEF Active
  <1>3. AcceptFails \/ ResetArrives \/ Killed \/ RecvClosed \/ Process \/ CloseReset
        \/ CloseFin \/ CloseFails \/ ClientConnect
        \/ HttpRecv \/ RecvFin \/ HttpSendData \/ EchoRecv \/ RefusedAgain \/ Output
    BY <1>2 DEF Next, Client, Segments, Handler, vars, ClientWrite, ClientClose, ClientReceive,
       ClientGetsReset, ClientAborts, SegArrives, SynRepeated, FreshArrives, Start,
       NobodyListens, ProcessSyn, HttpSent
  <1>4. CASE AcceptFails \/ ResetArrives \/ Killed \/ RecvClosed
    <2>1. PICK why \in {"noaccept", "reset", "killed", "more"} : cause' = cause \cup {why}
      BY <1>4 DEF AcceptFails, ResetArrives, Killed, RecvClosed, Abort, Active
    <2> QED BY <2>1, QuietIs DEF Excuses
  <1>5. CASE Process
    <2>1. pc = "process" /\ Quiet
      BY <1>5, QuietIs DEF Process, history
    <2>2. seg.ack \in Nat /\ SndEnd(pcb) \in Nat
      BY <1>1, QuietFinds
    <2> QED BY <1>5, <2>1, <2>2, QuietDrop
  <1>6. CASE CloseReset
    BY <1>6, QuietClose, QuietIs DEF CloseReset, history
  <1>7. CASE CloseFin
    BY <1>1, <1>7 DEF CloseFin, Detached, Closing, Pcb, Active
  <1>8. CASE CloseFails
    BY <1>1, <1>8 DEF CloseFails, Pcb, Active
  <1>9. CASE ClientConnect
    BY <1>9 DEF ClientConnect, NewPcb, Active
  <1>10. CASE HttpRecv \/ RecvFin \/ HttpSendData \/ EchoRecv \/ RefusedAgain \/ Output
    <2>1. Cardinality(seg.items) \in Nat /\ 1 \in Nat /\ (pc # "idle" => Cardinality(pcb.refused) \in Nat)
      BY <1>1, FS_CardinalityType DEF IInv, TypeOK
    <2>2. pcb'.state = pcb.state
      <3>1. \A n \in Nat : Recved(pcb, n).state = pcb.state /\ Recved(pcb, n) \in Pcb
        BY <1>1, RecvedIs
      <3>2. \A p \in Pcb : \A n :
               /\ [p EXCEPT !.written = n].state = p.state
               /\ [p EXCEPT !.refused = n].state = p.state
               /\ [p EXCEPT !.sndNxt = n].state = p.state
        BY DEF Pcb
      <3>3. CASE HttpRecv \/ RecvFin
        <4>1. pcb' \in {Recved(pcb, Cardinality(seg.items)), Recved(pcb, 1)}
          BY <3>3 DEF HttpRecv, RecvFin, DataTaken, FinTaken, Data
        <4> QED BY <2>1, <3>1, <4>1
      <3>4. CASE HttpSendData
        BY <1>1, <3>2, <3>4 DEF HttpSendData
      <3>5. CASE Output
        <4>1. \E n : pcb' = [pcb EXCEPT !.sndNxt = n]
          BY <3>5 DEF Output
        <4> QED BY <1>1, <3>2, <4>1
      <3>6. CASE EchoRecv
        <4>1. /\ DataTaken = Recved(pcb, Cardinality(seg.items))
              /\ \/ \E n : pcb' = [DataTaken EXCEPT !.written = n]
                 \/ \E n : pcb' = [DataTaken EXCEPT !.refused = n]
          BY <3>6 DEF EchoRecv, DataTaken, Data, Echoed
        <4>2. DataTaken \in Pcb /\ DataTaken.state = pcb.state
          BY <2>1, <3>1, <4>1
        <4>3. \A n : /\ [DataTaken EXCEPT !.written = n].state = DataTaken.state
                     /\ [DataTaken EXCEPT !.refused = n].state = DataTaken.state
          BY <3>2, <4>2
        <4> HIDE DEF DataTaken
        <4> QED BY <4>1, <4>2, <4>3
      <3>7. CASE RefusedAgain
        <4>1. pcb.refused # {} /\ UNCHANGED cause
          BY <3>7 DEF RefusedAgain, history, IInv, ControlInv
        <4> QED BY <1>1, <4>1, QuietIs DEF IInv, WrittenInv
      <3> QED BY <1>10, <3>3, <3>4, <3>5, <3>6, <3>7
    <2> QED BY <2>2 DEF Active
  <1> QED BY <1>3, <1>4, <1>5, <1>6, <1>7, <1>8, <1>9, <1>10

(* A block is taken out of service with data unsent or unacknowledged only *)
(* after a reset, an abort, a second request or an early close of the      *)
(* client, or data refused: a tcp_write cut short and a failed tcp_close   *)
(* lose nothing (tcp_process, tcp_close).                                  *)
THEOREM DroppedForCause == Spec => DroppedHasCause
  <1> DEFINE A == Active(pcb) /\ ~Active(pcb') /\ seg.ack < SndEnd(pcb)
                  => cause' \cap Excuses # {}
  <1>1. IInv /\ QuietInv /\ [Next]_vars => A
    BY DropStep
  <1>2. IInv /\ QuietInv /\ [Next]_vars => [A]_vars
    BY <1>1
  <1>3. Spec => [][A]_vars
    BY <1>2, QuietInvHolds, PTL DEF Spec
  <1> QED BY <1>3 DEF DroppedHasCause
=============================================================================
