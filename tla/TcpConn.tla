------------------------------ MODULE TcpConn ------------------------------
(* What lwIP does to the control block of one connection (tcp.c, tcp_in.c,  *)
(* tcp_out.c), as operators on the block: acknowledgement and reassembly,   *)
(* the state machine, closing, the send queue.  No timer of lwIP runs in    *)
(* this build (NO_SYS_NO_TIMERS, and nobody calls tcp_tmr), so that nothing *)
(* here happens but in the course of an arriving segment.                   *)
(* A position is one segment of a stream, from 1; a FIN takes one too.  The *)
(* client's segments are sets of items [at, fin].  The server's SYN is      *)
(* position 0, its data 1..written, its FIN written + 1.                    *)
EXTENDS Integers, FiniteSets

CONSTANTS Wnd,      \* TCP_WND, in segments
          SndBuf    \* TCP_SND_BUF, in segments

ASSUME ConnAssumption == Wnd \in Nat \ {0} /\ SndBuf \in Nat \ {0}

NoPcb == [state |-> "CLOSED"]

\* A block as tcp_listen_input leaves it, the SYN|ACK sent.
NewPcb == [state |-> "SYN_RCVD", rcvNxt |-> 1, rcvWnd |-> Wnd, ooseq |-> {},
           refused |-> {}, lastack |-> 0, sndNxt |-> 1, written |-> 0,
           fin |-> FALSE, acked |-> 0, rxclosed |-> FALSE,
           recv |-> FALSE, arg |-> FALSE]

Active(p) == p.state \notin {"CLOSED", "TIME_WAIT"}

-----------------------------------------------------------------------------
\* The send side.

SndEnd(p) == p.written + (IF p.fin THEN 2 ELSE 1)
Unsent(p) == p.sndNxt < SndEnd(p)
Unacked(p) == p.lastack < p.sndNxt
SndRoom(p) == SndBuf - (p.written + 1 - p.lastack)

\* tcp_send_fin can put the FIN on the last unsent segment; else it needs a
\* segment of its own, and a byte of the send buffer.
FinFits(p) == Unsent(p) \/ SndRoom(p) > 0

\* How far tcp_output may get: congestion window, peer window and Nagle are
\* the choice, but the first segment goes out when none is in flight.  A FIN
\* that is queued goes with the last data.
OutputTo(p) ==
    {n \in p.sndNxt .. SndEnd(p) :
        /\ Unsent(p) /\ ~Unacked(p) => n > p.sndNxt
        /\ p.fin /\ n > p.sndNxt => n # p.written + 1}

-----------------------------------------------------------------------------
\* The receive side: tcp_receive.

\* What an acknowledgement does.  acked counts data, neither SYN nor FIN.
Acknowledge(p, ack) ==
    IF ack \in p.lastack + 1 .. p.sndNxt
    THEN [p EXCEPT !.lastack = ack,
                   !.acked = Cardinality({i \in 1 .. p.written : i >= p.lastack /\ i < ack})]
    ELSE [p EXCEPT !.acked = 0]

\* The items from nxt on that have no gap before them.
InSequence(items, nxt) ==
    {x \in items : x.at >= nxt /\ \A i \in nxt .. x.at : \E y \in items : y.at = i}

TakenUntrimmed(p, items) ==   \* mutant: the first edge is not trimmed
    IF \E x \in items : x.at = p.rcvNxt
    THEN items \cup InSequence(items \cup p.ooseq, p.rcvNxt) ELSE {}

\* The items a segment brings into sequence, those queued included.
Taken(p, items) ==
    IF \E x \in items : x.at = p.rcvNxt
    THEN InSequence(items \cup p.ooseq, p.rcvNxt) ELSE {}

Reassemble(p, items) ==
    LET new == Taken(p, items)
        n == Cardinality(new)
    IN  [p EXCEPT !.rcvNxt = @ + n, !.rcvWnd = @ - n,
                  !.ooseq = IF new # {}
                            THEN {x \in @ : x.at >= p.rcvNxt + n}
                            ELSE @ \cup {x \in items : \A y \in items : y.at > p.rcvNxt}]

\* tcp_recved, and the correction for the FIN, which no application takes.
Recved(p, n) == [p EXCEPT !.rcvWnd = IF @ + n > Wnd THEN Wnd ELSE @ + n]
FinTaken(p) == Recved(p, 1)

-----------------------------------------------------------------------------
\* Closing.

\* tcp_pcb_purge: what was queued in either direction is freed.
Purge(p) == [p EXCEPT !.refused = {}, !.ooseq = {}]
ToTimeWait(p) == [Purge(p) EXCEPT !.state = "TIME_WAIT"]

AnyAcked(p, ack) == ack >= p.lastack   \* mutant: any acknowledgement will do

\* The segment acknowledges all that was sent (which need not be all there
\* is to send).
AllAcked(p, ack) == ack = p.sndNxt

\* tcp_process after tcp_receive; fin says that the peer's FIN is in sequence.
Advance(p, ack, fin) ==
    CASE p.state \in {"ESTABLISHED", "CLOSE_WAIT"} ->
             IF fin THEN [p EXCEPT !.state = "CLOSE_WAIT"] ELSE p
      [] p.state = "FIN_WAIT_1" ->
             IF fin /\ AllAcked(p, ack) THEN ToTimeWait(p)
             ELSE IF fin THEN [p EXCEPT !.state = "CLOSING"]
             ELSE IF AllAcked(p, ack) THEN [p EXCEPT !.state = "FIN_WAIT_2"] ELSE p
      [] p.state = "FIN_WAIT_2" -> IF fin THEN ToTimeWait(p) ELSE p
      [] p.state = "CLOSING" -> IF AllAcked(p, ack) THEN ToTimeWait(p) ELSE p
      [] p.state = "LAST_ACK" -> IF AllAcked(p, ack) THEN NoPcb ELSE p
      [] OTHER -> p

\* tcp_close: a reset if data is left that the application did not take ...
ResetsOnClose(p) == p.refused # {} \/ p.rcvWnd # Wnd
\* ... else a FIN, if there is room for it.
Closing(p) == [p EXCEPT !.fin = TRUE, !.rxclosed = TRUE,
                        !.state = IF @ = "CLOSE_WAIT" THEN "LAST_ACK" ELSE "FIN_WAIT_1"]
=============================================================================
