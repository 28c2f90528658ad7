----------------------------- MODULE TcpServer -----------------------------
(* The HTTP server (httpd.c) and the echo server (echod.c), each as the     *)
(* callbacks of one connection, run by tcp_input in the receive interrupt.  *)
(* Segments of the client may be lost, repeated and overtake each other;    *)
(* what the server has sent stays on its way until the client takes it.     *)
(* One step per callback, and per stage of tcp_input between them.          *)
EXTENDS TcpConn, Sequences, FiniteSetsExt

CONSTANTS Apps,      \* the servers to consider: "http", "echo"
          Pages,     \* lengths of files, in segments
          MaxSent    \* how many segments the client has to send at most

ASSUME ServerAssumption ==
    /\ Apps \subseteq {"http", "echo"} /\ Pages \subseteq Nat \ {0} /\ MaxSent \in Nat

VARIABLES app,   \* the server the client has connected to
          pcb,   \* the control block of the connection
          hs,    \* struct http_state of the HTTP server
          out,   \* what was written to the connection: position of file or input
          pc,    \* the stage tcp_input is in, "idle" between segments
          call,  \* the function a callback has still to run
          seg,   \* the segment, and what tcp_process has made of it
          wire,  \* how far the server has sent, and whether it sent its FIN
          rst,   \* the server has sent a RST
          cli,   \* the client
          freed, \* the positions whose pbuf a callback has freed (history)
          page,  \* length of the file requested (history)
          cause  \* what has happened to the connection (history)

vars == <<app, pcb, hs, out, pc, call, seg, wire, rst, cli, freed, page, cause>>
history == <<freed, page, cause>>

NoHs == [live |-> FALSE, file |-> FALSE, left |-> 0]
NoSeg == [items |-> {}, ack |-> 0, syn |-> FALSE, fin |-> FALSE]

Init ==
    /\ app \in Apps
    /\ pcb = NoPcb /\ hs = NoHs /\ out = <<>>
    /\ pc = "idle" /\ call = "none" /\ seg = NoSeg
    /\ wire = [upto |-> 0, fin |-> FALSE] /\ rst = FALSE
    \* fin is the acknowledgement the client's FIN carries, 0 before
    /\ cli = [sent |-> 0, fin |-> 0, got |-> 0, end |-> "closed"]
    /\ freed = {} /\ page = 0 /\ cause = {}

-----------------------------------------------------------------------------
\* The client.

Stream == [at : 1 .. cli.sent, fin : {FALSE}]
              \cup (IF cli.fin > 0 THEN {[at |-> cli.sent + 1, fin |-> TRUE]} ELSE {})
RightEdge == IF Active(pcb) THEN pcb.rcvNxt + pcb.rcvWnd ELSE cli.sent + 2
Sendable == {x \in Stream : x.at < RightEdge}

ClientConnect == \* the SYN arrives: tcp_listen_input
    /\ cli.end = "closed"
    /\ cli' = [cli EXCEPT !.end = "open"]
    /\ pcb' = NewPcb
    /\ wire' = [wire EXCEPT !.upto = 1]
    /\ UNCHANGED <<app, hs, out, pc, call, seg, rst, history>>

ClientWrite ==
    /\ cli.end = "open" /\ cli.fin = 0 /\ cli.sent < MaxSent
    /\ cli' = [cli EXCEPT !.sent = @ + 1]
    /\ cause' = IF app = "http" /\ cli.sent > 0 THEN cause \cup {"more"} ELSE cause
    /\ UNCHANGED <<app, pcb, hs, out, pc, call, seg, wire, rst, freed, page>>

\* A client that closes before the answer is complete is a cause of its own.
ClientClose ==
    /\ cli.end \in {"open", "fin"} /\ cli.fin = 0
    /\ cli' = [cli EXCEPT !.fin = cli.got + 1]
    /\ cause' = IF cli.end = "open" /\ (app = "http" \/ cli.got < cli.sent)
                THEN cause \cup {"halfclose"} ELSE cause
    /\ UNCHANGED <<app, pcb, hs, out, pc, call, seg, wire, rst, freed, page>>

ClientReceive ==
    /\ cli.end = "open"
    /\ \E n \in cli.got + 1 .. wire.upto - 1 :
          cli' = [cli EXCEPT !.got = n,
                             !.end = IF wire.fin /\ n = wire.upto - 1 THEN "fin" ELSE @]
    /\ UNCHANGED <<app, pcb, hs, out, pc, call, seg, wire, rst, history>>

\* A client that has dropped the connection keeps nothing of it.
Gone == [sent |-> 0, fin |-> 0, got |-> 0, end |-> "rst"]

ClientGetsReset ==
    /\ cli.end = "open" /\ rst
    /\ cli' = Gone
    /\ UNCHANGED <<app, pcb, hs, out, pc, call, seg, wire, rst, history>>

ClientAborts ==
    /\ cli.end = "open"
    /\ cli' = Gone
    /\ cause' = cause \cup {"reset"}
    /\ UNCHANGED <<app, pcb, hs, out, pc, call, seg, wire, rst, freed, page>>

-----------------------------------------------------------------------------
\* tcp_input.

Start(s) ==
    /\ pc = "idle"
    /\ seg' = s
    /\ pc' = IF pcb.refused # {} THEN "refused" ELSE "process"
    /\ UNCHANGED <<app, pcb, hs, out, call, wire, rst, cli, history>>

\* Any part of what the client has to send, with any acknowledgement it has
\* sent; its FIN carries none older than the one at its close.
SegArrives ==
    /\ cli.end \in {"open", "fin"} /\ Active(pcb)
    /\ \E a \in 1 .. cli.sent + 2, b \in 0 .. cli.sent + 1, ack \in 1 .. cli.got + 1 :
          LET items == {x \in Sendable : a <= x.at /\ x.at <= b}
          IN  /\ ack >= pcb.lastack
              /\ (\E x \in items : x.fin) => ack >= cli.fin
              /\ Start([NoSeg EXCEPT !.items = items, !.ack = ack])

SynRepeated ==
    /\ cli.end \in {"open", "fin"} /\ Active(pcb)
    /\ Start([NoSeg EXCEPT !.syn = TRUE])

\* What the client sends as soon as it has something to send, and again.
FreshArrives ==
    /\ cli.end \in {"open", "fin"} /\ Active(pcb)
    /\ cli.got + 1 > pcb.lastack \/ \E x \in Sendable : x.at >= pcb.rcvNxt
    /\ Start([NoSeg EXCEPT !.items = Sendable, !.ack = cli.got + 1])

\* No block is left for the segment: the listening one answers it with a RST.
NobodyListens ==
    /\ cli.end \in {"open", "fin"} /\ pcb = NoPcb /\ ~rst
    /\ rst' = TRUE
    /\ UNCHANGED <<app, pcb, hs, out, pc, call, seg, wire, cli, history>>

HttpErrKeeps == hs' = hs   \* mutant: the state is not freed

\* http_err, called with the argument of a block that is gone.
HttpErr == hs' = IF pcb.arg THEN NoHs ELSE hs

Abort(why) == \* tcp_abort
    /\ pcb' = NoPcb /\ HttpErr
    /\ rst' = TRUE
    /\ cause' = cause \cup {why}
    /\ pc' = "idle" /\ seg' = NoSeg

ResetArrives ==
    /\ pc = "idle" /\ cli.end = "rst" /\ Active(pcb)
    /\ pcb' = NoPcb /\ HttpErr
    /\ cause' = cause \cup {"reset"}
    /\ UNCHANGED <<app, out, pc, call, seg, wire, rst, cli, freed, page>>

\* tcp_alloc for another connection: a block in TIME_WAIT goes first, then one
\* of low priority; echo_accept raises the priority of its own.
Killed ==
    /\ pc = "idle"
    /\ \/ /\ pcb.state = "TIME_WAIT"
          /\ pcb' = NoPcb
          /\ UNCHANGED <<hs, pc, seg, rst, cause>>
       \/ /\ Active(pcb) /\ (app = "http" \/ pcb.state = "SYN_RCVD")
          /\ Abort("killed")
    /\ UNCHANGED <<app, out, call, wire, cli, freed, page>>

AfterRecv(s) == IF s.fin THEN "fin" ELSE "output"
AfterSent(s) == IF s.items # {} THEN "recv" ELSE AfterRecv(s)
AfterProcessUnsent(s, p) == AfterSent(s)   \* mutant: no sent event
AfterProcess(s, p) == IF p.acked > 0 /\ p.arg THEN "sent" ELSE AfterSent(s)

\* http_accept and echo_accept; arg stands for the sent callback too.
Accepted(p) == [p EXCEPT !.state = "ESTABLISHED", !.recv = TRUE, !.arg = (app = "http")]

AcceptFails ==
    /\ pc = "process" /\ pcb.state = "SYN_RCVD" /\ ~seg.syn /\ app = "http"
    /\ Abort("noaccept")
    /\ UNCHANGED <<app, out, call, wire, cli, freed, page>>

Process ==
    /\ pc = "process" /\ ~seg.syn
    /\ LET p0 == IF pcb.state = "SYN_RCVD" THEN Accepted(pcb) ELSE pcb
           p1 == Acknowledge(p0, seg.ack)
           new == Taken(p1, seg.items)
           fin == \E x \in new : x.fin
           p == Advance(Reassemble(p1, seg.items), seg.ack, fin)
           s == [NoSeg EXCEPT !.items = {x \in new : ~x.fin}, !.fin = fin]
       IN  /\ pcb' = p
           /\ hs' = IF pcb.state = "SYN_RCVD" /\ app = "http" THEN [NoHs EXCEPT !.live = TRUE]
                    ELSE hs
           /\ IF p = NoPcb THEN pc' = "idle" /\ seg' = NoSeg
              ELSE pc' = AfterProcess(s, p) /\ seg' = s
    /\ UNCHANGED <<app, out, call, wire, rst, cli, history>>

\* A SYN on an existing connection is only acknowledged, but acked is still
\* what the segment before it has left there.
ProcessSyn ==
    /\ pc = "process" /\ seg.syn
    /\ pc' = AfterProcess(seg, pcb) /\ seg' = NoSeg
    /\ UNCHANGED <<app, pcb, hs, out, call, wire, rst, cli, history>>

\* tcp_output, called again when tcp_input has finished.
Output ==
    /\ pc = "output" /\ call = "none"
    /\ IF Active(pcb)
       THEN \E n \in OutputTo(pcb) :
               /\ pcb' = [pcb EXCEPT !.sndNxt = n]
               /\ wire' = [upto |-> n, fin |-> pcb.fin /\ n = SndEnd(pcb)]
       ELSE UNCHANGED <<pcb, wire>>
    /\ pc' = "idle" /\ seg' = NoSeg
    /\ UNCHANGED <<app, hs, out, call, rst, cli, history>>

-----------------------------------------------------------------------------
\* The callbacks of the HTTP server.

Goto(stage) == pc' = stage
Data == seg.items
DataKept == pcb   \* mutant: without tcp_recved
DataTaken == Recved(pcb, Cardinality(Data))

HttpSent ==
    /\ pc = "sent" /\ call = "none"
    /\ call' = IF hs.left > 0 THEN "send_data" ELSE "close"
    /\ Goto(AfterSent(seg))
    /\ UNCHANGED <<app, pcb, hs, out, seg, wire, rst, cli, history>>

\* Data for a block whose receive side tcp_close has shut.
RecvClosed ==
    /\ pc = "recv" /\ call = "none" /\ pcb.rxclosed
    /\ IF Active(pcb) THEN Abort("more")
       ELSE /\ pcb' = NoPcb /\ Goto("idle") /\ seg' = NoSeg
            /\ UNCHANGED <<hs, rst, cause>>
    /\ UNCHANGED <<app, out, call, wire, cli, freed, page>>

HttpRecv ==
    /\ pc = "recv" /\ call = "none" /\ ~pcb.rxclosed /\ app = "http"
    /\ pcb' = DataTaken
    /\ freed' = freed \cup Data
    /\ IF hs.file
       THEN /\ call' = "close"   \* "already sending data"
            /\ UNCHANGED <<hs, page>>
       ELSE \E len \in Pages :
               /\ hs' = [hs EXCEPT !.file = TRUE, !.left = len]
               /\ page' = len
               /\ call' = "send_data"
    /\ Goto(AfterRecv(seg))
    /\ UNCHANGED <<app, out, seg, wire, rst, cli, cause>>

\* The FIN of the client: recv with no pbuf, for either server.
RecvFin ==
    /\ pc = "fin" /\ call = "none"
    /\ pcb' = FinTaken(pcb)
    /\ call' = IF pcb.recv THEN "close" ELSE "none"
    /\ Goto("output")
    /\ UNCHANGED <<app, hs, out, seg, wire, rst, cli, history>>

FinishedAtOnce(n) == TRUE   \* mutant: closed after the first write
Finished(n) == hs.left = n

\* len is halved while tcp_write is out of memory, perhaps down to nothing.
HttpSendData ==
    /\ call = "send_data"
    /\ LET len == IF SndRoom(pcb) < hs.left THEN SndRoom(pcb) ELSE hs.left
       IN  \E n \in 0 .. len :
              /\ out' = out \o [i \in 1 .. n |-> page - hs.left + i]
              /\ pcb' = [pcb EXCEPT !.written = @ + n]
              /\ hs' = [hs EXCEPT !.left = @ - n]
              /\ call' = IF Finished(n) THEN "close" ELSE "none"
              /\ cause' = IF n < len THEN cause \cup {"nomem"} ELSE cause
    /\ UNCHANGED <<app, pc, seg, wire, rst, cli, freed, page>>

-----------------------------------------------------------------------------
\* Closing: http_close_conn and echo_close_conn.

\* The callbacks are gone, and the state of the HTTP server with them.
Detached(p) == [p EXCEPT !.recv = FALSE, !.arg = FALSE]

CloseReset ==
    /\ call = "close" /\ ResetsOnClose(pcb)
    /\ pcb' = Detached([ToTimeWait(pcb) EXCEPT !.rxclosed = TRUE])
    /\ hs' = NoHs /\ rst' = TRUE
    /\ call' = "none"
    /\ UNCHANGED <<app, out, pc, seg, wire, cli, history>>

CloseFin ==
    /\ call = "close" /\ ~ResetsOnClose(pcb) /\ FinFits(pcb)
    /\ pcb' = Detached(Closing(pcb))
    /\ hs' = NoHs
    /\ call' = "none"
    /\ UNCHANGED <<app, out, pc, seg, wire, rst, cli, history>>

\* No room for the FIN, or no memory for it: http_close_conn keeps its
\* callbacks, echo_close_conn does not look.
CloseFails ==
    /\ call = "close" /\ ~ResetsOnClose(pcb) /\ ~Unsent(pcb)
    /\ pcb' = [pcb EXCEPT !.rxclosed = TRUE, !.recv = (app = "http")]
    /\ call' = "none"
    /\ cause' = cause \cup {"notclosed"}
    /\ UNCHANGED <<app, hs, out, pc, seg, wire, rst, cli, freed, page>>

-----------------------------------------------------------------------------
\* The callback of the echo server.

FirstAt(items) == Min({x.at : x \in items})

Echoed(p, n) == [p EXCEPT !.written = @ + n]   \* tcp_write has taken the data

\* echo_recv frees the pbuf and then writes; an error of tcp_write, for want
\* of room or of memory, goes back to tcp_input, which keeps what it takes
\* for a pbuf that was refused.
EchoRecv ==
    /\ pc = "recv" /\ call = "none" /\ ~pcb.rxclosed /\ app = "echo"
    /\ LET n == Cardinality(Data)
       IN  \/ /\ n <= SndRoom(pcb)
              /\ out' = out \o [i \in 1 .. n |-> FirstAt(Data) + i - 1]
              /\ pcb' = Echoed(DataTaken, n)
              /\ UNCHANGED cause
           \/ /\ pcb' = [DataTaken EXCEPT !.refused = Data]
              /\ cause' = cause \cup {"refused"}
              /\ UNCHANGED out
    /\ freed' = freed \cup Data
    /\ Goto(AfterRecv(seg))
    /\ UNCHANGED <<app, hs, call, seg, wire, rst, cli, page>>

\* The freed pbuf is handed to echo_recv once more, as it was or with other
\* bytes (0), which it frees again; a segment that takes a position, with
\* data, FIN or SYN, is dropped if the write fails again.
RefusedAgain ==
    /\ pc = "refused"
    /\ LET n == Cardinality(pcb.refused)
       IN  \/ /\ n <= SndRoom(pcb)
              /\ \E was \in BOOLEAN :
                    out' = out \o [i \in 1 .. n |->
                                      IF was THEN FirstAt(pcb.refused) + i - 1 ELSE 0]
              /\ pcb' = Echoed([Recved(pcb, n) EXCEPT !.refused = {}], n)
              /\ Goto("process") /\ UNCHANGED seg
           \/ /\ pcb' = Recved(pcb, n)
              /\ UNCHANGED out
              /\ IF seg.items # {} \/ seg.syn THEN Goto("idle") /\ seg' = NoSeg
                 ELSE Goto("process") /\ UNCHANGED seg
    /\ UNCHANGED <<app, hs, call, wire, rst, cli, history>>

-----------------------------------------------------------------------------
Client == ClientConnect \/ ClientWrite \/ ClientClose \/ ClientReceive
          \/ ClientGetsReset \/ ClientAborts
Segments == SegArrives \/ SynRepeated \/ FreshArrives \/ NobodyListens
            \/ ResetArrives \/ Killed
Handler == AcceptFails \/ Process \/ ProcessSyn \/ HttpSent \/ RecvClosed \/ HttpRecv
           \/ RecvFin \/ HttpSendData \/ CloseReset \/ CloseFin \/ CloseFails
           \/ EchoRecv \/ RefusedAgain \/ Output

Next == Client \/ Segments \/ Handler

\* The handler runs to its end; the client repeats what is not acknowledged
\* and takes what reaches it, and nothing of the server is lost for good.
Spec == Init /\ [][Next]_vars
        /\ WF_vars(Handler) /\ SF_vars(FreshArrives)
        /\ WF_vars(ClientReceive) /\ WF_vars(ClientGetsReset) /\ WF_vars(NobodyListens)

-----------------------------------------------------------------------------
\* What is written to a connection is the file, or the input of the client,
\* in order and once, whatever is lost, repeated or overtaken on the way -
\* unless the echo server has had to refuse data (tcp_receive, tcp_write).
StreamIntact == "refused" \in cause \/ \A i \in 1 .. Len(out) : out[i] = i

\* A client of the HTTP server that sees the end of the stream has the whole
\* page, unless it has sent more than one segment or closed early itself
\* (http_send_data, http_close_conn, tcp_send_fin).
EndMeansWholePage ==
    app = "http" /\ cli.end = "fin" /\ cause \cap {"more", "halfclose"} = {}
    => page > 0 /\ cli.got = page + 1

\* The state of the HTTP server is there exactly while its block refers to
\* it: no callback finds it freed, and none is left behind (http_accept,
\* http_close_conn, http_err).
StateWhileReferred == hs.live <=> pcb # NoPcb /\ pcb.arg

\* Between segments the whole window is open again as long as the server has
\* not closed: all data was taken and the FIN allowed for, which tcp_close
\* needs to send a FIN and no RST (tcp_recved, tcp_input).
WindowWhole ==
    pc = "idle" /\ pcb.state \in {"ESTABLISHED", "CLOSE_WAIT"} => pcb.rcvWnd = Wnd

\* A block is taken out of service with data unsent or unacknowledged only
\* after a reset of the client, an abort in favour of another connection or
\* of http_accept, a further segment for the HTTP server, an early close of
\* the client, or data refused by echo_recv.  A tcp_write cut short for want
\* of memory and a tcp_close that has failed never lead to it (tcp_process,
\* tcp_close, http_send_data, echo_close_conn).
Excuses == {"reset", "killed", "noaccept", "more", "halfclose", "refused"}
DroppedHasCause ==
    [][Active(pcb) /\ ~Active(pcb') /\ seg.ack < SndEnd(pcb)
          => cause' \cap Excuses # {}]_vars

\* A page that was asked for comes to its end, and an echo client that closes
\* gets the close of the server, as long as nothing has happened to the
\* connection: no memory shortage, failed close, reset, further segment or
\* early close.
Asked == IF app = "http" THEN cli.end = "open" /\ cli.sent > 0 ELSE cli.end = "open" /\ cli.fin > 0
Answered == Asked ~> (cli.end # "open" \/ cause # {})

\* What lwIP keeps as refused has not been freed by the callback that refused
\* it (echo_recv, tcp_input; src/lwip/doc/rawapi.txt).
RefusedIsAlive == pcb # NoPcb => pcb.refused \cap freed = {}
=============================================================================
