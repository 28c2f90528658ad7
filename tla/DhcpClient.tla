----------------------------- MODULE DhcpClient -----------------------------
(***************************************************************************)
(* How the board gets its address: lwIPInit of lwiplib.c, which main calls,*)
(* starts the DHCP client of lwIP up to Trials times and polls its state,  *)
(* while the receive interrupt runs the client's handlers.  Nothing masks  *)
(* the interrupt: it comes between any two steps of the main program.      *)
(*                                                                         *)
(* This program never calls a timer of lwIP: a request is not sent again   *)
(* but by the next trial, and the client never renews, rebinds or reboots. *)
(* It is built without the ARP check of an offered address.                *)
(*                                                                         *)
(* A server stands for itself and for the one address it has for the board.*)
(* Datagrams may be lost; those to one server, or from one, stay in order. *)
(***************************************************************************)
EXTENDS Naturals, FiniteSets

CONSTANTS Servers, None,
          Trials,       \* NUM_DHCP_TRIES
          MaxFault,     \* bound: datagrams lost, trials given up too early
                        \* and requests for which there is no memory, together
          MaxNak        \* bound: requests a server refuses for good measure

ASSUME ServerAssumption == None \notin Servers
ASSUME BoundAssumption == Trials \in Nat /\ MaxFault \in Nat /\ MaxNak \in Nat

VARIABLES
  pc, trial, ipAddr,          \* main; ipAddr: what lwIPInit returned
  dhcp,                       \* struct dhcp of the netif
  xid,                        \* the static counter of dhcp_create_msg
  addr,                       \* the address of the netif
  wire,                       \* datagrams on their way
  lease,                      \* what each server has in its books
  faults, naks

main   == <<pc, trial, ipAddr>>
client == <<dhcp, xid>>
budget == <<faults, naks>>
vars   == <<main, client, addr, wire, lease, budget>>

Zeroed == [state |-> "OFF", xid |-> 0, server |-> None, tries |-> 0,
           pcb |-> FALSE]

Init ==
  /\ pc = "add" /\ trial = 0 /\ ipAddr = None
  /\ dhcp = Zeroed /\ xid = 0
  /\ addr = None
  /\ wire = {} /\ lease = [s \in Servers |-> "free"]
  /\ faults = 0 /\ naks = 0

Fault == faults < MaxFault /\ faults' = faults + 1
-----------------------------------------------------------------------------
(* Operators of dhcp.c *)

SetState(d, s) ==
  IF d.state = s THEN d ELSE [d EXCEPT !.state = s, !.tries = 0]

(* The identifier is kept for a retransmission only. *)
NextXid(d) == IF d.tries = 0 THEN xid + 1 ELSE xid

Created(d) == [d EXCEPT !.xid = NextXid(d)]     \* dhcp_create_msg
Tried(d)   == [d EXCEPT !.tries = @ + 1]

(* A broadcast to all servers that names one of them, or none. *)
ToServers(type, x, s) ==
  [at : Servers, type : {type}, xid : {x}, server : {s}]
Requests == {m \in wire : m.type \in {"DISCOVER", "REQUEST"}}
Replies  == wire \ Requests

(* The oldest of those datagrams that its server sent or has yet to receive. *)
Oldest(m, ms) == \A n \in ms : n.at = m.at => m.xid <= n.xid

AnyXid(m) == dhcp.pcb                 \* mutant: every reply is taken for ours
IsOurs(m) == dhcp.pcb /\ m.xid = dhcp.xid

(* A message a handler sends, in which nothing intervenes; without memory  *)
(* for it the client only counts the try.                                  *)
SendFrom(d, type, s, rest) ==
  \/ /\ dhcp' = Tried(Created(d)) /\ xid' = NextXid(d)
     /\ wire' = rest \cup ToServers(type, NextXid(d), s)
     /\ UNCHANGED faults
  \/ /\ Fault
     /\ dhcp' = Tried(d)
     /\ wire' = rest
     /\ UNCHANGED xid
-----------------------------------------------------------------------------
(* The main program *)

(* netif_add: it fails when the port found no link. *)
NetifAdd ==
  /\ pc = "add"
  /\ pc' \in {"start", "failed"}
  /\ UNCHANGED <<trial, ipAddr, client, addr, wire, lease, budget>>

Restarted == [SetState(Zeroed, "SELECTING") EXCEPT !.pcb = TRUE]

(* dhcp_start clears the client, whatever became of it, binds a new pcb and *)
(* sends DISCOVER; without memory it stops the client: dhcp_stop.           *)
Start ==
  /\ pc = "start"
  /\ trial' = trial + 1
  /\ \/ /\ dhcp' = Created(Restarted) /\ xid' = NextXid(Restarted)
        /\ wire' = wire \cup ToServers("DISCOVER", NextXid(Restarted), None)
        /\ pc' = "sent"
        /\ UNCHANGED faults
     \/ /\ Fault
        /\ dhcp' = Zeroed
        /\ pc' = "poll"
        /\ UNCHANGED <<xid, wire>>
  /\ UNCHANGED <<ipAddr, addr, lease, naks>>

(* The end of dhcp_discover: an answer may have moved the client on. *)
Discovered ==
  /\ pc = "sent"
  /\ dhcp' = Tried(dhcp)
  /\ pc' = "poll"
  /\ UNCHANGED <<trial, ipAddr, xid, addr, wire, lease, budget>>

(* lwIPDHCPComplete polls the state; *)
PollBound ==
  /\ pc = "poll" /\ dhcp.state = "BOUND"
  /\ pc' = "result"
  /\ UNCHANGED <<trial, ipAddr, client, addr, wire, lease, budget>>

(* it gives the trial up five seconds later, when every answer has come or *)
(* is too late.                                                            *)
PollExpires ==
  /\ pc = "poll" /\ dhcp.state # "BOUND"
  /\ IF wire = {} THEN UNCHANGED faults ELSE Fault
  /\ pc' = IF trial = Trials THEN "result" ELSE "start"
  /\ UNCHANGED <<trial, ipAddr, client, addr, wire, lease, naks>>

(* lwIPInit reads the address of the netif, whatever the polls saw. *)
Result ==
  /\ pc = "result"
  /\ ipAddr' = addr
  /\ pc' = "running"
  /\ UNCHANGED <<trial, client, addr, wire, lease, budget>>
-----------------------------------------------------------------------------
(* The receive interrupt: dhcp_recv of a reply m *)

(* dhcp_handle_offer and dhcp_select. *)
RecvOffer(m) ==
  /\ m.type = "OFFER" /\ IsOurs(m) /\ dhcp.state = "SELECTING"
  /\ SendFrom([SetState(dhcp, "REQUESTING") EXCEPT !.server = m.at],
              "REQUEST", m.at, wire \ {m})
  /\ UNCHANGED <<main, addr, lease, naks>>

(* dhcp_handle_ack and dhcp_bind. *)
RecvAck(m) ==
  /\ m.type = "ACK" /\ IsOurs(m) /\ dhcp.state = "REQUESTING"
  /\ addr' = m.at
  /\ dhcp' = SetState(dhcp, "BOUND")
  /\ wire' = wire \ {m}
  /\ UNCHANGED <<main, xid, lease, budget>>

NotBackedOff(d) == Tried(d)                \* mutant: the state is left
BackedOff(d) == SetState(SetState(d, "BACKING_OFF"), "SELECTING")

(* dhcp_handle_nak, which discovers anew at once. *)
RecvNak(m) ==
  /\ m.type = "NAK" /\ IsOurs(m) /\ dhcp.state = "REQUESTING"
  /\ addr' = None
  /\ SendFrom(BackedOff(dhcp), "DISCOVER", None, wire \ {m})
  /\ UNCHANGED <<main, lease, naks>>

Expected(m) ==
  IsOurs(m) /\ dhcp.state = IF m.type = "OFFER" THEN "SELECTING" ELSE "REQUESTING"

RecvOther(m) ==
  /\ ~Expected(m)
  /\ wire' = wire \ {m}
  /\ UNCHANGED <<main, client, addr, lease, budget>>

Recv == \E m \in Replies :
          /\ Oldest(m, Replies)
          /\ RecvOffer(m) \/ RecvAck(m) \/ RecvNak(m) \/ RecvOther(m)
-----------------------------------------------------------------------------
(* The servers and the network *)

Answer(m, type) == wire' = (wire \ {m}) \cup {[m EXCEPT !.type = type]}

Offer(m) ==
  /\ m.type = "DISCOVER"
  /\ lease' = [lease EXCEPT ![m.at] = IF @ = "free" THEN "offered" ELSE @]
  /\ Answer(m, "OFFER")
  /\ UNCHANGED <<main, client, addr, budget>>

Grant(m) ==
  /\ m.type = "REQUEST" /\ m.server = m.at /\ lease[m.at] # "free"
  /\ lease' = [lease EXCEPT ![m.at] = "leased"]
  /\ Answer(m, "ACK")
  /\ UNCHANGED <<main, client, addr, budget>>

(* A server refuses what it no longer offers; what it offers, now and then. *)
Refuse(m) ==
  /\ m.type = "REQUEST" /\ m.server = m.at /\ lease[m.at] # "leased"
  /\ IF lease[m.at] = "free" THEN UNCHANGED naks
     ELSE naks < MaxNak /\ naks' = naks + 1
  /\ lease' = [lease EXCEPT ![m.at] = "free"]
  /\ Answer(m, "NAK")
  /\ UNCHANGED <<main, client, addr, faults>>

(* A request to another server declines the offer. *)
Declined(m) ==
  /\ m.type = "REQUEST" /\ m.server # m.at
  /\ lease' = [lease EXCEPT ![m.at] = IF @ = "offered" THEN "free" ELSE @]
  /\ wire' = wire \ {m}
  /\ UNCHANGED <<main, client, addr, budget>>

Serve == \E m \in Requests :
           /\ Oldest(m, Requests)
           /\ Offer(m) \/ Grant(m) \/ Refuse(m) \/ Declined(m)

Lose ==
  /\ Fault
  /\ \E m \in wire : wire' = wire \ {m}
  /\ UNCHANGED <<main, client, addr, lease, naks>>
-----------------------------------------------------------------------------
Main == NetifAdd \/ Start \/ Discovered \/ PollBound \/ PollExpires \/ Result

Next == Main \/ Recv \/ Serve \/ Lose

(* The main program runs, the interrupt is taken, servers answer what they *)
(* receive.                                                                *)
Spec == Init /\ [][Next]_vars /\ WF_vars(Main) /\ WF_vars(Recv) /\ WF_vars(Serve)
-----------------------------------------------------------------------------
(* Properties *)

(* A bound client has the address of the server it selected in this trial, *)
(* and that server has it in its books, although answers of earlier trials *)
(* and of other servers arrive late (dhcp.c, dhcp_recv).                   *)
BoundIsGranted ==
  dhcp.state = "BOUND" => addr = dhcp.server /\ lease[addr] = "leased"

(* With fewer faults than trials lwIPInit returns an address, however the  *)
(* interrupt cuts in and although servers refuse requests - if the port    *)
(* has a link at all (lwiplib.c, lwIPDHCPComplete).                        *)
GetsAddress == <>(pc = "failed" \/ (pc = "running" /\ ipAddr # None))
=============================================================================
