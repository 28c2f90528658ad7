-------------------------- MODULE DhcpClientProofs --------------------------
(***************************************************************************)
(* Proofs about the DHCP client, for any servers, any number of trials and *)
(* any bound on the faults.                                                *)
(*                                                                         *)
(* An acknowledgement that is late or comes from another server can do     *)
(* harm only if the client takes it for the answer to its request.  IInv   *)
(* says why it cannot: an identifier belongs to one DISCOVER or to one     *)
(* REQUEST, never to both (XidInv), and what bears the identifier of the   *)
(* request under way is about the server that was selected, which has the  *)
(* lease in its books before its acknowledgement is on its way (GrantInv). *)
(***************************************************************************)
EXTENDS DhcpClient, TLAPS

State    == {"OFF", "SELECTING", "REQUESTING", "BACKING_OFF", "BOUND"}
Asking   == {"REQUEST", "ACK", "NAK"}
Type     == {"DISCOVER", "OFFER"} \cup Asking
Book     == {"free", "offered", "leased"}
Datagram == [at : Servers, type : Type, xid : Nat, server : Servers \cup {None}]
Client   == [state : State, xid : Nat, server : Servers \cup {None}, tries : Nat,
             pcb : BOOLEAN]

TypeOK ==
  /\ dhcp \in Client /\ xid \in Nat
  /\ wire \subseteq Datagram /\ lease \in [Servers -> Book]

(* No datagram has an identifier yet to be given out, and those with the   *)
(* same one belong to the same exchange.                                   *)
XidInv ==
  /\ dhcp.xid <= xid
  /\ \A m \in wire : m.xid <= xid
  /\ \A m, n \in wire : m.xid = n.xid => (m.type \in Asking <=> n.type \in Asking)

(* A server answers the requests that name it, and remembers what it has   *)
(* granted; the client asks the server it has selected.                    *)
GrantInv ==
  /\ \A m \in wire : m.type = "ACK" => m.server = m.at /\ lease[m.at] = "leased"
  /\ dhcp.state \in {"REQUESTING", "BOUND"} =>
       \A m \in wire : m.xid = dhcp.xid /\ m.type \in Asking => m.server = dhcp.server
  /\ dhcp.state = "BOUND" => addr \in Servers
  /\ BoundIsGranted

IInv == TypeOK /\ XidInv /\ GrantInv
-----------------------------------------------------------------------------
(* The operators of dhcp.c *)

LEMMA SetStateIs ==
  ASSUME NEW d \in Client, NEW s \in State
  PROVE  /\ SetState(d, s) \in Client
         /\ SetState(d, s).state = s
         /\ SetState(d, s).xid = d.xid
         /\ SetState(d, s).server = d.server
         /\ d.state # s => SetState(d, s).tries = 0
  BY DEF SetState, Client

LEMMA TriedIs ==
  ASSUME NEW d \in Client
  PROVE  /\ Tried(d) \in Client
         /\ Tried(d).state = d.state /\ Tried(d).xid = d.xid /\ Tried(d).server = d.server
  BY DEF Tried, Client

(* A message that is no retransmission gets an identifier of its own. *)
LEMMA CreatedIs ==
  ASSUME NEW d \in Client, d.tries = 0, xid \in Nat
  PROVE  /\ NextXid(d) = xid + 1 /\ Created(d) \in Client
         /\ Created(d).state = d.state /\ Created(d).xid = xid + 1
         /\ Created(d).server = d.server
  BY DEF Created, NextXid, Client

LEMMA ZeroedIs ==
  /\ Zeroed \in Client /\ Restarted \in Client
  /\ Zeroed.state = "OFF" /\ Zeroed.xid = 0
  /\ Restarted.state = "SELECTING" /\ Restarted.tries = 0
  <1>1. Zeroed \in Client /\ Zeroed.state = "OFF" /\ Zeroed.xid = 0
    BY DEF Zeroed, Client, State
  <1>2. /\ SetState(Zeroed, "SELECTING") \in Client
        /\ SetState(Zeroed, "SELECTING").state = "SELECTING"
        /\ SetState(Zeroed, "SELECTING").tries = 0
    BY <1>1, SetStateIs DEF State
  <1> QED BY <1>1, <1>2 DEF Restarted, Client

LEMMA BackedOffIs ==
  ASSUME NEW d \in Client, d.state = "REQUESTING"
  PROVE  /\ BackedOff(d) \in Client /\ BackedOff(d).state = "SELECTING"
         /\ BackedOff(d).tries = 0 /\ BackedOff(d).xid = d.xid
  <1> DEFINE e == SetState(d, "BACKING_OFF")
  <1>1. e \in Client /\ e.state = "BACKING_OFF" /\ e.xid = d.xid
    BY SetStateIs DEF State
  <1> HIDE DEF e
  <1>2. /\ SetState(e, "SELECTING") \in Client
        /\ SetState(e, "SELECTING").state = "SELECTING"
        /\ SetState(e, "SELECTING").tries = 0
        /\ SetState(e, "SELECTING").xid = e.xid
    BY <1>1, SetStateIs DEF State
  <1> QED BY <1>1, <1>2 DEF BackedOff, e

(* A broadcast with a new identifier keeps the identifiers apart. *)
LEMMA FreshXid ==
  ASSUME TypeOK, XidInv, NEW type \in {"DISCOVER", "REQUEST"},
         NEW s \in Servers \cup {None}, NEW rest, rest \subseteq wire,
         xid' = xid + 1, dhcp'.xid = xid + 1,
         wire' = rest \cup ToServers(type, xid + 1, s)
  PROVE  wire' \subseteq Datagram /\ XidInv'
  <1>1. \A m \in ToServers(type, xid + 1, s) :
          m \in Datagram /\ m.type = type /\ m.xid = xid + 1
    BY DEF ToServers, Datagram, Type, Asking, TypeOK
  <1>2. \A m \in rest : m \in Datagram /\ m.xid \in Nat /\ m.xid <= xid
    BY DEF TypeOK, XidInv, Datagram
  <1>3. \A m \in rest : m.xid # xid + 1
    BY <1>2 DEF TypeOK
  <1>4. \A m \in wire' : m.xid <= xid'
    BY <1>1, <1>2 DEF TypeOK
  <1>5. ASSUME NEW m \in wire', NEW n \in wire', m.xid = n.xid
        PROVE  m.type \in Asking <=> n.type \in Asking
    <2>1. CASE m.xid = xid + 1
      <3>1. m.type = type /\ n.type = type
        BY <1>1, <1>3, <1>5, <2>1
      <3> QED BY <3>1
    <2>2. CASE m.xid # xid + 1
      <3>1. m \in rest /\ n \in rest
        BY <1>1, <1>5, <2>2
      <3> QED BY <1>5, <3>1 DEF XidInv
    <2> QED BY <2>1, <2>2
  <1>6. dhcp'.xid <= xid'
    BY DEF TypeOK
  <1> QED BY <1>1, <1>2, <1>4, <1>5, <1>6 DEF XidInv

(* What a handler sends, or fails to send for want of memory. *)
LEMMA SendCases ==
  ASSUME TypeOK, XidInv, NEW d \in Client, d.tries = 0, d.xid = dhcp.xid,
         NEW type \in {"DISCOVER", "REQUEST"}, NEW s \in Servers \cup {None},
         NEW rest, rest \subseteq wire, SendFrom(d, type, s, rest)
  PROVE  /\ dhcp' \in Client /\ xid' \in Nat /\ wire' \subseteq Datagram /\ XidInv'
         /\ dhcp'.state = d.state /\ dhcp'.server = d.server
         /\ \/ wire' = rest \cup ToServers(type, xid + 1, s) /\ dhcp'.xid = xid + 1
            \/ wire' = rest /\ dhcp'.xid = dhcp.xid
  <1>1. xid \in Nat
    BY DEF TypeOK
  <1>2. CASE /\ dhcp' = Tried(Created(d)) /\ xid' = NextXid(d)
             /\ wire' = rest \cup ToServers(type, NextXid(d), s)
    <2>1. /\ NextXid(d) = xid + 1 /\ Created(d) \in Client
          /\ Created(d).state = d.state /\ Created(d).xid = xid + 1
          /\ Created(d).server = d.server
      BY <1>1, CreatedIs
    <2>2. /\ dhcp' \in Client /\ dhcp'.xid = xid + 1
          /\ dhcp'.state = d.state /\ dhcp'.server = d.server
      BY <1>2, <2>1, TriedIs
    <2>3. xid' = xid + 1 /\ wire' = rest \cup ToServers(type, xid + 1, s)
      BY <1>2, <2>1
    <2>4. wire' \subseteq Datagram /\ XidInv'
      BY <2>2, <2>3, FreshXid
    <2> QED BY <1>1, <2>2, <2>3, <2>4
  <1>3. CASE dhcp' = Tried(d) /\ wire' = rest /\ UNCHANGED xid
    <2>1. /\ dhcp' \in Client /\ dhcp'.xid = dhcp.xid
          /\ dhcp'.state = d.state /\ dhcp'.server = d.server
      BY <1>3, TriedIs
    <2> QED BY <1>1, <1>3, <2>1 DEF TypeOK, XidInv
  <1> QED BY <1>2, <1>3 DEF SendFrom
-----------------------------------------------------------------------------
(* The steps *)

LEMMA InitIInv == Init => IInv
  <1> SUFFICES ASSUME Init
               PROVE  IInv
    OBVIOUS
  <1>1. /\ dhcp \in Client /\ dhcp.state = "OFF" /\ dhcp.xid = 0 /\ xid = 0 /\ wire = {}
        /\ lease = [s \in Servers |-> "free"]
    BY ZeroedIs DEF Init
  <1>2. lease \in [Servers -> Book]
    BY <1>1 DEF Book
  <1> QED BY <1>1, <1>2 DEF IInv, TypeOK, XidInv, GrantInv, BoundIsGranted

(* A step that neither sends nor selects: the client keeps its request, and *)
(* datagrams only leave.                                                    *)
LEMMA NothingNew ==
  ASSUME IInv, dhcp' \in Client, wire' \subseteq wire, UNCHANGED <<xid, lease>>,
         dhcp'.xid = dhcp.xid, dhcp'.server = dhcp.server,
         dhcp'.state \in {"REQUESTING", "BOUND"} => dhcp.state \in {"REQUESTING", "BOUND"},
         BoundIsGranted', dhcp'.state = "BOUND" => addr' \in Servers
  PROVE  IInv'
  BY DEF IInv, TypeOK, XidInv, GrantInv

(* dhcp_start, with or without the memory for DISCOVER. *)
LEMMA StartStep ==
  ASSUME IInv, Start
  PROVE  IInv'
  <1>1. xid \in Nat /\ UNCHANGED lease
    BY DEF IInv, TypeOK, Start
  <1>2. CASE /\ dhcp' = Created(Restarted) /\ xid' = NextXid(Restarted)
             /\ wire' = wire \cup ToServers("DISCOVER", NextXid(Restarted), None)
    <2>1. /\ xid' = xid + 1 /\ wire' = wire \cup ToServers("DISCOVER", xid + 1, None)
          /\ dhcp' \in Client /\ dhcp'.state = "SELECTING" /\ dhcp'.xid = xid + 1
      BY <1>1, <1>2, CreatedIs, ZeroedIs
    <2>2. wire' \subseteq Datagram /\ XidInv'
      BY <2>1, FreshXid DEF IInv
    <2>3. \A m \in wire' : m \in wire \/ m.type = "DISCOVER"
      BY <2>1 DEF ToServers
    <2>4. GrantInv'
      BY <1>1, <2>1, <2>3 DEF IInv, GrantInv, BoundIsGranted
    <2> QED BY <1>1, <2>1, <2>2, <2>4 DEF IInv, TypeOK
  <1>3. CASE dhcp' = Zeroed /\ UNCHANGED <<xid, wire>>
    <2>1. dhcp' \in Client /\ dhcp'.state = "OFF" /\ dhcp'.xid = 0
      BY <1>3, ZeroedIs
    <2> QED BY <1>1, <1>3, <2>1 DEF IInv, TypeOK, XidInv, GrantInv, BoundIsGranted
  <1> QED BY <1>2, <1>3 DEF Start

(* dhcp_recv takes an offer: the request that goes out names the server,   *)
(* and nothing on the wire is an answer to it.  Without memory the client  *)
(* waits under the identifier of DISCOVER, which no acknowledgement bears. *)
LEMMA RecvOfferStep ==
  ASSUME IInv, NEW m \in wire, RecvOffer(m)
  PROVE  IInv'
  <1> DEFINE d == [SetState(dhcp, "REQUESTING") EXCEPT !.server = m.at]
  <1>1. /\ m.type = "OFFER" /\ m.xid = dhcp.xid /\ dhcp.state = "SELECTING"
        /\ SendFrom(d, "REQUEST", m.at, wire \ {m}) /\ UNCHANGED lease
    BY DEF RecvOffer, IsOurs
  <1>2. dhcp \in Client /\ m.at \in Servers
    BY DEF IInv, TypeOK, Datagram
  <1>3. /\ d \in Client /\ d.tries = 0 /\ d.xid = dhcp.xid
        /\ d.state = "REQUESTING" /\ d.server = m.at
    <2> DEFINE e == SetState(dhcp, "REQUESTING")
    <2>1. e \in Client /\ e.tries = 0 /\ e.xid = dhcp.xid /\ e.state = "REQUESTING"
      BY <1>1, <1>2, SetStateIs DEF State
    <2> HIDE DEF e
    <2>2. [e EXCEPT !.server = m.at] \in Client
      BY <1>2, <2>1 DEF Client
    <2>3. /\ [e EXCEPT !.server = m.at].tries = 0
          /\ [e EXCEPT !.server = m.at].xid = dhcp.xid
          /\ [e EXCEPT !.server = m.at].state = "REQUESTING"
          /\ [e EXCEPT !.server = m.at].server = m.at
      BY <2>1 DEF Client
    <2> QED BY <2>2, <2>3 DEF e
  <1> HIDE DEF d
  <1>4. /\ dhcp' \in Client /\ xid' \in Nat /\ wire' \subseteq Datagram /\ XidInv'
        /\ dhcp'.state = "REQUESTING" /\ dhcp'.server = m.at
        /\ \/ /\ wire' = (wire \ {m}) \cup ToServers("REQUEST", xid + 1, m.at)
              /\ dhcp'.xid = xid + 1
           \/ wire' = wire \ {m} /\ dhcp'.xid = dhcp.xid
    BY <1>1, <1>2, <1>3, SendCases DEF IInv
  <1>5. \A n \in wire' : n \in wire \/ (n.type = "REQUEST" /\ n.server = m.at)
    BY <1>4 DEF ToServers
  <1>6. \A n \in wire : n.xid \in Nat /\ n.xid <= xid
    BY DEF IInv, TypeOK, XidInv, Datagram
  <1>7. ASSUME NEW n \in wire', n.xid = dhcp'.xid, n.type \in Asking
        PROVE  n.server = m.at
    <2>1. CASE n \notin wire
      BY <1>5, <2>1
    <2>2. CASE n \in wire
      <3>1. dhcp'.xid # xid + 1
        BY <1>6, <1>7, <2>2 DEF IInv, TypeOK
      <3>2. m.xid = n.xid
        BY <1>1, <1>4, <1>7, <3>1
      <3> QED BY <1>1, <1>7, <2>2, <3>2 DEF IInv, XidInv, Asking
    <2> QED BY <2>1, <2>2
  <1>8. GrantInv'
    BY <1>1, <1>4, <1>5, <1>7 DEF IInv, GrantInv, BoundIsGranted
  <1> QED BY <1>1, <1>4, <1>8 DEF IInv, TypeOK

(* dhcp_bind: the server that acknowledges is the one that was selected.  *)
LEMMA RecvAckStep ==
  ASSUME IInv, NEW m \in wire, RecvAck(m)
  PROVE  IInv'
  <1>1. /\ m.type = "ACK" /\ m.xid = dhcp.xid /\ dhcp.state = "REQUESTING"
        /\ addr' = m.at /\ dhcp' = SetState(dhcp, "BOUND") /\ wire' = wire \ {m}
        /\ UNCHANGED <<xid, lease>>
    BY DEF RecvAck, IsOurs
  <1>2. /\ dhcp' \in Client /\ dhcp'.state = "BOUND" /\ dhcp'.xid = dhcp.xid
        /\ dhcp'.server = dhcp.server
    BY <1>1, SetStateIs DEF State, IInv, TypeOK
  <1>3. m.server = m.at /\ lease[m.at] = "leased" /\ m.server = dhcp.server
    BY <1>1 DEF IInv, GrantInv, Asking
  <1>4. BoundIsGranted' /\ addr' \in Servers
    BY <1>1, <1>2, <1>3 DEF BoundIsGranted, IInv, TypeOK, Datagram
  <1> QED BY <1>1, <1>2, <1>4, NothingNew

(* dhcp_handle_nak discovers anew. *)
LEMMA RecvNakStep ==
  ASSUME IInv, NEW m \in wire, RecvNak(m)
  PROVE  IInv'
  <1>1. /\ dhcp.state = "REQUESTING" /\ UNCHANGED lease
        /\ SendFrom(BackedOff(dhcp), "DISCOVER", None, wire \ {m})
    BY DEF RecvNak
  <1>2. /\ BackedOff(dhcp) \in Client /\ BackedOff(dhcp).state = "SELECTING"
        /\ BackedOff(dhcp).tries = 0 /\ BackedOff(dhcp).xid = dhcp.xid
    BY <1>1, BackedOffIs DEF IInv, TypeOK
  <1>3. /\ dhcp' \in Client /\ xid' \in Nat /\ wire' \subseteq Datagram /\ XidInv'
        /\ dhcp'.state = "SELECTING"
        /\ \/ wire' = (wire \ {m}) \cup ToServers("DISCOVER", xid + 1, None)
           \/ wire' = wire \ {m}
    BY <1>1, <1>2, SendCases DEF IInv
  <1>4. \A n \in wire' : n \in wire \/ n.type = "DISCOVER"
    BY <1>3 DEF ToServers
  <1>5. GrantInv'
    BY <1>1, <1>3, <1>4 DEF IInv, GrantInv, BoundIsGranted
  <1> QED BY <1>1, <1>3, <1>5 DEF IInv, TypeOK

(* A server answers under the identifier of the question, and a lease it   *)
(* has granted stays in its books.                                         *)
LEMMA ServeStep ==
  ASSUME IInv, NEW m \in wire, Offer(m) \/ Grant(m) \/ Refuse(m) \/ Declined(m)
  PROVE  IInv'
  <1>0. m \in Datagram /\ lease \in [Servers -> Book]
    BY DEF IInv, TypeOK
  <1>1. ASSUME NEW type \in Type, Answer(m, type), UNCHANGED <<client, addr>>,
               type \in Asking <=> m.type \in Asking,
               lease' \in [Servers -> Book],
               \A s \in Servers : lease[s] = "leased" => lease'[s] = "leased",
               type = "ACK" => m.server = m.at /\ lease'[m.at] = "leased"
        PROVE  IInv'
    <2> DEFINE a == [m EXCEPT !.type = type]
    <2>1. /\ a \in Datagram /\ a.type = type /\ a.xid = m.xid /\ a.server = m.server
          /\ a.at = m.at
      BY <1>0 DEF Datagram
    <2>2. wire' = (wire \ {m}) \cup {a} /\ UNCHANGED <<dhcp, xid, addr>>
      BY <1>1 DEF Answer, client
    <2> HIDE DEF a
    <2>3. TypeOK'
      BY <1>1, <2>1, <2>2 DEF IInv, TypeOK
    <2>4. XidInv'
      BY <1>1, <2>1, <2>2 DEF IInv, XidInv
    <2>5. \A n \in wire : n.at \in Servers
      BY DEF IInv, TypeOK, Datagram
    <2>6. \A n \in wire' : n.type = "ACK" => n.server = n.at /\ lease'[n.at] = "leased"
      BY <1>1, <2>1, <2>2, <2>5 DEF IInv, GrantInv
    <2>7. dhcp'.state \in {"REQUESTING", "BOUND"} =>
            \A n \in wire' : n.xid = dhcp'.xid /\ n.type \in Asking => n.server = dhcp'.server
      BY <1>1, <2>1, <2>2 DEF IInv, GrantInv
    <2>8. BoundIsGranted'
      BY <1>1, <2>2 DEF IInv, GrantInv, BoundIsGranted
    <2> QED BY <2>2, <2>3, <2>4, <2>6, <2>7, <2>8 DEF IInv, GrantInv
  <1>2. CASE Offer(m)
    <2>1. /\ m.type = "DISCOVER" /\ Answer(m, "OFFER") /\ UNCHANGED <<client, addr>>
          /\ lease' = [lease EXCEPT ![m.at] = IF @ = "free" THEN "offered" ELSE @]
      BY <1>2 DEF Offer
    <2>2. /\ lease' \in [Servers -> Book]
          /\ \A s \in Servers : lease[s] = "leased" => lease'[s] = "leased"
      BY <1>0, <2>1 DEF Book, Datagram
    <2> QED BY <1>1, <2>1, <2>2 DEF Type, Asking
  <1>3. CASE Grant(m)
    <2>1. /\ m.type = "REQUEST" /\ m.server = m.at /\ Answer(m, "ACK")
          /\ UNCHANGED <<client, addr>> /\ lease' = [lease EXCEPT ![m.at] = "leased"]
      BY <1>3 DEF Grant
    <2>2. /\ lease' \in [Servers -> Book] /\ lease'[m.at] = "leased"
          /\ \A s \in Servers : lease[s] = "leased" => lease'[s] = "leased"
      BY <1>0, <2>1 DEF Book, Datagram
    <2> QED BY <1>1, <2>1, <2>2 DEF Type, Asking
  <1>4. CASE Refuse(m)
    <2>1. /\ m.type = "REQUEST" /\ lease[m.at] # "leased" /\ Answer(m, "NAK")
          /\ UNCHANGED <<client, addr>> /\ lease' = [lease EXCEPT ![m.at] = "free"]
      BY <1>4 DEF Refuse
    <2>2. /\ lease' \in [Servers -> Book]
          /\ \A s \in Servers : lease[s] = "leased" => lease'[s] = "leased"
      BY <1>0, <2>1 DEF Book, Datagram
    <2> QED BY <1>1, <2>1, <2>2 DEF Type, Asking
  <1>5. CASE Declined(m)
    <2>1. /\ lease' = [lease EXCEPT ![m.at] = IF @ = "offered" THEN "free" ELSE @]
          /\ wire' = wire \ {m} /\ UNCHANGED <<dhcp, xid, addr>>
      BY <1>5 DEF Declined, client
    <2>2. /\ lease' \in [Servers -> Book]
          /\ \A s \in Servers : lease[s] = "leased" => lease'[s] = "leased"
      BY <1>0, <2>1 DEF Book, Datagram
    <2>3. TypeOK' /\ XidInv'
      BY <2>1, <2>2 DEF IInv, TypeOK, XidInv
    <2>4. \A n \in wire : n.at \in Servers
      BY DEF IInv, TypeOK, Datagram
    <2>5. GrantInv'
      BY <2>1, <2>2, <2>4 DEF IInv, GrantInv, BoundIsGranted
    <2> QED BY <2>3, <2>5 DEF IInv
  <1> QED BY <1>2, <1>3, <1>4, <1>5

LEMMA NextIInv ==
  ASSUME IInv, [Next]_vars
  PROVE  IInv'
  <1>1. BoundIsGranted /\ (dhcp.state = "BOUND" => addr \in Servers) /\ dhcp \in Client
    BY DEF IInv, GrantInv, TypeOK
  <1>2. CASE NetifAdd \/ PollBound \/ PollExpires \/ Result \/ UNCHANGED vars
    <2>1. UNCHANGED <<dhcp, xid, addr, wire, lease>>
      BY <1>2 DEF NetifAdd, PollBound, PollExpires, Result, vars, client
    <2> QED BY <1>1, <2>1, NothingNew DEF BoundIsGranted
  <1>3. CASE Start
    BY <1>3, StartStep
  <1>4. CASE Discovered
    <2>1. dhcp' = Tried(dhcp) /\ UNCHANGED <<xid, addr, wire, lease>>
      BY <1>4 DEF Discovered
    <2>2. /\ dhcp' \in Client /\ dhcp'.state = dhcp.state /\ dhcp'.xid = dhcp.xid
          /\ dhcp'.server = dhcp.server
      BY <1>1, <2>1, TriedIs
    <2> QED BY <1>1, <2>1, <2>2, NothingNew DEF BoundIsGranted
  <1>5. CASE Recv
    <2>1. PICK m \in wire : RecvOffer(m) \/ RecvAck(m) \/ RecvNak(m) \/ RecvOther(m)
      BY <1>5 DEF Recv, Replies
    <2>2. CASE RecvOther(m)
      <3>1. wire' \subseteq wire /\ UNCHANGED <<dhcp, xid, addr, lease>>
        BY <2>2 DEF RecvOther, client
      <3> QED BY <1>1, <3>1, NothingNew DEF BoundIsGranted
    <2> QED BY <2>1, <2>2, RecvOfferStep, RecvAckStep, RecvNakStep
  <1>6. CASE Serve
    <2>1. PICK m \in wire : Offer(m) \/ Grant(m) \/ Refuse(m) \/ Declined(m)
      BY <1>6 DEF Serve, Requests
    <2> QED BY <2>1, ServeStep
  <1>7. CASE Lose
    <2>1. wire' \subseteq wire /\ UNCHANGED <<dhcp, xid, addr, lease>>
      BY <1>7 DEF Lose, client
    <2> QED BY <1>1, <2>1, NothingNew DEF BoundIsGranted
  <1> QED BY <1>2, <1>3, <1>4, <1>5, <1>6, <1>7 DEF Next, Main

(* What lwIPInit, the handlers of dhcp.c and the servers keep at each      *)
(* step: an identifier belongs to one exchange, and a lease is for good.   *)
THEOREM IInvHolds == Spec => []IInv
  BY InitIInv, NextIInv, PTL DEF Spec

(* A client that calls itself bound has the address of the server it       *)
(* selected in this trial, and that server has the lease in its books,     *)
(* whatever datagrams were lost or late and wherever dhcp_recv interrupts  *)
(* dhcp_start.                                                             *)
THEOREM BoundIsGrantedHolds == Spec => []BoundIsGranted
  <1>1. IInv => BoundIsGranted
    BY DEF IInv, GrantInv
  <1> QED BY <1>1, IInvHolds, PTL
=============================================================================
