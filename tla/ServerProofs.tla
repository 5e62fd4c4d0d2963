---------------------------- MODULE ServerProofs ----------------------------
(***************************************************************************)
(* Proofs about the server of engine/src/server.cpp for every number of    *)
(* clients, descriptors and requests.                                      *)
(*                                                                         *)
(* ServerInv is the inductive invariant.  It joins BookInv (the server     *)
(* only ever takes steps of its book), what the kernel's tables promise    *)
(* (a connection waits in the backlog, or has one descriptor, or neither), *)
(* where the connection being handled stands (it is open, and this pass    *)
(* will not meet it again), and, for the owner map in the middle of a      *)
(* dispatch, which entries may be left over: those of orders that the      *)
(* fills not yet reported have used up.                                    *)
(***************************************************************************)
EXTENDS MCOrderBookServer, OrderBookProofs

-----------------------------------------------------------------------------
(* The inductive invariant. *)

Unit == [part : {"tag", "body"}, msg : Requests]

(* What is on the wire and in the buffers are requests, in units; what is  *)
(* still to be reported are fills.                                         *)
BuffersOK ==
    /\ wire \in [Peers -> Seq(Unit)]
    /\ read_buf \in [Fds -> Seq(Unit)]
    /\ to_report \in Seq(Fill)

(* A connection that nobody made is nowhere; one that waits in the backlog *)
(* waits once and has no descriptor.                                       *)
SocketsOK ==
    /\ \A p \in Peers : link[p] = "new" =>
          p \notin ToSet(backlog) /\ \A fd \in Fds : fd_table[fd] # p
    /\ \A p \in ToSet(backlog) : \A fd \in Fds : fd_table[fd] # p
    /\ NoDuplicates(backlog)

Busy == pc \in {"parse", "match", "send"}

(* The connection being handled is open and is not met again in this pass. *)
HandlingOK == Busy => conn \in ToSet(connections) /\ conn \notin ToSet(ready)

(* What poll reported and is still to be handled, each once.               *)
ReadyOK ==
    /\ NoDuplicates(ready)
    /\ \A fd \in ToSet(ready) : fd \in ToSet(connections) /\ Readable(fd)

NetInv == SocketsOK /\ ConnectionsMatchFds /\ HandlingOK /\ ReadyOK

(* The resting orders that the fills still to be reported were with.       *)
Unreported ==
    CASE pc = "match" -> {fills[i].resting_order_id : i \in 1..Len(fills)}
      [] pc = "send"  -> {to_report[i].resting_order_id : i \in 1..Len(to_report)}
      [] OTHER        -> {}

(* Every resting order has an owner; an owner of an order that does not    *)
(* rest is left over from a fill that is still to be reported.             *)
OwnersOK ==
    /\ DOMAIN order_index \subseteq DOMAIN order_owner_fd
    /\ DOMAIN order_owner_fd \subseteq DOMAIN order_index \cup Unreported

ServerInv ==
    /\ ServerTypeOK
    /\ BuffersOK
    /\ BookInv
    /\ NetInv
    /\ OwnersOK

(* The open connections have clients, which have connected.                *)
LEMMA ConnectionFacts ==
    ASSUME ServerTypeOK, NetInv, NEW fd \in ToSet(connections)
    PROVE  fd \in Fds /\ fd_table[fd] \in Peers /\ link[fd_table[fd]] # "new"
<1>1. fd \in Fds /\ fd_table[fd] # Nobody
  BY DEF NetInv, ConnectionsMatchFds
<1>2. fd_table[fd] \in Peers
  BY <1>1 DEF ServerTypeOK
<1> QED BY <1>1, <1>2 DEF NetInv, SocketsOK

-----------------------------------------------------------------------------
(* The steps of the server and its clients, as the network sees them. *)

(* A step that opens, closes and reads nothing: it may send, dispatch, or  *)
(* write on a connection, and a client may leave.                          *)
LEMMA QuietStep ==
    ASSUME ServerTypeOK, NetInv,
           UNCHANGED <<backlog, fd_table, connections, ready>>,
           Busy' => Busy /\ conn' = conn,
           \A p \in Peers : /\ link'[p] = "new" => link[p] = "new"
                            /\ link[p] \notin {"new", "open"} => link'[p] # "open"
                            /\ wire[p] # <<>> => wire'[p] # <<>>,
           \A fd \in Fds \ ToSet(connections) : read_buf'[fd] = read_buf[fd] /\
                                                (fd \in subscribed' => fd \in subscribed)
    PROVE  NetInv'
<1>1. SocketsOK'
  BY DEF NetInv, SocketsOK
<1>2. ConnectionsMatchFds'
  BY DEF NetInv, ConnectionsMatchFds
<1>3. HandlingOK'
  BY DEF NetInv, HandlingOK, Busy
<1>4. ReadyOK'
  <2>1. NoDuplicates(ready')
    BY DEF NetInv, ReadyOK
  <2>2. ASSUME NEW fd \in ToSet(ready) PROVE fd \in ToSet(connections) /\ Readable(fd)'
    <3>1. fd \in ToSet(connections) /\ Readable(fd)
      BY <2>2 DEF NetInv, ReadyOK
    <3>2. fd_table[fd] \in Peers /\ link[fd_table[fd]] # "new"
      BY <3>1, ConnectionFacts
    <3> QED BY <3>1, <3>2 DEF Readable
  <2> QED BY <2>1, <2>2 DEF ReadyOK
<1> QED BY <1>1, <1>2, <1>3, <1>4 DEF NetInv

(* A client connects: it is not in the tables yet.                         *)
LEMMA ConnectKeepsNet ==
    ASSUME ServerTypeOK, NetInv, NEW p \in Peers, Connect(p)
    PROVE  NetInv'
<1>0. /\ link[p] = "new" /\ link' = [link EXCEPT ![p] = "open"] /\ backlog' = Append(backlog, p)
      /\ UNCHANGED <<fd_table, wire, pc, connections, read_buf, subscribed, ready, conn>>
  BY DEF Connect, kernelFrame, serverVars
<1>1. backlog \in Seq(Peers) /\ p \notin ToSet(backlog) /\ \A fd \in Fds : fd_table[fd] # p
  BY <1>0 DEF ServerTypeOK, NetInv, SocketsOK
<1>2. /\ ToSet(backlog') = ToSet(backlog) \cup {p}
      /\ NoDuplicates(backlog')
  BY <1>0, <1>1, AppendSet DEF NetInv, SocketsOK
<1>3. \A q \in Peers : q # p => link'[q] = link[q]
  BY <1>0 DEF ServerTypeOK
<1>4. link'[p] = "open"
  BY <1>0 DEF ServerTypeOK
<1>5. SocketsOK'
  BY <1>0, <1>1, <1>2, <1>3, <1>4 DEF NetInv, SocketsOK
<1>6. ConnectionsMatchFds' /\ HandlingOK'
  BY <1>0 DEF NetInv, ConnectionsMatchFds, HandlingOK, Busy
<1>7. ReadyOK'
  <2>1. ASSUME NEW fd \in ToSet(ready) PROVE fd \in ToSet(connections) /\ Readable(fd)'
    <3>1. fd \in ToSet(connections) /\ Readable(fd)
      BY <2>1 DEF NetInv, ReadyOK
    <3>2. fd_table[fd] \in Peers /\ fd_table[fd] # p
      BY <3>1, <1>0, ConnectionFacts
    <3> QED BY <3>1, <3>2, <1>0, <1>3 DEF Readable
  <2> QED BY <2>1, <1>0 DEF ReadyOK, NetInv
<1> QED BY <1>5, <1>6, <1>7 DEF NetInv

(* poll reports what is readable, each connection once.                    *)
LEMMA PollKeepsNet ==
    ASSUME ServerTypeOK, NetInv, Poll
    PROVE  NetInv'
<1> DEFINE S == {fd \in ToSet(connections) : Readable(fd)}
<1>0. /\ ready' = Sift(connections, S) /\ pc' \in {"accept", "scan"}
      /\ UNCHANGED <<link, backlog, fd_table, wire, connections, read_buf, subscribed, conn>>
  BY DEF Poll, kernelVars
<1> HIDE DEF S
<1>1. connections \in Seq(Fds) /\ NoDuplicates(connections)
  BY DEF ServerTypeOK, NetInv, ConnectionsMatchFds, NoDuplicates
<1>2. ToSet(ready') = ToSet(connections) \cap S /\ NoDuplicates(ready')
  BY <1>0, <1>1, SiftSet
<1>3. ReadyOK'
  BY <1>0, <1>2 DEF ReadyOK, S, Readable
<1>4. HandlingOK'
  BY <1>0 DEF HandlingOK, Busy
<1>5. SocketsOK' /\ ConnectionsMatchFds'
  BY <1>0 DEF NetInv, SocketsOK, ConnectionsMatchFds
<1> QED BY <1>3, <1>4, <1>5 DEF NetInv

(* The lowest free descriptor is free.                                     *)
LEMMA LowestFree ==
    ASSUME FreeFds # {}
    PROVE  Min(FreeFds) \in FreeFds
<1>1. FreeFds \subseteq Nat
  BY DEF FreeFds, Fds
<1>2. \E x \in FreeFds : \A y \in FreeFds : x <= y
  BY <1>1, LeastNatural
<1> QED BY <1>2 DEF Min

(* accept gives the connection a descriptor nobody has.                    *)
LEMMA AcceptKeepsNet ==
    ASSUME ServerTypeOK, NetInv, AcceptOne
    PROVE  NetInv'
<1>1. PICK fd : fd = Min(FreeFds)
  OBVIOUS
<1>2. PICK p : p = Head(backlog)
  OBVIOUS
<1>0. /\ pc = "accept" /\ backlog # <<>>
      /\ fd_table' = [fd_table EXCEPT ![fd] = p]
      /\ connections' = Append(connections, fd) /\ backlog' = Tail(backlog)
      /\ UNCHANGED <<link, wire, pc, read_buf, subscribed, ready, conn>>
  BY <1>1, <1>2 DEF AcceptOne
<1>3. fd \in Fds /\ fd_table[fd] = Nobody
  BY <1>1, LowestFree DEF AcceptOne, FreeFds
<1>4. backlog \in Seq(Peers) /\ NoDuplicates(backlog)
  BY DEF ServerTypeOK, NetInv, SocketsOK
<1>5. /\ p \in Peers /\ ToSet(backlog) = ToSet(backlog') \cup {p}
      /\ NoDuplicates(backlog') /\ p \notin ToSet(backlog')
  BY <1>0, <1>2, <1>4, TailSet
<1>6. link[p] # "new" /\ \A f \in Fds : fd_table[f] # p
  BY <1>5 DEF NetInv, SocketsOK
<1>7. p # Nobody
  BY <1>5, ServerAssumption
<1>8. fd_table'[fd] = p /\ \A f \in Fds \ {fd} : fd_table'[f] = fd_table[f]
  BY <1>0, <1>3 DEF ServerTypeOK
<1>9. connections \in Seq(Fds) /\ NoDuplicates(connections) /\ fd \notin ToSet(connections)
  BY <1>3 DEF ServerTypeOK, NetInv, ConnectionsMatchFds, NoDuplicates
<1>10. ToSet(connections') = ToSet(connections) \cup {fd} /\ NoDuplicates(connections')
  BY <1>0, <1>3, <1>9, AppendSet
<1>11. SocketsOK'
  <2>1. ASSUME NEW q \in Peers, link[q] = "new"
        PROVE  q \notin ToSet(backlog') /\ \A f \in Fds : fd_table'[f] # q
    <3>1. q \notin ToSet(backlog) /\ \A f \in Fds : fd_table[f] # q
      BY <2>1 DEF NetInv, SocketsOK
    <3>2. q # p
      BY <2>1, <1>6
    <3> QED BY <3>1, <3>2, <1>5, <1>8
  <2>2. ASSUME NEW q \in ToSet(backlog') PROVE \A f \in Fds : fd_table'[f] # q
    <3>1. q # p /\ \A f \in Fds : fd_table[f] # q
      BY <2>2, <1>5 DEF NetInv, SocketsOK
    <3> QED BY <3>1, <1>8
  <2> QED BY <2>1, <2>2, <1>0, <1>5 DEF SocketsOK
<1>12. ConnectionsMatchFds'
  <2>1. ToSet(connections') = {f \in Fds : fd_table'[f] # Nobody}
    <3>1. ToSet(connections) = {f \in Fds : fd_table[f] # Nobody}
      BY DEF NetInv, ConnectionsMatchFds
    <3> QED BY <3>1, <1>3, <1>7, <1>8, <1>10
  <2>2. \A i, j \in 1..Len(connections') : connections'[i] = connections'[j] => i = j
    BY <1>10 DEF NoDuplicates
  <2>3. \A f, g \in Fds : fd_table'[f] = fd_table'[g] /\ fd_table'[f] # Nobody => f = g
    <3>1. \A f, g \in Fds : fd_table[f] = fd_table[g] /\ fd_table[f] # Nobody => f = g
      BY DEF NetInv, ConnectionsMatchFds
    <3> QED BY <3>1, <1>6, <1>8
  <2>4. \A f \in Fds : f \notin ToSet(connections') => read_buf'[f] = <<>> /\ f \notin subscribed'
    BY <1>0, <1>10 DEF NetInv, ConnectionsMatchFds
  <2> QED BY <2>1, <2>2, <2>3, <2>4 DEF ConnectionsMatchFds
<1>13. HandlingOK'
  BY <1>0 DEF HandlingOK, Busy
<1>14. ReadyOK'
  <2>1. ASSUME NEW f \in ToSet(ready) PROVE f \in ToSet(connections') /\ Readable(f)'
    <3>1. f \in ToSet(connections) /\ Readable(f)
      BY <2>1 DEF NetInv, ReadyOK
    <3>2. f \in Fds /\ f # fd
      BY <3>1, <1>9, ConnectionFacts
    <3> QED BY <3>1, <3>2, <1>0, <1>8, <1>10 DEF Readable
  <2> QED BY <2>1, <1>0 DEF ReadyOK, NetInv
<1> QED BY <1>11, <1>12, <1>13, <1>14 DEF NetInv

(* recv takes bytes off one connection's socket, which the rest of the     *)
(* pass does not look at.                                                  *)
LEMMA RecvDataKeepsNet ==
    ASSUME ServerTypeOK, BuffersOK, NetInv, RecvData
    PROVE  NetInv'
<1>1. PICK fd : fd = Head(ready)
  OBVIOUS
<1>2. PICK p : p = fd_table[fd]
  OBVIOUS
<1>0. /\ ready # <<>> /\ conn' = fd /\ ready' = Tail(ready) /\ pc' = "parse"
      /\ \A f \in Fds \ {fd} : read_buf'[f] = read_buf[f]
      /\ \A q \in Peers \ {p} : wire'[q] = wire[q]
      /\ UNCHANGED <<link, backlog, fd_table, connections, subscribed>>
  BY <1>1, <1>2 DEF RecvData, BuffersOK
<1>3. ready \in Seq(Fds) /\ NoDuplicates(ready)
  BY DEF ServerTypeOK, NetInv, ReadyOK
<1>4. /\ ToSet(ready) = ToSet(ready') \cup {fd}
      /\ NoDuplicates(ready') /\ fd \notin ToSet(ready')
  BY <1>0, <1>1, <1>3, TailSet
<1>5. fd \in ToSet(connections) /\ fd \in Fds /\ p \in Peers
  <2>1. fd \in ToSet(connections)
    BY <1>4 DEF NetInv, ReadyOK
  <2> QED BY <2>1, <1>2, ConnectionFacts
<1>6. SocketsOK'
  BY <1>0 DEF NetInv, SocketsOK
<1>7. ConnectionsMatchFds'
  BY <1>0, <1>5 DEF NetInv, ConnectionsMatchFds
<1>8. HandlingOK'
  BY <1>0, <1>4, <1>5 DEF HandlingOK
<1>9. ReadyOK'
  <2>1. ASSUME NEW f \in ToSet(ready') PROVE f \in ToSet(connections') /\ Readable(f)'
    <3>1. f \in ToSet(connections) /\ Readable(f) /\ f # fd
      BY <2>1, <1>4 DEF NetInv, ReadyOK
    <3>2. f \in Fds /\ fd_table[f] \in Peers
      BY <3>1, ConnectionFacts
    <3>3. fd_table[f] # p
      BY <3>1, <3>2, <1>2, <1>5, ServerAssumption DEF NetInv, ConnectionsMatchFds
    <3> QED BY <3>1, <3>2, <3>3, <1>0 DEF Readable
  <2> QED BY <2>1, <1>4 DEF ReadyOK
<1> QED BY <1>6, <1>7, <1>8, <1>9 DEF NetInv

(* A connection is removed, and this pass does not come back to it.        *)
LEMMA RemovalKeepsNet ==
    ASSUME ServerTypeOK, BuffersOK, NetInv, NEW fd \in ToSet(connections), remove_connection(fd),
           NoDuplicates(ready'), ToSet(ready') \subseteq ToSet(ready) \ {fd}, pc' = "scan"
    PROVE  NetInv'
<1>1. PICK p : p = fd_table[fd]
  OBVIOUS
<1>2. fd \in Fds /\ p \in Peers /\ link[p] # "new"
  BY <1>1, ConnectionFacts
<1>3. connections \in Seq(Fds) /\ NoDuplicates(connections)
  BY DEF ServerTypeOK, NetInv, ConnectionsMatchFds, NoDuplicates
<1>4. ToSet(connections') = ToSet(connections) \cap (Fds \ {fd}) /\ NoDuplicates(connections')
  BY <1>3, SiftSet DEF remove_connection
<1>5. /\ fd_table'[fd] = Nobody /\ \A f \in Fds \ {fd} : fd_table'[f] = fd_table[f]
      /\ link'[p] = "closed" /\ \A q \in Peers \ {p} : link'[q] = link[q] /\ wire'[q] = wire[q]
      /\ read_buf'[fd] = <<>> /\ \A f \in Fds \ {fd} : read_buf'[f] = read_buf[f]
      /\ subscribed' = subscribed \ {fd} /\ backlog' = backlog
  BY <1>1, <1>2 DEF remove_connection, ServerTypeOK, BuffersOK
<1>6. SocketsOK'
  <2>0. Nobody \notin Peers /\ ToSet(backlog) \subseteq Peers
    BY ServerAssumption, ToSetMember DEF ServerTypeOK
  <2>1. ASSUME NEW q \in Peers, \A f \in Fds : fd_table[f] # q
        PROVE  \A f \in Fds : fd_table'[f] # q
    BY <2>0, <2>1, <1>5
  <2>2. \A q \in Peers : link'[q] = "new" => link[q] = "new"
    BY <1>5
  <2> QED BY <2>0, <2>1, <2>2, <1>5 DEF NetInv, SocketsOK
<1>7. ConnectionsMatchFds'
  <2>0. /\ ToSet(connections) = {f \in Fds : fd_table[f] # Nobody}
        /\ \A f, g \in Fds : fd_table[f] = fd_table[g] /\ fd_table[f] # Nobody => f = g
        /\ \A f \in Fds : f \notin ToSet(connections) => read_buf[f] = <<>> /\ f \notin subscribed
    BY DEF NetInv, ConnectionsMatchFds
  <2>1. ToSet(connections') = {f \in Fds : fd_table'[f] # Nobody}
    BY <2>0, <1>2, <1>4, <1>5
  <2>2. \A i, j \in 1..Len(connections') : connections'[i] = connections'[j] => i = j
    BY <1>4 DEF NoDuplicates
  <2>3. \A f, g \in Fds : fd_table'[f] = fd_table'[g] /\ fd_table'[f] # Nobody => f = g
    BY <2>0, <1>5
  <2>4. \A f \in Fds : f \notin ToSet(connections') => read_buf'[f] = <<>> /\ f \notin subscribed'
    BY <2>0, <1>4, <1>5
  <2> QED BY <2>1, <2>2, <2>3, <2>4 DEF ConnectionsMatchFds
<1>8. HandlingOK'
  BY DEF HandlingOK, Busy
<1>9. ReadyOK'
  <2>1. ASSUME NEW f \in ToSet(ready') PROVE f \in ToSet(connections') /\ Readable(f)'
    <3>1. f \in ToSet(connections) /\ Readable(f) /\ f # fd
      BY <2>1 DEF NetInv, ReadyOK
    <3>2. f \in Fds /\ fd_table[f] \in Peers
      BY <3>1, ConnectionFacts
    <3>3. fd_table[f] # p
      BY <3>1, <3>2, <1>1, <1>2, ServerAssumption DEF NetInv, ConnectionsMatchFds
    <3> QED BY <3>1, <3>2, <3>3, <1>4, <1>5 DEF Readable
  <2> QED BY <2>1 DEF ReadyOK
<1> QED BY <1>6, <1>7, <1>8, <1>9 DEF NetInv

(* recv returned 0 or an error.                                            *)
LEMMA RecvEndKeepsNet ==
    ASSUME ServerTypeOK, BuffersOK, NetInv, RecvEnd
    PROVE  NetInv'
<1>1. PICK fd : fd = Head(ready)
  OBVIOUS
<1>2. ready # <<>> /\ remove_connection(fd) /\ ready' = Tail(ready) /\ pc' = "scan"
  BY <1>1 DEF RecvEnd
<1>3. ready \in Seq(Fds) /\ NoDuplicates(ready)
  BY DEF ServerTypeOK, NetInv, ReadyOK
<1>4. /\ ToSet(ready) = ToSet(ready') \cup {fd}
      /\ NoDuplicates(ready') /\ fd \notin ToSet(ready')
  BY <1>1, <1>2, <1>3, TailSet
<1>5. fd \in ToSet(connections)
  BY <1>4 DEF NetInv, ReadyOK
<1> QED BY <1>2, <1>4, <1>5, RemovalKeepsNet

(* The connection being handled broke the protocol.                        *)
LEMMA ParseViolationKeepsNet ==
    ASSUME ServerTypeOK, BuffersOK, NetInv, ParseViolation
    PROVE  NetInv'
<1>1. pc = "parse" /\ remove_connection(conn) /\ ready' = ready /\ pc' = "scan"
  BY DEF ParseViolation, Complete
<1>2. conn \in ToSet(connections) /\ conn \notin ToSet(ready)
  BY <1>1 DEF NetInv, HandlingOK, Busy
<1>3. NoDuplicates(ready')
  BY <1>1 DEF NetInv, ReadyOK
<1> QED BY <1>1, <1>2, <1>3, RemovalKeepsNet

(* Everything else is quiet.                                               *)
QuietServerStep ==
    \/ AcceptDone \/ ScanDone \/ ParseWaits \/ Subscribe
    \/ DispatchDuplicate \/ DispatchNewOrder \/ SubmitTrades \/ SubmitReturn
    \/ ReportFill \/ DispatchCancel \/ DispatchDone
    \/ SendDelivered \/ SendToNobody \/ SendBroken

(* The steps of a dispatch touch the buffer and the subscription of the    *)
(* connection being handled, and nothing else of the network.              *)
LEMMA QuietServerStepKeepsNet ==
    ASSUME ServerTypeOK, BuffersOK, NetInv, QuietServerStep
    PROVE  NetInv'
<1>1. UNCHANGED <<link, backlog, fd_table, wire, connections, ready>>
  BY DEF QuietServerStep, AcceptDone, ScanDone, ParseWaits, Subscribe, DispatchDuplicate,
         DispatchNewOrder, SubmitTrades, SubmitReturn, ReportFill, DispatchCancel, DispatchDone,
         SendDelivered, SendToNobody, SendBroken, sendFrame, kernelVars, serverVars
<1>2. Busy' => Busy /\ conn' = conn
  BY DEF QuietServerStep, AcceptDone, ScanDone, ParseWaits, Subscribe, DispatchDuplicate,
         DispatchNewOrder, SubmitTrades, SubmitReturn, ReportFill, DispatchCancel, DispatchDone,
         SendDelivered, SendToNobody, SendBroken, sendFrame, Sending, Complete, Busy, serverVars
<1>3. \A fd \in Fds \ ToSet(connections) :
         read_buf'[fd] = read_buf[fd] /\ (fd \in subscribed' => fd \in subscribed)
  <2> DEFINE Here == \A fd \in Fds \ ToSet(connections) :
                        read_buf'[fd] = read_buf[fd] /\ (fd \in subscribed' => fd \in subscribed)
  <2>1. ASSUME Busy, ConsumeMessage, subscribed' \subseteq subscribed \cup {conn} PROVE Here
    <3>1. conn \in ToSet(connections)
      BY <2>1 DEF NetInv, HandlingOK
    <3>2. \A fd \in Fds \ {conn} : read_buf'[fd] = read_buf[fd]
      BY <2>1 DEF ConsumeMessage, BuffersOK
    <3> QED BY <2>1, <3>1, <3>2
  <2>2. CASE UNCHANGED <<read_buf, subscribed>>
    BY <2>2
  <2>3. \/ UNCHANGED <<read_buf, subscribed>>
        \/ Busy /\ ConsumeMessage /\ subscribed' \subseteq subscribed \cup {conn}
    BY DEF QuietServerStep, AcceptDone, ScanDone, ParseWaits, Subscribe, DispatchDuplicate,
         DispatchNewOrder, SubmitTrades, SubmitReturn, ReportFill, DispatchCancel, DispatchDone,
         SendDelivered, SendToNobody, SendBroken, sendFrame, Complete, Busy, serverVars
  <2> QED BY <2>1, <2>2, <2>3
<1>4. \A p \in Peers : /\ link'[p] = "new" => link[p] = "new"
                       /\ link[p] \notin {"new", "open"} => link'[p] # "open"
                       /\ wire[p] # <<>> => wire'[p] # <<>>
  BY <1>1
<1> QED BY <1>1, <1>2, <1>3, <1>4, QuietStep

(* A request goes on the wire in one unit or two.                          *)
LEMMA UnitsOfRequest ==
    ASSUME NEW m \in Requests
    PROVE  Units(m) \in Seq(Unit) /\ Len(Units(m)) \in {1, 2}
<1>1. [part |-> "tag", msg |-> m] \in Unit /\ [part |-> "body", msg |-> m] \in Unit
  BY DEF Unit
<1>2. CASE HasBody(m)
  BY <1>1, <1>2 DEF Units
<1>3. CASE ~HasBody(m)
  BY <1>1, <1>3 DEF Units
<1> QED BY <1>2, <1>3

(* The clients' other steps and a lost message move a link on, or add to a *)
(* wire.                                                                   *)
LEMMA LinkStepKeepsNet ==
    ASSUME ServerTypeOK, BuffersOK, NetInv,
           \/ SendLost
           \/ \E p \in Peers : \/ \E m \in Requests : Write(p, m)
                               \/ ClientCloses(p) \/ ClientResets(p) \/ ResetArrives(p)
    PROVE  NetInv'
<1>1. CASE SendLost
  <2>1. /\ UNCHANGED <<backlog, fd_table, wire, connections, ready, pc, conn, read_buf, subscribed>>
        /\ link[Target] \in {"fin", "fin_sent", "aborted"}
        /\ link' = [link EXCEPT ![Target] = IF @ = "aborted" THEN "broken" ELSE "fin_sent"]
    BY <1>1 DEF SendLost, sendFrame
  <2>2. \A p \in Peers : /\ link'[p] = "new" => link[p] = "new"
                         /\ link[p] \notin {"new", "open"} => link'[p] # "open"
                         /\ wire[p] # <<>> => wire'[p] # <<>>
    BY <2>1 DEF ServerTypeOK
  <2>3. Busy' => Busy /\ conn' = conn
    BY <2>1 DEF Busy
  <2> QED BY <2>1, <2>2, <2>3, QuietStep
<1>2. ASSUME NEW p \in Peers, NEW m \in Requests, Write(p, m) PROVE NetInv'
  <2>1. /\ UNCHANGED <<link, backlog, fd_table, connections, ready, pc, conn, read_buf, subscribed>>
        /\ wire' = [wire EXCEPT ![p] = @ \o Units(m)]
    BY <1>2 DEF Write, kernelFrame, serverVars
  <2>2. wire[p] \in Seq(Unit) /\ Units(m) \in Seq(Unit)
    BY UnitsOfRequest DEF BuffersOK
  <2>3. wire[p] # <<>> => wire[p] \o Units(m) # <<>>
    <3>1. Len(wire[p] \o Units(m)) = Len(wire[p]) + Len(Units(m))
          /\ Len(wire[p]) \in Nat /\ Len(Units(m)) \in Nat
          /\ wire[p] \o Units(m) \in Seq(Unit)
      BY <2>2, ConcatProperties
    <3> QED BY <3>1, <2>2, EmptySeq
  <2>4. \A q \in Peers : wire[q] # <<>> => wire'[q] # <<>>
    BY <2>1, <2>3 DEF BuffersOK
  <2>5. \A q \in Peers : /\ link'[q] = "new" => link[q] = "new"
                         /\ link[q] \notin {"new", "open"} => link'[q] # "open"
                         /\ wire[q] # <<>> => wire'[q] # <<>>
    BY <2>1, <2>4
  <2>6. Busy' => Busy /\ conn' = conn
    BY <2>1 DEF Busy
  <2> QED BY <2>1, <2>5, <2>6, QuietStep
<1>3. ASSUME NEW p \in Peers, ClientCloses(p) \/ ClientResets(p) \/ ResetArrives(p) PROVE NetInv'
  <2>1. /\ UNCHANGED <<backlog, fd_table, wire, connections, ready, pc, conn, read_buf, subscribed>>
        /\ \E to \in {"fin", "aborted", "broken"} : link' = [link EXCEPT ![p] = to]
    BY <1>3 DEF ClientCloses, ClientResets, ResetArrives, kernelFrame, serverVars
  <2>2. \A q \in Peers : /\ link'[q] = "new" => link[q] = "new"
                         /\ link[q] \notin {"new", "open"} => link'[q] # "open"
                         /\ wire[q] # <<>> => wire'[q] # <<>>
    BY <2>1 DEF ServerTypeOK
  <2>3. Busy' => Busy /\ conn' = conn
    BY <2>1 DEF Busy
  <2> QED BY <2>1, <2>2, <2>3, QuietStep
<1> QED BY <1>1, <1>2, <1>3

(* The network's tables stay consistent, whatever happens.                 *)
LEMMA NextNetInv ==
    ASSUME ServerTypeOK, BuffersOK, NetInv, [ServerNext]_vars
    PROVE  NetInv'
<1>1. CASE Poll
  BY <1>1, PollKeepsNet
<1>2. CASE AcceptOne
  BY <1>2, AcceptKeepsNet
<1>3. CASE RecvData
  BY <1>3, RecvDataKeepsNet
<1>4. CASE RecvEnd
  BY <1>4, RecvEndKeepsNet
<1>5. CASE ParseViolation
  BY <1>5, ParseViolationKeepsNet
<1>6. CASE QuietServerStep
  BY <1>6, QuietServerStepKeepsNet
<1>7. CASE SendLost
  BY <1>7, LinkStepKeepsNet
<1>8. ASSUME NEW p \in Peers, Connect(p) PROVE NetInv'
  BY <1>8, ConnectKeepsNet
<1>9. ASSUME NEW p \in Peers,
             \/ \E m \in Requests : Write(p, m)
             \/ ClientCloses(p) \/ ClientResets(p) \/ ResetArrives(p)
      PROVE  NetInv'
  BY <1>9, LinkStepKeepsNet
<1>10. CASE UNCHANGED vars
  BY <1>10 DEF vars, kernelVars, serverVars, NetInv, SocketsOK, ConnectionsMatchFds, HandlingOK,
               Busy, ReadyOK, Readable
<1> QED BY <1>1, <1>2, <1>3, <1>4, <1>5, <1>6, <1>7, <1>8, <1>9, <1>10
        DEF ServerNext, ServerStep, ClientStep, QuietServerStep

-----------------------------------------------------------------------------
(* The steps of the server, as the book sees them. *)

(* The connection being handled is open.                                   *)
LEMMA HandledIsOpen ==
    ASSUME ServerTypeOK, NetInv, Busy
    PROVE  conn \in Fds
BY ConnectionFacts DEF NetInv, HandlingOK

(* What is at the front of its buffer is a request.                        *)
LEMMA FrontOfBuffer ==
    ASSUME ServerTypeOK, BuffersOK, NetInv, NEW tag, Complete(tag)
    PROVE  /\ conn \in Fds /\ buf \in Seq(Unit)
           /\ Msg \in Requests /\ Msg.tag = tag
<1>1. conn \in Fds /\ buf # <<>> /\ Msg.tag = tag
  BY HandledIsOpen DEF Complete, Busy, Msg
<1>2. buf \in Seq(Unit)
  BY <1>1 DEF BuffersOK, buf
<1>3. 1 \in 1..Len(buf)
  BY <1>1, <1>2, EmptySeq
<1>4. buf[1] \in Unit
  BY <1>2, <1>3, ElementOfSeq
<1> QED BY <1>1, <1>2, <1>4 DEF Msg, Unit

(* Every step of the server is a step of its book, or leaves it alone.     *)
LEMMA NextIsBookStep ==
    ASSUME ServerTypeOK, BuffersOK, NetInv, [ServerNext]_vars
    PROVE  [BookNext]_bookVars
<1>1. CASE DispatchNewOrder
  <2>1. Msg \in Requests /\ Msg.tag = "NewOrder"
    BY <1>1, FrontOfBuffer DEF DispatchNewOrder
  <2>2. /\ Msg.id \in OrderIds /\ Msg.side \in Sides /\ Msg.type \in OrderTypes
        /\ Msg.price \in Prices /\ Msg.quantity \in Quantities
    BY <2>1, RequestsAssumption
  <2> QED BY <2>2, <1>1 DEF DispatchNewOrder, BookNext
<1>2. CASE SubmitTrades
  BY <1>2 DEF SubmitTrades, BookNext
<1>3. CASE SubmitReturn
  BY <1>3 DEF SubmitReturn, BookNext
<1>4. CASE DispatchCancel
  <2>1. Msg \in Requests /\ Msg.tag = "Cancel"
    BY <1>4, FrontOfBuffer DEF DispatchCancel
  <2>2. Msg.id \in OrderIds
    BY <2>1, RequestsAssumption
  <2> QED BY <2>2, <1>4 DEF DispatchCancel, BookNext
<1>5. ASSUME ~(DispatchNewOrder \/ SubmitTrades \/ SubmitReturn \/ DispatchCancel)
      PROVE  UNCHANGED bookVars
  <2>1. CASE ServerStep
    BY <2>1, <1>5 DEF ServerStep, Poll, AcceptOne, RecvData, RecvEnd, ParseViolation,
         AcceptDone, ScanDone, ParseWaits, Subscribe, DispatchDuplicate, ReportFill, DispatchDone,
         SendDelivered, SendToNobody, SendLost, SendBroken, sendFrame
  <2>2. CASE ClientStep
    BY <2>2 DEF ClientStep, Connect, Write, ClientCloses, ClientResets, ResetArrives, kernelFrame
  <2>3. CASE UNCHANGED vars
    BY <2>3 DEF vars
  <2> QED BY <2>1, <2>2, <2>3 DEF ServerNext
<1> QED BY <1>1, <1>2, <1>3, <1>4, <1>5

-----------------------------------------------------------------------------
(* The types. *)

(* A message is taken off the buffer.                                      *)
LEMMA ConsumeTyped ==
    ASSUME ServerTypeOK, BuffersOK, NetInv, NEW tag, Complete(tag), ConsumeMessage
    PROVE  read_buf' \in [Fds -> Seq(Unit)]
<1>1. conn \in Fds /\ buf \in Seq(Unit) /\ Msg \in Requests
  BY FrontOfBuffer
<1>2. Len(Units(Msg)) + 1 \in Nat \ {0} /\ Len(buf) \in 0..Len(buf)
  BY <1>1, UnitsOfRequest
<1>3. SubSeq(buf, Len(Units(Msg)) + 1, Len(buf)) \in Seq(Unit)
  BY <1>1, <1>2, SubSeqTyped
<1> QED BY <1>1, <1>3 DEF ConsumeMessage, BuffersOK, buf

(* What the network keeps stays well typed...                              *)
NetTypeOK ==
    /\ link \in [Peers -> LinkStates]
    /\ backlog \in Seq(Peers)
    /\ fd_table \in [Fds -> Peers \cup {Nobody}]
    /\ wire \in [Peers -> Seq(Unit)]
    /\ read_buf \in [Fds -> Seq(Unit)]
    /\ connections \in Seq(Fds)
    /\ subscribed \subseteq Fds
    /\ ready \in Seq(Fds)
    /\ conn \in Fds \cup {0}
    /\ pc \in {"poll", "accept", "scan", "parse", "match", "send"}
    /\ alive \in BOOLEAN

(* ... when a connection goes...                                           *)
LEMMA RemovalTyped ==
    ASSUME NetTypeOK, NEW fd \in Fds, fd_table[fd] \in Peers, remove_connection(fd)
    PROVE  /\ link' \in [Peers -> LinkStates] /\ backlog' \in Seq(Peers)
           /\ fd_table' \in [Fds -> Peers \cup {Nobody}] /\ wire' \in [Peers -> Seq(Unit)]
           /\ read_buf' \in [Fds -> Seq(Unit)] /\ connections' \in Seq(Fds)
           /\ subscribed' \subseteq Fds
<1>1. connections' \in Seq(Fds)
  BY SiftSet DEF NetTypeOK, remove_connection
<1>2. <<>> \in Seq(Unit) /\ "closed" \in LinkStates
  BY EmptySeq DEF LinkStates
<1> QED BY <1>1, <1>2 DEF NetTypeOK, remove_connection

(* ... and on every step.                                                  *)
LEMMA NextNetTypeOK ==
    ASSUME ServerTypeOK, BuffersOK, NetInv, [ServerNext]_vars
    PROVE  NetTypeOK'
<1>0. NetTypeOK
  BY DEF ServerTypeOK, BuffersOK, NetTypeOK
<1>1. CASE Poll
  <2>1. ready' \in Seq(Fds)
    BY <1>0, <1>1, SiftSet DEF NetTypeOK, Poll
  <2> QED BY <2>1, <1>0, <1>1 DEF NetTypeOK, Poll, kernelVars
<1>2. CASE AcceptOne
  <2>1. PICK fd : fd = Min(FreeFds)
    OBVIOUS
  <2>2. fd \in Fds
    BY <2>1, <1>2, LowestFree DEF AcceptOne, FreeFds
  <2>3. Tail(backlog) \in Seq(Peers) /\ Head(backlog) \in Peers
    BY <1>0, <1>2, HeadTailProperties DEF NetTypeOK, AcceptOne
  <2>4. /\ fd_table' = [fd_table EXCEPT ![fd] = Head(backlog)]
        /\ connections' = Append(connections, fd) /\ backlog' = Tail(backlog)
        /\ UNCHANGED <<link, wire, alive, pc, read_buf, subscribed, ready, conn>>
    BY <2>1, <1>2 DEF AcceptOne
  <2>5. connections' \in Seq(Fds)
    BY <2>2, <2>4, <1>0, AppendProperties DEF NetTypeOK
  <2> QED BY <2>2, <2>3, <2>4, <2>5, <1>0 DEF NetTypeOK
<1>3. CASE RecvData
  <2>1. PICK fd, p : fd = Head(ready) /\ p = fd_table[fd]
    OBVIOUS
  <2>2. fd \in Fds /\ p \in Peers /\ Tail(ready) \in Seq(Fds)
    <3>1. ready # <<>> /\ ready \in Seq(Fds)
      BY <1>0, <1>3 DEF RecvData, NetTypeOK
    <3>2. Head(ready) \in ToSet(ready) /\ Tail(ready) \in Seq(Fds)
      BY <3>1, TailSet
    <3> QED BY <2>1, <3>2, ConnectionFacts DEF NetInv, ReadyOK
  <2>3. PICK n \in 1..Len(wire[p]) :
           /\ read_buf' = [read_buf EXCEPT ![fd] = @ \o SubSeq(wire[p], 1, n)]
           /\ wire' = [wire EXCEPT ![p] = SubSeq(@, n + 1, Len(@))]
    BY <2>1, <1>3 DEF RecvData
  <2>4. wire[p] \in Seq(Unit) /\ Len(wire[p]) \in Nat /\ read_buf[fd] \in Seq(Unit)
    BY <2>2, <1>0 DEF NetTypeOK
  <2>5. SubSeq(wire[p], 1, n) \in Seq(Unit) /\ SubSeq(wire[p], n + 1, Len(wire[p])) \in Seq(Unit)
    <3>1. /\ 1 \in Nat \ {0} /\ n + 1 \in Nat \ {0} /\ n \in 0..Len(wire[p])
          /\ Len(wire[p]) \in 0..Len(wire[p])
      BY <2>4
    <3> QED BY <3>1, <2>4, SubSeqTyped
  <2>6. read_buf[fd] \o SubSeq(wire[p], 1, n) \in Seq(Unit)
    BY <2>4, <2>5, ConcatProperties
  <2>7. read_buf' \in [Fds -> Seq(Unit)] /\ wire' \in [Peers -> Seq(Unit)]
    BY <2>3, <2>5, <2>6, <1>0 DEF NetTypeOK
  <2>8. /\ conn' = fd /\ ready' = Tail(ready) /\ pc' = "parse"
        /\ UNCHANGED <<alive, connections, subscribed, link, backlog, fd_table>>
    BY <2>1, <1>3 DEF RecvData
  <2> QED BY <2>2, <2>7, <2>8, <1>0 DEF NetTypeOK
<1>4. CASE RecvEnd
  <2>1. PICK fd : fd = Head(ready)
    OBVIOUS
  <2>2. fd \in Fds /\ fd_table[fd] \in Peers /\ Tail(ready) \in Seq(Fds)
    <3>1. ready # <<>> /\ ready \in Seq(Fds)
      BY <1>0, <1>4 DEF RecvEnd, NetTypeOK
    <3>2. Head(ready) \in ToSet(ready) /\ Tail(ready) \in Seq(Fds)
      BY <3>1, TailSet
    <3> QED BY <2>1, <3>2, ConnectionFacts DEF NetInv, ReadyOK
  <2>3. remove_connection(fd) /\ ready' = Tail(ready) /\ UNCHANGED <<alive, pc, conn>>
    BY <2>1, <1>4 DEF RecvEnd
  <2> QED BY <2>2, <2>3, <1>0, RemovalTyped DEF NetTypeOK
<1>5. CASE ParseViolation
  <2>1. Busy /\ remove_connection(conn) /\ pc' = "scan" /\ conn' = 0 /\ UNCHANGED <<alive, ready>>
    BY <1>5 DEF ParseViolation, Complete, Busy
  <2>2. conn \in Fds /\ fd_table[conn] \in Peers
    BY <2>1, ConnectionFacts DEF NetInv, HandlingOK
  <2> QED BY <2>1, <2>2, <1>0, RemovalTyped DEF NetTypeOK
<1>6. CASE \/ Subscribe \/ DispatchDuplicate \/ DispatchNewOrder \/ DispatchCancel
  <2>1. PICK tag : Complete(tag) /\ ConsumeMessage
    BY <1>6 DEF Subscribe, DispatchDuplicate, DispatchNewOrder, DispatchCancel
  <2>2. read_buf' \in [Fds -> Seq(Unit)] /\ conn \in Fds
    BY <2>1, ConsumeTyped, FrontOfBuffer
  <2>3. /\ UNCHANGED <<link, backlog, fd_table, wire, alive, connections, ready, conn>>
        /\ subscribed' \subseteq subscribed \cup {conn}
        /\ pc' \in {pc, "send", "match"}
    BY <1>6 DEF Subscribe, DispatchDuplicate, DispatchNewOrder, DispatchCancel, kernelVars
  <2> QED BY <2>2, <2>3, <1>0 DEF NetTypeOK
<1>7. CASE \/ AcceptDone \/ ScanDone \/ ParseWaits \/ SubmitTrades \/ SubmitReturn
           \/ ReportFill \/ DispatchDone \/ SendDelivered \/ SendToNobody \/ SendBroken
           \/ UNCHANGED vars
  <2>1. /\ UNCHANGED <<link, backlog, fd_table, wire, connections, read_buf, subscribed, ready>>
        /\ conn' \in {conn, 0}
        /\ pc' \in {pc, "scan", "poll", "send", "parse"}
        /\ alive' = alive \/ alive' = FALSE
    BY <1>7 DEF AcceptDone, ScanDone, ParseWaits, SubmitTrades, SubmitReturn, ReportFill,
                DispatchDone, SendDelivered, SendToNobody, SendBroken, sendFrame, vars,
                kernelVars, serverVars
  <2> QED BY <2>1, <1>0 DEF NetTypeOK
<1>8. CASE SendLost \/ \E p \in Peers : Connect(p) \/ ClientCloses(p) \/ ClientResets(p) \/ ResetArrives(p)
  <2>0. CASE SendLost
    <3>1. /\ UNCHANGED <<fd_table, wire, connections, read_buf, subscribed, ready, conn, pc, alive>>
          /\ backlog' = backlog /\ link' \in [Peers -> LinkStates]
      <4>1. link' = [link EXCEPT ![Target] = IF link[Target] = "aborted" THEN "broken" ELSE "fin_sent"]
        BY <2>0 DEF SendLost
      <4> QED BY <4>1, <2>0, <1>0 DEF SendLost, sendFrame, NetTypeOK, LinkStates
    <3> QED BY <3>1, <1>0 DEF NetTypeOK
  <2>1. ASSUME NEW p \in Peers, Connect(p) \/ ClientCloses(p) \/ ClientResets(p) \/ ResetArrives(p)
        PROVE  NetTypeOK'
    <3>1. /\ UNCHANGED <<fd_table, wire, connections, read_buf, subscribed, ready, conn, pc, alive>>
          /\ backlog' = backlog \/ backlog' = Append(backlog, p)
          /\ \E to \in LinkStates : link' = [link EXCEPT ![p] = to]
      BY <2>1 DEF Connect, ClientCloses, ClientResets, ResetArrives, kernelFrame, serverVars, LinkStates
    <3>2. backlog' \in Seq(Peers)
      <4>1. backlog \in Seq(Peers)
        BY <1>0 DEF NetTypeOK
      <4>2. Append(backlog, p) \in Seq(Peers)
        BY <4>1, AppendProperties
      <4> QED BY <3>1, <4>1, <4>2
    <3>3. link' \in [Peers -> LinkStates]
      BY <3>1, <1>0 DEF NetTypeOK
    <3> QED BY <3>1, <3>2, <3>3, <1>0 DEF NetTypeOK
  <2> QED BY <2>0, <2>1, <1>8
<1>9. ASSUME NEW p \in Peers, NEW m \in Requests, Write(p, m) PROVE NetTypeOK'
  <2>1. /\ wire' = [wire EXCEPT ![p] = wire[p] \o Units(m)]
        /\ UNCHANGED <<link, backlog, fd_table, connections, read_buf, subscribed, ready, conn, pc,
                       alive>>
    BY <1>9 DEF Write, kernelFrame, serverVars
  <2>2. wire[p] \o Units(m) \in Seq(Unit)
    BY <1>0, UnitsOfRequest, ConcatProperties DEF NetTypeOK
  <2> QED BY <2>1, <2>2, <1>0 DEF NetTypeOK
<1> QED BY <1>1, <1>2, <1>3, <1>4, <1>5, <1>6, <1>7, <1>8, <1>9
        DEF ServerNext, ServerStep, ClientStep

(* The owner map and the fills to report keep their types.                 *)
OwnerTypeOK ==
    /\ DOMAIN order_owner_fd \subseteq OrderIds
    /\ \A id \in DOMAIN order_owner_fd : order_owner_fd[id] \in Fds
    /\ to_report \in Seq(Fill)

(* ... on every step.                                                      *)
LEMMA NextOwnerTypeOK ==
    ASSUME ServerTypeOK, BuffersOK, NetInv, BookInv, [ServerNext]_vars
    PROVE  OwnerTypeOK'
<1>0. OwnerTypeOK
  BY DEF ServerTypeOK, BuffersOK, OwnerTypeOK
<1>1. CASE SubmitReturn
  <2>1. /\ incoming \in Order \cup {NoOrder} /\ incoming # NoOrder /\ fills \in Seq(Fill)
        /\ to_report' = fills
        /\ order_owner_fd' = IF Rests(incoming) THEN OwnerPut(incoming.id, conn) ELSE order_owner_fd
    BY <1>1 DEF SubmitReturn, Return, BookInv, BookTypeOK
  <2>2. incoming.id \in OrderIds
    BY <2>1 DEF Order
  <2>3. conn \in Fds
    BY <1>1, HandledIsOpen DEF SubmitReturn, Busy
  <2> QED BY <2>1, <2>2, <2>3, <1>0 DEF OwnerTypeOK, OwnerPut
<1>2. CASE ReportFill
  <2>1. Tail(to_report) \in Seq(Fill)
    BY <1>0, <1>2, HeadTailProperties DEF ReportFill, OwnerTypeOK
  <2> QED BY <2>1, <1>2, <1>0 DEF ReportFill, OwnerTypeOK, OwnerErase
<1>3. CASE DispatchCancel
  BY <1>3, <1>0 DEF DispatchCancel, OwnerTypeOK, OwnerErase
<1>4. ASSUME ~(SubmitReturn \/ ReportFill \/ DispatchCancel)
      PROVE  UNCHANGED <<order_owner_fd, to_report>>
  <2>1. CASE ServerStep
    BY <2>1, <1>4 DEF ServerStep, Poll, AcceptOne, RecvData, RecvEnd, ParseViolation,
         remove_connection, AcceptDone, ScanDone, ParseWaits, Subscribe, DispatchDuplicate,
         DispatchNewOrder, SubmitTrades, DispatchDone, serverVars,
         SendDelivered, SendToNobody, SendLost, SendBroken, sendFrame
  <2>2. CASE ClientStep
    BY <2>2 DEF ClientStep, Connect, Write, ClientCloses, ClientResets, ResetArrives, kernelFrame,
         serverVars
  <2>3. CASE UNCHANGED vars
    BY <2>3 DEF vars, serverVars
  <2> QED BY <2>1, <2>2, <2>3 DEF ServerNext
<1> QED BY <1>0, <1>1, <1>2, <1>3, <1>4 DEF OwnerTypeOK

-----------------------------------------------------------------------------
(* The owner map. *)

(* One trade: an order it uses up leaves the index and enters the fills.   *)
LEMMA TradeKeepsOwners ==
    ASSUME ServerTypeOK, BookInv, OwnersOK, SubmitTrades
    PROVE  OwnersOK'
<1>1. PICK f : /\ fills' = Append(fills, f)
               /\ \/ order_index' = order_index
                  \/ order_index' = IndexErase(f.resting_order_id)
  <2>1. MatchOne
    BY DEF SubmitTrades
  <2>2. PICK f : f = [resting_order_id  |->
                          book[Opposite(incoming.side)][BestPrice(Opposite(incoming.side))][1].id,
                      incoming_order_id |-> incoming.id,
                      resting_side      |-> Opposite(incoming.side),
                      price_ticks       |-> BestPrice(Opposite(incoming.side)),
                      quantity          |-> Smaller(incoming.quantity,
                          book[Opposite(incoming.side)][BestPrice(Opposite(incoming.side))][1].quantity),
                      timestamp         |-> next_timestamp]
    OBVIOUS
  <2>3. f.resting_order_id = book[Opposite(incoming.side)][BestPrice(Opposite(incoming.side))][1].id
    BY <2>2
  <2>4. fills' = Append(fills, f)
    BY <2>1, <2>2 DEF MatchOne
  <2> QED BY <2>1, <2>3, <2>4 DEF MatchOne
<1>2. pc = "match" /\ pc' = "match" /\ order_owner_fd' = order_owner_fd
  BY DEF SubmitTrades, serverVars
<1>3. f.resting_order_id \in Unreported' /\ Unreported \subseteq Unreported'
  <2>1. PICK g : g = fills'
    OBVIOUS
  <2>2. fills \in Seq(Fill) /\ Len(fills) \in Nat
    BY DEF BookInv, BookTypeOK
  <2>3. /\ Len(g) = Len(fills) + 1 /\ g[Len(fills) + 1] = f
        /\ \A i \in 1..Len(fills) : g[i] = fills[i]
    BY <2>1, <2>2, <1>1
  <2>4. Len(fills) + 1 \in 1..Len(g) /\ 1..Len(fills) \subseteq 1..Len(g)
    BY <2>2, <2>3
  <2>5. Unreported' = {g[i].resting_order_id : i \in 1..Len(g)}
    BY <2>1, <1>2 DEF Unreported
  <2>6. Unreported = {fills[i].resting_order_id : i \in 1..Len(fills)}
    BY <1>2 DEF Unreported
  <2> QED BY <2>3, <2>4, <2>5, <2>6
<1>4. /\ DOMAIN order_index' \subseteq DOMAIN order_index
      /\ DOMAIN order_index \subseteq DOMAIN order_index' \cup {f.resting_order_id}
  BY <1>1 DEF IndexErase
<1> QED BY <1>2, <1>3, <1>4 DEF OwnersOK

(* submit returns: its fills are now those to report, and the order that   *)
(* rests gets its owner.                                                   *)
LEMMA ReturnKeepsOwners ==
    ASSUME OwnersOK, SubmitReturn
    PROVE  OwnersOK'
<1>1. /\ pc = "match" /\ pc' = "send" /\ to_report' = fills
      /\ IF Rests(incoming)
         THEN order_index' = IndexPut(incoming.id, [price |-> incoming.price_ticks, side |-> incoming.side])
         ELSE order_index' = order_index
      /\ order_owner_fd' = IF Rests(incoming) THEN OwnerPut(incoming.id, conn) ELSE order_owner_fd
  BY DEF SubmitReturn, Return
<1>2. Unreported' = Unreported
  BY <1>1 DEF Unreported
<1>3. CASE Rests(incoming)
  <2>1. DOMAIN order_index' = DOMAIN order_index \cup {incoming.id}
    BY <1>1, <1>3 DEF IndexPut
  <2>2. DOMAIN order_owner_fd' = DOMAIN order_owner_fd \cup {incoming.id}
    BY <1>1, <1>3 DEF OwnerPut
  <2> QED BY <2>1, <2>2, <1>2 DEF OwnersOK
<1>4. CASE ~Rests(incoming)
  BY <1>1, <1>2, <1>4 DEF OwnersOK
<1> QED BY <1>3, <1>4

(* A fill is reported: its resting order is in the book, or its owner is   *)
(* forgotten now.                                                          *)
LEMMA ReportKeepsOwners ==
    ASSUME BuffersOK, OwnersOK, ReportFill
    PROVE  OwnersOK'
<1>1. PICK id : id = Head(to_report).resting_order_id
  OBVIOUS
<1>2. /\ pc = "send" /\ pc' = "send" /\ to_report # <<>> /\ to_report' = Tail(to_report)
      /\ order_index' = order_index
      /\ order_owner_fd' = IF contains(id) THEN order_owner_fd ELSE OwnerErase(id)
  BY <1>1 DEF ReportFill, bookVars
<1>3. Unreported \subseteq Unreported' \cup {id}
  <2>1. PICK r : r = to_report'
    OBVIOUS
  <2>2. to_report \in Seq(Fill)
    BY DEF BuffersOK
  <2>3. /\ Len(r) = Len(to_report) - 1 /\ Len(to_report) \in Nat /\ to_report[1].resting_order_id = id
        /\ \A i \in 1..Len(r) : r[i] = to_report[i + 1]
    BY <2>1, <2>2, <1>1, <1>2, HeadTailProperties
  <2>4. ASSUME NEW i \in 1..Len(to_report)
        PROVE  i = 1 \/ (i - 1 \in 1..Len(r) /\ r[i - 1] = to_report[i])
    <3>1. i = 1 \/ (i - 1 \in 1..Len(r) /\ (i - 1) + 1 = i)
      BY <2>3
    <3> QED BY <3>1, <2>3
  <2>5. Unreported' = {r[i].resting_order_id : i \in 1..Len(r)}
    BY <2>1, <1>2 DEF Unreported
  <2>6. Unreported = {to_report[i].resting_order_id : i \in 1..Len(to_report)}
    BY <1>2 DEF Unreported
  <2> QED BY <2>3, <2>4, <2>5, <2>6
<1>4. CASE contains(id)
  BY <1>2, <1>3, <1>4 DEF OwnersOK, contains
<1>5. CASE ~contains(id)
  <2>1. DOMAIN order_owner_fd' = DOMAIN order_owner_fd \ {id}
    BY <1>2, <1>5 DEF OwnerErase
  <2> QED BY <2>1, <1>2, <1>3, <1>5 DEF OwnersOK, contains
<1> QED BY <1>4, <1>5

(* A cancel erases the id from both maps, or from neither.                 *)
LEMMA CancelKeepsOwners ==
    ASSUME OwnersOK, DispatchCancel
    PROVE  OwnersOK'
<1>1. pc = "parse" /\ Unreported = {}
  BY DEF DispatchCancel, Complete, Unreported
<1>2. \/ order_index' = IndexErase(Msg.id) /\ order_owner_fd' = OwnerErase(Msg.id)
      \/ order_index' = order_index /\ order_owner_fd' = order_owner_fd
  BY DEF DispatchCancel, CancelFound, CancelNotFound
<1>3. DOMAIN order_index = DOMAIN order_owner_fd
  BY <1>1 DEF OwnersOK
<1>4. DOMAIN order_index' = DOMAIN order_owner_fd'
  BY <1>2, <1>3 DEF IndexErase, OwnerErase
<1> QED BY <1>4 DEF OwnersOK

(* The other steps leave both maps alone, and none of them ends a dispatch *)
(* that has fills to report.                                               *)
LEMMA QuietKeepsOwners ==
    ASSUME OwnersOK, [ServerNext]_vars,
           ~(SubmitTrades \/ SubmitReturn \/ ReportFill \/ DispatchCancel)
    PROVE  OwnersOK'
<1>1. UNCHANGED <<order_index, order_owner_fd>> /\ Unreported \subseteq Unreported'
  <2>1. CASE \/ Poll \/ AcceptOne \/ RecvData \/ RecvEnd \/ ParseViolation \/ AcceptDone \/ ScanDone
             \/ ParseWaits \/ Subscribe \/ DispatchDuplicate \/ DispatchNewOrder
    <3>1. UNCHANGED <<order_index, order_owner_fd>> /\ pc \in {"poll", "accept", "scan", "parse"}
      BY <2>1 DEF Poll, AcceptOne, RecvData, RecvEnd, ParseViolation, remove_connection,
           AcceptDone, ScanDone, ParseWaits, Subscribe, DispatchDuplicate, DispatchNewOrder,
           SubmitBegin, Complete, bookVars
    <3> QED BY <3>1 DEF Unreported
  <2>2. CASE DispatchDone
    <3>1. /\ UNCHANGED <<order_index, order_owner_fd>>
          /\ pc = "send" /\ to_report = <<>>
      BY <2>2 DEF DispatchDone, bookVars
    <3> QED BY <3>1 DEF Unreported
  <2>3. CASE SendDelivered \/ SendToNobody \/ SendLost \/ SendBroken \/ UNCHANGED vars
    <3>1. UNCHANGED <<order_index, order_owner_fd, pc, fills, to_report>>
      BY <2>3 DEF SendDelivered, SendToNobody, SendLost, SendBroken, sendFrame, bookVars, vars,
           serverVars
    <3> QED BY <3>1 DEF Unreported
  <2>4. CASE ClientStep
    <3>1. UNCHANGED <<order_index, order_owner_fd, pc, fills, to_report>>
      BY <2>4 DEF ClientStep, Connect, Write, ClientCloses, ClientResets, ResetArrives,
           kernelFrame, bookVars, serverVars
    <3> QED BY <3>1 DEF Unreported
  <2> QED BY <2>1, <2>2, <2>3, <2>4 DEF ServerNext, ServerStep
<1> QED BY <1>1 DEF OwnersOK

-----------------------------------------------------------------------------
(* The theorems. *)

(* The invariant holds at the start...                                     *)
LEMMA InitServerInv == ServerInit => ServerInv
<1> SUFFICES ASSUME ServerInit PROVE ServerInv
  OBVIOUS
<1>1. BookInv
  BY InitBookInv DEF ServerInit
<1>2. ServerTypeOK /\ BuffersOK
  <2>1. \A T : <<>> \in Seq(T)
    BY EmptySeq
  <2> QED BY <2>1 DEF ServerInit, ServerTypeOK, BuffersOK, LinkStates
<1>3. ToSet(<<>>) = {} /\ Len(<<>>) = 0
  BY EmptySeq DEF ToSet
<1>4. NetInv
  <2>1. connections = <<>> /\ ready = <<>> /\ backlog = <<>> /\ pc = "poll" /\ subscribed = {}
    BY DEF ServerInit
  <2>2. fd_table = [fd \in Fds |-> Nobody] /\ read_buf = [fd \in Fds |-> <<>>]
    BY DEF ServerInit
  <2>3. NoDuplicates(<<>>)
    BY <1>3 DEF NoDuplicates
  <2>4. SocketsOK
    BY <2>1, <2>2, <2>3, <1>3, ServerAssumption DEF SocketsOK
  <2>5. ConnectionsMatchFds
    BY <2>1, <2>2, <1>3 DEF ConnectionsMatchFds
  <2>6. HandlingOK /\ ReadyOK
    BY <2>1, <2>3, <1>3 DEF HandlingOK, ReadyOK, Busy
  <2> QED BY <2>4, <2>5, <2>6 DEF NetInv
<1>5. OwnersOK
  BY DEF ServerInit, BookInit, OwnersOK
<1> QED BY <1>1, <1>2, <1>4, <1>5 DEF ServerInv

(* ... and every step of the server and of its clients keeps it.           *)
LEMMA NextServerInv == ServerInv /\ [ServerNext]_vars => ServerInv'
<1> SUFFICES ASSUME ServerInv, [ServerNext]_vars PROVE ServerInv'
  OBVIOUS
<1>0. ServerTypeOK /\ BuffersOK /\ BookInv /\ NetInv /\ OwnersOK
  BY DEF ServerInv
<1>1. BookInv'
  BY <1>0, NextIsBookStep, NextBookInv
<1>2. NetInv'
  BY <1>0, NextNetInv
<1>3. NetTypeOK' /\ OwnerTypeOK'
  BY <1>0, NextNetTypeOK, NextOwnerTypeOK
<1>4. ServerTypeOK' /\ BuffersOK'
  BY <1>3 DEF NetTypeOK, OwnerTypeOK, ServerTypeOK, BuffersOK
<1>5. OwnersOK'
  BY <1>0, TradeKeepsOwners, ReturnKeepsOwners, ReportKeepsOwners, CancelKeepsOwners, QuietKeepsOwners
<1> QED BY <1>1, <1>2, <1>4, <1>5 DEF ServerInv

(* What run, handle_readable and the dispatch functions of server.cpp keep *)
(* between any two of their steps, whatever the clients do meanwhile.      *)
THEOREM ServerInvariant == ServerSpec => []ServerInv
BY InitServerInv, NextServerInv, PTL DEF ServerSpec

(* The server's members and the kernel's tables keep their types: owners   *)
(* are descriptors, and the connection being handled is one.               *)
THEOREM ServerTypeCorrect == ServerSpec => []ServerTypeOK
<1>1. ServerInv => ServerTypeOK
  BY DEF ServerInv
<1> QED BY <1>1, ServerInvariant, PTL

(* order_owner_fd_ names exactly the resting orders whenever no dispatch   *)
(* is in progress: dispatch_new_order and dispatch_cancel keep it in step  *)
(* with the book's own index.                                              *)
THEOREM OwnersCorrect == ServerSpec => []OwnersAreResting
<1>1. ServerInv => OwnersAreResting
  <2> SUFFICES ASSUME ServerInv, BetweenDispatches
               PROVE  DOMAIN order_owner_fd = DOMAIN order_index
    BY DEF OwnersAreResting
  <2>1. Unreported = {}
    BY DEF BetweenDispatches, Unreported
  <2> QED BY <2>1 DEF ServerInv, OwnersOK
<1> QED BY <1>1, ServerInvariant, PTL

(* What poll reported is still there and still readable when run comes to  *)
(* it, so recv never blocks and handle_readable is never given a           *)
(* descriptor that was closed or given to somebody else.                   *)
THEOREM ReadyNeverStale == ServerSpec => []ReadyIsReadable
<1>1. ServerInv => ReadyIsReadable
  BY DEF ServerInv, NetInv, ReadyOK, ReadyIsReadable
<1> QED BY <1>1, ServerInvariant, PTL

(* connections_ lists exactly the open descriptors, and what a connection  *)
(* leaves behind is cleared before its descriptor is used again.           *)
THEOREM ConnectionsCorrect == ServerSpec => []ConnectionsMatchFds
<1>1. ServerInv => ConnectionsMatchFds
  BY DEF ServerInv, NetInv
<1> QED BY <1>1, ServerInvariant, PTL

(* The server drives its book only through submit and cancel, one call at  *)
(* a time, however the clients' requests are interleaved: what is proved   *)
(* of the book holds in the server.                                        *)
THEOREM ServerRunsTheBook == ServerSpec => BookInit /\ [][BookNext]_bookVars
<1>1. ServerInit => BookInit
  BY DEF ServerInit
<1>2. ServerInv /\ [ServerNext]_vars => [BookNext]_bookVars
  BY NextIsBookStep DEF ServerInv
<1> QED BY <1>1, <1>2, ServerInvariant, PTL DEF ServerSpec

(* The book that the clients share implements price-time priority: every   *)
(* fill of any client's order is with the best and earliest counter-order  *)
(* of all clients, and a cancel removes the order it names and no other.   *)
THEOREM ServerKeepsPriority == ServerSpec => ImplementsPriceTimePriority
<1>1. BookInit => Abstract!Init
  BY InitRefines
<1>2. ServerInv /\ [BookNext]_bookVars => [Abstract!Next]_(Abstract!vars)
  BY NextRefines DEF ServerInv
<1> QED BY <1>1, <1>2, ServerInvariant, ServerRunsTheBook, PTL
        DEF ImplementsPriceTimePriority, Abstract!Spec

-----------------------------------------------------------------------------
(***************************************************************************)
(* What the clients receive: each request is answered once and in order,   *)
(* every fill reaches each client entitled to it once and in order, and an *)
(* order's ack comes before its fills.                                     *)
(*                                                                         *)
(* The properties speak of the moments between dispatches.  The invariants *)
(* speak of every moment: in the middle of a dispatch the messages in the  *)
(* outbox that are bound for a client are counted as if it had them (Due), *)
(* and so is the ack of the order being matched (Owed).  A send then       *)
(* changes nothing for a client that is still connected.  That a fill is   *)
(* never confused with an earlier one follows from the timestamps, and     *)
(* that it finds the client that made the resting order from who holds     *)
(* the descriptor in the owner map (MakersOK).                             *)
(***************************************************************************)

Message  == Acks \cup FillMsgs
Envelope == [fd : Fds, msg : Message]

(* The messages of the outbox that are bound for the client.               *)
BoundIn(sends, table, p) ==
    LET r == Sift(sends, {e \in Envelope : table[e.fd] = p})
    IN  [i \in 1..Len(r) |-> r[i].msg]

Bound(p) == BoundIn(outbox, fd_table, p)

(* What the client has, and will have when the outbox has been sent.       *)
Due(p) == Cat(inbox[p], Bound(p))

(* The ack that submit will be followed by.                                *)
Owed(p) ==
    IF pc = "match" /\ fd_table[conn] = p
    THEN One([id |-> incoming.id, request |-> "NewOrder"]) ELSE <<>>

Reachable(p) == link[p] \in {"new", "open"}

(* What was written, what is on its way and what has arrived.              *)
MessagesOK ==
    /\ requested \in [Peers -> Seq(Requests)]
    /\ inbox \in [Peers -> Seq(Message)]
    /\ outbox \in Seq(Envelope)

(* The outbox holds the ack of the request being dispatched, or fills, and *)
(* an order that is being matched has an id.                               *)
OutboxOK ==
    /\ pc = "match" => incoming.id \in OrderIds
    /\ pc # "send" => outbox = <<>> /\ to_report = <<>>
    /\ \A i \in 1..Len(outbox) :
          outbox[i].msg \in Acks => Len(outbox) = 1 /\ outbox[i].fd = conn

(* Each message on a stream is whole: its tag, and its body if it has one. *)
Framed(u) ==
    \A i \in 1..Len(u) :
        /\ u[i].part = "tag" /\ HasBody(u[i].msg) =>
              i + 1 \in 1..Len(u) /\ u[i + 1] = [part |-> "body", msg |-> u[i].msg]
        /\ u[i].part = "body" =>
              i - 1 \in 1..Len(u) /\ u[i - 1] = [part |-> "tag", msg |-> u[i].msg]
                                  /\ HasBody(u[i].msg)

StreamsOK == \A p \in Peers : Framed(Stream(p))

(* Acks had or due, the ack owed, and the requests not yet dispatched are  *)
(* together what the client wrote.                                         *)
Balance(due, owed, stream, req) ==
    Cat(Cat(AckKeysIn(due), owed), RequestKeys(MessagesIn(stream))) = RequestKeys(req)

AcksOK ==
    \A p \in Peers : Reachable(p) => Balance(Due(p), Owed(p), Stream(p), requested[p])

AnswerInv == MessagesOK /\ OutboxOK /\ StreamsOK /\ AcksOK

-----------------------------------------------------------------------------
(* The fills of the dispatch in progress that are not reported yet.        *)
Coming == CASE pc = "match" -> fills
            [] pc = "send"  -> to_report
            [] OTHER        -> <<>>

Reported == UNION {taken[p] : p \in Peers}

HistoryTypeOK ==
    /\ entitled \in [Peers -> Seq(Fill)]
    /\ taken \in [Peers -> SUBSET Fill]

(* The fills of one submit are with different orders, and later than all   *)
(* fills of earlier ones.                                                  *)
ComingOK ==
    /\ pc # "match" => incoming = NoOrder /\ fills = <<>>
    /\ \A i, j \in 1..Len(Coming) : i < j =>
          /\ Coming[i].timestamp < Coming[j].timestamp
          /\ Coming[i].resting_order_id # Coming[j].resting_order_id
    /\ \A i \in 1..Len(Coming) : Coming[i].timestamp < next_timestamp
    /\ pc = "match" => \A i \in 1..Len(fills) :
          /\ fills[i].incoming_order_id = incoming.id
          /\ fills[i].resting_order_id # incoming.id
          /\ incoming.quantity > 0 => ~contains(fills[i].resting_order_id)

(* What clients have, are about to get or are entitled to was reported,    *)
(* and what is reported later is later.                                    *)
ReportedOK ==
    /\ \A g \in Reported : /\ g.timestamp < next_timestamp
                           /\ \A i \in 1..Len(Coming) : g.timestamp < Coming[i].timestamp
    /\ \A p \in Peers : /\ ToSet(entitled[p]) \subseteq Reported
                        /\ \A f \in Fill : FillMsg(f) \in ToSet(inbox[p]) => f \in Reported
    /\ \A i \in 1..Len(outbox), f \in Fill : outbox[i].msg = FillMsg(f) => f \in Reported

(* The owner map leads to the client that made the order, as long as that  *)
(* client is connected.                                                    *)
MakersOK ==
    /\ \A i \in 1..Len(Coming) : Coming[i].resting_order_id \in DOMAIN order_owner_fd
    /\ DOMAIN order_owner_fd \subseteq DOMAIN maker_of
    /\ \A id \in DOMAIN order_owner_fd :
          /\ maker_of[id] \in Peers /\ link[maker_of[id]] # "new"
          /\ link[maker_of[id]] = "open" => fd_table[order_owner_fd[id]] = maker_of[id]

(* Fills had or due that the client is entitled to are all of those.       *)
FillsOK ==
    \A p \in Peers : Reachable(p) =>
        Sift(FillsIn(Due(p)), ToSet(entitled[p])) = entitled[p]

(* The ack of the order whose fills are being reported has gone out, or is *)
(* the one message in the outbox.                                          *)
AckFirstOK ==
    /\ AckPrecedesFills
    /\ \A i \in 1..Len(outbox), f \in Fill : outbox[i].msg = FillMsg(f) =>
          /\ \A q \in Peers : f \in taken[q] => q = fd_table[conn]
          /\ link[fd_table[conn]] = "open" =>
                Ack(f.incoming_order_id, "NewOrder", 0) \in ToSet(inbox[fd_table[conn]])
    /\ pc = "send" /\ link[fd_table[conn]] = "open" =>
          \A i \in 1..Len(to_report) :
              Ack(to_report[i].incoming_order_id, "NewOrder", 0) \in ToSet(Due(fd_table[conn]))

RoutingInv == HistoryTypeOK /\ ComingOK /\ ReportedOK /\ MakersOK /\ FillsOK /\ AckFirstOK

-----------------------------------------------------------------------------
(* What the properties read off sequences of messages. *)

Keys     == [id : OrderIds, request : {"NewOrder", "Cancel"}]
TagUnits == [part : {"tag"}, msg : Requests]

KeyOf    == [m \in Answered |-> Key(m)]
AckKeyOf == [m \in Acks |-> AckKey(m)]
MsgOf    == [u \in TagUnits |-> u.msg]
FillOf   == [m \in FillMsgs |-> m.fill]

(* The keys of requests.                                                   *)
LEMMA RequestKeysLaws ==
    ASSUME NEW s \in Seq(Requests), NEW t \in Seq(Requests), NEW x
    PROVE  /\ RequestKeys(s) \in Seq(Keys)
           /\ RequestKeys(Cat(s, t)) = Cat(RequestKeys(s), RequestKeys(t))
           /\ RequestKeys(One(x)) = IF x \in Answered THEN One(KeyOf[x]) ELSE <<>>
           /\ RequestKeys(<<>>) = <<>>
           /\ ToSet(RequestKeys(s)) = Image(KeyOf, ToSet(s) \cap Answered)
<1>1. Maps(KeyOf, Answered, Keys)
  BY RequestsAssumption DEF Maps, KeyOf, Answered, Key, Keys
<1>2. ASSUME NEW X, NEW u \in Seq(X) PROVE RequestKeys(u) = Picked(u, Answered, KeyOf)
  <2>1. PICK r : r = Sift(u, Answered)
    OBVIOUS
  <2>2. r \in Seq(Answered)
    BY <2>1, SiftTyped
  <2>3. \A i \in 1..Len(r) : r[i] \in Answered
    BY <2>2, ElementOfSeq
  <2>4. \A i \in 1..Len(r) : KeyOf[r[i]] = Key(r[i])
    BY <2>3 DEF KeyOf
  <2>5. RequestKeys(u) = [i \in 1..Len(r) |-> Key(r[i])]
    BY <2>1 DEF RequestKeys
  <2>6. Picked(u, Answered, KeyOf) = [i \in 1..Len(r) |-> KeyOf[r[i]]]
    BY <2>1 DEF Picked, Through
  <2> QED BY <2>4, <2>5, <2>6
<1>3. One(x) \in Seq({x}) /\ Cat(s, t) \in Seq(Requests)
  <2>1. <<>> \in Seq({x})
    BY EmptySeq
  <2>2. One(x) \in Seq({x})
    BY <2>1, OneLaws
  <2> QED BY <2>2, CatLaws
<1>4. /\ RequestKeys(s) = Picked(s, Answered, KeyOf) /\ RequestKeys(t) = Picked(t, Answered, KeyOf)
      /\ RequestKeys(Cat(s, t)) = Picked(Cat(s, t), Answered, KeyOf)
  BY <1>2, <1>3
<1>5. RequestKeys(One(x)) = Picked(One(x), Answered, KeyOf)
  BY <1>2, <1>3
<1>6. RequestKeys(<<>>) = Picked(<<>>, Answered, KeyOf)
  <2>1. PICK n : n = <<>>
    OBVIOUS
  <2>2. n \in Seq({x})
    BY <2>1, EmptySeq
  <2>3. RequestKeys(n) = Picked(n, Answered, KeyOf)
    BY <2>2, <1>2
  <2> QED BY <2>1, <2>3
<1>7. /\ Picked(s, Answered, KeyOf) \in Seq(Keys)
      /\ Picked(Cat(s, t), Answered, KeyOf) = Cat(Picked(s, Answered, KeyOf), Picked(t, Answered, KeyOf))
      /\ ToSet(Picked(s, Answered, KeyOf)) = Image(KeyOf, ToSet(s) \cap Answered)
  <2>1. Picked(s, Answered, KeyOf) \in Seq(Keys)
    BY <1>1, PickedTyped
  <2>2. Picked(Cat(s, t), Answered, KeyOf) = Cat(Picked(s, Answered, KeyOf), Picked(t, Answered, KeyOf))
    BY <1>1, PickedCat
  <2>3. ToSet(Picked(s, Answered, KeyOf)) = Image(KeyOf, ToSet(s) \cap Answered)
    BY <1>1, PickedSet
  <2> QED BY <2>1, <2>2, <2>3
<1>8. /\ Picked(One(x), Answered, KeyOf) = IF x \in Answered THEN One(KeyOf[x]) ELSE <<>>
      /\ Picked(<<>>, Answered, KeyOf) = <<>>
  BY <1>1, PickedOne
<1> QED BY <1>4, <1>5, <1>6, <1>7, <1>8

(* The keys of acks.                                                       *)
LEMMA AckKeysInLaws ==
    ASSUME NEW s \in Seq(Message), NEW t \in Seq(Message), NEW x
    PROVE  /\ AckKeysIn(s) \in Seq(Keys)
           /\ AckKeysIn(Cat(s, t)) = Cat(AckKeysIn(s), AckKeysIn(t))
           /\ AckKeysIn(One(x)) = IF x \in Acks THEN One(AckKeyOf[x]) ELSE <<>>
           /\ AckKeysIn(<<>>) = <<>>
           /\ ToSet(AckKeysIn(s)) = Image(AckKeyOf, ToSet(s) \cap Acks)
<1>1. Maps(AckKeyOf, Acks, Keys)
  BY DEF Maps, AckKeyOf, Acks, AckKey, Keys
<1>2. ASSUME NEW X, NEW u \in Seq(X) PROVE AckKeysIn(u) = Picked(u, Acks, AckKeyOf)
  <2>1. PICK r : r = Sift(u, Acks)
    OBVIOUS
  <2>2. r \in Seq(Acks)
    BY <2>1, SiftTyped
  <2>3. \A i \in 1..Len(r) : r[i] \in Acks
    BY <2>2, ElementOfSeq
  <2>4. \A i \in 1..Len(r) : AckKeyOf[r[i]] = AckKey(r[i])
    BY <2>3 DEF AckKeyOf
  <2>5. AckKeysIn(u) = [i \in 1..Len(r) |-> AckKey(r[i])]
    BY <2>1 DEF AckKeysIn
  <2>6. Picked(u, Acks, AckKeyOf) = [i \in 1..Len(r) |-> AckKeyOf[r[i]]]
    BY <2>1 DEF Picked, Through
  <2> QED BY <2>4, <2>5, <2>6
<1>3. One(x) \in Seq({x}) /\ Cat(s, t) \in Seq(Message)
  <2>1. <<>> \in Seq({x})
    BY EmptySeq
  <2>2. One(x) \in Seq({x})
    BY <2>1, OneLaws
  <2> QED BY <2>2, CatLaws
<1>4. /\ AckKeysIn(s) = Picked(s, Acks, AckKeyOf) /\ AckKeysIn(t) = Picked(t, Acks, AckKeyOf)
      /\ AckKeysIn(Cat(s, t)) = Picked(Cat(s, t), Acks, AckKeyOf)
  BY <1>2, <1>3
<1>5. AckKeysIn(One(x)) = Picked(One(x), Acks, AckKeyOf)
  BY <1>2, <1>3
<1>6. AckKeysIn(<<>>) = Picked(<<>>, Acks, AckKeyOf)
  <2>1. PICK n : n = <<>>
    OBVIOUS
  <2>2. n \in Seq({x})
    BY <2>1, EmptySeq
  <2>3. AckKeysIn(n) = Picked(n, Acks, AckKeyOf)
    BY <2>2, <1>2
  <2> QED BY <2>1, <2>3
<1>7. /\ Picked(s, Acks, AckKeyOf) \in Seq(Keys)
      /\ Picked(Cat(s, t), Acks, AckKeyOf) = Cat(Picked(s, Acks, AckKeyOf), Picked(t, Acks, AckKeyOf))
      /\ ToSet(Picked(s, Acks, AckKeyOf)) = Image(AckKeyOf, ToSet(s) \cap Acks)
  <2>1. Picked(s, Acks, AckKeyOf) \in Seq(Keys)
    BY <1>1, PickedTyped
  <2>2. Picked(Cat(s, t), Acks, AckKeyOf) = Cat(Picked(s, Acks, AckKeyOf), Picked(t, Acks, AckKeyOf))
    BY <1>1, PickedCat
  <2>3. ToSet(Picked(s, Acks, AckKeyOf)) = Image(AckKeyOf, ToSet(s) \cap Acks)
    BY <1>1, PickedSet
  <2> QED BY <2>1, <2>2, <2>3
<1>8. /\ Picked(One(x), Acks, AckKeyOf) = IF x \in Acks THEN One(AckKeyOf[x]) ELSE <<>>
      /\ Picked(<<>>, Acks, AckKeyOf) = <<>>
  BY <1>1, PickedOne
<1> QED BY <1>4, <1>5, <1>6, <1>7, <1>8

(* The messages whose tags are in a stream.                                *)
LEMMA MessagesInLaws ==
    ASSUME NEW s \in Seq(Unit), NEW t \in Seq(Unit), NEW x
    PROVE  /\ MessagesIn(s) \in Seq(Requests)
           /\ MessagesIn(Cat(s, t)) = Cat(MessagesIn(s), MessagesIn(t))
           /\ MessagesIn(One(x)) = IF x \in TagUnits THEN One(MsgOf[x]) ELSE <<>>
           /\ MessagesIn(<<>>) = <<>>
           /\ ToSet(MessagesIn(s)) = Image(MsgOf, ToSet(s) \cap TagUnits)
<1>1. Maps(MsgOf, TagUnits, Requests)
  BY DEF Maps, MsgOf, TagUnits
<1>2. ASSUME NEW X, NEW u \in Seq(X) PROVE MessagesIn(u) = Picked(u, TagUnits, MsgOf)
  <2>1. PICK r : r = Sift(u, TagUnits)
    OBVIOUS
  <2>2. r \in Seq(TagUnits)
    BY <2>1, SiftTyped
  <2>3. \A i \in 1..Len(r) : r[i] \in TagUnits
    BY <2>2, ElementOfSeq
  <2>4. \A i \in 1..Len(r) : MsgOf[r[i]] = r[i].msg
    BY <2>3 DEF MsgOf
  <2>5. MessagesIn(u) = [i \in 1..Len(r) |-> r[i].msg]
    BY <2>1 DEF MessagesIn, TagUnits
  <2>6. Picked(u, TagUnits, MsgOf) = [i \in 1..Len(r) |-> MsgOf[r[i]]]
    BY <2>1 DEF Picked, Through
  <2> QED BY <2>4, <2>5, <2>6
<1>3. One(x) \in Seq({x}) /\ Cat(s, t) \in Seq(Unit)
  <2>1. <<>> \in Seq({x})
    BY EmptySeq
  <2>2. One(x) \in Seq({x})
    BY <2>1, OneLaws
  <2> QED BY <2>2, CatLaws
<1>4. /\ MessagesIn(s) = Picked(s, TagUnits, MsgOf) /\ MessagesIn(t) = Picked(t, TagUnits, MsgOf)
      /\ MessagesIn(Cat(s, t)) = Picked(Cat(s, t), TagUnits, MsgOf)
  BY <1>2, <1>3
<1>5. MessagesIn(One(x)) = Picked(One(x), TagUnits, MsgOf)
  BY <1>2, <1>3
<1>6. MessagesIn(<<>>) = Picked(<<>>, TagUnits, MsgOf)
  <2>1. PICK n : n = <<>>
    OBVIOUS
  <2>2. n \in Seq({x})
    BY <2>1, EmptySeq
  <2>3. MessagesIn(n) = Picked(n, TagUnits, MsgOf)
    BY <2>2, <1>2
  <2> QED BY <2>1, <2>3
<1>7. /\ Picked(s, TagUnits, MsgOf) \in Seq(Requests)
      /\ Picked(Cat(s, t), TagUnits, MsgOf) = Cat(Picked(s, TagUnits, MsgOf), Picked(t, TagUnits, MsgOf))
      /\ ToSet(Picked(s, TagUnits, MsgOf)) = Image(MsgOf, ToSet(s) \cap TagUnits)
  <2>1. Picked(s, TagUnits, MsgOf) \in Seq(Requests)
    BY <1>1, PickedTyped
  <2>2. Picked(Cat(s, t), TagUnits, MsgOf) = Cat(Picked(s, TagUnits, MsgOf), Picked(t, TagUnits, MsgOf))
    BY <1>1, PickedCat
  <2>3. ToSet(Picked(s, TagUnits, MsgOf)) = Image(MsgOf, ToSet(s) \cap TagUnits)
    BY <1>1, PickedSet
  <2> QED BY <2>1, <2>2, <2>3
<1>8. /\ Picked(One(x), TagUnits, MsgOf) = IF x \in TagUnits THEN One(MsgOf[x]) ELSE <<>>
      /\ Picked(<<>>, TagUnits, MsgOf) = <<>>
  BY <1>1, PickedOne
<1> QED BY <1>4, <1>5, <1>6, <1>7, <1>8

(* The fills among the messages.                                           *)
LEMMA FillsInLaws ==
    ASSUME NEW s \in Seq(Message), NEW t \in Seq(Message), NEW x
    PROVE  /\ FillsIn(s) \in Seq(Fill)
           /\ FillsIn(Cat(s, t)) = Cat(FillsIn(s), FillsIn(t))
           /\ FillsIn(One(x)) = IF x \in FillMsgs THEN One(FillOf[x]) ELSE <<>>
           /\ FillsIn(<<>>) = <<>>
           /\ ToSet(FillsIn(s)) = Image(FillOf, ToSet(s) \cap FillMsgs)
<1>1. Maps(FillOf, FillMsgs, Fill)
  BY DEF Maps, FillOf, FillMsgs
<1>2. ASSUME NEW X, NEW u \in Seq(X) PROVE FillsIn(u) = Picked(u, FillMsgs, FillOf)
  <2>1. PICK r : r = Sift(u, FillMsgs)
    OBVIOUS
  <2>2. r \in Seq(FillMsgs)
    BY <2>1, SiftTyped
  <2>3. \A i \in 1..Len(r) : r[i] \in FillMsgs
    BY <2>2, ElementOfSeq
  <2>4. \A i \in 1..Len(r) : FillOf[r[i]] = r[i].fill
    BY <2>3 DEF FillOf
  <2>5. FillsIn(u) = [i \in 1..Len(r) |-> r[i].fill]
    BY <2>1 DEF FillsIn
  <2>6. Picked(u, FillMsgs, FillOf) = [i \in 1..Len(r) |-> FillOf[r[i]]]
    BY <2>1 DEF Picked, Through
  <2> QED BY <2>4, <2>5, <2>6
<1>3. One(x) \in Seq({x}) /\ Cat(s, t) \in Seq(Message)
  <2>1. <<>> \in Seq({x})
    BY EmptySeq
  <2>2. One(x) \in Seq({x})
    BY <2>1, OneLaws
  <2> QED BY <2>2, CatLaws
<1>4. /\ FillsIn(s) = Picked(s, FillMsgs, FillOf) /\ FillsIn(t) = Picked(t, FillMsgs, FillOf)
      /\ FillsIn(Cat(s, t)) = Picked(Cat(s, t), FillMsgs, FillOf)
  BY <1>2, <1>3
<1>5. FillsIn(One(x)) = Picked(One(x), FillMsgs, FillOf)
  BY <1>2, <1>3
<1>6. FillsIn(<<>>) = Picked(<<>>, FillMsgs, FillOf)
  <2>1. PICK n : n = <<>>
    OBVIOUS
  <2>2. n \in Seq({x})
    BY <2>1, EmptySeq
  <2>3. FillsIn(n) = Picked(n, FillMsgs, FillOf)
    BY <2>2, <1>2
  <2> QED BY <2>1, <2>3
<1>7. /\ Picked(s, FillMsgs, FillOf) \in Seq(Fill)
      /\ Picked(Cat(s, t), FillMsgs, FillOf) = Cat(Picked(s, FillMsgs, FillOf), Picked(t, FillMsgs, FillOf))
      /\ ToSet(Picked(s, FillMsgs, FillOf)) = Image(FillOf, ToSet(s) \cap FillMsgs)
  <2>1. Picked(s, FillMsgs, FillOf) \in Seq(Fill)
    BY <1>1, PickedTyped
  <2>2. Picked(Cat(s, t), FillMsgs, FillOf) = Cat(Picked(s, FillMsgs, FillOf), Picked(t, FillMsgs, FillOf))
    BY <1>1, PickedCat
  <2>3. ToSet(Picked(s, FillMsgs, FillOf)) = Image(FillOf, ToSet(s) \cap FillMsgs)
    BY <1>1, PickedSet
  <2> QED BY <2>1, <2>2, <2>3
<1>8. /\ Picked(One(x), FillMsgs, FillOf) = IF x \in FillMsgs THEN One(FillOf[x]) ELSE <<>>
      /\ Picked(<<>>, FillMsgs, FillOf) = <<>>
  BY <1>1, PickedOne
<1> QED BY <1>4, <1>5, <1>6, <1>7, <1>8

(* The messages bound for a client among some sends.                       *)
LEMMA BoundLaws ==
    ASSUME NEW s \in Seq(Envelope), NEW t \in Seq(Envelope), NEW table, NEW p, NEW x
    PROVE  /\ BoundIn(s, table, p) \in Seq(Message)
           /\ BoundIn(Cat(s, t), table, p) = Cat(BoundIn(s, table, p), BoundIn(t, table, p))
           /\ x \in Envelope /\ table[x.fd] = p => BoundIn(One(x), table, p) = One(x.msg)
           /\ x \in Envelope /\ table[x.fd] # p => BoundIn(One(x), table, p) = <<>>
           /\ BoundIn(<<>>, table, p) = <<>>
           /\ (\A i \in 1..Len(s) : table[s[i].fd] # p) => BoundIn(s, table, p) = <<>>
<1>0. PICK S : S = {e \in Envelope : table[e.fd] = p}
  OBVIOUS
<1>0a. PICK g : g = [e \in S |-> e.msg]
  OBVIOUS
<1>0b. \A e \in S : e.msg \in Message
  BY <1>0 DEF Envelope
<1>1. Maps(g, S, Message)
  BY <1>0a, <1>0b DEF Maps
<1>2. ASSUME NEW X, NEW u \in Seq(X) PROVE BoundIn(u, table, p) = Picked(u, S, g)
  <2>1. PICK r : r = Sift(u, S)
    OBVIOUS
  <2>2. r \in Seq(S)
    BY <2>1, SiftTyped
  <2>3. \A i \in 1..Len(r) : r[i] \in S
    BY <2>2, ElementOfSeq
  <2>4. \A i \in 1..Len(r) : g[r[i]] = r[i].msg
    BY <2>3, <1>0a
  <2>5. BoundIn(u, table, p) = [i \in 1..Len(r) |-> r[i].msg]
    BY <2>1, <1>0 DEF BoundIn
  <2>6. Picked(u, S, g) = [i \in 1..Len(r) |-> g[r[i]]]
    BY <2>1 DEF Picked, Through
  <2> QED BY <2>4, <2>5, <2>6
<1>3. One(x) \in Seq({x}) /\ Cat(s, t) \in Seq(Envelope)
  <2>1. <<>> \in Seq({x})
    BY EmptySeq
  <2>2. One(x) \in Seq({x})
    BY <2>1, OneLaws
  <2> QED BY <2>2, CatLaws
<1>4. /\ BoundIn(s, table, p) = Picked(s, S, g) /\ BoundIn(t, table, p) = Picked(t, S, g)
      /\ BoundIn(Cat(s, t), table, p) = Picked(Cat(s, t), S, g)
  BY <1>2, <1>3
<1>5. BoundIn(One(x), table, p) = Picked(One(x), S, g)
  BY <1>2, <1>3
<1>6. BoundIn(<<>>, table, p) = Picked(<<>>, S, g)
  <2>1. PICK n : n = <<>>
    OBVIOUS
  <2>2. n \in Seq({x})
    BY <2>1, EmptySeq
  <2>3. BoundIn(n, table, p) = Picked(n, S, g)
    BY <2>2, <1>2
  <2> QED BY <2>1, <2>3
<1>7. Picked(s, S, g) \in Seq(Message)
  BY <1>1, PickedTyped
<1>8. Picked(Cat(s, t), S, g) = Cat(Picked(s, S, g), Picked(t, S, g))
  BY <1>1, PickedCat
<1>9. Picked(One(x), S, g) = IF x \in S THEN One(g[x]) ELSE <<>>
  BY <1>1, PickedOne
<1>10. Picked(<<>>, S, g) = <<>>
  BY <1>1, PickedOne
<1>11. ASSUME \A i \in 1..Len(s) : table[s[i].fd] # p PROVE BoundIn(s, table, p) = <<>>
  <2>1. ToSet(s) \cap S = {}
    BY <1>11, <1>0, ToSetMember
  <2>2. Sift(s, S) = <<>>
    BY <2>1, SiftNone
  <2>3. Len(Sift(s, S)) = 0
    BY <2>2
  <2>4. BoundIn(s, table, p) = [i \in 1..0 |-> Sift(s, S)[i].msg]
    BY <2>3, <1>0 DEF BoundIn
  <2> QED BY <2>4
<1>12. x \in S => g[x] = x.msg
  BY <1>0a
<1>13. x \in Envelope => (x \in S <=> table[x.fd] = p)
  BY <1>0
<1> QED BY <1>4, <1>5, <1>6, <1>7, <1>8, <1>9, <1>10, <1>11, <1>12, <1>13

(* Such a message was sent to one of the client's descriptors.             *)
LEMMA BoundFrom ==
    ASSUME NEW s \in Seq(Envelope), NEW table, NEW p, NEW y \in ToSet(BoundIn(s, table, p))
    PROVE  \E i \in 1..Len(s) : table[s[i].fd] = p /\ y = s[i].msg
<1>1. PICK r : r = Sift(s, {e \in Envelope : table[e.fd] = p})
  OBVIOUS
<1>2. /\ r \in Seq(Envelope) /\ Len(r) \in Nat
      /\ ToSet(r) = ToSet(s) \cap {e \in Envelope : table[e.fd] = p}
  BY <1>1, SiftSet
<1>3. BoundIn(s, table, p) = [i \in 1..Len(r) |-> r[i].msg]
  BY <1>1 DEF BoundIn
<1>4. PICK k \in 1..Len(r) : y = r[k].msg
  BY <1>2, <1>3 DEF ToSet
<1>5. r[k] \in ToSet(r)
  BY <1>2, ToSetMember
<1>6. r[k] \in ToSet(s) /\ table[r[k].fd] = p
  BY <1>2, <1>5
<1>7. PICK i \in 1..Len(s) : r[k] = s[i]
  BY <1>6, ToSetMember
<1> QED BY <1>4, <1>6, <1>7

-----------------------------------------------------------------------------
(* Streams of units. *)

(* The tag unit and the body unit of a request.                            *)
LEMMA UnitsFacts ==
    ASSUME NEW m \in Requests
    PROVE  /\ Units(m) \in Seq(Unit)
           /\ Units(m)[1] = [part |-> "tag", msg |-> m]
           /\ HasBody(m) => Len(Units(m)) = 2 /\ Units(m)[2] = [part |-> "body", msg |-> m]
           /\ ~HasBody(m) => Len(Units(m)) = 1
           /\ MessagesIn(Units(m)) = One(m)
<1>1. PICK a : a = [part |-> "tag", msg |-> m]
  OBVIOUS
<1>2. PICK b : b = [part |-> "body", msg |-> m]
  OBVIOUS
<1>3. a \in Unit /\ b \in Unit /\ a \in TagUnits /\ b \notin TagUnits /\ MsgOf[a] = m
  BY <1>1, <1>2 DEF Unit, TagUnits, MsgOf
<1>4. One(a) \in Seq(Unit) /\ One(b) \in Seq(Unit)
  <2>1. <<>> \in Seq(Unit)
    BY EmptySeq
  <2> QED BY <2>1, <1>3, OneLaws
<1>5. MessagesIn(One(a)) = One(m) /\ MessagesIn(One(b)) = <<>>
  BY <1>3, <1>4, MessagesInLaws
<1>5a. One(m) \in Seq(Requests)
  <2>1. <<>> \in Seq(Requests)
    BY EmptySeq
  <2> QED BY <2>1, OneLaws
<1>6. CASE HasBody(m)
  <2>1. Units(m) = <<a, b>>
    BY <1>6, <1>1, <1>2 DEF Units
  <2>2. <<a, b>> = <<a>> \o <<b>>
    OBVIOUS
  <2>3. Units(m) = Cat(One(a), One(b))
    BY <2>1, <2>2 DEF Cat, One
  <2>4. MessagesIn(Units(m)) = Cat(MessagesIn(One(a)), MessagesIn(One(b)))
    BY <2>3, <1>4, MessagesInLaws
  <2>5. Cat(One(m), <<>>) = One(m)
    BY <1>5a, CatLaws
  <2>6. MessagesIn(Units(m)) = One(m)
    BY <2>4, <2>5, <1>5
  <2>7. Units(m) \in Seq(Unit) /\ Len(Units(m)) = 2 /\ Units(m)[1] = a /\ Units(m)[2] = b
    BY <2>1, <1>3
  <2> QED BY <2>6, <2>7, <1>1, <1>2, <1>6
<1>7. CASE ~HasBody(m)
  <2>1. Units(m) = <<a>>
    BY <1>7, <1>1 DEF Units
  <2>2. Units(m) = One(a)
    BY <2>1 DEF One
  <2>3. Units(m) \in Seq(Unit) /\ Len(Units(m)) = 1 /\ Units(m)[1] = a
    BY <2>1, <1>3
  <2> QED BY <2>2, <2>3, <1>1, <1>5, <1>7
<1> QED BY <1>6, <1>7

(* One client's messages follow another whole.                             *)
LEMMA FramedCat ==
    ASSUME NEW s \in Seq(Unit), NEW t \in Seq(Unit), Framed(s), Framed(t)
    PROVE  Framed(Cat(s, t))
<1>1. PICK r : r = s \o t
  OBVIOUS
<1>2. /\ r \in Seq(Unit) /\ Len(s) \in Nat /\ Len(t) \in Nat /\ Len(r) = Len(s) + Len(t)
      /\ \A i \in 1..Len(s) : i \in 1..Len(r) /\ r[i] = s[i]
      /\ \A i \in 1..Len(t) : Len(s) + i \in 1..Len(r) /\ r[Len(s) + i] = t[i]
      /\ \A k \in 1..Len(r) : \/ k \in 1..Len(s) /\ r[k] = s[k]
                              \/ k > Len(s) /\ k - Len(s) \in 1..Len(t) /\ r[k] = t[k - Len(s)]
  BY <1>1, ConcatFacts
<1>3. ASSUME NEW i \in 1..Len(r)
      PROVE  /\ r[i].part = "tag" /\ HasBody(r[i].msg) =>
                   i + 1 \in 1..Len(r) /\ r[i + 1] = [part |-> "body", msg |-> r[i].msg]
             /\ r[i].part = "body" =>
                   /\ i - 1 \in 1..Len(r) /\ r[i - 1] = [part |-> "tag", msg |-> r[i].msg]
                   /\ HasBody(r[i].msg)
  <2>1. CASE i \in 1..Len(s) /\ r[i] = s[i]
    BY <2>1, <1>2 DEF Framed
  <2>2. CASE i > Len(s) /\ i - Len(s) \in 1..Len(t) /\ r[i] = t[i - Len(s)]
    <3>1. PICK j \in 1..Len(t) : j = i - Len(s)
      BY <2>2
    <3>2. i + 1 = Len(s) + (j + 1) /\ i - 1 = Len(s) + (j - 1)
      BY <3>1, <1>2
    <3>3. r[i] = t[j]
      BY <3>1, <2>2
    <3>4. ASSUME r[i].part = "tag", HasBody(r[i].msg)
          PROVE  i + 1 \in 1..Len(r) /\ r[i + 1] = [part |-> "body", msg |-> r[i].msg]
      <4>1. j + 1 \in 1..Len(t) /\ t[j + 1] = [part |-> "body", msg |-> t[j].msg]
        BY <3>3, <3>4 DEF Framed
      <4>2. i + 1 \in 1..Len(r) /\ r[i + 1] = t[j + 1]
        BY <4>1, <3>2, <1>2
      <4> QED BY <4>1, <4>2, <3>3
    <3>5. ASSUME r[i].part = "body"
          PROVE  /\ i - 1 \in 1..Len(r) /\ r[i - 1] = [part |-> "tag", msg |-> r[i].msg]
                 /\ HasBody(r[i].msg)
      <4>1. /\ j - 1 \in 1..Len(t) /\ t[j - 1] = [part |-> "tag", msg |-> t[j].msg]
            /\ HasBody(t[j].msg)
        BY <3>3, <3>5 DEF Framed
      <4>2. i - 1 \in 1..Len(r) /\ r[i - 1] = t[j - 1]
        BY <4>1, <3>2, <1>2
      <4> QED BY <4>1, <4>2, <3>3
    <3> QED BY <3>4, <3>5
  <2> QED BY <2>1, <2>2, <1>2
<1>4. Framed(r)
  BY <1>3 DEF Framed
<1> QED BY <1>1, <1>4 DEF Cat

(* A request is written whole.                                             *)
LEMMA FramedUnits ==
    ASSUME NEW m \in Requests
    PROVE  Framed(Units(m))
<1>1. PICK u : u = Units(m)
  OBVIOUS
<1>2. /\ u[1] = [part |-> "tag", msg |-> m]
      /\ HasBody(m) => Len(u) = 2 /\ u[2] = [part |-> "body", msg |-> m]
      /\ ~HasBody(m) => Len(u) = 1
  BY <1>1, UnitsFacts
<1>3. u[1].part = "tag" /\ u[1].msg = m
  BY <1>2
<1>4. HasBody(m) => u[2].part = "body" /\ u[2].msg = m
  BY <1>2
<1>5. 1 + 1 = 2 /\ 2 - 1 = 1 /\ 1..2 = {1, 2} /\ 1..1 = {1}
  OBVIOUS
<1>6. CASE HasBody(m)
  BY <1>2, <1>3, <1>4, <1>5, <1>6, <1>1 DEF Framed
<1>7. CASE ~HasBody(m)
  BY <1>2, <1>3, <1>5, <1>7, <1>1 DEF Framed
<1> QED BY <1>6, <1>7

(* What is left of a buffer without its first message.                     *)
AfterFront(s) == SubSeq(s, Len(Units(s[1].msg)) + 1, Len(s))

(* A message at the front of a buffer: it is all there, and what follows   *)
(* it in the stream is whole again.                                        *)
LEMMA FrontIsWhole ==
    ASSUME NEW s \in Seq(Unit), NEW t \in Seq(Unit), s # <<>>, Framed(Cat(s, t)),
           Len(s) >= Len(Units(s[1].msg))
    PROVE  /\ s[1].msg \in Requests /\ AfterFront(s) \in Seq(Unit)
           /\ Cat(s, t) = Cat(Units(s[1].msg), Cat(AfterFront(s), t))
           /\ Framed(Cat(AfterFront(s), t))
<1>0. PICK m, n, rest : m = s[1].msg /\ n = Len(Units(m)) /\ rest = SubSeq(s, n + 1, Len(s))
  OBVIOUS
<1>1. Len(s) \in Nat \ {0} /\ s[1] \in Unit
  BY EmptySeq, ElementOfSeq
<1>2. m \in Requests
  BY <1>0, <1>1 DEF Unit
<1>3. PICK u : u = Units(m)
  OBVIOUS
<1>4. /\ u \in Seq(Unit) /\ Len(u) = n /\ u[1] = [part |-> "tag", msg |-> m]
      /\ HasBody(m) => n = 2 /\ u[2] = [part |-> "body", msg |-> m]
      /\ ~HasBody(m) => n = 1
  BY <1>0, <1>2, <1>3, UnitsFacts
<1>5. n \in 0..Len(s)
  BY <1>0, <1>1, <1>4
<1>6. PICK front : front = SubSeq(s, 1, n)
  OBVIOUS
<1>7. front \in Seq(Unit) /\ rest \in Seq(Unit) /\ s = Cat(front, rest)
  BY <1>0, <1>5, <1>6, SplitAt
<1>8. Len(front) = n /\ \A i \in 1..n : front[i] = s[i]
  BY <1>1, <1>5, <1>6
<1>9. PICK r : r = s \o t
  OBVIOUS
<1>10. /\ r \in Seq(Unit) /\ Len(t) \in Nat /\ Len(r) = Len(s) + Len(t)
       /\ \A i \in 1..Len(s) : i \in 1..Len(r) /\ r[i] = s[i]
  BY <1>9, ConcatFacts
<1>11. Framed(r)
  BY <1>9 DEF Cat
<1>12. 1 \in 1..Len(r) /\ r[1] = s[1] /\ r[1].msg = m
  BY <1>0, <1>1, <1>10
<1>13. r[1].part = "tag"
  <2>1. r[1].part = "tag" \/ r[1].part = "body"
    BY <1>1, <1>12 DEF Unit
  <2>2. 1 - 1 \notin 1..Len(r)
    BY <1>10
  <2>3. r[1].part = "body" => 1 - 1 \in 1..Len(r)
    BY <1>11, <1>12 DEF Framed
  <2> QED BY <2>1, <2>2, <2>3
<1>14. r[1] = [part |-> "tag", msg |-> m]
  BY <1>1, <1>12, <1>13 DEF Unit
<1>15. HasBody(m) => r[2] = [part |-> "body", msg |-> m]
  <2>1. 1 + 1 = 2
    OBVIOUS
  <2>2. HasBody(m) => r[1 + 1] = [part |-> "body", msg |-> m]
    BY <1>11, <1>12, <1>13 DEF Framed
  <2> QED BY <2>1, <2>2
<1>16. ASSUME NEW i \in 1..n PROVE front[i] = u[i]
  <2>1. i \in 1..Len(s) /\ r[i] = front[i]
    <3>1. i \in 1..Len(s)
      BY <1>1, <1>5
    <3>2. r[i] = s[i]
      BY <3>1, <1>10, Zenon
    <3>3. front[i] = s[i]
      BY <1>8, Zenon
    <3> QED BY <3>1, <3>2, <3>3, Zenon
  <2>2. i = 1 \/ (HasBody(m) /\ i = 2)
    <3>1. n = 1 \/ (HasBody(m) /\ n = 2)
      BY <1>4, Zenon
    <3>2. n = 1 => i = 1
      OBVIOUS
    <3>3. n = 2 => i = 1 \/ i = 2
      OBVIOUS
    <3> QED BY <3>1, <3>2, <3>3, Zenon
  <2> QED BY <2>1, <2>2, <1>4, <1>14, <1>15
<1>17. front = u
  BY <1>4, <1>7, <1>8, <1>16, SeqEqual
<1>18. Cat(s, t) = Cat(u, Cat(rest, t))
  <2>1. front \in Seq(Unit) /\ rest \in Seq(Unit)
    BY <1>7
  <2>2. Cat(Cat(front, rest), t) = Cat(front, Cat(rest, t))
    BY <2>1, CatAssociates
  <2> QED BY <2>2, <1>7, <1>17, Zenon
<1>19. PICK q : q = rest \o t
  OBVIOUS
<1>20. q \in Seq(Unit) /\ r = u \o q
  <2>1. q = Cat(rest, t) /\ r = Cat(s, t)
    BY <1>9, <1>19 DEF Cat
  <2>2. q \in Seq(Unit)
    BY <2>1, <1>7, CatLaws
  <2>3. r = Cat(u, q)
    BY <2>1, <1>18
  <2> QED BY <2>2, <2>3 DEF Cat
<1>21. /\ Len(q) \in Nat /\ Len(r) = n + Len(q) /\ n \in Nat
       /\ \A i \in 1..n : i \in 1..Len(r) /\ r[i] = u[i]
       /\ \A i \in 1..Len(q) : n + i \in 1..Len(r) /\ r[n + i] = q[i]
  <2>1. u \in Seq(Unit) /\ q \in Seq(Unit) /\ r = u \o q
    BY <1>4, <1>20
  <2>2. /\ Len(q) \in Nat /\ Len(r) = Len(u) + Len(q) /\ Len(u) \in Nat
        /\ \A i \in 1..Len(u) : i \in 1..Len(r) /\ r[i] = u[i]
        /\ \A i \in 1..Len(q) : Len(u) + i \in 1..Len(r) /\ r[Len(u) + i] = q[i]
    BY <2>1, ConcatFacts
  <2> QED BY <2>2, <1>4
<1>22. ASSUME NEW i \in 1..Len(q), q[i].part = "tag", HasBody(q[i].msg)
       PROVE  i + 1 \in 1..Len(q) /\ q[i + 1] = [part |-> "body", msg |-> q[i].msg]
  <2>1. PICK k : k = n + i
    OBVIOUS
  <2>2. k \in 1..Len(r) /\ r[k] = q[i] /\ k + 1 = n + (i + 1)
    BY <2>1, <1>21
  <2>3. k + 1 \in 1..Len(r) /\ r[k + 1] = [part |-> "body", msg |-> r[k].msg]
    BY <2>2, <1>11, <1>22 DEF Framed
  <2>4. i + 1 \in 1..Len(q)
    BY <2>2, <2>3, <1>21
  <2>5. r[k + 1] = q[i + 1]
    BY <2>2, <2>4, <1>21
  <2> QED BY <2>2, <2>3, <2>4, <2>5
<1>23. ASSUME NEW i \in 1..Len(q), q[i].part = "body"
       PROVE  /\ i - 1 \in 1..Len(q) /\ q[i - 1] = [part |-> "tag", msg |-> q[i].msg]
              /\ HasBody(q[i].msg)
  <2>1. PICK k : k = n + i
    OBVIOUS
  <2>2. k \in 1..Len(r) /\ r[k] = q[i] /\ k - 1 = n + (i - 1)
    BY <2>1, <1>21
  <2>3. /\ k - 1 \in 1..Len(r) /\ r[k - 1] = [part |-> "tag", msg |-> r[k].msg]
        /\ HasBody(r[k].msg)
    BY <2>2, <1>11, <1>23 DEF Framed
  <2>4. r[k - 1].part = "tag" /\ HasBody(r[k - 1].msg)
    BY <2>3
  <2>5. i # 1
    <3>1. SUFFICES ASSUME i = 1 PROVE FALSE
      OBVIOUS
    <3>2. k - 1 = n /\ n \in 1..n
      BY <3>1, <2>2, <1>4, <1>21
    <3>3. u[n].part = "tag" /\ HasBody(u[n].msg)
      BY <3>2, <2>4, <1>21
    <3>4. u[1].msg = m
      BY <1>4
    <3>5. HasBody(m) => u[2].part = "body"
      BY <1>4
    <3> QED BY <3>3, <3>4, <3>5, <1>4
  <2>6. i - 1 \in 1..Len(q)
    BY <2>5, <1>21
  <2>7. r[k - 1] = q[i - 1]
    BY <2>2, <2>6, <1>21
  <2> QED BY <2>2, <2>3, <2>6, <2>7
<1>24. Framed(q)
  BY <1>22, <1>23 DEF Framed
<1>25. Framed(Cat(rest, t))
  BY <1>19, <1>24 DEF Cat
<1>26. AfterFront(s) = rest
  BY <1>0 DEF AfterFront
<1> QED BY <1>0, <1>2, <1>3, <1>7, <1>18, <1>25, <1>26, Zenon

-----------------------------------------------------------------------------
(* The account of a client's requests. *)

(* A request is written.                                                   *)
LEMMA BalanceWrite ==
    ASSUME NEW due \in Seq(Message), NEW owed \in Seq(Keys), NEW stream \in Seq(Unit),
           NEW req \in Seq(Requests), NEW m \in Requests, Balance(due, owed, stream, req)
    PROVE  Balance(due, owed, Cat(stream, Units(m)), Cat(req, One(m)))
<1>1. PICK a, b, c, d : /\ a = Cat(AckKeysIn(due), owed) /\ b = RequestKeys(MessagesIn(stream))
                        /\ c = RequestKeys(req) /\ d = RequestKeys(One(m))
  OBVIOUS
<1>2. Units(m) \in Seq(Unit) /\ MessagesIn(Units(m)) = One(m)
  BY UnitsFacts
<1>3. One(m) \in Seq(Requests)
  <2>1. <<>> \in Seq(Requests)
    BY EmptySeq
  <2> QED BY <2>1, OneLaws
<1>4. AckKeysIn(due) \in Seq(Keys)
  BY AckKeysInLaws
<1>5. MessagesIn(stream) \in Seq(Requests)
  BY MessagesInLaws
<1>6. a \in Seq(Keys) /\ b \in Seq(Keys) /\ c \in Seq(Keys) /\ d \in Seq(Keys)
  <2>1. a \in Seq(Keys)
    BY <1>1, <1>4, CatLaws
  <2>2. b \in Seq(Keys) /\ c \in Seq(Keys) /\ d \in Seq(Keys)
    BY <1>1, <1>3, <1>5, RequestKeysLaws
  <2> QED BY <2>1, <2>2
<1>7. MessagesIn(Cat(stream, Units(m))) = Cat(MessagesIn(stream), One(m))
  BY <1>2, MessagesInLaws
<1>8. RequestKeys(Cat(MessagesIn(stream), One(m))) = Cat(b, d)
  BY <1>1, <1>3, <1>5, RequestKeysLaws
<1>9. RequestKeys(Cat(req, One(m))) = Cat(c, d)
  BY <1>1, <1>3, RequestKeysLaws
<1>10. Cat(a, b) = c
  BY <1>1 DEF Balance
<1>11. Cat(a, Cat(b, d)) = Cat(Cat(a, b), d)
  BY <1>6, CatAssociates
<1> QED BY <1>1, <1>7, <1>8, <1>9, <1>10, <1>11 DEF Balance

(* The next message is taken off the stream: one that is not answered is   *)
(* gone, the ack of one that is answered is owed.                          *)
LEMMA BalanceTake ==
    ASSUME NEW due \in Seq(Message), NEW rest \in Seq(Unit), NEW m \in Requests, NEW req,
           NEW owed \in Seq(Keys), Balance(due, owed, Cat(Units(m), rest), req)
    PROVE  /\ m \notin Answered => Balance(due, owed, rest, req)
           /\ m \in Answered /\ owed = <<>> => Balance(due, One(KeyOf[m]), rest, req)
<1>1. PICK a, b, c, d : /\ a = AckKeysIn(due) /\ b = RequestKeys(MessagesIn(rest))
                        /\ c = RequestKeys(req) /\ d = RequestKeys(One(m))
  OBVIOUS
<1>2. Units(m) \in Seq(Unit) /\ MessagesIn(Units(m)) = One(m)
  BY UnitsFacts
<1>3. One(m) \in Seq(Requests)
  <2>1. <<>> \in Seq(Requests)
    BY EmptySeq
  <2> QED BY <2>1, OneLaws
<1>5. MessagesIn(rest) \in Seq(Requests)
  BY MessagesInLaws
<1>6. a \in Seq(Keys)
  BY <1>1, AckKeysInLaws
<1>6a. b \in Seq(Keys) /\ d \in Seq(Keys)
  BY <1>1, <1>3, <1>5, RequestKeysLaws
<1>7. MessagesIn(Cat(Units(m), rest)) = Cat(One(m), MessagesIn(rest))
  BY <1>2, MessagesInLaws
<1>8. RequestKeys(Cat(One(m), MessagesIn(rest))) = Cat(d, b)
  BY <1>1, <1>3, <1>5, RequestKeysLaws
<1>9. Cat(Cat(a, owed), Cat(d, b)) = c
  BY <1>1, <1>7, <1>8 DEF Balance
<1>10. d = IF m \in Answered THEN One(KeyOf[m]) ELSE <<>>
  BY <1>1, <1>3, RequestKeysLaws
<1>11. ASSUME m \notin Answered PROVE Balance(due, owed, rest, req)
  <2>1. Cat(d, b) = b
    BY <1>6a, <1>10, <1>11, CatLaws
  <2>2. Cat(Cat(a, owed), b) = c
    BY <2>1, <1>9
  <2> QED BY <2>2, <1>1 DEF Balance
<1>12. ASSUME m \in Answered, owed = <<>> PROVE Balance(due, One(KeyOf[m]), rest, req)
  <2>1. Cat(a, owed) = a
    BY <1>6, <1>12, CatLaws
  <2>2. Cat(a, Cat(d, b)) = Cat(Cat(a, d), b)
    BY <1>6, <1>6a, CatAssociates
  <2>3. d = One(KeyOf[m])
    BY <1>10, <1>12
  <2>4. Cat(Cat(a, d), b) = c
    BY <2>1, <2>2, <1>9
  <2> QED BY <2>3, <2>4, <1>1 DEF Balance
<1> QED BY <1>11, <1>12

(* The ack that is owed is put in the outbox.                              *)
LEMMA BalanceAck ==
    ASSUME NEW due \in Seq(Message), NEW stream, NEW req, NEW ack \in Acks,
           Balance(due, One(AckKeyOf[ack]), stream, req)
    PROVE  Balance(Cat(due, One(ack)), <<>>, stream, req)
<1>1. ack \in Message
  BY DEF Message
<1>2. One(ack) \in Seq(Message)
  BY <1>1, OneLaws
<1>3. AckKeysIn(One(ack)) = One(AckKeyOf[ack])
  BY <1>2, AckKeysInLaws
<1>4. AckKeysIn(Cat(due, One(ack))) = Cat(AckKeysIn(due), One(AckKeyOf[ack]))
  BY <1>2, <1>3, AckKeysInLaws
<1>5. Cat(due, One(ack)) \in Seq(Message)
  BY <1>2, CatLaws
<1>6. AckKeysIn(Cat(due, One(ack))) \in Seq(Keys)
  BY <1>5, AckKeysInLaws
<1>7. Cat(AckKeysIn(Cat(due, One(ack))), <<>>) = AckKeysIn(Cat(due, One(ack)))
  BY <1>6, CatLaws
<1> QED BY <1>4, <1>7 DEF Balance

-----------------------------------------------------------------------------
(* Where a client's stream is. *)

(* Stream, for any tables.                                                 *)
StreamOf(table, buffers, w, p) ==
    LET fds == {fd \in Fds : table[fd] = p}
    IN  Cat(IF fds = {} THEN <<>> ELSE buffers[Min(fds)], w[p])

Separate(table) == \A f, g \in Fds : table[f] = table[g] /\ table[f] # Nobody => f = g

(* The descriptor is the client's one connection.                          *)
Holds(table, fd, p) == fd \in Fds /\ table[fd] = p /\ \A g \in Fds : table[g] = p => g = fd

(* In this state and the next.                                             *)
LEMMA StreamIs ==
    ASSUME NEW p
    PROVE  /\ Stream(p) = StreamOf(fd_table, read_buf, wire, p)
           /\ Stream(p)' = StreamOf(fd_table', read_buf', wire', p)
BY DEF Stream, StreamOf, Cat

(* A client that was accepted: its buffer, and what is on the wire.        *)
LEMMA StreamHeld ==
    ASSUME NEW table, NEW buffers, NEW w, NEW p, NEW fd, Holds(table, fd, p)
    PROVE  StreamOf(table, buffers, w, p) = Cat(buffers[fd], w[p])
<1>1. PICK S : S = {g \in Fds : table[g] = p}
  OBVIOUS
<1>2. S = {fd} /\ S # {}
  BY <1>1 DEF Holds
<1>3. fd \in Int
  BY ServerAssumption DEF Fds, Holds
<1>4. Min({fd}) = fd
  BY <1>3 DEF Min
<1> QED BY <1>1, <1>2, <1>4, Zenon DEF StreamOf

(* One that was not: what is on the wire.                                  *)
LEMMA StreamWaiting ==
    ASSUME NEW table, NEW buffers, NEW w, NEW p, \A g \in Fds : table[g] # p, w[p] \in Seq(Unit)
    PROVE  StreamOf(table, buffers, w, p) = w[p]
<1>1. {g \in Fds : table[g] = p} = {}
  OBVIOUS
<1>2. StreamOf(table, buffers, w, p) = Cat(<<>>, w[p])
  BY <1>1, Zenon DEF StreamOf
<1>3. PICK v : v = w[p]
  OBVIOUS
<1>4. v \in Seq(Unit)
  BY <1>3
<1>5. Cat(<<>>, v) = v
  BY <1>4, CatLaws
<1> QED BY <1>2, <1>3, <1>5, Zenon

(* Nothing that belongs to the client changes.                             *)
LEMMA StreamSame ==
    ASSUME NEW p \in Peers, Separate(fd_table), wire[p] \in Seq(Unit), wire'[p] = wire[p],
           \A fd \in Fds : fd_table'[fd] = p <=> fd_table[fd] = p,
           \A fd \in Fds : fd_table[fd] = p => read_buf'[fd] = read_buf[fd]
    PROVE  Stream(p)' = Stream(p)
<1>0. p # Nobody
  BY ServerAssumption
<1>1. CASE \E fd \in Fds : fd_table[fd] = p
  <2>1. PICK fd \in Fds : fd_table[fd] = p
    BY <1>1
  <2>2. Holds(fd_table, fd, p)
    BY <2>1, <1>0 DEF Separate, Holds
  <2>3. Holds(fd_table', fd, p)
    BY <2>1, <2>2 DEF Holds
  <2>4. StreamOf(fd_table, read_buf, wire, p) = Cat(read_buf[fd], wire[p])
    BY <2>2, StreamHeld
  <2>5. StreamOf(fd_table', read_buf', wire', p) = Cat(read_buf'[fd], wire'[p])
    BY <2>3, StreamHeld
  <2>6. read_buf'[fd] = read_buf[fd]
    BY <2>1
  <2> QED BY <2>4, <2>5, <2>6, StreamIs, Zenon
<1>2. CASE ~\E fd \in Fds : fd_table[fd] = p
  <2>1. \A g \in Fds : fd_table[g] # p /\ fd_table'[g] # p
    BY <1>2
  <2>2. StreamOf(fd_table, read_buf, wire, p) = wire[p]
    BY <2>1, StreamWaiting
  <2>3. wire'[p] \in Seq(Unit)
    OBVIOUS
  <2>4. StreamOf(fd_table', read_buf', wire', p) = wire'[p]
    BY <2>1, <2>3, StreamWaiting
  <2> QED BY <2>2, <2>4, StreamIs, Zenon
<1> QED BY <1>1, <1>2

(* What ServerInv says of the descriptors.                                 *)
LEMMA StreamFacts ==
    ASSUME ServerInv
    PROVE  /\ Separate(fd_table) /\ wire \in [Peers -> Seq(Unit)] /\ read_buf \in [Fds -> Seq(Unit)]
           /\ fd_table \in [Fds -> Peers \cup {Nobody}] /\ DOMAIN read_buf = Fds
           /\ \A fd \in Fds : fd_table[fd] = Nobody => read_buf[fd] = <<>>
           /\ \A p \in Peers : wire[p] \in Seq(Unit) /\ p # Nobody
           /\ \A fd \in Fds : read_buf[fd] \in Seq(Unit)
           /\ Busy => conn \in Fds /\ fd_table[conn] \in Peers
<1>1. /\ wire \in [Peers -> Seq(Unit)] /\ read_buf \in [Fds -> Seq(Unit)]
      /\ fd_table \in [Fds -> Peers \cup {Nobody}]
  BY DEF ServerInv, ServerTypeOK, BuffersOK
<1>2. Separate(fd_table) /\ \A fd \in Fds : fd_table[fd] = Nobody => read_buf[fd] = <<>>
  BY DEF ServerInv, NetInv, ConnectionsMatchFds, Separate
<1>3. Busy => conn \in Fds /\ fd_table[conn] \in Peers
  <2>1. Busy => conn \in ToSet(connections)
    BY DEF ServerInv, NetInv, HandlingOK
  <2>2. ServerTypeOK /\ NetInv
    BY DEF ServerInv
  <2> QED BY <2>1, <2>2, ConnectionFacts
<1>4. \A p \in Peers : p # Nobody
  BY ServerAssumption
<1> QED BY <1>1, <1>2, <1>3, <1>4

(* The stream is made of units.                                            *)
LEMMA StreamTyped ==
    ASSUME ServerInv, NEW p \in Peers
    PROVE  Stream(p) \in Seq(Unit)
<1>1. CASE \E fd \in Fds : fd_table[fd] = p
  <2>1. PICK fd \in Fds : fd_table[fd] = p
    BY <1>1
  <2>2. Holds(fd_table, fd, p)
    BY <2>1, StreamFacts DEF Separate, Holds
  <2>3. StreamOf(fd_table, read_buf, wire, p) = Cat(read_buf[fd], wire[p])
    BY <2>2, StreamHeld
  <2>4. read_buf[fd] \in Seq(Unit) /\ wire[p] \in Seq(Unit)
    BY StreamFacts
  <2>5. Cat(read_buf[fd], wire[p]) \in Seq(Unit)
    BY <2>4, CatLaws
  <2> QED BY <2>3, <2>5, StreamIs, Zenon
<1>2. CASE ~\E fd \in Fds : fd_table[fd] = p
  <2>1. wire[p] \in Seq(Unit)
    BY StreamFacts
  <2>2. StreamOf(fd_table, read_buf, wire, p) = wire[p]
    BY <1>2, <2>1, StreamWaiting
  <2> QED BY <2>1, <2>2, StreamIs, Zenon
<1> QED BY <1>1, <1>2

(* accept gives the client a descriptor with an empty buffer.              *)
LEMMA AcceptStream ==
    ASSUME ServerInv, AcceptOne, NEW p \in Peers
    PROVE  Stream(p)' = Stream(p)
<1>1. PICK fd : fd = Min(FreeFds)
  OBVIOUS
<1>2. PICK q : q = Head(backlog)
  OBVIOUS
<1>3. fd \in Fds /\ fd_table[fd] = Nobody
  BY <1>1, LowestFree DEF AcceptOne, FreeFds
<1>4. /\ fd_table' = [fd_table EXCEPT ![fd] = q] /\ read_buf' = read_buf /\ wire' = wire
      /\ backlog \in Seq(Peers) /\ backlog # <<>>
  BY <1>1, <1>2 DEF AcceptOne, ServerInv, ServerTypeOK
<1>5. q \in Peers /\ q \in ToSet(backlog)
  BY <1>2, <1>4, TailSet
<1>6. \A g \in Fds : fd_table[g] # q
  BY <1>5 DEF ServerInv, NetInv, SocketsOK
<1>7. \A g \in Fds : fd_table'[g] = IF g = fd THEN q ELSE fd_table[g]
  BY <1>3, <1>4, StreamFacts
<1>8. CASE p # q
  <2>1. \A g \in Fds : fd_table'[g] = p <=> fd_table[g] = p
    BY <1>3, <1>7, <1>8, StreamFacts
  <2>2. Separate(fd_table) /\ wire[p] \in Seq(Unit)
    BY StreamFacts
  <2> QED BY <2>1, <2>2, <1>4, StreamSame
<1>9. CASE p = q
  <2>1. wire[p] \in Seq(Unit)
    BY StreamFacts
  <2>2. StreamOf(fd_table, read_buf, wire, p) = wire[p]
    BY <2>1, <1>6, <1>9, StreamWaiting
  <2>3. Holds(fd_table', fd, p)
    BY <1>3, <1>6, <1>7, <1>9 DEF Holds
  <2>4. StreamOf(fd_table', read_buf', wire', p) = Cat(read_buf'[fd], wire'[p])
    BY <2>3, StreamHeld
  <2>5. read_buf[fd] = <<>>
    BY <1>3, StreamFacts
  <2>6. Cat(<<>>, wire[p]) = wire[p]
    BY <2>1, CatLaws
  <2> QED BY <2>2, <2>4, <2>5, <2>6, <1>4, StreamIs, Zenon
<1> QED BY <1>8, <1>9

(* recv moves the front of what is on the wire to the end of the buffer.   *)
LEMMA RecvStream ==
    ASSUME ServerInv, RecvData, NEW p \in Peers
    PROVE  Stream(p)' = Stream(p)
<1>1. PICK fd : fd = Head(ready)
  OBVIOUS
<1>2. PICK q : q = fd_table[fd]
  OBVIOUS
<1>3. /\ ready # <<>> /\ q # Nobody /\ wire[q] # <<>> /\ fd_table' = fd_table
      /\ \E n \in 1..Len(wire[q]) :
            /\ read_buf' = [read_buf EXCEPT ![fd] = @ \o SubSeq(wire[q], 1, n)]
            /\ wire' = [wire EXCEPT ![q] = SubSeq(@, n + 1, Len(@))]
  BY <1>1, <1>2 DEF RecvData
<1>4. PICK n \in 1..Len(wire[q]) :
         /\ read_buf' = [read_buf EXCEPT ![fd] = @ \o SubSeq(wire[q], 1, n)]
         /\ wire' = [wire EXCEPT ![q] = SubSeq(@, n + 1, Len(@))]
  BY <1>3
<1>5. fd \in Fds
  BY <1>1, <1>3, TailSet DEF ServerInv, ServerTypeOK
<1>6. q \in Peers
  BY <1>2, <1>3, <1>5, StreamFacts
<1>7. Holds(fd_table, fd, q) /\ Holds(fd_table', fd, q)
  BY <1>2, <1>3, <1>5, <1>6, StreamFacts DEF Separate, Holds
<1>8. CASE p # q
  <2>1. wire'[p] = wire[p]
    BY <1>4, <1>8, StreamFacts
  <2>2. \A g \in Fds : fd_table[g] = p => read_buf'[g] = read_buf[g]
    BY <1>2, <1>4, <1>8, StreamFacts
  <2>3. Separate(fd_table) /\ wire[p] \in Seq(Unit)
    BY StreamFacts
  <2> QED BY <2>1, <2>2, <2>3, <1>3, StreamSame
<1>9. CASE p = q
  <2>1. PICK a, b, r, w : a = SubSeq(wire[q], 1, n) /\ b = SubSeq(wire[q], n + 1, Len(wire[q]))
                          /\ r = read_buf[fd] /\ w = wire[q]
    OBVIOUS
  <2>2. w \in Seq(Unit) /\ r \in Seq(Unit)
    BY <2>1, <1>5, <1>6, StreamFacts
  <2>3. n \in 0..Len(w)
    BY <2>1, <2>2
  <2>4. a \in Seq(Unit) /\ b \in Seq(Unit) /\ w = Cat(a, b)
    BY <2>1, <2>2, <2>3, SplitAt
  <2>5. a \in Seq(Unit) /\ b \in Seq(Unit)
    BY <2>4
  <2>6. Cat(Cat(r, a), b) = Cat(r, Cat(a, b))
    BY <2>2, <2>5, CatAssociates
  <2>7. read_buf'[fd] = r \o a
    BY <2>1, <1>4, <1>5, StreamFacts
  <2>8. wire'[p] = b
    BY <2>1, <1>4, <1>6, <1>9, StreamFacts
  <2>9. read_buf'[fd] = Cat(r, a)
    BY <2>7 DEF Cat
  <2>10. StreamOf(fd_table, read_buf, wire, p) = Cat(read_buf[fd], wire[p])
    BY <1>7, <1>9, StreamHeld
  <2>11. StreamOf(fd_table', read_buf', wire', p) = Cat(read_buf'[fd], wire'[p])
    BY <1>7, <1>9, StreamHeld
  <2>12. r = read_buf[fd] /\ w = wire[p] /\ w = Cat(a, b)
    BY <2>1, <2>4, <1>9
  <2> QED BY <2>6, <2>8, <2>9, <2>10, <2>11, <2>12, StreamIs, Zenon
<1> QED BY <1>8, <1>9

(* A request goes to the end of the stream of its client.                  *)
LEMMA WriteStream ==
    ASSUME ServerInv, NEW p \in Peers, NEW q \in Peers, NEW m \in Requests, Write(q, m)
    PROVE  Stream(p)' = IF p = q THEN Cat(Stream(p), Units(m)) ELSE Stream(p)
<1>1. /\ wire' = [wire EXCEPT ![q] = @ \o Units(m)] /\ fd_table' = fd_table /\ read_buf' = read_buf
  BY DEF Write, kernelFrame, serverVars
<1>2. Separate(fd_table) /\ wire[p] \in Seq(Unit) /\ Units(m) \in Seq(Unit)
  BY StreamFacts, UnitsFacts
<1>3. CASE p # q
  <2>1. wire'[p] = wire[p]
    BY <1>1, <1>3, StreamFacts
  <2>2. Stream(p)' = Stream(p)
    BY <2>1, <1>1, <1>2, StreamSame
  <2> QED BY <2>2, <1>3
<1>4. CASE p = q
  <2>1. wire'[p] = wire[p] \o Units(m)
    BY <1>1, <1>4, StreamFacts
  <2>2. wire'[p] = Cat(wire[p], Units(m))
    BY <2>1 DEF Cat
  <2>3. CASE \E fd \in Fds : fd_table[fd] = p
    <3>1. PICK fd \in Fds : fd_table[fd] = p
      BY <2>3
    <3>2. Holds(fd_table, fd, p)
      BY <3>1, StreamFacts DEF Separate, Holds
    <3>3. StreamOf(fd_table, read_buf, wire, p) = Cat(read_buf[fd], wire[p])
      BY <3>2, StreamHeld
    <3>4. StreamOf(fd_table, read_buf, wire', p) = Cat(read_buf[fd], wire'[p])
      BY <3>2, StreamHeld
    <3>5. PICK r, w, u : r = read_buf[fd] /\ w = wire[p] /\ u = Units(m)
      OBVIOUS
    <3>6. r \in Seq(Unit) /\ w \in Seq(Unit) /\ u \in Seq(Unit)
      BY <3>5, <1>2, StreamFacts
    <3>7. Cat(Cat(r, w), u) = Cat(r, Cat(w, u))
      BY <3>6, CatAssociates
    <3>8. Stream(p)' = Cat(Stream(p), Units(m))
      BY <3>3, <3>4, <3>5, <3>7, <2>2, <1>1, StreamIs, Zenon
    <3> QED BY <3>8, <1>4
  <2>4. CASE ~\E fd \in Fds : fd_table[fd] = p
    <3>1. StreamOf(fd_table, read_buf, wire, p) = wire[p]
      BY <2>4, <1>2, StreamWaiting
    <3>2. wire'[p] \in Seq(Unit)
      BY <2>1, <1>2, ConcatProperties
    <3>3. StreamOf(fd_table, read_buf, wire', p) = wire'[p]
      BY <2>4, <3>2, StreamWaiting
    <3>4. Stream(p)' = Cat(Stream(p), Units(m))
      BY <3>1, <3>3, <2>2, <1>1, StreamIs, Zenon
    <3> QED BY <3>4, <1>4
  <2> QED BY <2>3, <2>4
<1> QED BY <1>3, <1>4

(* The parse loop takes a whole message off the stream of the connection   *)
(* being handled.                                                          *)
LEMMA ConsumeStream ==
    ASSUME ServerInv, StreamsOK, NEW tag, Complete(tag), ConsumeMessage,
           UNCHANGED <<fd_table, wire>>, NEW p \in Peers
    PROVE  /\ p # fd_table[conn] => Stream(p)' = Stream(p)
           /\ p = fd_table[conn] => /\ Stream(p) = Cat(Units(Msg), Stream(p)')
                                    /\ Stream(p)' \in Seq(Unit)
                                    /\ Framed(Stream(p)')
<1>1. /\ pc = "parse" /\ buf # <<>> /\ Len(buf) >= Len(Units(buf[1].msg))
      /\ read_buf' = [read_buf EXCEPT ![conn] = SubSeq(@, Len(Units(Msg)) + 1, Len(@))]
  BY DEF Complete, ConsumeMessage
<1>2. conn \in Fds /\ fd_table[conn] \in Peers
  BY <1>1, StreamFacts DEF Busy
<1>3. Separate(fd_table) /\ wire[p] \in Seq(Unit)
  BY StreamFacts
<1>4. ASSUME p # fd_table[conn] PROVE Stream(p)' = Stream(p)
  <2>1. \A g \in Fds : fd_table[g] = p => read_buf'[g] = read_buf[g]
    BY <1>1, <1>4, StreamFacts
  <2> QED BY <2>1, <1>3, StreamSame
<1>5. ASSUME p = fd_table[conn]
      PROVE  Stream(p) = Cat(Units(Msg), Stream(p)') /\ Stream(p)' \in Seq(Unit) /\ Framed(Stream(p)')
  <2>1. Holds(fd_table, conn, p)
    BY <1>2, <1>5, StreamFacts DEF Separate, Holds
  <2>2. StreamOf(fd_table, read_buf, wire, p) = Cat(read_buf[conn], wire[p])
    BY <2>1, StreamHeld
  <2>3. StreamOf(fd_table, read_buf', wire, p) = Cat(read_buf'[conn], wire[p])
    BY <2>1, StreamHeld
  <2>4. PICK s, t : s = read_buf[conn] /\ t = wire[p]
    OBVIOUS
  <2>5. s \in Seq(Unit) /\ t \in Seq(Unit) /\ s # <<>> /\ Len(s) >= Len(Units(s[1].msg))
    BY <2>4, <1>1, <1>2, <1>3, StreamFacts DEF buf
  <2>6. Framed(Cat(s, t))
    BY <2>2, <2>4, StreamIs, Zenon DEF StreamsOK
  <2>7. read_buf'[conn] = AfterFront(s)
    BY <2>4, <1>1, <1>2, StreamFacts DEF AfterFront, Msg, buf
  <2>8. Msg = s[1].msg
    BY <2>4 DEF Msg, buf
  <2>9. /\ AfterFront(s) \in Seq(Unit) /\ Framed(Cat(AfterFront(s), t))
        /\ Cat(s, t) = Cat(Units(s[1].msg), Cat(AfterFront(s), t))
    BY <2>5, <2>6, FrontIsWhole
  <2>10. AfterFront(s) \in Seq(Unit)
    BY <2>9
  <2>11. Cat(AfterFront(s), t) \in Seq(Unit)
    BY <2>5, <2>10, CatLaws
  <2>12. Stream(p)' = Cat(AfterFront(s), t)
    BY <2>3, <2>4, <2>7, StreamIs, Zenon
  <2>13. Stream(p) = Cat(s, t)
    BY <2>2, <2>4, StreamIs, Zenon
  <2> QED BY <2>8, <2>9, <2>11, <2>12, <2>13, Zenon
<1> QED BY <1>4, <1>5

(* With a connection its stream goes, and no other.                        *)
LEMMA RemoveStream ==
    ASSUME ServerInv, NEW fd \in Fds, fd_table[fd] \in Peers, remove_connection(fd),
           NEW p \in Peers
    PROVE  Stream(p)' = IF p = fd_table[fd] THEN <<>> ELSE Stream(p)
<1>1. PICK q : q = fd_table[fd]
  OBVIOUS
<1>2. /\ fd_table' = [fd_table EXCEPT ![fd] = Nobody] /\ wire' = [wire EXCEPT ![q] = <<>>]
      /\ read_buf' = [read_buf EXCEPT ![fd] = <<>>]
  BY <1>1 DEF remove_connection
<1>3. \A g \in Fds : fd_table'[g] = IF g = fd THEN Nobody ELSE fd_table[g]
  BY <1>2, StreamFacts
<1>4. Separate(fd_table) /\ wire[p] \in Seq(Unit) /\ p # Nobody
  BY StreamFacts
<1>5. CASE p # q
  <2>1. wire'[p] = wire[p]
    BY <1>2, <1>5, StreamFacts
  <2>2. \A g \in Fds : fd_table'[g] = p <=> fd_table[g] = p
    BY <1>1, <1>3, <1>4, <1>5
  <2>3. \A g \in Fds : fd_table[g] = p => read_buf'[g] = read_buf[g]
    BY <1>1, <1>2, <1>5, StreamFacts
  <2>4. Stream(p)' = Stream(p)
    BY <2>1, <2>2, <2>3, <1>4, StreamSame
  <2> QED BY <2>4, <1>1, <1>5
<1>6. CASE p = q
  <2>1. \A g \in Fds : fd_table'[g] # p
    BY <1>1, <1>3, <1>4, <1>6 DEF Separate
  <2>2. wire'[p] = <<>>
    BY <1>2, <1>6, StreamFacts
  <2>3. wire'[p] \in Seq(Unit)
    BY <2>2, EmptySeq
  <2>4. StreamOf(fd_table', read_buf', wire', p) = wire'[p]
    BY <2>1, <2>3, StreamWaiting
  <2> QED BY <2>2, <2>4, <1>1, <1>6, StreamIs, Zenon
<1> QED BY <1>5, <1>6

-----------------------------------------------------------------------------
(* The sends. *)

(* Among messages that are no acks there are no keys.                      *)
LEMMA NoAcksNoKeys ==
    ASSUME NEW s \in Seq(Message), ToSet(s) \cap Acks = {}
    PROVE  AckKeysIn(s) = <<>>
<1>1. Sift(s, Acks) = <<>>
  BY SiftNone
<1>2. Len(Sift(s, Acks)) = 0
  BY <1>1
<1>3. AckKeysIn(s) = [i \in 1..0 |-> AckKey(Sift(s, Acks)[i])]
  BY <1>2 DEF AckKeysIn
<1> QED BY <1>3

(* Two sequences with nothing in common.                                   *)
LEMMA CatNoDuplicates ==
    ASSUME NEW T, NEW s \in Seq(T), NEW t \in Seq(T), NoDuplicates(s), NoDuplicates(t),
           ToSet(s) \cap ToSet(t) = {}
    PROVE  NoDuplicates(Cat(s, t))
<1>1. PICK r : r = s \o t
  OBVIOUS
<1>2. /\ Len(s) \in Nat /\ Len(t) \in Nat /\ Len(r) = Len(s) + Len(t)
      /\ \A k \in 1..Len(r) : \/ k \in 1..Len(s) /\ r[k] = s[k]
                              \/ k > Len(s) /\ k - Len(s) \in 1..Len(t) /\ r[k] = t[k - Len(s)]
  BY <1>1, ConcatFacts
<1>3. \A i \in 1..Len(s), j \in 1..Len(t) : s[i] # t[j]
  BY ToSetMember
<1>4. ASSUME NEW i \in 1..Len(r), NEW j \in 1..Len(r), r[i] = r[j] PROVE i = j
  <2>1. CASE i \in 1..Len(s) /\ r[i] = s[i] /\ j \in 1..Len(s) /\ r[j] = s[j]
    BY <2>1, <1>4 DEF NoDuplicates
  <2>2. CASE /\ i > Len(s) /\ i - Len(s) \in 1..Len(t) /\ r[i] = t[i - Len(s)]
             /\ j > Len(s) /\ j - Len(s) \in 1..Len(t) /\ r[j] = t[j - Len(s)]
    <3>1. i - Len(s) = j - Len(s)
      BY <2>2, <1>4 DEF NoDuplicates
    <3> QED BY <3>1, <1>2
  <2> QED BY <2>1, <2>2, <1>2, <1>3, <1>4
<1>5. NoDuplicates(r)
  BY <1>4 DEF NoDuplicates
<1> QED BY <1>1, <1>5 DEF Cat

(* A fill goes to each of its recipients once: the connection of the       *)
(* incoming order, the owner of the resting order, the subscribers.        *)
LEMMA RecipientsFacts ==
    ASSUME ServerInv, pc = "send", NEW f
    PROVE  /\ Recipients(f) \in Seq(Fds) /\ NoDuplicates(Recipients(f))
           /\ \A fd : fd \in ToSet(Recipients(f)) <=>
                 \/ fd = conn
                 \/ f.resting_order_id \in DOMAIN order_owner_fd /\ fd = order_owner_fd[f.resting_order_id]
                 \/ fd \in subscribed
<1>1. conn \in Fds /\ connections \in Seq(Fds) /\ NoDuplicates(connections)
      /\ subscribed \subseteq ToSet(connections)
      /\ \A id \in DOMAIN order_owner_fd : order_owner_fd[id] \in Fds
  BY StreamFacts DEF Busy, ServerInv, ServerTypeOK, NetInv, ConnectionsMatchFds, NoDuplicates
<1>2. PICK owner : owner = IF f.resting_order_id \in DOMAIN order_owner_fd
                           THEN << order_owner_fd[f.resting_order_id] >> ELSE <<>>
  OBVIOUS
<1>3. owner \in Seq(Fds) /\ NoDuplicates(owner)
  <2>1. CASE f.resting_order_id \in DOMAIN order_owner_fd
    BY <2>1, <1>1, <1>2 DEF NoDuplicates
  <2>2. CASE f.resting_order_id \notin DOMAIN order_owner_fd
    BY <2>2, <1>2 DEF NoDuplicates
  <2> QED BY <2>1, <2>2
<1>4. \A fd : fd \in ToSet(owner) <=>
                 f.resting_order_id \in DOMAIN order_owner_fd /\ fd = order_owner_fd[f.resting_order_id]
  <2>1. CASE f.resting_order_id \in DOMAIN order_owner_fd
    BY <2>1, <1>1, <1>2 DEF ToSet
  <2>2. CASE f.resting_order_id \notin DOMAIN order_owner_fd
    BY <2>2, <1>2 DEF ToSet
  <2> QED BY <2>1, <2>2
<1>5. PICK others : others = Sift(owner, Fds \ {conn})
  OBVIOUS
<1>6. /\ others \in Seq(Fds) /\ NoDuplicates(others)
      /\ ToSet(others) = ToSet(owner) \cap (Fds \ {conn})
  BY <1>3, <1>5, SiftSet
<1>7. One(conn) \in Seq(Fds) /\ NoDuplicates(One(conn)) /\ ToSet(One(conn)) = {conn}
  <2>1. <<>> \in Seq(Fds)
    BY EmptySeq
  <2>2. One(conn) \in Seq(Fds) /\ Len(One(conn)) = 1 /\ ToSet(One(conn)) = {conn}
    BY <2>1, <1>1, OneLaws
  <2>3. NoDuplicates(One(conn))
    BY <2>2 DEF NoDuplicates
  <2> QED BY <2>2, <2>3
<1>8. PICK sent : sent = Cat(One(conn), others)
  OBVIOUS
<1>9. sent \in Seq(Fds) /\ NoDuplicates(sent) /\ ToSet(sent) = {conn} \cup ToSet(others)
  <2>1. ToSet(One(conn)) \cap ToSet(others) = {}
    BY <1>6, <1>7
  <2>2. NoDuplicates(sent)
    BY <2>1, <1>6, <1>7, <1>8, CatNoDuplicates
  <2>3. sent \in Seq(Fds) /\ ToSet(sent) = ToSet(One(conn)) \cup ToSet(others)
    BY <1>6, <1>7, <1>8, CatLaws
  <2> QED BY <2>2, <2>3, <1>7
<1>10. PICK more : more = Sift(connections, subscribed \ ToSet(sent))
  OBVIOUS
<1>11. /\ more \in Seq(Fds) /\ NoDuplicates(more)
       /\ ToSet(more) = ToSet(connections) \cap (subscribed \ ToSet(sent))
  BY <1>1, <1>10, SiftSet
<1>12. PICK all : all = Cat(sent, more)
  OBVIOUS
<1>13. all \in Seq(Fds) /\ NoDuplicates(all) /\ ToSet(all) = ToSet(sent) \cup ToSet(more)
  <2>1. ToSet(sent) \cap ToSet(more) = {}
    BY <1>11
  <2>2. NoDuplicates(all)
    BY <2>1, <1>9, <1>11, <1>12, CatNoDuplicates
  <2>3. all \in Seq(Fds) /\ ToSet(all) = ToSet(sent) \cup ToSet(more)
    BY <1>9, <1>11, <1>12, CatLaws
  <2> QED BY <2>2, <2>3
<1>14. Recipients(f) = all
  BY <1>2, <1>5, <1>8, <1>10, <1>12, Zenon DEF Recipients, Cat, One
<1>15. ASSUME NEW fd
       PROVE  fd \in ToSet(all) <=> fd = conn \/ fd \in ToSet(owner) \/ fd \in subscribed
  <2>1. ToSet(owner) \subseteq Fds
    BY <1>3, ToSetMember
  <2> QED BY <2>1, <1>1, <1>6, <1>9, <1>11, <1>13
<1> QED BY <1>4, <1>13, <1>14, <1>15

(* What is due is a sequence of messages; with nothing to send it is what  *)
(* has arrived.                                                            *)
LEMMA DueFacts ==
    ASSUME MessagesOK, NEW p \in Peers
    PROVE  /\ inbox[p] \in Seq(Message) /\ Bound(p) \in Seq(Message) /\ Due(p) \in Seq(Message)
           /\ outbox = <<>> => Due(p) = inbox[p]
<1>1. inbox[p] \in Seq(Message) /\ outbox \in Seq(Envelope)
  BY DEF MessagesOK
<1>2. Bound(p) \in Seq(Message)
  BY <1>1, BoundLaws DEF Bound
<1>3. Due(p) \in Seq(Message)
  BY <1>1, <1>2, CatLaws DEF Due
<1>4. ASSUME outbox = <<>> PROVE Due(p) = inbox[p]
  <2>1. BoundIn(<<>>, fd_table, p) = <<>>
    BY <1>1, BoundLaws
  <2>2. Bound(p) = <<>>
    BY <2>1, <1>4, Zenon DEF Bound
  <2>3. PICK i : i = inbox[p]
    OBVIOUS
  <2>4. Cat(i, <<>>) = i
    BY <2>3, <1>1, CatLaws
  <2> QED BY <2>2, <2>3, <2>4, Zenon DEF Due
<1> QED BY <1>1, <1>2, <1>3, <1>4

(* The same in the next state.                                             *)
LEMMA NextDueEmpty ==
    ASSUME MessagesOK', outbox' = <<>>, NEW p \in Peers
    PROVE  Due(p)' = inbox'[p]
<1>1. PICK i, o : i = inbox'[p] /\ o = outbox'
  OBVIOUS
<1>2. i \in Seq(Message) /\ o \in Seq(Envelope) /\ o = <<>>
  BY <1>1 DEF MessagesOK
<1>3. BoundIn(<<>>, fd_table', p) = <<>>
  BY <1>2, BoundLaws
<1>4. Bound(p)' = <<>>
  BY <1>1, <1>2, <1>3, Zenon DEF Bound
<1>5. Cat(i, <<>>) = i
  BY <1>2, CatLaws
<1> QED BY <1>1, <1>4, <1>5, Zenon DEF Due

(* A message leaves the outbox.                                            *)
SendStep == SendDelivered \/ SendToNobody \/ SendLost \/ SendBroken

(* A send changes nothing for a client that is there afterwards: what it   *)
(* was to get it has, or others get.                                       *)
LEMMA SendKeepsDue ==
    ASSUME ServerInv, MessagesOK, SendStep, NEW p \in Peers, Reachable(p)'
    PROVE  Due(p)' = Due(p)
<1>1. /\ outbox # <<>> /\ outbox' = Tail(outbox) /\ fd_table' = fd_table
      /\ outbox \in Seq(Envelope) /\ inbox \in [Peers -> Seq(Message)]
  BY DEF SendStep, SendDelivered, SendToNobody, SendLost, SendBroken, sendFrame, Sending, MessagesOK
<1>2. PICK h, t : h = Head(outbox) /\ t = Tail(outbox)
  OBVIOUS
<1>3. h \in Envelope /\ t \in Seq(Envelope) /\ outbox = Cat(One(h), t)
  BY <1>1, <1>2, HeadCatTail
<1>4. h.fd \in Fds /\ h.msg \in Message
  BY <1>3 DEF Envelope
<1>5. PICK b : b = BoundIn(t, fd_table, p)
  OBVIOUS
<1>6. Bound(p)' = b
  BY <1>1, <1>2, <1>5, Zenon DEF Bound
<1>7. One(h) \in Seq(Envelope) /\ t \in Seq(Envelope)
  BY <1>3, OneLaws
<1>8. BoundIn(Cat(One(h), t), fd_table, p) = Cat(BoundIn(One(h), fd_table, p), BoundIn(t, fd_table, p))
  BY <1>7, BoundLaws
<1>9. Bound(p) = Cat(BoundIn(One(h), fd_table, p), b)
  BY <1>3, <1>5, <1>8, Zenon DEF Bound
<1>10. b \in Seq(Message)
  BY <1>5, <1>7, BoundLaws
<1>11. CASE fd_table[h.fd] # p
  <2>1. BoundIn(One(h), fd_table, p) = <<>>
    BY <1>3, <1>7, <1>11, BoundLaws
  <2>2. Cat(<<>>, b) = b
    BY <1>10, CatLaws
  <2>3. inbox'[p] = inbox[p]
    BY <1>1, <1>2, <1>11
       DEF SendStep, SendDelivered, SendToNobody, SendLost, SendBroken, Target
  <2> QED BY <2>1, <2>2, <2>3, <1>6, <1>9, Zenon DEF Due
<1>12. CASE fd_table[h.fd] = p
  <2>1. Target = p /\ p # Nobody
    BY <1>2, <1>12, ServerAssumption DEF Target
  <2>2. link'[p] \in {"new", "open"} /\ link \in [Peers -> LinkStates]
    BY DEF Reachable, ServerInv, ServerTypeOK
  <2>3. ~SendToNobody /\ ~SendBroken /\ ~SendLost
    BY <2>1, <2>2 DEF SendToNobody, SendBroken, SendLost, LinkStates
  <2>4. inbox'[p] = Append(inbox[p], h.msg)
    BY <2>1, <2>3, <1>1, <1>2 DEF SendStep, SendDelivered
  <2>5. PICK i, m : i = inbox[p] /\ m = h.msg
    OBVIOUS
  <2>6. i \in Seq(Message) /\ m \in Message
    BY <2>5, <1>1, <1>4
  <2>7. Append(i, m) = Cat(i, One(m)) /\ One(m) \in Seq(Message)
    BY <2>6, OneLaws
  <2>8. One(m) \in Seq(Message)
    BY <2>7
  <2>9. Cat(Cat(i, One(m)), b) = Cat(i, Cat(One(m), b))
    BY <2>6, <2>8, <1>10, CatAssociates
  <2>10. BoundIn(One(h), fd_table, p) = One(h.msg)
    <3>1. h \in Envelope /\ t \in Seq(Envelope)
      BY <1>3
    <3> QED BY <3>1, <1>12, BoundLaws
  <2> QED BY <2>4, <2>5, <2>7, <2>9, <2>10, <1>6, <1>9, Zenon DEF Due
<1> QED BY <1>11, <1>12

(* An ack becomes due to the client being handled.                         *)
LEMMA AckBecomesDue ==
    ASSUME ServerInv, MessagesOK, outbox = <<>>, Busy, NEW ack \in Acks,
           outbox' = << To(conn, ack) >>, UNCHANGED <<fd_table, inbox>>, NEW p \in Peers
    PROVE  Due(p)' = IF p = fd_table[conn] THEN Cat(Due(p), One(ack)) ELSE Due(p)
<1>1. PICK e : e = To(conn, ack)
  OBVIOUS
<1>2. e \in Envelope /\ e.fd = conn /\ e.msg = ack
  BY <1>1, StreamFacts DEF To, Envelope, Message
<1>3. Bound(p)' = BoundIn(One(e), fd_table, p)
  BY <1>1, Zenon DEF Bound, One
<1>4. PICK n : n \in Seq(Envelope)
  BY EmptySeq
<1>5. /\ fd_table[e.fd] = p => BoundIn(One(e), fd_table, p) = One(e.msg)
      /\ fd_table[e.fd] # p => BoundIn(One(e), fd_table, p) = <<>>
  BY <1>2, <1>4, BoundLaws
<1>6. Due(p) = inbox[p] /\ inbox[p] \in Seq(Message)
  BY DueFacts
<1>7. PICK i : i = inbox[p]
  OBVIOUS
<1>8. Cat(i, <<>>) = i
  BY <1>6, <1>7, CatLaws
<1>9. Due(p)' = Cat(i, Bound(p)')
  BY <1>7, Zenon DEF Due
<1>10. CASE fd_table[conn] = p
  <2>1. Bound(p)' = One(ack)
    BY <1>2, <1>3, <1>5, <1>10, Zenon
  <2>2. Due(p)' = Cat(Due(p), One(ack))
    BY <2>1, <1>6, <1>7, <1>9, Zenon
  <2> QED BY <2>2, <1>10
<1>11. CASE fd_table[conn] # p
  <2>1. Bound(p)' = <<>>
    BY <1>2, <1>3, <1>5, <1>11, Zenon
  <2>2. Due(p)' = Due(p)
    BY <2>1, <1>6, <1>7, <1>8, <1>9, Zenon
  <2> QED BY <2>2, <1>11
<1> QED BY <1>10, <1>11

-----------------------------------------------------------------------------
(* The parts of AnswerInv. *)

(* The steps that put something in the outbox.                             *)
FillingStep == DispatchDuplicate \/ DispatchCancel \/ SubmitReturn \/ ReportFill

(* No other step does, and none but a send takes anything out.             *)
LEMMA OutboxFrame ==
    ASSUME [ServerNext]_vars, ~FillingStep, ~SendStep
    PROVE  /\ UNCHANGED <<outbox, to_report, inbox>>
           /\ pc' = "send" <=> pc = "send" /\ ~DispatchDone
BY DEF ServerNext, ServerStep, ClientStep, FillingStep, SendStep, vars, bookVars, kernelVars,
       serverVars, kernelFrame, Connect, Write, ClientCloses, ClientResets, ResetArrives, Poll,
       AcceptOne, AcceptDone, ScanDone, RecvData, RecvEnd, ParseWaits, ParseViolation, Subscribe,
       DispatchNewOrder, SubmitTrades, DispatchDone, remove_connection, Complete

(* The ack that a step of the first three kinds puts there.                *)
LEMMA AckingStep ==
    ASSUME ServerInv, OutboxOK, DispatchDuplicate \/ DispatchCancel \/ SubmitReturn
    PROVE  \E ack \in Acks :
              /\ outbox' = << To(conn, ack) >> /\ outbox = <<>>
              /\ pc # "send" /\ pc' = "send" /\ conn \in Fds /\ Busy
              /\ UNCHANGED <<fd_table, inbox, requested, link, conn, wire>>
              /\ SubmitReturn => /\ ack = Ack(incoming.id, "NewOrder", 0) /\ pc = "match"
                                 /\ read_buf' = read_buf
              /\ ~SubmitReturn => /\ Msg \in Answered /\ AckKeyOf[ack] = KeyOf[Msg] /\ pc = "parse"
                                  /\ ConsumeMessage /\ \E tag : Complete(tag)
<1>1. CASE DispatchDuplicate
  <2>1. Complete("NewOrder") /\ ~SubmitReturn
    BY <1>1 DEF DispatchDuplicate, SubmitReturn, Complete
  <2>2. Msg \in Requests /\ Msg.tag = "NewOrder" /\ conn \in Fds
    BY <2>1, FrontOfBuffer DEF ServerInv
  <2>3. PICK ack : ack = Ack(Msg.id, "NewOrder", 1)
    OBVIOUS
  <2>4. ack \in Acks /\ Msg \in Answered
    BY <2>2, <2>3, RequestsAssumption DEF Ack, Acks, Answered
  <2>5. AckKeyOf[ack] = KeyOf[Msg]
    BY <2>2, <2>3, <2>4 DEF AckKeyOf, KeyOf, AckKey, Key, Ack
  <2>6. /\ outbox' = << To(conn, ack) >> /\ pc = "parse" /\ pc' = "send" /\ ConsumeMessage
        /\ UNCHANGED <<fd_table, inbox, requested, link, conn, wire>>
    BY <1>1, <2>3 DEF DispatchDuplicate, Complete, kernelVars
  <2>7. outbox = <<>> /\ Busy
    BY <2>6 DEF OutboxOK, Busy
  <2> QED BY <2>1, <2>2, <2>4, <2>5, <2>6, <2>7
<1>2. CASE DispatchCancel
  <2>1. Complete("Cancel") /\ ~SubmitReturn
    BY <1>2 DEF DispatchCancel, SubmitReturn, Complete
  <2>2. Msg \in Requests /\ Msg.tag = "Cancel" /\ conn \in Fds
    BY <2>1, FrontOfBuffer DEF ServerInv
  <2>3. PICK status \in {0, 1} : outbox' = << To(conn, Ack(Msg.id, "Cancel", status)) >>
    BY <1>2 DEF DispatchCancel
  <2>4. PICK ack : ack = Ack(Msg.id, "Cancel", status)
    OBVIOUS
  <2>5. ack \in Acks /\ Msg \in Answered
    BY <2>2, <2>4, RequestsAssumption DEF Ack, Acks, Answered
  <2>6. AckKeyOf[ack] = KeyOf[Msg]
    BY <2>2, <2>4, <2>5 DEF AckKeyOf, KeyOf, AckKey, Key, Ack
  <2>7. /\ pc = "parse" /\ pc' = "send" /\ ConsumeMessage
        /\ UNCHANGED <<fd_table, inbox, requested, link, conn, wire>>
    BY <1>2 DEF DispatchCancel, Complete, kernelVars
  <2>8. outbox = <<>> /\ Busy
    BY <2>7 DEF OutboxOK, Busy
  <2> QED BY <2>1, <2>2, <2>3, <2>4, <2>5, <2>6, <2>7, <2>8
<1>3. CASE SubmitReturn
  <2>1. PICK ack : ack = Ack(incoming.id, "NewOrder", 0)
    OBVIOUS
  <2>2. incoming \in Order
    BY <1>3 DEF SubmitReturn, Return, ServerInv, BookInv, BookTypeOK
  <2>3. ack \in Acks
    BY <2>1, <2>2 DEF Ack, Acks, Order
  <2>4. /\ outbox' = << To(conn, ack) >> /\ pc = "match" /\ pc' = "send"
        /\ UNCHANGED <<fd_table, inbox, requested, link, conn, wire, read_buf>>
    BY <1>3, <2>1 DEF SubmitReturn, kernelVars
  <2>5. outbox = <<>> /\ Busy /\ conn \in Fds
    BY <2>4, StreamFacts DEF OutboxOK, Busy
  <2> QED BY <1>3, <2>1, <2>3, <2>4, <2>5
<1> QED BY <1>1, <1>2, <1>3

(* The fills that ReportFill puts there, one for each recipient.           *)
LEMMA ReportingStep ==
    ASSUME ServerInv, ReportFill
    PROVE  /\ Head(to_report) \in Fill /\ Tail(to_report) \in Seq(Fill) /\ conn \in Fds /\ Busy
           /\ outbox = <<>> /\ outbox' \in Seq(Envelope) /\ pc = "send" /\ pc' = "send"
           /\ Len(outbox') = Len(Recipients(Head(to_report)))
           /\ \A i \in 1..Len(outbox') : /\ outbox'[i].msg = FillMsg(Head(to_report))
                                         /\ outbox'[i].fd = Recipients(Head(to_report))[i]
           /\ UNCHANGED <<fd_table, inbox, requested, link, conn, wire, read_buf, subscribed>>
<1>1. /\ outbox = <<>> /\ to_report # <<>> /\ pc = "send" /\ pc' = "send"
      /\ UNCHANGED <<fd_table, inbox, requested, link, conn, wire, read_buf, subscribed>>
  BY DEF ReportFill, kernelVars
<1>2. Head(to_report) \in Fill /\ Tail(to_report) \in Seq(Fill)
  BY <1>1, TailSet DEF ServerInv, BuffersOK
<1>3. PICK f, fds : f = Head(to_report) /\ fds = Recipients(f)
  OBVIOUS
<1>4. fds \in Seq(Fds)
  BY <1>1, <1>3, RecipientsFacts
<1>5. outbox' = [i \in 1..Len(fds) |-> To(fds[i], FillMsg(f))]
  BY <1>3 DEF ReportFill
<1>6. \A i \in 1..Len(fds) : To(fds[i], FillMsg(f)) \in Envelope
  <2>1. FillMsg(f) \in Message
    BY <1>2, <1>3 DEF FillMsg, Message, FillMsgs
  <2>2. \A i \in 1..Len(fds) : fds[i] \in Fds
    BY <1>4, ElementOfSeq
  <2> QED BY <2>1, <2>2 DEF To, Envelope
<1>7. Len(fds) \in Nat /\ outbox' \in [1..Len(fds) -> Envelope]
  BY <1>4, <1>5, <1>6
<1>8. outbox' \in Seq(Envelope) /\ Len(outbox') = Len(fds)
  BY <1>7, FunctionIsSeq
<1>9. \A i \in 1..Len(fds) : outbox'[i] = To(fds[i], FillMsg(f))
  BY <1>5
<1>10. \A i \in 1..Len(fds) : outbox'[i].msg = FillMsg(f) /\ outbox'[i].fd = fds[i]
  <2>1. \A x, y : To(x, y).msg = y /\ To(x, y).fd = x
    BY DEF To
  <2> QED BY <2>1, <1>9
<1>11. Busy /\ conn \in Fds
  BY <1>1, StreamFacts DEF Busy
<1> QED BY <1>1, <1>2, <1>3, <1>8, <1>10, <1>11

(* Only clients write requests, and only a send that is delivered adds to  *)
(* an inbox.                                                               *)
LEMMA NextMessagesOK ==
    ASSUME ServerInv, MessagesOK, OutboxOK, [ServerNext]_vars
    PROVE  MessagesOK'
<1>1. requested' \in [Peers -> Seq(Requests)]
  <2>1. CASE UNCHANGED requested
    BY <2>1 DEF MessagesOK
  <2>2. ASSUME NEW p \in Peers, NEW m \in Requests, Write(p, m)
        PROVE  requested' \in [Peers -> Seq(Requests)]
    <3>1. requested' = [requested EXCEPT ![p] = Append(@, m)]
      BY <2>2 DEF Write
    <3>2. requested[p] \in Seq(Requests)
      BY DEF MessagesOK
    <3>3. Append(requested[p], m) \in Seq(Requests)
      BY <3>2, AppendProperties
    <3> QED BY <3>1, <3>3 DEF MessagesOK
  <2> QED BY <2>1, <2>2
          DEF ServerNext, ServerStep, ClientStep, vars, kernelVars, kernelFrame,
              Connect, ClientCloses, ClientResets, ResetArrives, Poll, AcceptOne, AcceptDone,
              ScanDone, RecvData, RecvEnd, ParseWaits, ParseViolation, Subscribe,
              DispatchDuplicate, DispatchNewOrder, SubmitTrades, SubmitReturn, ReportFill,
              DispatchCancel, DispatchDone, SendDelivered, SendToNobody, SendLost, SendBroken,
              sendFrame, remove_connection
<1>2. inbox' \in [Peers -> Seq(Message)] /\ outbox' \in Seq(Envelope)
  <2>1. CASE SendStep
    <3>1. outbox # <<>> /\ outbox \in Seq(Envelope) /\ outbox' = Tail(outbox)
      BY <2>1 DEF SendStep, SendDelivered, SendToNobody, SendLost, SendBroken, sendFrame, Sending,
                  MessagesOK
    <3>2. Head(outbox) \in Envelope /\ outbox' \in Seq(Envelope)
      BY <3>1, TailSet
    <3>3. Head(outbox).msg \in Message
      BY <3>2 DEF Envelope
    <3>4. ASSUME NEW q \in Peers PROVE Append(inbox[q], Head(outbox).msg) \in Seq(Message)
      BY <3>3, AppendProperties DEF MessagesOK
    <3>5. inbox' \in [Peers -> Seq(Message)]
      BY <2>1, <3>4 DEF SendStep, SendDelivered, SendToNobody, SendLost, SendBroken, MessagesOK
    <3> QED BY <3>2, <3>5
  <2>2. CASE DispatchDuplicate \/ DispatchCancel \/ SubmitReturn
    <3>1. PICK ack \in Acks : outbox' = << To(conn, ack) >> /\ conn \in Fds /\ inbox' = inbox
      BY <2>2, AckingStep
    <3>2. To(conn, ack) \in Envelope
      BY <3>1 DEF To, Envelope, Message
    <3> QED BY <3>1, <3>2 DEF MessagesOK
  <2>3. CASE ReportFill
    BY <2>3, ReportingStep DEF MessagesOK
  <2>4. CASE ~FillingStep /\ ~SendStep
    BY <2>4, OutboxFrame DEF MessagesOK
  <2> QED BY <2>1, <2>2, <2>3, <2>4 DEF FillingStep
<1> QED BY <1>1, <1>2 DEF MessagesOK

(* The outbox is empty outside a dispatch and holds one ack or fills.      *)
LEMMA NextOutboxOK ==
    ASSUME ServerInv, MessagesOK, OutboxOK, [ServerNext]_vars
    PROVE  OutboxOK'
<1>0. pc' = "match" => incoming'.id \in OrderIds
  <2>0. CASE DispatchNewOrder
    <3>1. Msg \in Requests /\ Msg.tag = "NewOrder"
      BY <2>0, FrontOfBuffer DEF DispatchNewOrder, ServerInv
    <3>2. incoming'.id = Msg.id
      BY <2>0 DEF DispatchNewOrder, SubmitBegin
    <3> QED BY <3>1, <3>2, RequestsAssumption
  <2>1. CASE SubmitTrades
    <3>1. incoming \in Order
      BY <2>1 DEF SubmitTrades, MatchOne, ServerInv, BookInv, BookTypeOK
    <3>2. incoming'.id = incoming.id
      BY <2>1, <3>1 DEF SubmitTrades, MatchOne, Order
    <3> QED BY <3>1, <3>2 DEF Order
  <2>2. CASE ~(DispatchNewOrder \/ SubmitTrades)
    <3>1. pc' = "match" => pc = "match" /\ incoming' = incoming
      BY <2>2
         DEF ServerNext, ServerStep, ClientStep, vars, bookVars, kernelVars, serverVars,
             kernelFrame, Connect, Write, ClientCloses, ClientResets, ResetArrives, Poll,
             AcceptOne, AcceptDone, ScanDone, RecvData, RecvEnd, ParseWaits, ParseViolation,
             Subscribe, DispatchDuplicate, SubmitReturn, ReportFill, DispatchCancel, DispatchDone,
             SendDelivered, SendToNobody, SendLost, SendBroken, sendFrame, Sending, Complete
    <3> QED BY <3>1 DEF OutboxOK
  <2> QED BY <2>0, <2>1, <2>2
<1>1. CASE SendStep
  <2>1. /\ outbox # <<>> /\ outbox \in Seq(Envelope) /\ outbox' = Tail(outbox)
        /\ pc = "send" /\ pc' = "send" /\ conn' = conn
    BY <1>1 DEF SendStep, SendDelivered, SendToNobody, SendLost, SendBroken, sendFrame, Sending,
                MessagesOK
  <2>2. /\ Len(outbox') = Len(outbox) - 1 /\ Len(outbox) \in Nat
        /\ \A i \in 1..Len(outbox') : outbox'[i] = outbox[i + 1] /\ i + 1 \in 1..Len(outbox)
    BY <2>1, HeadTailProperties
  <2>3. ASSUME NEW i \in 1..Len(outbox') PROVE outbox'[i].msg \notin Acks
    <3>1. outbox'[i] = outbox[i + 1] /\ i + 1 \in 1..Len(outbox) /\ Len(outbox) # 1
      BY <2>2
    <3> QED BY <3>1 DEF OutboxOK
  <2> QED BY <1>0, <2>1, <2>3 DEF OutboxOK
<1>2. CASE DispatchDuplicate \/ DispatchCancel \/ SubmitReturn
  <2>1. PICK ack \in Acks : outbox' = << To(conn, ack) >> /\ pc' = "send" /\ conn' = conn
    BY <1>2, AckingStep
  <2>2. Len(outbox') = 1 /\ \A i \in 1..Len(outbox') : outbox'[i].fd = conn
    BY <2>1 DEF To
  <2> QED BY <1>0, <2>1, <2>2 DEF OutboxOK
<1>3. CASE ReportFill
  <2>1. pc' = "send" /\ \A i \in 1..Len(outbox') : outbox'[i].msg = FillMsg(Head(to_report))
    BY <1>3, ReportingStep
  <2>2. FillMsg(Head(to_report)) \notin Acks
    BY DEF FillMsg, Acks
  <2> QED BY <1>0, <2>1, <2>2 DEF OutboxOK
<1>4. CASE ~FillingStep /\ ~SendStep
  <2>1. UNCHANGED <<outbox, to_report>> /\ (pc' = "send" <=> pc = "send" /\ ~DispatchDone)
    BY <1>4, OutboxFrame
  <2>2. CASE pc = "send" /\ ~DispatchDone
    <3>1. conn' = conn
      BY <2>2, <1>4
         DEF ServerNext, ServerStep, ClientStep, FillingStep, SendStep, vars, kernelVars,
             serverVars, kernelFrame, Connect, Write, ClientCloses, ClientResets, ResetArrives,
             Poll, AcceptOne, AcceptDone, ScanDone, RecvData, RecvEnd, ParseWaits, ParseViolation,
             Subscribe, DispatchNewOrder, SubmitTrades, Complete
    <3> QED BY <1>0, <3>1, <2>1, <2>2 DEF OutboxOK
  <2>3. CASE ~(pc = "send" /\ ~DispatchDone)
    <3>1. outbox = <<>> /\ to_report = <<>>
      BY <2>3 DEF OutboxOK, DispatchDone
    <3> QED BY <1>0, <3>1, <2>1, <2>3 DEF OutboxOK
  <2> QED BY <2>2, <2>3
<1> QED BY <1>1, <1>2, <1>3, <1>4 DEF FillingStep

(* A client that is there after a step was there before.                   *)
LEMMA ReachableBefore ==
    ASSUME ServerInv, [ServerNext]_vars, NEW p \in Peers, Reachable(p)'
    PROVE  Reachable(p)
<1>1. link \in [Peers -> LinkStates] /\ link'[p] \in {"new", "open"}
  BY DEF ServerInv, ServerTypeOK, Reachable
<1>2. CASE UNCHANGED link
  BY <1>1, <1>2 DEF Reachable
<1>3. ASSUME NEW q \in Peers, Connect(q) \/ ClientCloses(q) \/ ClientResets(q) \/ ResetArrives(q)
      PROVE  Reachable(p)
  BY <1>1, <1>3 DEF Connect, ClientCloses, ClientResets, ResetArrives, Reachable
<1>4. CASE SendLost
  BY <1>1, <1>4 DEF SendLost, Reachable
<1>5. ASSUME NEW fd, remove_connection(fd) PROVE Reachable(p)
  BY <1>1, <1>5 DEF remove_connection, Reachable
<1> QED BY <1>2, <1>3, <1>4, <1>5
        DEF ServerNext, ServerStep, ClientStep, vars, kernelVars, kernelFrame, Write, Poll,
            AcceptOne, AcceptDone, ScanDone, RecvData, RecvEnd, ParseWaits, ParseViolation,
            Subscribe, DispatchDuplicate, DispatchNewOrder, SubmitTrades, SubmitReturn, ReportFill,
            DispatchCancel, DispatchDone, SendDelivered, SendToNobody, SendBroken, sendFrame

(* What a step has to show for one client.                                 *)
Accounted(p) ==
    Framed(Stream(p)) /\ (Reachable(p) => Balance(Due(p), Owed(p), Stream(p), requested[p]))

(* Nothing is owed when no order is being matched.                         *)
LEMMA NothingOwed ==
    ASSUME NEW p
    PROVE  /\ pc # "match" => Owed(p) = <<>>
           /\ pc' # "match" => Owed(p)' = <<>>
BY DEF Owed

(* The ack that is owed, and to whom.                                      *)
LEMMA OwedTyped ==
    ASSUME ServerInv, OutboxOK, NEW p
    PROVE  Owed(p) \in Seq(Keys)
<1>1. CASE pc = "match" /\ fd_table[conn] = p
  <2>2. [id |-> incoming.id, request |-> "NewOrder"] \in Keys
    BY <1>1 DEF OutboxOK, Keys
  <2>3. <<>> \in Seq(Keys)
    BY EmptySeq
  <2> QED BY <2>2, <2>3, <1>1, OneLaws DEF Owed
<1>2. CASE ~(pc = "match" /\ fd_table[conn] = p)
  BY <1>2, EmptySeq DEF Owed
<1> QED BY <1>1, <1>2

(* Nothing of the account changes.                                         *)
LEMMA SameAccount ==
    ASSUME ServerInv, [ServerNext]_vars, NEW p \in Peers, Accounted(p), Stream(p)' = Stream(p),
           Reachable(p)' => Due(p)' = Due(p) /\ Owed(p)' = Owed(p) /\ requested'[p] = requested[p]
    PROVE  Accounted(p)'
<1>1. Framed(Stream(p)')
  BY DEF Accounted
<1>2. ASSUME Reachable(p)' PROVE Balance(Due(p), Owed(p), Stream(p), requested[p])'
  <2>1. Reachable(p)
    BY <1>2, ReachableBefore
  <2>2. Balance(Due(p), Owed(p), Stream(p), requested[p])
    BY <2>1 DEF Accounted
  <2> QED BY <2>2, <1>2 DEF Balance
<1> QED BY <1>1, <1>2 DEF Accounted

(* Steps that move the client's bytes or messages along, or do neither.    *)
LEMMA QuietAccount ==
    ASSUME ServerInv, AnswerInv, MessagesOK', [ServerNext]_vars, NEW p \in Peers, Accounted(p),
           \/ SendStep \/ AcceptOne \/ RecvData \/ SubmitTrades
           \/ Poll \/ AcceptDone \/ ScanDone \/ ParseWaits \/ DispatchDone \/ UNCHANGED vars
           \/ \E q \in Peers : Connect(q) \/ ClientCloses(q) \/ ClientResets(q) \/ ResetArrives(q)
    PROVE  Accounted(p)'
<1>1. requested' = requested
  BY DEF SendStep, SendDelivered, SendToNobody, SendLost, SendBroken, sendFrame, AcceptOne,
         RecvData, SubmitTrades, Poll, AcceptDone, ScanDone, ParseWaits, DispatchDone,
         vars, kernelVars, Connect, ClientCloses, ClientResets, ResetArrives
<1>2. Owed(p)' = Owed(p)
  <2>1. CASE SubmitTrades
    <3>1. incoming \in Order
      BY <2>1 DEF SubmitTrades, MatchOne, ServerInv, BookInv, BookTypeOK
    <3>2. incoming'.id = incoming.id
      BY <2>1, <3>1 DEF SubmitTrades, MatchOne, Order
    <3>3. UNCHANGED <<pc, fd_table, conn>>
      BY <2>1 DEF SubmitTrades, kernelVars, serverVars
    <3> QED BY <3>2, <3>3 DEF Owed
  <2>2. CASE SendStep \/ AcceptOne \/ RecvData \/ Poll \/ AcceptDone \/ ScanDone \/ ParseWaits
             \/ DispatchDone
    <3>1. pc # "match" /\ pc' # "match"
      BY <2>2 DEF SendStep, SendDelivered, SendToNobody, SendLost, SendBroken, sendFrame, Sending,
                  AcceptOne, RecvData, Poll, AcceptDone, ScanDone, ParseWaits, DispatchDone
    <3> QED BY <3>1, NothingOwed
  <2>3. CASE UNCHANGED <<pc, fd_table, conn, incoming>>
    BY <2>3 DEF Owed
  <2> QED BY <2>1, <2>2, <2>3
          DEF vars, bookVars, kernelVars, serverVars, kernelFrame, Connect, ClientCloses,
              ClientResets, ResetArrives
<1>3. Stream(p)' = Stream(p)
  <2>1. CASE AcceptOne
    BY <2>1, AcceptStream
  <2>2. CASE RecvData
    BY <2>2, RecvStream
  <2>3. CASE UNCHANGED <<fd_table, read_buf, wire>>
    BY <2>3, StreamFacts, StreamSame
  <2> QED BY <2>1, <2>2, <2>3
          DEF SendStep, SendDelivered, SendToNobody, SendLost, SendBroken, sendFrame,
              SubmitTrades, Poll, AcceptDone, ScanDone, ParseWaits, DispatchDone,
              vars, kernelVars, serverVars, kernelFrame, Connect, ClientCloses, ClientResets,
              ResetArrives
<1>4. ASSUME Reachable(p)' PROVE Due(p)' = Due(p)
  <2>1. CASE SendStep
    BY <2>1, <1>4, SendKeepsDue DEF AnswerInv
  <2>2. CASE AcceptOne
    <3>1. outbox = <<>> /\ outbox' = <<>> /\ inbox' = inbox
      BY <2>2 DEF AcceptOne, AnswerInv, OutboxOK
    <3>2. Due(p) = inbox[p]
      BY <3>1, DueFacts DEF AnswerInv
    <3>3. Due(p)' = inbox'[p]
      BY <3>1, NextDueEmpty
    <3> QED BY <3>1, <3>2, <3>3, Zenon
  <2>3. CASE UNCHANGED <<fd_table, outbox, inbox>>
    BY <2>3, Zenon DEF Due, Bound
  <2> QED BY <2>1, <2>2, <2>3
          DEF RecvData, SubmitTrades, Poll, AcceptDone, ScanDone, ParseWaits, DispatchDone,
              vars, kernelVars, serverVars, kernelFrame, Connect, ClientCloses, ClientResets,
              ResetArrives
<1> QED BY <1>1, <1>2, <1>3, <1>4, SameAccount

(* A request is written.                                                   *)
LEMMA WriteAccount ==
    ASSUME ServerInv, AnswerInv, [ServerNext]_vars, NEW p \in Peers, Accounted(p),
           NEW q \in Peers, NEW m \in Requests, Write(q, m)
    PROVE  Accounted(p)'
<1>1. /\ requested' = [requested EXCEPT ![q] = Append(@, m)] /\ requested \in [Peers -> Seq(Requests)]
      /\ UNCHANGED <<fd_table, inbox, outbox, pc, conn, incoming>>
  BY DEF Write, kernelFrame, serverVars, bookVars, AnswerInv, MessagesOK
<1>2. Due(p)' = Due(p)
  BY <1>1, Zenon DEF Due, Bound
<1>3. Owed(p)' = Owed(p)
  BY <1>1 DEF Owed
<1>4. CASE p # q
  <2>1. Stream(p)' = Stream(p)
    BY <1>4, WriteStream
  <2>2. requested'[p] = requested[p]
    BY <1>1, <1>4
  <2> QED BY <2>1, <2>2, <1>2, <1>3, SameAccount
<1>5. CASE p = q
  <2>1. PICK s, d, o, r : s = Stream(p) /\ d = Due(p) /\ o = Owed(p) /\ r = requested[p]
    OBVIOUS
  <2>2. s \in Seq(Unit) /\ Framed(s)
    BY <2>1, StreamTyped DEF Accounted
  <2>3. Stream(p)' = Cat(s, Units(m))
    BY <2>1, <1>5, WriteStream
  <2>4. Units(m) \in Seq(Unit) /\ Framed(Units(m))
    BY UnitsFacts, FramedUnits
  <2>5. Framed(Cat(s, Units(m)))
    BY <2>2, <2>4, FramedCat
  <2>6. d \in Seq(Message) /\ o \in Seq(Keys) /\ r \in Seq(Requests)
    BY <2>1, <1>1, DueFacts, OwedTyped DEF AnswerInv
  <2>7. requested'[p] = Append(r, m)
    BY <2>1, <1>1, <1>5
  <2>8. Append(r, m) = Cat(r, One(m))
    BY <2>6, OneLaws
  <2>9. ASSUME Reachable(p)' PROVE Balance(Due(p), Owed(p), Stream(p), requested[p])'
    <3>1. Reachable(p)
      BY <2>9, ReachableBefore
    <3>2. Balance(d, o, s, r)
      BY <3>1, <2>1 DEF Accounted
    <3>3. Balance(d, o, Cat(s, Units(m)), Cat(r, One(m)))
      BY <3>2, <2>2, <2>6, BalanceWrite
    <3>4. Balance(Due(p)', Owed(p)', Stream(p)', requested'[p])
      BY <3>3, <2>1, <2>3, <2>7, <2>8, <1>2, <1>3, Zenon
    <3> QED BY <3>4, Zenon DEF Balance
  <2>10. Framed(Stream(p)')
    BY <2>3, <2>5, Zenon
  <2> QED BY <2>9, <2>10 DEF Accounted
<1> QED BY <1>4, <1>5

(* A message of the connection being handled is taken off its stream: an   *)
(* ack becomes due, is owed, or is not called for.                         *)
LEMMA TakeAccount ==
    ASSUME ServerInv, AnswerInv, [ServerNext]_vars, NEW p \in Peers, Accounted(p),
           Subscribe \/ DispatchNewOrder \/ DispatchDuplicate \/ DispatchCancel
    PROVE  Accounted(p)'
<1>1. /\ ConsumeMessage /\ pc = "parse" /\ UNCHANGED <<fd_table, wire, requested, inbox, conn>>
      /\ \E tag : Complete(tag)
  BY DEF Subscribe, DispatchNewOrder, DispatchDuplicate, DispatchCancel, Complete, kernelVars
<1>2. PICK tag : Complete(tag)
  BY <1>1
<1>3. Msg \in Requests /\ Msg.tag = tag
  BY <1>2, FrontOfBuffer DEF ServerInv
<1>4. outbox = <<>> /\ Owed(p) = <<>> /\ Busy /\ MessagesOK
  BY <1>1, NothingOwed DEF AnswerInv, OutboxOK, Busy
<1>5. /\ p # fd_table[conn] => Stream(p)' = Stream(p)
      /\ p = fd_table[conn] => /\ Stream(p) = Cat(Units(Msg), Stream(p)')
                               /\ Stream(p)' \in Seq(Unit) /\ Framed(Stream(p)')
  BY <1>1, <1>2, ConsumeStream DEF AnswerInv
<1>6. CASE Subscribe
  <2>1. UNCHANGED <<outbox, pc>>
    BY <1>6 DEF Subscribe
  <2>2. Due(p)' = Due(p) /\ Owed(p)' = Owed(p)
    BY <2>1, <1>1, <1>4, NothingOwed, Zenon DEF Due, Bound
  <2>3. CASE p # fd_table[conn]
    BY <2>2, <2>3, <1>1, <1>5, SameAccount
  <2>4. CASE p = fd_table[conn]
    <3>1. Msg \notin Answered
      BY <1>6, <1>3 DEF Subscribe, Complete, Answered, Msg
    <3>2. ASSUME Reachable(p)' PROVE Balance(Due(p), Owed(p), Stream(p), requested[p])'
      <4>1. PICK rest, m, d, o : rest = Stream(p)' /\ m = Msg /\ d = Due(p) /\ o = Owed(p)
        OBVIOUS
      <4>2. /\ rest \in Seq(Unit) /\ m \in Requests /\ m \notin Answered /\ d \in Seq(Message)
            /\ o \in Seq(Keys)
        BY <4>1, <3>1, <2>4, <1>3, <1>4, <1>5, DueFacts, EmptySeq
      <4>3. Balance(Due(p), Owed(p), Stream(p), requested[p])
        BY <3>2, ReachableBefore DEF Accounted
      <4>4. Balance(d, o, Cat(Units(m), rest), requested[p])
        BY <4>1, <4>3, <2>4, <1>5, Zenon
      <4>5. Balance(d, o, rest, requested[p])
        BY <4>2, <4>4, BalanceTake
      <4>6. Balance(Due(p)', Owed(p)', Stream(p)', requested'[p])
        BY <4>1, <4>5, <2>2, <1>1, Zenon
      <4> QED BY <4>6, Zenon DEF Balance
    <3> QED BY <3>2, <2>4, <1>5 DEF Accounted
  <2> QED BY <2>3, <2>4
<1>7. CASE DispatchNewOrder
  <2>1. outbox' = outbox /\ pc' = "match" /\ incoming'.id = Msg.id
    BY <1>7 DEF DispatchNewOrder, SubmitBegin
  <2>2. Due(p)' = Due(p)
    BY <2>1, <1>1, Zenon DEF Due, Bound
  <2>3. CASE p # fd_table[conn]
    <3>1. Owed(p)' = Owed(p)
      BY <2>3, <1>1, <1>4 DEF Owed
    <3> QED BY <3>1, <2>2, <2>3, <1>1, <1>5, SameAccount
  <2>4. CASE p = fd_table[conn]
    <3>1. Msg \in Answered /\ Msg.tag = "NewOrder"
      BY <1>7, <1>3 DEF DispatchNewOrder, Complete, Answered, Msg
    <3>2. KeyOf[Msg] = [id |-> Msg.id, request |-> "NewOrder"]
      BY <3>1 DEF KeyOf, Key
    <3>3. Owed(p)' = One(KeyOf[Msg])
      BY <3>2, <2>1, <2>4, <1>1 DEF Owed
    <3>4. ASSUME Reachable(p)' PROVE Balance(Due(p), Owed(p), Stream(p), requested[p])'
      <4>1. PICK rest, m, d, o : rest = Stream(p)' /\ m = Msg /\ d = Due(p) /\ o = Owed(p)
        OBVIOUS
      <4>2. rest \in Seq(Unit) /\ m \in Requests /\ m \in Answered /\ d \in Seq(Message)
        BY <4>1, <3>1, <2>4, <1>3, <1>4, <1>5, DueFacts
      <4>2a. o = <<>> /\ o \in Seq(Keys)
        BY <4>1, <1>4, EmptySeq
      <4>3. Balance(Due(p), Owed(p), Stream(p), requested[p])
        BY <3>4, ReachableBefore DEF Accounted
      <4>4. Balance(d, o, Cat(Units(m), rest), requested[p])
        BY <4>1, <4>3, <2>4, <1>5, Zenon
      <4>5. Balance(d, One(KeyOf[m]), rest, requested[p])
        BY <4>2, <4>2a, <4>4, BalanceTake
      <4>6. Balance(Due(p)', Owed(p)', Stream(p)', requested'[p])
        BY <4>1, <4>5, <3>3, <2>2, <1>1, Zenon
      <4> QED BY <4>6, Zenon DEF Balance
    <3> QED BY <3>4, <2>4, <1>5 DEF Accounted
  <2> QED BY <2>3, <2>4
<1>8. CASE DispatchDuplicate \/ DispatchCancel
  <2>1. ~SubmitReturn
    BY <1>1 DEF SubmitReturn
  <2>2. PICK ack \in Acks : /\ outbox' = << To(conn, ack) >> /\ pc' = "send" /\ Msg \in Answered
                            /\ AckKeyOf[ack] = KeyOf[Msg]
    BY <2>1, <1>8, AckingStep DEF AnswerInv
  <2>3. Due(p)' = IF p = fd_table[conn] THEN Cat(Due(p), One(ack)) ELSE Due(p)
    BY <2>2, <1>1, <1>4, AckBecomesDue
  <2>4. Owed(p)' = <<>>
    BY <2>2, NothingOwed
  <2>5. CASE p # fd_table[conn]
    BY <2>3, <2>4, <2>5, <1>1, <1>4, <1>5, SameAccount
  <2>6. CASE p = fd_table[conn]
    <3>1. ASSUME Reachable(p)' PROVE Balance(Due(p), Owed(p), Stream(p), requested[p])'
      <4>1. PICK rest, m, d, o : rest = Stream(p)' /\ m = Msg /\ d = Due(p) /\ o = Owed(p)
        OBVIOUS
      <4>2. rest \in Seq(Unit) /\ m \in Requests /\ m \in Answered /\ d \in Seq(Message)
        BY <4>1, <2>2, <2>6, <1>3, <1>4, <1>5, DueFacts
      <4>2a. o = <<>> /\ o \in Seq(Keys)
        BY <4>1, <1>4, EmptySeq
      <4>3. Balance(Due(p), Owed(p), Stream(p), requested[p])
        BY <3>1, ReachableBefore DEF Accounted
      <4>4. Balance(d, o, Cat(Units(m), rest), requested[p])
        BY <4>1, <4>3, <2>6, <1>5, Zenon
      <4>5. Balance(d, One(KeyOf[m]), rest, requested[p])
        BY <4>2, <4>2a, <4>4, BalanceTake
      <4>6. Balance(d, One(AckKeyOf[ack]), rest, requested[p])
        BY <4>1, <4>5, <2>2, Zenon
      <4>7. Balance(Cat(d, One(ack)), <<>>, rest, requested[p])
        BY <4>2, <4>6, BalanceAck
      <4>8. Due(p)' = Cat(d, One(ack))
        BY <4>1, <2>3, <2>6
      <4>9. Balance(Due(p)', Owed(p)', Stream(p)', requested'[p])
        BY <4>1, <4>7, <4>8, <2>4, <1>1, Zenon
      <4> QED BY <4>9, Zenon DEF Balance
    <3> QED BY <3>1, <2>6, <1>5 DEF Accounted
  <2> QED BY <2>5, <2>6
<1> QED BY <1>6, <1>7, <1>8

(* submit returns: the ack that was owed becomes due.                      *)
LEMMA ReturnAccount ==
    ASSUME ServerInv, AnswerInv, [ServerNext]_vars, NEW p \in Peers, Accounted(p), SubmitReturn
    PROVE  Accounted(p)'
<1>1. PICK ack \in Acks :
         /\ outbox' = << To(conn, ack) >> /\ outbox = <<>> /\ pc = "match" /\ pc' = "send" /\ Busy
         /\ UNCHANGED <<fd_table, inbox, requested, conn, wire, read_buf>>
         /\ ack = Ack(incoming.id, "NewOrder", 0)
  BY AckingStep DEF AnswerInv
<1>2. Stream(p)' = Stream(p)
  BY <1>1, StreamFacts, StreamSame
<1>3. Due(p)' = IF p = fd_table[conn] THEN Cat(Due(p), One(ack)) ELSE Due(p)
  BY <1>1, AckBecomesDue DEF AnswerInv
<1>4. Owed(p)' = <<>>
  BY <1>1, NothingOwed
<1>5. CASE p # fd_table[conn]
  <2>1. Owed(p) = <<>>
    BY <1>5 DEF Owed
  <2> QED BY <2>1, <1>1, <1>2, <1>3, <1>4, <1>5, SameAccount
<1>6. CASE p = fd_table[conn]
  <2>1. AckKeyOf[ack] = [id |-> incoming.id, request |-> "NewOrder"]
    BY <1>1 DEF AckKeyOf, AckKey, Ack
  <2>2. Owed(p) = One(AckKeyOf[ack])
    BY <2>1, <1>1, <1>6 DEF Owed
  <2>3. ASSUME Reachable(p)' PROVE Balance(Due(p), Owed(p), Stream(p), requested[p])'
    <3>1. PICK d : d = Due(p)
      OBVIOUS
    <3>2. d \in Seq(Message)
      BY <3>1, DueFacts DEF AnswerInv
    <3>3. Balance(Due(p), Owed(p), Stream(p), requested[p])
      BY <2>3, ReachableBefore DEF Accounted
    <3>4. Balance(d, One(AckKeyOf[ack]), Stream(p), requested[p])
      BY <3>1, <3>3, <2>2, Zenon
    <3>5. Balance(Cat(d, One(ack)), <<>>, Stream(p), requested[p])
      BY <3>2, <3>4, BalanceAck
    <3>6. Due(p)' = Cat(d, One(ack))
      BY <3>1, <1>3, <1>6
    <3>7. Balance(Due(p)', Owed(p)', Stream(p)', requested'[p])
      BY <3>5, <3>6, <1>1, <1>2, <1>4, Zenon
    <3> QED BY <3>7, Zenon DEF Balance
  <2>4. Framed(Stream(p)')
    BY <1>2, Zenon DEF Accounted
  <2> QED BY <2>3, <2>4 DEF Accounted
<1> QED BY <1>5, <1>6

(* Fills are no acks.                                                      *)
LEMMA ReportAccount ==
    ASSUME ServerInv, AnswerInv, MessagesOK', [ServerNext]_vars, NEW p \in Peers, Accounted(p),
           ReportFill
    PROVE  Accounted(p)'
<1>1. /\ outbox = <<>> /\ outbox' \in Seq(Envelope) /\ pc = "send" /\ pc' = "send"
      /\ \A i \in 1..Len(outbox') : outbox'[i].msg = FillMsg(Head(to_report))
      /\ UNCHANGED <<fd_table, inbox, requested, wire, read_buf>>
  BY ReportingStep
<1>2. Stream(p)' = Stream(p)
  BY <1>1, StreamFacts, StreamSame
<1>3. Owed(p)' = Owed(p)
  BY <1>1, NothingOwed
<1>4. PICK i, b : i = inbox[p] /\ b = Bound(p)'
  OBVIOUS
<1>5. Due(p) = i /\ i \in Seq(Message)
  BY <1>1, <1>4, DueFacts DEF AnswerInv
<1>6. b = BoundIn(outbox', fd_table', p)
  BY <1>4, Zenon DEF Bound
<1>7. b \in Seq(Message) /\ ToSet(b) \cap Acks = {}
  <2>1. b \in Seq(Message)
    BY <1>1, <1>6, BoundLaws
  <2>2. \A y \in ToSet(b) : \E k \in 1..Len(outbox') : y = outbox'[k].msg
    <3>1. PICK o, t : o = outbox' /\ t = fd_table'
      OBVIOUS
    <3>2. o \in Seq(Envelope)
      BY <3>1, <1>1
    <3>3. \A y \in ToSet(BoundIn(o, t, p)) : \E k \in 1..Len(o) : t[o[k].fd] = p /\ y = o[k].msg
      BY <3>2, BoundFrom
    <3> QED BY <3>1, <3>3, <1>6
  <2>3. FillMsg(Head(to_report)) \notin Acks
    BY DEF FillMsg, Acks
  <2> QED BY <2>1, <2>2, <2>3, <1>1
<1>8. Due(p)' = Cat(i, b)
  BY <1>1, <1>4, Zenon DEF Due
<1>9. AckKeysIn(Cat(i, b)) = Cat(AckKeysIn(i), AckKeysIn(b))
  BY <1>5, <1>7, AckKeysInLaws
<1>10. AckKeysIn(b) = <<>>
  BY <1>7, NoAcksNoKeys
<1>11. AckKeysIn(i) \in Seq(Keys)
  BY <1>5, AckKeysInLaws
<1>12. Cat(AckKeysIn(i), <<>>) = AckKeysIn(i)
  BY <1>11, CatLaws
<1>13. AckKeysIn(Due(p)') = AckKeysIn(Due(p))
  BY <1>5, <1>8, <1>9, <1>10, <1>12, Zenon
<1>14. Framed(Stream(p)')
  BY <1>2, Zenon DEF Accounted
<1>15. ASSUME Reachable(p)' PROVE Balance(Due(p), Owed(p), Stream(p), requested[p])'
  <2>1. Balance(Due(p), Owed(p), Stream(p), requested[p])
    BY <1>15, ReachableBefore DEF Accounted
  <2>2. Balance(Due(p)', Owed(p)', Stream(p)', requested'[p])
    BY <2>1, <1>1, <1>2, <1>3, <1>13, Zenon DEF Balance
  <2> QED BY <2>2, Zenon DEF Balance
<1> QED BY <1>14, <1>15 DEF Accounted

(* A connection is removed: its client is gone, the others do not notice.  *)
LEMMA RemoveAccount ==
    ASSUME ServerInv, AnswerInv, MessagesOK', OutboxOK', [ServerNext]_vars, NEW p \in Peers,
           Accounted(p), RecvEnd \/ ParseViolation
    PROVE  Accounted(p)'
<1>1. PICK fd : /\ fd \in ToSet(connections) /\ remove_connection(fd)
                /\ UNCHANGED <<outbox, inbox, requested>>
                /\ pc \in {"scan", "parse"} /\ pc' = "scan"
  <2>1. CASE RecvEnd
    <3>1. ready # <<>> /\ ready \in Seq(Fds) /\ remove_connection(Head(ready))
          /\ pc = "scan" /\ UNCHANGED <<outbox, inbox, requested, pc>>
      BY <2>1 DEF RecvEnd, ServerInv, ServerTypeOK, remove_connection
    <3>2. Head(ready) \in ToSet(ready)
      BY <3>1, TailSet
    <3>3. Head(ready) \in ToSet(connections)
      BY <3>2 DEF ServerInv, NetInv, ReadyOK
    <3> QED BY <3>1, <3>3
  <2>2. CASE ParseViolation
    <3>1. remove_connection(conn) /\ pc = "parse" /\ pc' = "scan"
          /\ UNCHANGED <<outbox, inbox, requested>>
      BY <2>2 DEF ParseViolation, Complete, remove_connection
    <3>2. conn \in ToSet(connections)
      BY <3>1 DEF ServerInv, NetInv, HandlingOK, Busy
    <3> QED BY <3>1, <3>2
  <2> QED BY <2>1, <2>2
<1>2. fd \in Fds /\ fd_table[fd] \in Peers
  BY <1>1, ConnectionFacts DEF ServerInv
<1>3. Stream(p)' = IF p = fd_table[fd] THEN <<>> ELSE Stream(p)
  BY <1>1, <1>2, RemoveStream
<1>4. outbox = <<>> /\ outbox' = <<>>
  BY <1>1 DEF AnswerInv, OutboxOK
<1>5. Due(p)' = Due(p)
  <2>1. Due(p) = inbox[p]
    BY <1>4, DueFacts DEF AnswerInv
  <2>2. Due(p)' = inbox'[p]
    BY <1>4, NextDueEmpty
  <2> QED BY <2>1, <2>2, <1>1, Zenon
<1>6. Owed(p)' = Owed(p)
  BY <1>1, NothingOwed
<1>7. CASE p # fd_table[fd]
  BY <1>1, <1>3, <1>5, <1>6, <1>7, SameAccount
<1>8. CASE p = fd_table[fd]
  <2>1. ~Reachable(p)'
    BY <1>1, <1>8 DEF remove_connection, Reachable, ServerInv, ServerTypeOK
  <2>2. Stream(p)' = <<>>
    BY <1>3, <1>8
  <2>3. Framed(Stream(p)')
    BY <2>2 DEF Framed
  <2> QED BY <2>1, <2>3 DEF Accounted
<1> QED BY <1>7, <1>8

(* At the start there is nothing to account for.                           *)
LEMMA InitAnswerInv == ServerInit => AnswerInv
<1> SUFFICES ASSUME ServerInit PROVE AnswerInv
  OBVIOUS
<1>1. MessagesOK
  BY EmptySeq DEF ServerInit, MessagesOK
<1>2. OutboxOK
  BY DEF ServerInit, OutboxOK
<1>3. ASSUME NEW p \in Peers
      PROVE  Framed(Stream(p)) /\ Balance(Due(p), Owed(p), Stream(p), requested[p])
  <2>1. ServerInv
    BY InitServerInv
  <2>2. wire[p] = <<>> /\ wire[p] \in Seq(Unit) /\ inbox[p] = <<>> /\ requested[p] = <<>>
        /\ outbox = <<>> /\ pc # "match" /\ \A fd \in Fds : fd_table[fd] # p
    BY ServerAssumption, EmptySeq DEF ServerInit
  <2>3. Stream(p) = <<>>
    <3>1. wire[p] \in Seq(Unit) /\ \A fd \in Fds : fd_table[fd] # p
      BY <2>2
    <3>2. StreamOf(fd_table, read_buf, wire, p) = wire[p]
      BY <3>1, StreamWaiting
    <3> QED BY <3>2, <2>2, StreamIs, Zenon
  <2>4. Framed(Stream(p))
    BY <2>3 DEF Framed
  <2>5. Due(p) = <<>> /\ Owed(p) = <<>>
    <3>1. Due(p) = inbox[p]
      BY <2>2, <1>1, DueFacts
    <3> QED BY <3>1, <2>2, NothingOwed
  <2>6. PICK a \in Seq(Message), r \in Seq(Requests), u \in Seq(Unit) : TRUE
    BY EmptySeq
  <2>7. AckKeysIn(<<>>) = <<>>
    BY <2>6, AckKeysInLaws
  <2>8. MessagesIn(<<>>) = <<>>
    BY <2>6, MessagesInLaws
  <2>9. RequestKeys(<<>>) = <<>>
    BY <2>6, RequestKeysLaws
  <2>10. Cat(<<>>, <<>>) = <<>>
    BY DEF Cat
  <2>11. Balance(<<>>, <<>>, <<>>, <<>>)
    BY <2>7, <2>8, <2>9, <2>10, Zenon DEF Balance
  <2> QED BY <2>2, <2>3, <2>4, <2>5, <2>11, Zenon
<1> QED BY <1>1, <1>2, <1>3 DEF AnswerInv, StreamsOK, AcksOK

(* Every step keeps the account.                                           *)
LEMMA NextAnswerInv == ServerInv /\ AnswerInv /\ [ServerNext]_vars => AnswerInv'
<1> SUFFICES ASSUME ServerInv, AnswerInv, [ServerNext]_vars PROVE AnswerInv'
  OBVIOUS
<1>1. MessagesOK' /\ OutboxOK'
  BY NextMessagesOK, NextOutboxOK DEF AnswerInv
<1>2. ASSUME NEW p \in Peers PROVE Accounted(p)'
  <2>1. Accounted(p)
    BY DEF AnswerInv, StreamsOK, AcksOK, Accounted
  <2>2. CASE \E q \in Peers : \E m \in Requests : Write(q, m)
    BY <2>1, <2>2, WriteAccount
  <2>3. CASE Subscribe \/ DispatchNewOrder \/ DispatchDuplicate \/ DispatchCancel
    BY <2>1, <2>3, TakeAccount
  <2>4. CASE SubmitReturn
    BY <2>1, <2>4, ReturnAccount
  <2>5. CASE ReportFill
    BY <2>1, <2>5, <1>1, ReportAccount
  <2>6. CASE RecvEnd \/ ParseViolation
    BY <2>1, <2>6, <1>1, RemoveAccount
  <2>7. CASE \/ SendStep \/ AcceptOne \/ RecvData \/ SubmitTrades
             \/ Poll \/ AcceptDone \/ ScanDone \/ ParseWaits \/ DispatchDone \/ UNCHANGED vars
             \/ \E q \in Peers : Connect(q) \/ ClientCloses(q) \/ ClientResets(q) \/ ResetArrives(q)
    BY <2>1, <2>7, <1>1, QuietAccount
  <2> QED BY <2>2, <2>3, <2>4, <2>5, <2>6, <2>7 DEF ServerNext, ServerStep, ClientStep, SendStep
<1>3. StreamsOK' /\ AcksOK'
  BY <1>2 DEF StreamsOK, AcksOK, Accounted
<1> QED BY <1>1, <1>3 DEF AnswerInv

(* Between dispatches nothing is owed and nothing is on its way.           *)
LEMMA AnswerInvGivesAcks == ServerInv /\ AnswerInv => OneAckPerRequest
<1> SUFFICES ASSUME ServerInv, AnswerInv, BetweenDispatches, NEW p \in Peers, link[p] = "open"
             PROVE  AckKeys(p) \o RequestKeys(Unparsed(p)) = RequestKeys(requested[p])
  BY DEF OneAckPerRequest
<1>1. pc # "match" /\ pc # "send"
  BY DEF BetweenDispatches
<1>2. outbox = <<>> /\ MessagesOK
  BY <1>1 DEF AnswerInv, OutboxOK
<1>3. Due(p) = inbox[p] /\ inbox[p] \in Seq(Message) /\ Owed(p) = <<>>
  BY <1>1, <1>2, DueFacts, NothingOwed
<1>4. Balance(inbox[p], <<>>, Stream(p), requested[p])
  BY <1>3 DEF AnswerInv, AcksOK, Reachable
<1>5. AckKeys(p) \in Seq(Keys)
  BY <1>3, AckKeysInLaws DEF AckKeys
<1>6. Cat(AckKeys(p), <<>>) = AckKeys(p)
  BY <1>5, CatLaws
<1>7. Cat(AckKeys(p), RequestKeys(Unparsed(p))) = RequestKeys(requested[p])
  BY <1>4, <1>6, Zenon DEF Balance, AckKeys, Unparsed
<1> QED BY <1>7 DEF Cat

(* The account of every client's requests holds in every state.            *)
THEOREM AnswersAccounted == ServerSpec => []AnswerInv
BY InitServerInv, NextServerInv, InitAnswerInv, NextAnswerInv, PTL DEF ServerSpec

(* Every NewOrder and Cancel is answered by exactly one ack, in the order  *)
(* written, however the bytes were split over reads.                       *)
THEOREM RequestsAckedOnce == ServerSpec => []OneAckPerRequest
BY ServerInvariant, AnswersAccounted, AnswerInvGivesAcks, PTL

-----------------------------------------------------------------------------
(* The steps with their history, and the fills of a submit. *)

(* The steps that the history does not follow.                             *)
OtherStep ==
    \/ Poll \/ AcceptOne \/ AcceptDone \/ ScanDone \/ RecvData \/ RecvEnd
    \/ ParseWaits \/ ParseViolation \/ Subscribe
    \/ DispatchDuplicate \/ DispatchNewOrder \/ SubmitTrades \/ DispatchCancel \/ DispatchDone
    \/ SendStep \/ ClientStep \/ UNCHANGED vars

(* A step of the server with its history is a step of the server.          *)
LEMMA HistoryStep ==
    ASSUME [MCNext]_allvars
    PROVE  /\ [ServerNext]_vars
           /\ HSubmitReturn \/ HReportFill \/ (OtherStep /\ UNCHANGED hvars)
<1>1. CASE MCServerStep
  BY <1>1 DEF MCServerStep, ServerNext, ServerStep, OtherStep, SendStep, HSubmitReturn, HReportFill
<1>2. CASE MCClientStep
  BY <1>2 DEF MCClientStep, ServerNext, ClientStep, OtherStep
<1>3. CASE UNCHANGED allvars
  BY <1>3 DEF allvars, OtherStep
<1> QED BY <1>1, <1>2, <1>3 DEF MCNext

(* One trade: with an order of the book that is not the incoming one, and  *)
(* unless the incoming order is used up the other one is.                  *)
LEMMA TradeFacts ==
    ASSUME ServerInv, SubmitTrades
    PROVE  \E f \in Fill :
              /\ fills' = Append(fills, f)
              /\ f.timestamp = next_timestamp /\ next_timestamp' = next_timestamp + 1
              /\ f.incoming_order_id = incoming.id /\ incoming'.id = incoming.id
              /\ contains(f.resting_order_id) /\ f.resting_order_id # incoming.id
              /\ incoming.quantity > 0
              /\ DOMAIN order_index' \subseteq DOMAIN order_index
              /\ incoming'.quantity > 0 => ~contains(f.resting_order_id)'
<1> DEFINE other == Opposite(incoming.side)
<1>0. LadderInv /\ LocalsOK /\ IncomingNotQueued /\ MatchOne
  BY BookInvParts DEF ServerInv, SubmitTrades
<1>1. incoming \in Order /\ incoming # NoOrder /\ other \in Sides /\ incoming.quantity \in Nat
  BY <1>0 DEF MatchOne, LocalsOK, Opposite, Sides, Order
<1>2. PICK p \in DOMAIN book[other] : p = BestPrice(other)
  BY <1>0, <1>1, BestPriceIsBest DEF MatchOne, CanMatch, LadderInv
<1>3. PICK s \in Sides : s = other
  BY <1>1
<1> DEFINE Q == book[s][p]
<1>4. /\ p \in DOMAIN book[s] /\ p \in Prices
      /\ Q \in Seq(Order) /\ Q # <<>> /\ Len(Q) \in Nat /\ 1 \in 1..Len(Q) /\ Q[1] \in Order
      /\ Q[1].quantity > 0 /\ contains(Q[1].id)
  <2>1. /\ p \in DOMAIN book[s] /\ p \in Prices
        /\ Q \in Seq(Order) /\ Q # <<>> /\ Len(Q) \in Nat /\ 1 \in 1..Len(Q) /\ Q[1] \in Order
    BY <1>0, <1>2, <1>3 DEF LadderInv, NoEmptyLevel
  <2>2. Q[1].quantity > 0
    BY <2>1, <1>0 DEF LadderInv, RestingIsLive
  <2>3. contains(Q[1].id)
    BY <2>1, <1>0 DEF LadderInv, QueuedIsIndexed
  <2> QED BY <2>1, <2>2, <2>3
<1>5. PICK n \in Nat : n = Smaller(incoming.quantity, Q[1].quantity)
  BY <1>1, <1>4 DEF Smaller, Order
<1>6. PICK f : f = [resting_order_id |-> Q[1].id, incoming_order_id |-> incoming.id,
                    resting_side |-> s, price_ticks |-> p, quantity |-> n,
                    timestamp |-> next_timestamp]
  OBVIOUS
<1>7. /\ fills' = Append(fills, f)
      /\ next_timestamp' = next_timestamp + 1
      /\ incoming' = [incoming EXCEPT !.quantity = incoming.quantity - n]
      /\ order_index' = IF Q[1].quantity = n THEN IndexErase(Q[1].id) ELSE order_index
  BY <1>0, <1>2, <1>3, <1>5, <1>6 DEF MatchOne
<1>8. f \in Fill
  BY <1>0, <1>1, <1>3, <1>4, <1>5, <1>6 DEF Fill, Order, LocalsOK
<1>9. f.resting_order_id = Q[1].id /\ f.incoming_order_id = incoming.id /\ f.timestamp = next_timestamp
  BY <1>6
<1>10. incoming'.id = incoming.id /\ incoming'.quantity = incoming.quantity - n
  BY <1>1, <1>7 DEF Order
<1>11. incoming.quantity > 0
  BY <1>0 DEF MatchOne, CanMatch
<1>12. Q[1].id # incoming.id
  BY <1>0, <1>1, <1>4 DEF IncomingNotQueued
<1>13. DOMAIN order_index' \subseteq DOMAIN order_index
  BY <1>7 DEF IndexErase
<1>14. ASSUME incoming'.quantity > 0 PROVE Q[1].id \notin DOMAIN order_index'
  <2>1. Q[1].quantity \in Nat
    BY <1>4 DEF Order
  <2>2. Q[1].quantity = n
    BY <2>1, <1>1, <1>5, <1>10, <1>14 DEF Smaller
  <2> QED BY <2>2, <1>7 DEF IndexErase
<1>15. incoming'.quantity > 0 => ~contains(f.resting_order_id)'
  BY <1>9, <1>14 DEF contains
<1> QED BY <1>4, <1>7, <1>8, <1>9, <1>10, <1>11, <1>12, <1>13, <1>15

(* The steps that take the fills of a submit from one place to the next.   *)
LEMMA ComingFrame ==
    ASSUME ServerInv, OutboxOK, ComingOK, OtherStep, ~SubmitTrades
    PROVE  /\ Coming' = Coming
           /\ next_timestamp \in Nat /\ next_timestamp' \in Nat /\ next_timestamp <= next_timestamp'
           /\ pc' # "match" => incoming' = NoOrder /\ fills' = <<>>
           /\ pc' = "match" => \/ fills' = <<>>
                               \/ pc = "match" /\ UNCHANGED <<fills, incoming, order_index>>
<1>0. next_timestamp \in Nat
  BY DEF ServerInv, BookInv, BookTypeOK
<1>1. CASE DispatchNewOrder
  <2>1. /\ pc = "parse" /\ pc' = "match" /\ fills' = fills /\ next_timestamp' = next_timestamp + 1
    BY <1>1 DEF DispatchNewOrder, Complete, SubmitBegin
  <2>2. fills = <<>>
    BY <2>1 DEF ComingOK
  <2> QED BY <1>0, <2>1, <2>2 DEF Coming
<1>2. CASE DispatchDuplicate \/ DispatchCancel
  <2>1. /\ pc = "parse" /\ pc' = "send" /\ UNCHANGED <<fills, incoming, next_timestamp, to_report>>
    BY <1>2 DEF DispatchDuplicate, DispatchCancel, Complete, CancelFound, CancelNotFound, bookVars
  <2>2. fills = <<>> /\ incoming = NoOrder /\ to_report = <<>>
    BY <2>1 DEF ComingOK, OutboxOK
  <2> QED BY <1>0, <2>1, <2>2 DEF Coming
<1>3. CASE DispatchDone
  <2>1. /\ pc = "send" /\ pc' = "parse" /\ UNCHANGED <<fills, incoming, next_timestamp>>
        /\ to_report = <<>>
    BY <1>3 DEF DispatchDone, bookVars
  <2>2. fills = <<>> /\ incoming = NoOrder
    BY <2>1 DEF ComingOK
  <2> QED BY <1>0, <2>1, <2>2 DEF Coming
<1>4. CASE SendStep \/ ClientStep \/ UNCHANGED vars
  <2>1. UNCHANGED <<pc, to_report, fills, incoming, next_timestamp, order_index>>
    BY <1>4 DEF SendStep, SendDelivered, SendToNobody, SendLost, SendBroken, sendFrame, ClientStep,
         Connect, Write, ClientCloses, ClientResets, ResetArrives, kernelFrame, vars, bookVars,
         serverVars
  <2>2. Coming' = Coming
    BY <2>1 DEF Coming
  <2> QED BY <1>0, <2>1, <2>2 DEF ComingOK
<1>5. CASE \/ Poll \/ AcceptOne \/ AcceptDone \/ ScanDone \/ RecvData \/ RecvEnd
           \/ ParseWaits \/ ParseViolation \/ Subscribe
  <2>1. /\ pc \notin {"match", "send"} /\ pc' \notin {"match", "send"}
        /\ UNCHANGED <<fills, incoming, next_timestamp>>
    BY <1>5 DEF Poll, AcceptOne, AcceptDone, ScanDone, RecvData, RecvEnd, ParseWaits,
         ParseViolation, Subscribe, Complete, bookVars
  <2>2. Coming' = Coming
    BY <2>1 DEF Coming
  <2> QED BY <1>0, <2>1, <2>2 DEF ComingOK
<1> QED BY <1>1, <1>2, <1>3, <1>4, <1>5 DEF OtherStep

(* The fills of a submit are in the order of their timestamps, and with    *)
(* different orders.                                                       *)
Sorted(c) ==
    \A i, j \in 1..Len(c) : i < j =>
        c[i].timestamp < c[j].timestamp /\ c[i].resting_order_id # c[j].resting_order_id

Before(c, t) == \A i \in 1..Len(c) : c[i].timestamp < t

(* ComingOK in these words.                                                *)
LEMMA ComingParts ==
    ComingOK <=>
        /\ pc # "match" => incoming = NoOrder /\ fills = <<>>
        /\ Sorted(Coming) /\ Before(Coming, next_timestamp)
        /\ pc = "match" => \A i \in 1..Len(fills) :
              /\ fills[i].incoming_order_id = incoming.id
              /\ fills[i].resting_order_id # incoming.id
              /\ incoming.quantity > 0 => ~contains(fills[i].resting_order_id)
BY DEF ComingOK, Sorted, Before

(* What Coming is in a dispatch.                                           *)
LEMMA ComingIs ==
    /\ pc = "match" => Coming = fills
    /\ pc = "send" => Coming = to_report
    /\ pc' = "match" => Coming' = fills'
    /\ pc' = "send" => Coming' = to_report'
    /\ ServerInv => Coming \in Seq(Fill)
BY EmptySeq DEF Coming, ServerInv, BookInv, BookTypeOK, BuffersOK

(* A fill that is later and with another order joins the others.           *)
LEMMA SortedAppend ==
    ASSUME NEW c \in Seq(Fill), NEW f \in Fill, Sorted(c), Before(c, f.timestamp),
           \A i \in 1..Len(c) : c[i].resting_order_id # f.resting_order_id,
           NEW d, d = Append(c, f)
    PROVE  Sorted(d) /\ Before(d, f.timestamp + 1)
<1>1. /\ Len(d) = Len(c) + 1 /\ Len(c) \in Nat /\ d[Len(c) + 1] = f
      /\ \A i \in 1..Len(c) : d[i] = c[i] /\ c[i] \in Fill
  BY AppendProperties, ElementOfSeq
<1>2. \A i \in 1..Len(d) : (i \in 1..Len(c) /\ i < Len(c) + 1) \/ i = Len(c) + 1
  BY <1>1
<1>3. f.timestamp \in Nat /\ \A i \in 1..Len(c) : c[i].timestamp \in Nat
  BY <1>1 DEF Fill
<1>4. ASSUME NEW i \in 1..Len(d), NEW j \in 1..Len(d), i < j
      PROVE  d[i].timestamp < d[j].timestamp /\ d[i].resting_order_id # d[j].resting_order_id
  <2>1. i \in 1..Len(c) /\ d[i] = c[i]
    BY <1>1, <1>4
  <2>2. CASE j = Len(c) + 1
    BY <2>1, <2>2, <1>1 DEF Before
  <2>3. CASE j \in 1..Len(c)
    <3>1. d[j] = c[j]
      BY <2>3, <1>1
    <3> QED BY <3>1, <2>1, <2>3, <1>4 DEF Sorted
  <2> QED BY <2>2, <2>3, <1>2
<1>5. ASSUME NEW i \in 1..Len(d) PROVE d[i].timestamp < f.timestamp + 1
  <2>1. CASE i = Len(c) + 1
    BY <2>1, <1>1, <1>3
  <2>2. CASE i \in 1..Len(c)
    <3>1. d[i] = c[i] /\ c[i].timestamp \in Nat /\ c[i].timestamp < f.timestamp
      BY <2>2, <1>1, <1>3 DEF Before
    <3> QED BY <3>1, <1>3
  <2> QED BY <2>1, <2>2, <1>2
<1> QED BY <1>4, <1>5 DEF Sorted, Before

(* The first is reported, and the others are later and with other orders.  *)
LEMMA SortedTail ==
    ASSUME NEW c \in Seq(Fill), c # <<>>, Sorted(c), NEW t, Before(c, t), NEW d, d = Tail(c)
    PROVE  /\ d \in Seq(Fill) /\ Sorted(d) /\ Before(d, t) /\ Head(c) \in Fill
           /\ Head(c).timestamp < t
           /\ \A i \in 1..Len(d) : /\ d[i] = c[i + 1] /\ i + 1 \in 1..Len(c)
                                   /\ Head(c).timestamp < d[i].timestamp
                                   /\ Head(c).resting_order_id # d[i].resting_order_id
<1>1. /\ d \in Seq(Fill) /\ Len(d) = Len(c) - 1 /\ Len(c) \in Nat \ {0} /\ Head(c) = c[1]
      /\ \A i \in 1..Len(d) : d[i] = c[i + 1]
  BY HeadTailProperties, EmptySeq
<1>2. 1 \in 1..Len(c) /\ \A i \in 1..Len(d) : i + 1 \in 1..Len(c) /\ 1 < i + 1
  BY <1>1
<1>3. c[1] \in Fill
  BY <1>2, ElementOfSeq
<1>4. Sorted(d)
  <2>1. ASSUME NEW i \in 1..Len(d), NEW j \in 1..Len(d), i < j
        PROVE  d[i].timestamp < d[j].timestamp /\ d[i].resting_order_id # d[j].resting_order_id
    <3>1. i + 1 < j + 1
      BY <2>1
    <3> QED BY <3>1, <1>1, <1>2 DEF Sorted
  <2> QED BY <2>1 DEF Sorted
<1>5. Before(d, t)
  BY <1>1, <1>2 DEF Before
<1>6. Head(c).timestamp < t
  BY <1>1, <1>2 DEF Before
<1>7. \A i \in 1..Len(d) : /\ Head(c).timestamp < d[i].timestamp
                           /\ Head(c).resting_order_id # d[i].resting_order_id
  BY <1>1, <1>2 DEF Sorted
<1> QED BY <1>1, <1>2, <1>3, <1>4, <1>5, <1>6, <1>7

(* Every step keeps the fills of a submit in order and apart.              *)
LEMMA NextComingOK ==
    ASSUME ServerInv, OutboxOK, ComingOK, OtherStep \/ SubmitReturn \/ ReportFill
    PROVE  ComingOK'
<1>0. /\ Sorted(Coming) /\ Before(Coming, next_timestamp) /\ Coming \in Seq(Fill)
      /\ next_timestamp \in Nat
  BY ComingParts, ComingIs DEF ServerInv, BookInv, BookTypeOK
<1>1. CASE SubmitTrades
  <2>1. pc = "match" /\ pc' = "match"
    BY <1>1 DEF SubmitTrades, serverVars
  <2>2. PICK f \in Fill :
              /\ fills' = Append(fills, f)
              /\ f.timestamp = next_timestamp /\ next_timestamp' = next_timestamp + 1
              /\ f.incoming_order_id = incoming.id /\ incoming'.id = incoming.id
              /\ contains(f.resting_order_id) /\ f.resting_order_id # incoming.id
              /\ incoming.quantity > 0
              /\ DOMAIN order_index' \subseteq DOMAIN order_index
              /\ incoming'.quantity > 0 => ~contains(f.resting_order_id)'
    BY <1>1, TradeFacts
  <2>3. \A i \in 1..Len(fills) : /\ fills[i].incoming_order_id = incoming.id
                                 /\ fills[i].resting_order_id # incoming.id
                                 /\ ~contains(fills[i].resting_order_id)
    BY <2>1, <2>2 DEF ComingOK
  <2>4. PICK c, d : c = fills /\ d = fills'
    OBVIOUS
  <2>5. c \in Seq(Fill) /\ Sorted(c) /\ Before(c, f.timestamp) /\ d = Append(c, f)
        /\ \A i \in 1..Len(c) : c[i].resting_order_id # f.resting_order_id
    BY <2>1, <2>2, <2>3, <2>4, <1>0, ComingIs
  <2>6. Sorted(d) /\ Before(d, f.timestamp + 1)
    BY <2>5, SortedAppend
  <2>7. Sorted(Coming') /\ Before(Coming', next_timestamp')
    BY <2>1, <2>2, <2>4, <2>6, ComingIs, Zenon
  <2>8. ASSUME NEW i \in 1..Len(d)
        PROVE  /\ d[i].incoming_order_id = incoming'.id
               /\ d[i].resting_order_id # incoming'.id
               /\ incoming'.quantity > 0 => ~contains(d[i].resting_order_id)'
    <3>1. /\ Len(d) = Len(c) + 1 /\ Len(c) \in Nat /\ d[Len(c) + 1] = f
          /\ \A k \in 1..Len(c) : d[k] = c[k]
      BY <2>5, AppendProperties
    <3>2. i \in 1..Len(c) \/ i = Len(c) + 1
      BY <3>1
    <3>3. CASE i \in 1..Len(c)
      BY <3>1, <3>3, <2>2, <2>3, <2>4 DEF contains
    <3>4. CASE i = Len(c) + 1
      BY <3>1, <3>4, <2>2
    <3> QED BY <3>2, <3>3, <3>4
  <2> QED BY <2>1, <2>4, <2>7, <2>8, ComingParts DEF ComingOK, Sorted, Before
<1>2. CASE SubmitReturn
  <2>1. /\ pc = "match" /\ pc' = "send" /\ to_report' = fills /\ incoming' = NoOrder
        /\ fills' = <<>> /\ next_timestamp' = next_timestamp
    BY <1>2 DEF SubmitReturn, Return
  <2>2. Coming' = Coming
    BY <2>1, ComingIs
  <2>3. Sorted(Coming') /\ Before(Coming', next_timestamp')
    BY <2>1, <2>2, <1>0, Zenon
  <2> QED BY <2>1, <2>3 DEF ComingOK, Sorted, Before
<1>3. CASE ReportFill
  <2>1. /\ pc = "send" /\ pc' = "send" /\ to_report' = Tail(to_report) /\ to_report # <<>>
        /\ UNCHANGED <<incoming, fills, next_timestamp>>
    BY <1>3 DEF ReportFill, bookVars
  <2>2. PICK c, d, t : c = to_report /\ d = to_report' /\ t = next_timestamp
    OBVIOUS
  <2>3. c \in Seq(Fill) /\ c # <<>> /\ Sorted(c) /\ Before(c, t) /\ d = Tail(c)
    BY <2>1, <2>2, <1>0, ComingIs
  <2>4. Sorted(d) /\ Before(d, t)
    BY <2>3, SortedTail
  <2>5. Sorted(Coming') /\ Before(Coming', next_timestamp')
    BY <2>1, <2>2, <2>4, ComingIs, Zenon
  <2>6. incoming' = NoOrder /\ fills' = <<>>
    BY <2>1 DEF ComingOK
  <2> QED BY <2>1, <2>5, <2>6 DEF ComingOK, Sorted, Before
<1>4. CASE OtherStep /\ ~SubmitTrades
  <2>1. /\ Coming' = Coming
        /\ next_timestamp \in Nat /\ next_timestamp' \in Nat /\ next_timestamp <= next_timestamp'
        /\ pc' # "match" => incoming' = NoOrder /\ fills' = <<>>
        /\ pc' = "match" => \/ fills' = <<>>
                            \/ pc = "match" /\ UNCHANGED <<fills, incoming, order_index>>
    BY <1>4, ComingFrame
  <2>2. Sorted(Coming')
    BY <2>1, <1>0, Zenon
  <2>3. Before(Coming', next_timestamp')
    <3>1. PICK c : c = Coming
      OBVIOUS
    <3>2. \A i \in 1..Len(c) : c[i].timestamp \in Nat /\ c[i].timestamp < next_timestamp
      <4>1. \A i \in 1..Len(c) : c[i] \in Fill
        BY <3>1, <1>0, ElementOfSeq
      <4> QED BY <4>1, <3>1, <1>0 DEF Before, Fill
    <3>3. Before(c, next_timestamp')
      BY <3>2, <2>1 DEF Before
    <3> QED BY <3>1, <3>3, <2>1, Zenon
  <2>4. ASSUME pc' = "match"
        PROVE  \A i \in 1..Len(fills') :
                  /\ fills'[i].incoming_order_id = incoming'.id
                  /\ fills'[i].resting_order_id # incoming'.id
                  /\ incoming'.quantity > 0 => fills'[i].resting_order_id \notin DOMAIN order_index'
    <3>1. CASE fills' = <<>>
      BY <3>1
    <3>2. CASE pc = "match" /\ UNCHANGED <<fills, incoming, order_index>>
      BY <3>2 DEF ComingOK, contains
    <3> QED BY <3>1, <3>2, <2>4, <2>1
  <2> QED BY <2>1, <2>2, <2>3, <2>4 DEF ComingOK, contains, Sorted, Before
<1> QED BY <1>1, <1>2, <1>3, <1>4

-----------------------------------------------------------------------------
(* What was reported. *)

(* Two fills make two messages, and none is an ack.                        *)
LEMMA FillMsgFacts ==
    ASSUME NEW f, NEW g
    PROVE  /\ FillMsg(f) = FillMsg(g) => f = g
           /\ FillMsg(f) \notin Acks
           /\ f \in Fill => FillMsg(f) \in FillMsgs /\ FillMsg(f) \in Message /\ FillOf[FillMsg(f)] = f
<1>1. FillMsg(f).fill = f /\ FillMsg(g).fill = g
  BY DEF FillMsg
<1>2. FillMsg(f) \notin Acks
  BY DEF FillMsg, Acks
<1>3. ASSUME f \in Fill PROVE FillMsg(f) \in FillMsgs
  BY <1>3 DEF FillMsg, FillMsgs
<1>4. ASSUME f \in Fill PROVE FillOf[FillMsg(f)] = f
  BY <1>1, <1>3, <1>4 DEF FillOf
<1>5. FillMsg(f) = FillMsg(g) => f = g
  BY <1>1
<1> QED BY <1>2, <1>3, <1>4, <1>5 DEF Message

(* The fill that is reported is new, and its taker is the client being     *)
(* handled.                                                                *)
LEMMA ReportFacts ==
    ASSUME ServerInv, HistoryTypeOK, ComingOK, ReportedOK, HReportFill, NEW f, f = Head(to_report)
    PROVE  /\ f \in Fill /\ f \notin Reported /\ Reported' = Reported \cup {f}
           /\ fd_table[conn] \in Peers
           /\ \A q \in Peers : taken'[q] = IF q = fd_table[conn] THEN taken[q] \cup {f} ELSE taken[q]
           /\ to_report \in Seq(Fill) /\ to_report # <<>> /\ Coming = to_report
           /\ 1 \in 1..Len(to_report) /\ f = to_report[1]
<1>1. /\ ReportFill /\ pc = "send" /\ to_report # <<>> /\ to_report \in Seq(Fill)
  BY DEF HReportFill, ReportFill, ServerInv, BuffersOK
<1>2. f \in Fill /\ f = to_report[1] /\ 1 \in 1..Len(to_report)
  BY <1>1, HeadTailProperties, EmptySeq
<1>3. Coming = to_report
  BY <1>1, ComingIs
<1>4. fd_table[conn] \in Peers
  BY <1>1, ReportingStep, StreamFacts
<1>5. f \notin Reported
  <2>1. f.timestamp \in Nat
    BY <1>2 DEF Fill
  <2>2. \A g \in Reported : g.timestamp < f.timestamp
    BY <1>2, <1>3 DEF ReportedOK
  <2> QED BY <2>1, <2>2
<1>6. taken' = [taken EXCEPT ![fd_table[conn]] = @ \cup {f}]
  BY DEF HReportFill
<1>7. \A q \in Peers : taken'[q] = IF q = fd_table[conn] THEN taken[q] \cup {f} ELSE taken[q]
  BY <1>6 DEF HistoryTypeOK
<1>8. \A g : g \in Reported' <=> g \in Reported \cup {f}
  <2>1. \A g : g \in Reported <=> \E q \in Peers : g \in taken[q]
    BY DEF Reported
  <2>2. \A g : g \in Reported' <=> \E q \in Peers : g \in taken'[q]
    BY DEF Reported
  <2> QED BY <2>1, <2>2, <1>4, <1>7
<1> QED BY <1>1, <1>2, <1>3, <1>4, <1>5, <1>7, <1>8

(* The types of the history.                                               *)
LEMMA NextHistoryTypeOK ==
    ASSUME ServerInv, HistoryTypeOK, ComingOK, ReportedOK,
           HSubmitReturn \/ HReportFill \/ UNCHANGED hvars
    PROVE  HistoryTypeOK'
<1>1. CASE HReportFill
  <2>1. PICK f : f = Head(to_report)
    OBVIOUS
  <2>2. f \in Fill /\ fd_table[conn] \in Peers
    BY <1>1, <2>1, ReportFacts
  <2>3. entitled' = [p \in Peers |-> IF p \in EntitledTo(f) THEN Append(entitled[p], f)
                                                            ELSE entitled[p]]
    BY <1>1, <2>1 DEF HReportFill
  <2>4. ASSUME NEW p \in Peers PROVE entitled[p] \in Seq(Fill) /\ Append(entitled[p], f) \in Seq(Fill)
    BY <2>2, AppendProperties DEF HistoryTypeOK
  <2>5. entitled' \in [Peers -> Seq(Fill)]
    BY <2>3, <2>4
  <2>6. taken' = [taken EXCEPT ![fd_table[conn]] = @ \cup {f}]
    BY <1>1, <2>1 DEF HReportFill
  <2>7. taken' \in [Peers -> SUBSET Fill]
    BY <2>2, <2>6 DEF HistoryTypeOK
  <2> QED BY <2>5, <2>7 DEF HistoryTypeOK
<1>2. CASE UNCHANGED <<entitled, taken>>
  BY <1>2 DEF HistoryTypeOK
<1> QED BY <1>1, <1>2 DEF HSubmitReturn, hvars

(* What the history has of a step.                                         *)
Histories == HSubmitReturn \/ HReportFill \/ (OtherStep /\ UNCHANGED hvars)

(* What is reported later is later.                                        *)
LEMMA NextReportedEarlier ==
    ASSUME ServerInv, OutboxOK, HistoryTypeOK, ComingOK, ReportedOK, Histories
    PROVE  \A g \in Reported' : /\ g.timestamp < next_timestamp'
                                /\ \A i \in 1..Len(Coming') : g.timestamp < Coming'[i].timestamp
<1>0. /\ \A g \in Reported : g.timestamp < next_timestamp /\ g.timestamp \in Nat
      /\ \A g \in Reported, i \in 1..Len(Coming) : g.timestamp < Coming[i].timestamp
      /\ next_timestamp \in Nat
  <2>1. Reported \subseteq Fill
    BY DEF Reported, HistoryTypeOK
  <2> QED BY <2>1 DEF ReportedOK, Fill, ServerInv, BookInv, BookTypeOK
<1>1. CASE HReportFill
  <2>1. PICK f, c, d, t : f = Head(to_report) /\ c = to_report /\ d = to_report' /\ t = next_timestamp
    OBVIOUS
  <2>2. /\ pc' = "send" /\ d = Tail(c) /\ next_timestamp' = t
    BY <1>1, <2>1 DEF HReportFill, ReportFill, bookVars
  <2>3. Reported' = Reported \cup {f} /\ c \in Seq(Fill) /\ c # <<>> /\ Coming = c
    BY <1>1, <2>1, ReportFacts
  <2>4. Sorted(c) /\ Before(c, t)
    BY <2>1, <2>3, ComingParts, Zenon
  <2>5. /\ f.timestamp < t
        /\ \A i \in 1..Len(d) : d[i] = c[i + 1] /\ i + 1 \in 1..Len(c) /\ f.timestamp < d[i].timestamp
    BY <2>1, <2>2, <2>3, <2>4, SortedTail
  <2>6. Coming' = d
    BY <2>1, <2>2, ComingIs
  <2>7. \A g \in Reported : g.timestamp < t /\ \A i \in 1..Len(d) : g.timestamp < d[i].timestamp
    BY <2>1, <2>3, <2>5, <1>0
  <2> QED BY <2>1, <2>2, <2>3, <2>5, <2>6, <2>7
<1>2. ASSUME ~HReportFill PROVE Reported' = Reported
  BY <1>2 DEF Histories, HSubmitReturn, hvars, Reported
<1>3. CASE HSubmitReturn
  <2>1. Coming' = Coming /\ next_timestamp' = next_timestamp /\ ~HReportFill
    BY <1>3, ComingIs DEF HSubmitReturn, SubmitReturn, Return, HReportFill, ReportFill
  <2> QED BY <2>1, <1>2, <1>0
<1>4. CASE OtherStep /\ UNCHANGED hvars /\ SubmitTrades
  <2>1. PICK f \in Fill : /\ fills' = Append(fills, f) /\ f.timestamp = next_timestamp
                          /\ next_timestamp' = next_timestamp + 1
    BY <1>4, TradeFacts
  <2>2. PICK c, d : c = fills /\ d = fills'
    OBVIOUS
  <2>3. pc = "match" /\ pc' = "match"
    BY <1>4 DEF SubmitTrades, serverVars
  <2>4. Coming = c /\ Coming' = d /\ d = Append(c, f) /\ c \in Seq(Fill)
    BY <2>1, <2>2, <2>3, ComingIs
  <2>5. \A i \in 1..Len(d) : (i \in 1..Len(c) /\ d[i] = c[i]) \/ d[i] = f
    <3>1. /\ Len(d) = Len(c) + 1 /\ Len(c) \in Nat /\ d[Len(c) + 1] = f
          /\ \A k \in 1..Len(c) : d[k] = c[k]
      BY <2>4, AppendProperties
    <3> QED BY <3>1
  <2>6. Reported' = Reported
    BY <1>4 DEF Reported, hvars
  <2>7. \A g \in Reported : /\ g.timestamp < next_timestamp + 1
                            /\ \A i \in 1..Len(d) : g.timestamp < d[i].timestamp
    <3>1. ASSUME NEW g \in Reported PROVE g.timestamp < next_timestamp + 1
      BY <1>0
    <3>2. ASSUME NEW g \in Reported, NEW i \in 1..Len(d) PROVE g.timestamp < d[i].timestamp
      BY <2>1, <2>4, <2>5, <1>0
    <3> QED BY <3>1, <3>2
  <2> QED BY <2>1, <2>4, <2>6, <2>7
<1>5. CASE OtherStep /\ UNCHANGED hvars /\ ~SubmitTrades
  <2>1. /\ Coming' = Coming
        /\ next_timestamp \in Nat /\ next_timestamp' \in Nat /\ next_timestamp <= next_timestamp'
    BY <1>5, ComingFrame
  <2>2. Reported' = Reported
    BY <1>5 DEF Reported, hvars
  <2> QED BY <2>1, <2>2, <1>0
<1> QED BY <1>1, <1>3, <1>4, <1>5 DEF Histories

(* What a send does to the outbox and to the inboxes.                      *)
LEMMA SendFacts ==
    ASSUME MessagesOK, SendStep
    PROVE  /\ outbox # <<>> /\ outbox \in Seq(Envelope) /\ Head(outbox) = outbox[1]
           /\ 1 \in 1..Len(outbox) /\ outbox[1].msg \in Message
           /\ \A i \in 1..Len(outbox') : outbox'[i] = outbox[i + 1] /\ i + 1 \in 1..Len(outbox)
           /\ UNCHANGED <<fd_table, conn, pc, to_report, order_owner_fd, order_index>>
           /\ \A q \in Peers :
                 \/ inbox'[q] = inbox[q]
                 \/ /\ q = fd_table[outbox[1].fd] /\ link[q] = "open" /\ link' = link
                    /\ inbox'[q] = Append(inbox[q], outbox[1].msg)
<1>1. /\ outbox # <<>> /\ outbox \in Seq(Envelope) /\ outbox' = Tail(outbox)
      /\ UNCHANGED <<fd_table, conn, pc, to_report, order_owner_fd, order_index>>
  BY DEF SendStep, SendDelivered, SendToNobody, SendLost, SendBroken, sendFrame, Sending, MessagesOK,
         bookVars
<1>2. /\ Head(outbox) = outbox[1] /\ 1 \in 1..Len(outbox)
      /\ \A i \in 1..Len(outbox') : outbox'[i] = outbox[i + 1] /\ i + 1 \in 1..Len(outbox)
  BY <1>1, HeadTailProperties, EmptySeq
<1>3. outbox[1].msg \in Message
  <2>1. outbox[1] \in Envelope
    BY <1>1, <1>2, ElementOfSeq
  <2> QED BY <2>1 DEF Envelope
<1>4. ASSUME NEW q \in Peers, inbox'[q] # inbox[q]
      PROVE  /\ q = fd_table[outbox[1].fd] /\ link[q] = "open" /\ link' = link
             /\ inbox'[q] = Append(inbox[q], outbox[1].msg)
  <2>1. SendDelivered
    BY <1>4 DEF SendStep, SendDelivered, SendToNobody, SendLost, SendBroken
  <2>2. /\ inbox' = [inbox EXCEPT ![Target] = Append(@, Head(outbox).msg)]
        /\ link[Target] = "open" /\ link' = link /\ Target = fd_table[Head(outbox).fd]
    BY <2>1 DEF SendDelivered, Target
  <2>3. PICK m : m = Head(outbox).msg
    OBVIOUS
  <2>4. inbox' = [inbox EXCEPT ![Target] = Append(@, m)]
    BY <2>2, <2>3
  <2>5. q = Target /\ inbox'[q] = Append(inbox[q], m)
    BY <2>4, <1>4 DEF MessagesOK
  <2> QED BY <2>2, <2>3, <2>5, <1>2
<1> QED BY <1>1, <1>2, <1>3, <1>4

(* The other steps of OtherStep but the two that send an ack.              *)
LEMMA OtherFrame ==
    ASSUME OtherStep, ~SendStep, ~DispatchDuplicate, ~DispatchCancel
    PROVE  /\ UNCHANGED <<outbox, inbox, to_report, order_owner_fd>>
           /\ pc' = "send" => pc = "send"
           /\ pc = "send" => UNCHANGED <<fd_table, conn>>
BY DEF OtherStep, ClientStep, vars, bookVars, kernelVars, serverVars, kernelFrame, Connect, Write,
       ClientCloses, ClientResets, ResetArrives, Poll, AcceptOne, AcceptDone, ScanDone, RecvData,
       RecvEnd, ParseWaits, ParseViolation, Subscribe, DispatchNewOrder, SubmitTrades,
       DispatchDone, remove_connection, Complete

(* What clients have or are about to get was reported.                     *)
LEMMA NextReportedOK ==
    ASSUME ServerInv, MessagesOK, OutboxOK, HistoryTypeOK, ComingOK, ReportedOK, Histories
    PROVE  ReportedOK'
<1>1. \A g \in Reported' : /\ g.timestamp < next_timestamp'
                           /\ \A i \in 1..Len(Coming') : g.timestamp < Coming'[i].timestamp
  BY NextReportedEarlier
<1>2. CASE HReportFill
  <2>1. PICK f : f = Head(to_report)
    OBVIOUS
  <2>2. f \in Fill /\ Reported' = Reported \cup {f}
    BY <1>2, <2>1, ReportFacts
  <2>3. inbox' = inbox /\ \A i \in 1..Len(outbox') : outbox'[i].msg = FillMsg(f)
    BY <1>2, <2>1, ReportingStep DEF HReportFill
  <2>4. ASSUME NEW p \in Peers PROVE ToSet(entitled'[p]) \subseteq Reported'
    <3>1. entitled[p] \in Seq(Fill) /\ ToSet(entitled[p]) \subseteq Reported
      BY DEF HistoryTypeOK, ReportedOK
    <3>2. entitled'[p] = Append(entitled[p], f) \/ entitled'[p] = entitled[p]
      BY <1>2, <2>1 DEF HReportFill
    <3>3. ToSet(Append(entitled[p], f)) = ToSet(entitled[p]) \cup {f}
      BY <3>1, <2>2, AppendSet
    <3> QED BY <3>1, <3>2, <3>3, <2>2
  <2>5. \A p \in Peers, g \in Fill : FillMsg(g) \in ToSet(inbox'[p]) => g \in Reported'
    BY <2>2, <2>3 DEF ReportedOK
  <2>6. \A i \in 1..Len(outbox'), g \in Fill : outbox'[i].msg = FillMsg(g) => g \in Reported'
    BY <2>2, <2>3, FillMsgFacts
  <2> QED BY <1>1, <2>4, <2>5, <2>6 DEF ReportedOK
<1>3. ASSUME HSubmitReturn \/ (OtherStep /\ UNCHANGED hvars)
      PROVE  entitled' = entitled /\ Reported' = Reported
  BY <1>3 DEF HSubmitReturn, hvars, Reported
<1>4. CASE \/ HSubmitReturn
           \/ (DispatchDuplicate \/ DispatchCancel) /\ UNCHANGED hvars
  <2>1. entitled' = entitled /\ Reported' = Reported
    BY <1>3, <1>4 DEF OtherStep
  <2>2. PICK ack \in Acks : outbox' = << To(conn, ack) >> /\ inbox' = inbox
    BY <1>4, AckingStep DEF HSubmitReturn
  <2>3. \A i \in 1..Len(outbox') : outbox'[i].msg = ack
    BY <2>2 DEF To
  <2>4. \A i \in 1..Len(outbox'), g \in Fill : outbox'[i].msg = FillMsg(g) => g \in Reported'
    BY <2>3, FillMsgFacts
  <2>5. \A p \in Peers, g \in Fill : FillMsg(g) \in ToSet(inbox'[p]) => g \in Reported'
    BY <2>1, <2>2 DEF ReportedOK
  <2> QED BY <1>1, <2>1, <2>4, <2>5 DEF ReportedOK
<1>5. CASE SendStep /\ UNCHANGED hvars
  <2>1. entitled' = entitled /\ Reported' = Reported
    BY <1>3, <1>5 DEF OtherStep
  <2>2. /\ 1 \in 1..Len(outbox) /\ outbox[1].msg \in Message
        /\ \A i \in 1..Len(outbox') : outbox'[i] = outbox[i + 1] /\ i + 1 \in 1..Len(outbox)
        /\ \A q \in Peers : \/ inbox'[q] = inbox[q]
                            \/ inbox'[q] = Append(inbox[q], outbox[1].msg)
    BY <1>5, SendFacts
  <2>3. \A i \in 1..Len(outbox'), g \in Fill : outbox'[i].msg = FillMsg(g) => g \in Reported'
    BY <2>1, <2>2 DEF ReportedOK
  <2>4. ASSUME NEW p \in Peers, NEW g \in Fill, FillMsg(g) \in ToSet(inbox'[p])
        PROVE  g \in Reported'
    <3>1. PICK m : m = outbox[1].msg
      OBVIOUS
    <3>2. inbox[p] \in Seq(Message) /\ m \in Message
      BY <3>1, <2>2 DEF MessagesOK
    <3>3. ToSet(Append(inbox[p], m)) = ToSet(inbox[p]) \cup {m}
      BY <3>2, AppendSet
    <3>4. FillMsg(g) \in ToSet(inbox[p]) \/ FillMsg(g) = m
      BY <3>1, <3>3, <2>2, <2>4
    <3> QED BY <3>1, <3>4, <2>1, <2>2 DEF ReportedOK
  <2> QED BY <1>1, <2>1, <2>3, <2>4 DEF ReportedOK
<1>6. CASE /\ OtherStep /\ UNCHANGED hvars
           /\ ~SendStep /\ ~DispatchDuplicate /\ ~DispatchCancel
  <2>1. entitled' = entitled /\ Reported' = Reported
    BY <1>3, <1>6
  <2>2. UNCHANGED <<outbox, inbox>>
    BY <1>6, OtherFrame
  <2> QED BY <1>1, <2>1, <2>2 DEF ReportedOK
<1> QED BY <1>2, <1>4, <1>5, <1>6 DEF Histories

-----------------------------------------------------------------------------
(* Who made the orders. *)

(* A client that connected does not become new again, and as long as it is *)
(* connected it keeps its descriptor.                                      *)
LEMMA LinksStay ==
    ASSUME ServerInv, [ServerNext]_vars, NEW m \in Peers, link[m] # "new"
    PROVE  /\ link'[m] # "new"
           /\ link'[m] = "open" =>
                 /\ link[m] = "open"
                 /\ \A fd \in Fds : fd_table[fd] = m => fd_table'[fd] = m
<1>0. link \in [Peers -> LinkStates] /\ fd_table \in [Fds -> Peers \cup {Nobody}] /\ m # Nobody
  BY ServerAssumption DEF ServerInv, ServerTypeOK
<1>1. CASE UNCHANGED <<link, fd_table>>
  BY <1>1
<1>2. ASSUME NEW q \in Peers, Connect(q) \/ ClientCloses(q) \/ ClientResets(q) \/ ResetArrives(q)
      PROVE  /\ link'[m] # "new" /\ fd_table' = fd_table
             /\ link'[m] = "open" => link[m] = "open"
  BY <1>0, <1>2 DEF Connect, ClientCloses, ClientResets, ResetArrives
<1>3. CASE SendLost
  <2>1. /\ fd_table' = fd_table
        /\ link' = [link EXCEPT ![Target] = IF @ = "aborted" THEN "broken" ELSE "fin_sent"]
    BY <1>3 DEF SendLost, sendFrame
  <2> QED BY <2>1, <1>0
<1>4. ASSUME NEW g, remove_connection(g)
      PROVE  /\ link'[m] # "new"
             /\ link'[m] = "open" =>
                   /\ link[m] = "open"
                   /\ \A fd \in Fds : fd_table[fd] = m => fd_table'[fd] = m
  <2>1. /\ fd_table' = [fd_table EXCEPT ![g] = Nobody]
        /\ link' = [link EXCEPT ![fd_table[g]] = "closed"]
    BY <1>4 DEF remove_connection
  <2> QED BY <2>1, <1>0
<1>5. CASE AcceptOne
  <2>1. FreeFds # {} /\ link' = link
    BY <1>5 DEF AcceptOne
  <2>2. Min(FreeFds) \in FreeFds
    BY <2>1, LowestFree
  <2>3. PICK g : g = Min(FreeFds)
    OBVIOUS
  <2>4. fd_table[g] = Nobody /\ fd_table' = [fd_table EXCEPT ![g] = Head(backlog)]
    BY <2>2, <2>3, <1>5 DEF AcceptOne, FreeFds
  <2>5. \A fd \in Fds : fd_table[fd] = m => fd_table'[fd] = m
    BY <2>4, <1>0
  <2> QED BY <2>1, <2>5
<1> QED BY <1>1, <1>2, <1>3, <1>4, <1>5
        DEF ServerNext, ServerStep, ClientStep, vars, kernelVars, kernelFrame, Write, Poll,
            AcceptDone, ScanDone, RecvData, RecvEnd, ParseWaits, ParseViolation,
            Subscribe, DispatchDuplicate, DispatchNewOrder, SubmitTrades, SubmitReturn, ReportFill,
            DispatchCancel, DispatchDone, SendDelivered, SendToNobody, SendBroken, sendFrame

(* What MakersOK says of an order.                                         *)
Made(id) ==
    /\ id \in DOMAIN maker_of
    /\ maker_of[id] \in Peers /\ link[maker_of[id]] # "new"
    /\ link[maker_of[id]] = "open" => fd_table[order_owner_fd[id]] = maker_of[id]

(* MakersOK, order by order.                                               *)
LEMMA MakersParts ==
    MakersOK <=> /\ \A i \in 1..Len(Coming) : Coming[i].resting_order_id \in DOMAIN order_owner_fd
                 /\ \A id \in DOMAIN order_owner_fd : Made(id)
BY DEF MakersOK, Made

(* The maker stays who it is.                                              *)
LEMMA MadeStays ==
    ASSUME ServerInv, [ServerNext]_vars, NEW id \in DOMAIN order_owner_fd, Made(id),
           id \in DOMAIN maker_of', maker_of'[id] = maker_of[id],
           order_owner_fd'[id] = order_owner_fd[id]
    PROVE  Made(id)'
<1>1. order_owner_fd[id] \in Fds
  BY DEF ServerInv, ServerTypeOK
<1>2. PICK m : m = maker_of[id]
  OBVIOUS
<1>3. m \in Peers /\ link[m] # "new"
  BY <1>2 DEF Made
<1>4. /\ link'[m] # "new"
      /\ link'[m] = "open" =>
            /\ link[m] = "open"
            /\ \A fd \in Fds : fd_table[fd] = m => fd_table'[fd] = m
  BY <1>3, LinksStay
<1> QED BY <1>1, <1>2, <1>3, <1>4 DEF Made

(* submit returns: the client of the order that rests is its maker, and    *)
(* nothing was known of its id.                                            *)
LEMMA ReturnKeepsMakers ==
    ASSUME ServerInv, ServerInv', [ServerNext]_vars, OutboxOK, ComingOK, MakersOK, HSubmitReturn
    PROVE  MakersOK'
<1>1. /\ SubmitReturn /\ Return /\ pc = "match" /\ pc' = "send" /\ to_report' = fills
      /\ UNCHANGED <<fd_table, link, conn>>
      /\ order_owner_fd' = IF Rests(incoming) THEN OwnerPut(incoming.id, conn) ELSE order_owner_fd
      /\ maker_of' = [i \in DOMAIN order_index' \cup {fills[k].resting_order_id : k \in 1..Len(fills)}
                         |-> IF i = incoming.id THEN fd_table[conn] ELSE maker_of[i]]
  BY DEF HSubmitReturn, SubmitReturn, kernelVars
<1>2. Coming' = Coming /\ Coming = fills
  BY <1>1, ComingIs
<1>3. DOMAIN order_owner_fd' = DOMAIN order_owner_fd \cup (IF Rests(incoming) THEN {incoming.id} ELSE {})
  BY <1>1 DEF OwnerPut
<1>4. \A i \in 1..Len(Coming') : Coming'[i].resting_order_id \in DOMAIN order_owner_fd'
  BY <1>2, <1>3 DEF MakersOK
<1>5. DOMAIN order_owner_fd' \subseteq DOMAIN maker_of'
  <2>1. Unreported' = {fills[k].resting_order_id : k \in 1..Len(fills)}
    BY <1>1 DEF Unreported
  <2>2. DOMAIN order_owner_fd' \subseteq DOMAIN order_index' \cup Unreported'
    BY DEF ServerInv, OwnersOK
  <2> QED BY <2>1, <2>2, <1>1
<1>6. incoming.id \notin DOMAIN order_owner_fd
  <2>1. incoming.id \notin DOMAIN order_index
    BY <1>1 DEF Return, ServerInv, BookInv, IncomingNotQueued, contains
  <2>2. Unreported = {fills[k].resting_order_id : k \in 1..Len(fills)}
    BY <1>1 DEF Unreported
  <2>3. incoming.id \notin Unreported
    BY <2>2, <1>1 DEF ComingOK
  <2> QED BY <2>1, <2>3 DEF ServerInv, OwnersOK
<1>7. conn \in Fds /\ fd_table[conn] \in Peers /\ link[fd_table[conn]] # "new"
  <2>1. conn \in ToSet(connections)
    BY <1>1 DEF ServerInv, NetInv, HandlingOK, Busy
  <2> QED BY <2>1, ConnectionFacts DEF ServerInv
<1>8. ASSUME NEW id \in DOMAIN order_owner_fd' PROVE Made(id)'
  <2>1. id \in DOMAIN maker_of'
    BY <1>5
  <2>2. CASE id = incoming.id
    <3>1. Rests(incoming)
      BY <2>2, <1>3, <1>6
    <3>2. order_owner_fd'[id] = conn
      BY <3>1, <2>2, <1>1 DEF OwnerPut
    <3>3. maker_of'[id] = fd_table[conn]
      BY <2>1, <2>2, <1>1
    <3> QED BY <3>2, <3>3, <2>1, <1>1, <1>7 DEF Made
  <2>3. CASE id # incoming.id
    <3>1. id \in DOMAIN order_owner_fd
      BY <2>3, <1>3
    <3>2. order_owner_fd'[id] = order_owner_fd[id]
      BY <3>1, <2>3, <1>1 DEF OwnerPut
    <3>3. maker_of'[id] = maker_of[id]
      BY <2>1, <2>3, <1>1
    <3>4. Made(id)
      BY <3>1, MakersParts
    <3> QED BY <3>1, <3>2, <3>3, <3>4, <2>1, MadeStays
  <2> QED BY <2>2, <2>3
<1> QED BY <1>4, <1>8 DEF MakersOK, Made

(* Every step keeps the way from an order to its maker.                    *)
LEMMA NextMakersOK ==
    ASSUME ServerInv, ServerInv', [ServerNext]_vars, OutboxOK, ComingOK, MakersOK, Histories
    PROVE  MakersOK'
<1>0. /\ \A i \in 1..Len(Coming) : Coming[i].resting_order_id \in DOMAIN order_owner_fd
      /\ \A id \in DOMAIN order_owner_fd : Made(id)
  BY MakersParts
<1>1. CASE HSubmitReturn
  BY <1>1, ReturnKeepsMakers
<1>2. CASE HReportFill
  <2>1. PICK c, d, t, id : c = to_report /\ d = to_report' /\ t = next_timestamp
                           /\ id = Head(to_report).resting_order_id
    OBVIOUS
  <2>2. /\ pc = "send" /\ pc' = "send" /\ d = Tail(c) /\ c # <<>> /\ maker_of' = maker_of
        /\ order_owner_fd' = IF contains(id) THEN order_owner_fd ELSE OwnerErase(id)
    BY <1>2, <2>1 DEF HReportFill, ReportFill
  <2>3. Coming = c /\ Coming' = d /\ c \in Seq(Fill)
    BY <2>1, <2>2, ComingIs
  <2>4. Sorted(c) /\ Before(c, t)
    BY <2>1, <2>3, ComingParts, Zenon
  <2>5. \A i \in 1..Len(d) : d[i] = c[i + 1] /\ i + 1 \in 1..Len(c) /\ id # d[i].resting_order_id
    <3>1. c \in Seq(Fill) /\ c # <<>> /\ d = Tail(c)
      BY <2>2, <2>3
    <3>2. \A i \in 1..Len(d) : /\ d[i] = c[i + 1] /\ i + 1 \in 1..Len(c)
                               /\ Head(c).resting_order_id # d[i].resting_order_id
      BY <3>1, <2>4, SortedTail
    <3>3. id = Head(c).resting_order_id
      BY <2>1
    <3> QED BY <3>2, <3>3
  <2>6. /\ DOMAIN order_owner_fd \ {id} \subseteq DOMAIN order_owner_fd'
        /\ DOMAIN order_owner_fd' \subseteq DOMAIN order_owner_fd
        /\ \A k \in DOMAIN order_owner_fd' : order_owner_fd'[k] = order_owner_fd[k]
    BY <2>2 DEF OwnerErase
  <2>7. \A i \in 1..Len(d) : d[i].resting_order_id \in DOMAIN order_owner_fd'
    BY <2>3, <2>5, <2>6, <1>0
  <2>8. ASSUME NEW k \in DOMAIN order_owner_fd' PROVE Made(k)'
    <3>1. k \in DOMAIN order_owner_fd /\ Made(k)
      BY <2>6, <1>0
    <3>2. k \in DOMAIN maker_of' /\ maker_of'[k] = maker_of[k]
      BY <3>1, <2>2 DEF Made
    <3> QED BY <3>1, <3>2, <2>6, MadeStays
  <2> QED BY <2>3, <2>7, <2>8 DEF MakersOK, Made
<1>3. CASE OtherStep /\ UNCHANGED hvars
  <2>1. maker_of' = maker_of
    BY <1>3 DEF hvars
  <2>2. /\ DOMAIN order_owner_fd' \subseteq DOMAIN order_owner_fd
        /\ \A k \in DOMAIN order_owner_fd' : order_owner_fd'[k] = order_owner_fd[k]
    <3>1. CASE DispatchCancel
      BY <3>1 DEF DispatchCancel, OwnerErase
    <3>2. CASE DispatchDuplicate
      BY <3>2 DEF DispatchDuplicate
    <3>3. CASE SendStep
      BY <3>3 DEF SendStep, SendDelivered, SendToNobody, SendLost, SendBroken, sendFrame
    <3>4. CASE ~(DispatchCancel \/ DispatchDuplicate \/ SendStep)
      BY <3>4, <1>3, OtherFrame
    <3> QED BY <3>1, <3>2, <3>3, <3>4
  <2>3. ASSUME NEW k \in DOMAIN order_owner_fd' PROVE Made(k)'
    <3>1. k \in DOMAIN order_owner_fd /\ Made(k)
      BY <2>2, <1>0
    <3>2. k \in DOMAIN maker_of' /\ maker_of'[k] = maker_of[k]
      BY <3>1, <2>1 DEF Made
    <3> QED BY <3>1, <3>2, <2>2, MadeStays
  <2>4. \A i \in 1..Len(Coming') : Coming'[i].resting_order_id \in DOMAIN order_owner_fd'
    <3>1. CASE SubmitTrades
      <4>1. PICK f \in Fill : fills' = Append(fills, f) /\ contains(f.resting_order_id)
        BY <3>1, TradeFacts
      <4>2. PICK c, d : c = fills /\ d = fills'
        OBVIOUS
      <4>3. pc = "match" /\ pc' = "match" /\ order_owner_fd' = order_owner_fd
        BY <3>1 DEF SubmitTrades, serverVars
      <4>4. Coming = c /\ Coming' = d /\ d = Append(c, f) /\ c \in Seq(Fill)
        BY <4>1, <4>2, <4>3, ComingIs
      <4>5. \A i \in 1..Len(d) : (i \in 1..Len(c) /\ d[i] = c[i]) \/ d[i] = f
        <5>1. /\ Len(d) = Len(c) + 1 /\ Len(c) \in Nat /\ d[Len(c) + 1] = f
              /\ \A k \in 1..Len(c) : d[k] = c[k]
          BY <4>4, AppendProperties
        <5> QED BY <5>1
      <4>6. f.resting_order_id \in DOMAIN order_owner_fd
        BY <4>1 DEF contains, ServerInv, OwnersOK
      <4> QED BY <4>3, <4>4, <4>5, <4>6, <1>0
    <3>2. CASE ~SubmitTrades /\ DispatchCancel
      <4>1. Coming' = Coming
        BY <1>3, <3>2, ComingFrame
      <4>2. Coming = <<>>
        BY <3>2 DEF Coming, DispatchCancel, Complete
      <4> QED BY <4>1, <4>2
    <3>3. CASE ~SubmitTrades /\ ~DispatchCancel
      <4>1. Coming' = Coming
        BY <1>3, <3>3, ComingFrame
      <4>2. order_owner_fd' = order_owner_fd
        <5>1. CASE DispatchDuplicate
          BY <5>1 DEF DispatchDuplicate
        <5>2. CASE SendStep
          BY <5>2 DEF SendStep, SendDelivered, SendToNobody, SendLost, SendBroken, sendFrame
        <5>3. CASE ~(DispatchDuplicate \/ SendStep)
          BY <5>3, <3>3, <1>3, OtherFrame
        <5> QED BY <5>1, <5>2, <5>3
      <4> QED BY <4>1, <4>2, <1>0
    <3> QED BY <3>1, <3>2, <3>3
  <2> QED BY <2>3, <2>4 DEF MakersOK, Made
<1> QED BY <1>1, <1>2, <1>3 DEF Histories

-----------------------------------------------------------------------------
(* The fills that are due. *)

(* Two sets that agree on what is there.                                   *)
LEMMA SiftAgree ==
    ASSUME NEW T, NEW s \in Seq(T), NEW S, NEW R, \A x \in ToSet(s) : x \in S <=> x \in R
    PROVE  Sift(s, S) = Sift(s, R)
<1>0. Len(s) \in Nat /\ \A i \in 1..Len(s) : s[i] \in S <=> s[i] \in R
  BY ToSetMember
<1>1. PICK ks, kr : Sifts(ks, s, S) /\ Sifts(kr, s, R)
  BY SiftUnfolds, Zenon
<1>2. /\ Sift(s, S) = ks[Len(s)] /\ ks[0] = <<>>
      /\ \A i \in 1..Len(s) :
            ks[i] = IF s[i] \in S THEN Append(ks[i - 1], s[i]) ELSE ks[i - 1]
  BY <1>1 DEF Sifts
<1>3. /\ Sift(s, R) = kr[Len(s)] /\ kr[0] = <<>>
      /\ \A i \in 1..Len(s) :
            kr[i] = IF s[i] \in R THEN Append(kr[i - 1], s[i]) ELSE kr[i - 1]
  BY <1>1 DEF Sifts
<1> DEFINE G == {i \in 0..Len(s) : ks[i] = kr[i]}
<1>4. 0 \in G
  BY <1>0, <1>2, <1>3
<1>5. ASSUME NEW i \in 1..Len(s), i - 1 \in G PROVE i \in G
  <2>1. ks[i - 1] = kr[i - 1] /\ i \in 0..Len(s) /\ (s[i] \in S <=> s[i] \in R)
    BY <1>0, <1>5
  <2> QED BY <2>1, <1>2, <1>3
<1>6. 0..Len(s) \subseteq G
  <2> HIDE DEF G
  <2> QED BY <1>0, <1>4, <1>5, InductionUpTo
<1>7. Len(s) \in G
  BY <1>0, <1>6
<1> QED BY <1>2, <1>3, <1>7

(* A fill found among messages came in one of them.                        *)
LEMMA FillsInFrom ==
    ASSUME NEW s \in Seq(Message), NEW g \in ToSet(FillsIn(s))
    PROVE  g \in Fill /\ FillMsg(g) \in ToSet(s)
<1>1. ToSet(FillsIn(s)) = Image(FillOf, ToSet(s) \cap FillMsgs)
  BY FillsInLaws
<1>2. PICK m \in ToSet(s) \cap FillMsgs : g = FillOf[m]
  BY <1>1 DEF Image
<1>3. FillOf[m] = m.fill /\ m.fill \in Fill /\ m = [tag |-> "Fill", fill |-> m.fill]
  BY DEF FillOf, FillMsgs
<1> QED BY <1>2, <1>3 DEF FillMsg

(* The messages bound for a client through its one descriptor.             *)
LEMMA BoundSingle ==
    ASSUME NEW o \in Seq(Envelope), NEW table, NEW p, NEW k \in 1..Len(o),
           \A i \in 1..Len(o) : table[o[i].fd] = p <=> i = k
    PROVE  BoundIn(o, table, p) = One(o[k].msg)
<1>1. PICK S : S = {x \in Envelope : table[x.fd] = p}
  OBVIOUS
<1>2. PICK e : e = o[k]
  OBVIOUS
<1>3. \A i \in 1..Len(o) : o[i] \in Envelope
  BY ElementOfSeq
<1>4. \A i \in 1..Len(o) : o[i] \in S <=> i = k
  BY <1>1, <1>3
<1>5. Sift(o, S) = One(e)
  BY <1>2, <1>4, SiftSingle
<1>6. e \in Envelope /\ table[e.fd] = p /\ e \in S
  BY <1>1, <1>2, <1>3
<1>7. Sift(One(e), S) = One(e)
  BY <1>6, SiftOne
<1>8. BoundIn(o, table, p) = BoundIn(One(e), table, p)
  BY <1>1, <1>5, <1>7, Zenon DEF BoundIn
<1>9. BoundIn(One(e), table, p) = One(e.msg)
  BY <1>6, BoundLaws
<1> QED BY <1>2, <1>8, <1>9, Zenon

(* A step that sends nothing and puts nothing in the outbox.               *)
LEMMA QuietDue ==
    ASSUME MessagesOK, MessagesOK', OutboxOK, OtherStep, ~SendStep, ~DispatchDuplicate,
           ~DispatchCancel, NEW p \in Peers
    PROVE  Due(p)' = Due(p)
<1>1. UNCHANGED <<outbox, inbox>> /\ (pc = "send" => fd_table' = fd_table)
  BY OtherFrame
<1>2. CASE pc = "send"
  BY <1>1, <1>2, Zenon DEF Due, Bound
<1>3. CASE pc # "send"
  <2>1. outbox = <<>> /\ outbox' = <<>>
    BY <1>1, <1>3 DEF OutboxOK
  <2>2. Due(p) = inbox[p]
    BY <2>1, DueFacts
  <2>3. Due(p)' = inbox'[p]
    BY <2>1, NextDueEmpty
  <2> QED BY <2>2, <2>3, <1>1, Zenon
<1> QED BY <1>2, <1>3

(* A fill that is reported becomes due once to each client entitled to it  *)
(* that is connected.                                                      *)
LEMMA ReportBinds ==
    ASSUME ServerInv, HistoryTypeOK, ComingOK, ReportedOK, MakersOK, HReportFill,
           NEW f, f = Head(to_report), NEW p \in EntitledTo(f), p \in Peers, Reachable(p)
    PROVE  Bound(p)' = One(FillMsg(f))
<1>1. /\ ReportFill /\ pc = "send" /\ fd_table' = fd_table /\ outbox' \in Seq(Envelope)
      /\ Len(outbox') = Len(Recipients(f))
      /\ \A i \in 1..Len(outbox') : outbox'[i].msg = FillMsg(f) /\ outbox'[i].fd = Recipients(f)[i]
  BY ReportingStep DEF HReportFill
<1>2. PICK r, o, id : r = Recipients(f) /\ o = outbox' /\ id = f.resting_order_id
  OBVIOUS
<1>3. /\ r \in Seq(Fds) /\ NoDuplicates(r)
      /\ \A fd : fd \in ToSet(r) <=> \/ fd = conn
                                     \/ id \in DOMAIN order_owner_fd /\ fd = order_owner_fd[id]
                                     \/ fd \in subscribed
  BY <1>1, <1>2, RecipientsFacts
<1>4. id \in DOMAIN order_owner_fd
  BY <1>2, ReportFacts DEF MakersOK
<1>5. \E fd \in ToSet(r) : fd_table[fd] = p
  <2>1. CASE p = fd_table[conn]
    BY <2>1, <1>3
  <2>2. CASE p = maker_of[id]
    <3>1. Made(id)
      BY <1>4, MakersParts
    <3>2. link[p] = "open"
      BY <3>1, <2>2 DEF Made, Reachable
    <3>3. fd_table[order_owner_fd[id]] = p
      BY <3>1, <3>2, <2>2 DEF Made
    <3> QED BY <3>3, <1>3, <1>4
  <2>3. CASE p \in {fd_table[fd] : fd \in subscribed}
    BY <2>3, <1>3
  <2> QED BY <2>1, <2>2, <2>3, <1>2 DEF EntitledTo
<1>6. PICK k \in 1..Len(r) : fd_table[r[k]] = p
  BY <1>3, <1>5, ToSetMember
<1>7. \A i \in 1..Len(r) : fd_table[r[i]] = p <=> i = k
  <2>1. ASSUME NEW i \in 1..Len(r), fd_table[r[i]] = p PROVE i = k
    <3>1. r[i] \in Fds /\ r[k] \in Fds
      BY <1>3, ElementOfSeq
    <3>2. p # Nobody
      BY ServerAssumption
    <3>3. r[i] = r[k]
      BY <3>1, <3>2, <2>1, <1>6 DEF ServerInv, NetInv, ConnectionsMatchFds
    <3> QED BY <3>3, <1>3 DEF NoDuplicates
  <2> QED BY <2>1, <1>6
<1>8. /\ o \in Seq(Envelope) /\ k \in 1..Len(o) /\ o[k].msg = FillMsg(f)
      /\ \A i \in 1..Len(o) : fd_table[o[i].fd] = p <=> i = k
  <2>1. Len(o) = Len(r) /\ \A i \in 1..Len(o) : o[i].fd = r[i]
    BY <1>1, <1>2
  <2>2. o[k].msg = FillMsg(f)
    BY <2>1, <1>1, <1>2
  <2> QED BY <2>1, <2>2, <1>1, <1>2, <1>7
<1>9. BoundIn(o, fd_table, p) = One(o[k].msg)
  BY <1>8, BoundSingle
<1> QED BY <1>1, <1>2, <1>8, <1>9, Zenon DEF Bound

(* What FillsOK says of a client.                                          *)
Filled(due, ent) == Sift(FillsIn(due), ToSet(ent)) = ent

(* Something that is no fill the client is entitled to becomes due.        *)
LEMMA FilledStays ==
    ASSUME NEW due \in Seq(Message), NEW more \in Seq(Message), NEW ent \in Seq(Fill),
           Filled(due, ent), \A g \in ToSet(ent) : FillMsg(g) \notin ToSet(more)
    PROVE  Filled(Cat(due, more), ent)
<1>1. PICK a, b, E : a = FillsIn(due) /\ b = FillsIn(more) /\ E = ToSet(ent)
  OBVIOUS
<1>2. a \in Seq(Fill) /\ b \in Seq(Fill)
  BY <1>1, FillsInLaws
<1>3. FillsIn(Cat(due, more)) = Cat(a, b)
  <2>1. FillsIn(Cat(due, more)) = Cat(FillsIn(due), FillsIn(more))
    BY FillsInLaws
  <2> QED BY <2>1, <1>1, Zenon
<1>4. Sift(b, E) = <<>>
  <2>1. ASSUME NEW g \in ToSet(b) PROVE g \notin E
    BY <2>1, <1>1, FillsInFrom
  <2> QED BY <2>1, <1>2, SiftNone
<1>5. Sift(Cat(a, b), E) = Cat(Sift(a, E), Sift(b, E))
  BY <1>2, SiftCat
<1>6. Cat(ent, <<>>) = ent
  BY CatLaws
<1> QED BY <1>1, <1>3, <1>4, <1>5, <1>6, Zenon DEF Filled

(* A new fill that the client is entitled to becomes due.                  *)
LEMMA FilledGrows ==
    ASSUME NEW due \in Seq(Message), NEW ent \in Seq(Fill), NEW f \in Fill, Filled(due, ent),
           FillMsg(f) \notin ToSet(due)
    PROVE  Filled(Cat(due, One(FillMsg(f))), Cat(ent, One(f)))
<1>1. PICK a, m, E, F : a = FillsIn(due) /\ m = FillMsg(f) /\ E = ToSet(ent) /\ F = E \cup {f}
  OBVIOUS
<1>2. m \in Message /\ m \in FillMsgs /\ FillOf[m] = f
  BY <1>1, FillMsgFacts
<1>3. One(m) \in Seq(Message)
  BY <1>2, OneLaws
<1>4. FillsIn(Cat(due, One(m))) = Cat(FillsIn(due), FillsIn(One(m)))
  BY <1>3, FillsInLaws
<1>5. FillsIn(One(m)) = One(FillOf[m])
  BY <1>2, <1>3, FillsInLaws
<1>6. a \in Seq(Fill)
  BY <1>1, FillsInLaws
<1>7. One(f) \in Seq(Fill) /\ ToSet(One(f)) = {f}
  BY <1>6, OneLaws
<1>8. ToSet(Cat(ent, One(f))) = F
  <2>1. ToSet(Cat(ent, One(f))) = ToSet(ent) \cup ToSet(One(f))
    BY <1>7, CatLaws
  <2> QED BY <2>1, <1>1, <1>7
<1>9. f \notin ToSet(a)
  BY <1>1, FillsInFrom
<1>10. Sift(a, F) = Sift(a, E)
  <2>1. \A x \in ToSet(a) : x \in F <=> x \in E
    BY <1>1, <1>9
  <2> QED BY <2>1, <1>6, SiftAgree
<1>11. Sift(One(f), F) = One(f)
  BY <1>1, SiftOne
<1>12. Sift(Cat(a, One(f)), F) = Cat(Sift(a, F), Sift(One(f), F))
  BY <1>6, <1>7, SiftCat
<1>13. Sift(a, E) = ent
  BY <1>1, Zenon DEF Filled
<1>14. FillsIn(Cat(due, One(m))) = Cat(a, One(f))
  BY <1>1, <1>2, <1>4, <1>5, Zenon
<1>15. Sift(FillsIn(Cat(due, One(m))), F) = Cat(ent, One(f))
  BY <1>10, <1>11, <1>12, <1>13, <1>14, Zenon
<1> QED BY <1>1, <1>8, <1>15, Zenon DEF Filled

(* Every client that is connected has, or is about to get, exactly the     *)
(* fills it is entitled to, in their order.                                *)
LEMMA NextFillsOK ==
    ASSUME ServerInv, MessagesOK, MessagesOK', OutboxOK, [ServerNext]_vars, HistoryTypeOK, ComingOK,
           ReportedOK, MakersOK, FillsOK, Histories
    PROVE  FillsOK'
<1> SUFFICES ASSUME NEW p \in Peers, Reachable(p)' PROVE Filled(Due(p)', entitled'[p])
  BY Zenon DEF FillsOK, Filled
<1>1. Reachable(p)
  BY ReachableBefore
<1>2. Filled(Due(p), entitled[p])
  BY <1>1, Zenon DEF FillsOK, Filled
<1>3. PICK due, ent : due = Due(p) /\ ent = entitled[p]
  OBVIOUS
<1>4. due \in Seq(Message) /\ ent \in Seq(Fill)
  BY <1>3, DueFacts DEF HistoryTypeOK
<1>5. Filled(due, ent)
  BY <1>2, <1>3, Zenon
<1>6. CASE HReportFill
  <2>1. PICK f, b : f = Head(to_report) /\ b = Bound(p)'
    OBVIOUS
  <2>2. f \in Fill /\ f \notin Reported
    BY <1>6, <2>1, ReportFacts
  <2>3. /\ outbox = <<>> /\ inbox' = inbox /\ outbox' \in Seq(Envelope)
        /\ \A i \in 1..Len(outbox') : outbox'[i].msg = FillMsg(f)
    BY <1>6, <2>1, ReportingStep DEF HReportFill
  <2>4. Due(p) = inbox[p]
    BY <2>3, DueFacts
  <2>5. Due(p)' = Cat(due, b)
    BY <2>1, <2>3, <2>4, <1>3, Zenon DEF Due
  <2>6. CASE p \in EntitledTo(f)
    <3>1. b = One(FillMsg(f))
      BY <2>1, <2>6, <1>1, <1>6, ReportBinds
    <3>2. FillMsg(f) \notin ToSet(due)
      BY <2>2, <2>4, <1>3 DEF ReportedOK
    <3>3. Filled(Cat(due, One(FillMsg(f))), Cat(ent, One(f)))
      BY <3>2, <2>2, <1>4, <1>5, FilledGrows
    <3>4. entitled'[p] = Append(ent, f)
      BY <2>1, <2>6, <1>3, <1>6 DEF HReportFill
    <3>5. Append(ent, f) = Cat(ent, One(f))
      BY <2>2, <1>4, OneLaws
    <3> QED BY <3>1, <3>3, <3>4, <3>5, <2>5, Zenon
  <2>7. CASE p \notin EntitledTo(f)
    <3>1. entitled'[p] = ent
      BY <2>1, <2>7, <1>3, <1>6 DEF HReportFill
    <3>2. PICK o, t : o = outbox' /\ t = fd_table'
      OBVIOUS
    <3>3. o \in Seq(Envelope)
      BY <3>2, <2>3
    <3>4. b = BoundIn(o, t, p)
      BY <3>2, <2>1, Zenon DEF Bound
    <3>5. b \in Seq(Message)
      BY <3>3, <3>4, BoundLaws
    <3>6. \A y \in ToSet(b) : y = FillMsg(f)
      <4>1. \A y \in ToSet(BoundIn(o, t, p)) : \E i \in 1..Len(o) : y = o[i].msg
        BY <3>3, BoundFrom
      <4> QED BY <4>1, <3>2, <3>4, <2>3
    <3>7. \A g \in ToSet(ent) : FillMsg(g) \notin ToSet(b)
      <4>1. ToSet(ent) \subseteq Reported
        BY <1>3 DEF ReportedOK
      <4> QED BY <4>1, <3>6, <2>2, FillMsgFacts
    <3>8. Filled(Cat(due, b), ent)
      BY <3>5, <3>7, <1>4, <1>5, FilledStays
    <3> QED BY <3>1, <3>8, <2>5, Zenon
  <2> QED BY <2>6, <2>7
<1>7. CASE \/ HSubmitReturn
           \/ (DispatchDuplicate \/ DispatchCancel) /\ UNCHANGED hvars
  <2>1. entitled'[p] = ent
    BY <1>3, <1>7 DEF HSubmitReturn, hvars
  <2>2. PICK ack \in Acks : /\ outbox' = << To(conn, ack) >> /\ outbox = <<>> /\ Busy
                            /\ UNCHANGED <<fd_table, inbox>>
    BY <1>7, AckingStep DEF HSubmitReturn
  <2>3. Due(p)' = IF p = fd_table[conn] THEN Cat(Due(p), One(ack)) ELSE Due(p)
    BY <2>2, AckBecomesDue
  <2>4. One(ack) \in Seq(Message) /\ ToSet(One(ack)) = {ack}
    <3>1. ack \in Message
      BY DEF Message
    <3> QED BY <3>1, <1>4, OneLaws
  <2>5. \A g \in ToSet(ent) : FillMsg(g) \notin ToSet(One(ack))
    BY <2>4, FillMsgFacts
  <2>6. Filled(Cat(due, One(ack)), ent)
    BY <2>4, <2>5, <1>4, <1>5, FilledStays
  <2> QED BY <2>1, <2>3, <2>6, <1>3, <1>5, Zenon
<1>8. CASE SendStep /\ UNCHANGED hvars
  <2>1. entitled'[p] = ent
    BY <1>3, <1>8 DEF hvars
  <2>2. Due(p)' = Due(p)
    BY <1>8, SendKeepsDue
  <2> QED BY <2>1, <2>2, <1>3, <1>5, Zenon
<1>9. CASE /\ OtherStep /\ UNCHANGED hvars
           /\ ~SendStep /\ ~DispatchDuplicate /\ ~DispatchCancel
  <2>1. entitled'[p] = ent
    BY <1>3, <1>9 DEF hvars
  <2>2. Due(p)' = Due(p)
    BY <1>9, QuietDue
  <2> QED BY <2>1, <2>2, <1>3, <1>5, Zenon
<1> QED BY <1>6, <1>7, <1>8, <1>9 DEF Histories

-----------------------------------------------------------------------------
(* The ack comes first. *)

(* The client being handled.                                               *)
LEMMA HandledClient ==
    ASSUME ServerInv, pc = "send"
    PROVE  conn \in Fds /\ fd_table[conn] \in Peers /\ link[fd_table[conn]] # "new"
<1>1. conn \in ToSet(connections)
  BY DEF ServerInv, NetInv, HandlingOK, Busy
<1> QED BY <1>1, ConnectionFacts DEF ServerInv

(* In an inbox the ack precedes the fills of its order.                    *)
LEMMA NextAckPrecedes ==
    ASSUME ServerInv, MessagesOK, OutboxOK, HistoryTypeOK, ComingOK, ReportedOK, AckFirstOK,
           Histories
    PROVE  AckPrecedesFills'
<1>0. \A p \in Peers : \A f \in taken[p], i \in 1..Len(inbox[p]) :
          inbox[p][i] = FillMsg(f) =>
              \E j \in 1..(i - 1) : inbox[p][j] = Ack(f.incoming_order_id, "NewOrder", 0)
  BY DEF AckFirstOK, AckPrecedesFills
<1>1. CASE HReportFill
  <2>1. PICK f : f = Head(to_report)
    OBVIOUS
  <2>2. /\ f \in Fill /\ f \notin Reported
        /\ \A q \in Peers : taken'[q] \subseteq taken[q] \cup {f}
    BY <1>1, <2>1, ReportFacts
  <2>3. inbox' = inbox
    BY <1>1, ReportingStep DEF HReportFill
  <2>4. ASSUME NEW p \in Peers, NEW i \in 1..Len(inbox[p]), inbox[p][i] = FillMsg(f) PROVE FALSE
    <3>1. inbox[p] \in Seq(Message)
      BY DEF MessagesOK
    <3>2. FillMsg(f) \in ToSet(inbox[p])
      BY <3>1, <2>4, ToSetMember
    <3> QED BY <3>2, <2>2 DEF ReportedOK
  <2> QED BY <2>2, <2>3, <2>4, <1>0 DEF AckPrecedesFills
<1>2. CASE SendStep /\ UNCHANGED hvars
  <2>1. /\ 1 \in 1..Len(outbox) /\ outbox[1].msg \in Message
        /\ \A q \in Peers :
              \/ inbox'[q] = inbox[q]
              \/ /\ q = fd_table[outbox[1].fd] /\ link[q] = "open"
                 /\ inbox'[q] = Append(inbox[q], outbox[1].msg)
    BY <1>2, SendFacts
  <2>2. taken' = taken
    BY <1>2 DEF hvars
  <2>3. ASSUME NEW p \in Peers, NEW f \in taken[p], NEW i \in 1..Len(inbox'[p]),
               inbox'[p][i] = FillMsg(f)
        PROVE  \E j \in 1..(i - 1) : inbox'[p][j] = Ack(f.incoming_order_id, "NewOrder", 0)
    <3>1. PICK m, s, u, a : /\ m = outbox[1].msg /\ s = inbox[p] /\ u = inbox'[p]
                            /\ a = Ack(f.incoming_order_id, "NewOrder", 0)
      OBVIOUS
    <3>2. CASE u = s
      BY <3>1, <3>2, <2>3, <1>0
    <3>3. CASE u # s
      <4>1. p = fd_table[outbox[1].fd] /\ link[p] = "open" /\ u = Append(s, m)
        BY <3>1, <3>3, <2>1
      <4>2. s \in Seq(Message) /\ m \in Message
        BY <3>1, <2>1 DEF MessagesOK
      <4>3. /\ Len(u) = Len(s) + 1 /\ Len(s) \in Nat /\ u[Len(s) + 1] = m
            /\ \A k \in 1..Len(s) : u[k] = s[k]
        BY <4>1, <4>2, AppendProperties
      <4>4. CASE i \in 1..Len(s)
        <5>1. s[i] = FillMsg(f)
          BY <4>3, <4>4, <3>1, <2>3
        <5>2. PICK j \in 1..(i - 1) : s[j] = a
          BY <5>1, <4>4, <3>1, <1>0
        <5>3. j \in 1..Len(s)
          BY <4>3, <4>4
        <5> QED BY <5>2, <5>3, <4>3, <3>1
      <4>5. CASE i = Len(s) + 1
        <5>1. m = FillMsg(f) /\ f \in Fill
          BY <4>3, <4>5, <3>1, <2>3 DEF HistoryTypeOK
        <5>2. p = fd_table[conn] /\ a \in ToSet(inbox[fd_table[conn]])
          BY <5>1, <4>1, <3>1, <2>1, <2>3 DEF AckFirstOK
        <5>3. a \in ToSet(s)
          BY <5>2, <3>1
        <5>4. PICK j \in 1..Len(s) : s[j] = a
          BY <5>3, <4>2, ToSetMember
        <5>5. j \in 1..(i - 1)
          BY <4>3, <4>5
        <5> QED BY <5>4, <5>5, <4>3, <3>1
      <4>6. i \in 1..Len(s) \/ i = Len(s) + 1
        BY <4>3, <3>1
      <4> QED BY <4>4, <4>5, <4>6
    <3> QED BY <3>2, <3>3
  <2> QED BY <2>2, <2>3 DEF AckPrecedesFills
<1>3. CASE \/ HSubmitReturn
           \/ OtherStep /\ UNCHANGED hvars /\ ~SendStep
  <2>1. taken' = taken
    BY <1>3 DEF HSubmitReturn, hvars
  <2>2. inbox' = inbox
    <3>1. CASE HSubmitReturn
      BY <3>1, AckingStep DEF HSubmitReturn
    <3>2. CASE DispatchDuplicate \/ DispatchCancel
      BY <3>2, AckingStep
    <3>3. CASE OtherStep /\ ~SendStep /\ ~DispatchDuplicate /\ ~DispatchCancel
      BY <3>3, OtherFrame
    <3> QED BY <3>1, <3>2, <3>3, <1>3
  <2> QED BY <2>1, <2>2, <1>0 DEF AckPrecedesFills
<1> QED BY <1>1, <1>2, <1>3 DEF Histories

(* A fill in the outbox follows the ack of its taker.                      *)
LEMMA NextOutboxFollows ==
    ASSUME ServerInv, MessagesOK, OutboxOK, [ServerNext]_vars, HistoryTypeOK, ComingOK, ReportedOK,
           AckFirstOK, Histories, NEW i \in 1..Len(outbox'), NEW f \in Fill,
           outbox'[i].msg = FillMsg(f)
    PROVE  /\ \A q \in Peers : f \in taken'[q] => q = fd_table'[conn']
           /\ link'[fd_table'[conn']] = "open" =>
                 Ack(f.incoming_order_id, "NewOrder", 0) \in ToSet(inbox'[fd_table'[conn']])
<1>1. CASE HReportFill
  <2>1. PICK g : g = Head(to_report)
    OBVIOUS
  <2>2. /\ g \in Fill /\ g \notin Reported /\ 1 \in 1..Len(to_report) /\ g = to_report[1]
        /\ \A q \in Peers : taken'[q] = IF q = fd_table[conn] THEN taken[q] \cup {g} ELSE taken[q]
    BY <1>1, <2>1, ReportFacts
  <2>3. /\ pc = "send" /\ outbox = <<>> /\ UNCHANGED <<inbox, fd_table, link, conn>>
        /\ outbox'[i].msg = FillMsg(g)
    BY <1>1, <2>1, ReportingStep DEF HReportFill
  <2>4. f = g
    BY <2>3, FillMsgFacts
  <2>5. \A q \in Peers : f \in taken'[q] => q = fd_table[conn]
    BY <2>2, <2>4 DEF Reported
  <2>6. ASSUME link[fd_table[conn]] = "open"
        PROVE  Ack(f.incoming_order_id, "NewOrder", 0) \in ToSet(inbox[fd_table[conn]])
    <3>1. fd_table[conn] \in Peers
      BY <2>3, HandledClient
    <3>2. Due(fd_table[conn]) = inbox[fd_table[conn]]
      BY <3>1, <2>3, DueFacts
    <3>3. Ack(to_report[1].incoming_order_id, "NewOrder", 0) \in ToSet(Due(fd_table[conn]))
      BY <2>2, <2>3, <2>6 DEF AckFirstOK
    <3> QED BY <3>2, <3>3, <2>2, <2>4
  <2> QED BY <2>3, <2>5, <2>6
<1>2. CASE HSubmitReturn \/ DispatchDuplicate \/ DispatchCancel
  <2>1. PICK ack \in Acks : outbox' = << To(conn, ack) >>
    BY <1>2, AckingStep DEF HSubmitReturn
  <2>2. outbox'[i].msg = ack
    BY <2>1 DEF To
  <2> QED BY <2>2, FillMsgFacts
<1>3. ASSUME OtherStep, UNCHANGED hvars, pc = "send", UNCHANGED <<fd_table, conn>>,
             NEW k \in 1..Len(outbox), outbox[k].msg = FillMsg(f),
             \A q \in Peers : ToSet(inbox[q]) \subseteq ToSet(inbox'[q])
      PROVE  /\ \A q \in Peers : f \in taken'[q] => q = fd_table'[conn']
             /\ link'[fd_table'[conn']] = "open" =>
                   Ack(f.incoming_order_id, "NewOrder", 0) \in ToSet(inbox'[fd_table'[conn']])
  <2>1. taken' = taken
    BY <1>3 DEF hvars
  <2>2. fd_table[conn] \in Peers /\ link[fd_table[conn]] # "new"
    BY <1>3, HandledClient
  <2>3. link'[fd_table[conn]] = "open" => link[fd_table[conn]] = "open"
    BY <2>2, LinksStay
  <2>4. /\ \A q \in Peers : f \in taken[q] => q = fd_table[conn]
        /\ link[fd_table[conn]] = "open" =>
              Ack(f.incoming_order_id, "NewOrder", 0) \in ToSet(inbox[fd_table[conn]])
    BY <1>3 DEF AckFirstOK
  <2> QED BY <2>1, <2>2, <2>3, <2>4, <1>3
<1>4. CASE SendStep /\ UNCHANGED hvars
  <2>1. /\ outbox'[i] = outbox[i + 1] /\ i + 1 \in 1..Len(outbox) /\ outbox[1].msg \in Message
        /\ UNCHANGED <<fd_table, conn>>
        /\ \A q \in Peers : inbox'[q] = inbox[q] \/ inbox'[q] = Append(inbox[q], outbox[1].msg)
    BY <1>4, SendFacts
  <2>2. pc = "send"
    BY <1>4 DEF SendStep, SendDelivered, SendToNobody, SendLost, SendBroken, Sending
  <2>3. ASSUME NEW q \in Peers PROVE ToSet(inbox[q]) \subseteq ToSet(inbox'[q])
    <3>1. PICK s, m : s = inbox[q] /\ m = outbox[1].msg
      OBVIOUS
    <3>2. s \in Seq(Message) /\ m \in Message
      BY <3>1, <2>1 DEF MessagesOK
    <3>3. ToSet(Append(s, m)) = ToSet(s) \cup {m}
      BY <3>2, AppendSet
    <3> QED BY <3>1, <3>3, <2>1
  <2>4. outbox[i + 1].msg = FillMsg(f)
    BY <2>1
  <2> QED BY <2>1, <2>2, <2>3, <2>4, <1>3, <1>4 DEF OtherStep
<1>5. CASE /\ OtherStep /\ UNCHANGED hvars
           /\ ~SendStep /\ ~DispatchDuplicate /\ ~DispatchCancel
  <2>1. UNCHANGED <<outbox, inbox>> /\ (pc = "send" => UNCHANGED <<fd_table, conn>>)
    BY <1>5, OtherFrame
  <2>2. pc = "send"
    <3>1. outbox # <<>>
      BY <2>1
    <3> QED BY <3>1 DEF OutboxOK
  <2>3. i \in 1..Len(outbox) /\ outbox[i].msg = FillMsg(f)
    BY <2>1
  <2> QED BY <2>1, <2>2, <2>3, <1>3, <1>5
<1> QED BY <1>1, <1>2, <1>4, <1>5 DEF Histories

(* The client whose order's fills are to be reported has its ack, or is    *)
(* about to.                                                               *)
LEMMA NextAckDue ==
    ASSUME ServerInv, MessagesOK, MessagesOK', OutboxOK, [ServerNext]_vars, HistoryTypeOK, ComingOK,
           ReportedOK, AckFirstOK, Histories, pc' = "send", NEW p, p = fd_table'[conn'],
           link'[p] = "open", NEW i \in 1..Len(to_report')
    PROVE  Ack(to_report'[i].incoming_order_id, "NewOrder", 0) \in ToSet(Due(p)')
<1>1. CASE HSubmitReturn
  <2>1. PICK ack \in Acks : /\ outbox' = << To(conn, ack) >> /\ outbox = <<>> /\ Busy
                            /\ UNCHANGED <<fd_table, inbox, link, conn>>
                            /\ ack = Ack(incoming.id, "NewOrder", 0) /\ pc = "match"
    BY <1>1, AckingStep DEF HSubmitReturn
  <2>2. fd_table[conn] \in Peers /\ p = fd_table[conn]
    BY <2>1, StreamFacts
  <2>3. Due(p)' = Cat(Due(p), One(ack))
    BY <2>1, <2>2, AckBecomesDue
  <2>4. PICK d : d = Due(p)
    OBVIOUS
  <2>5. d \in Seq(Message) /\ ack \in Message
    BY <2>2, <2>4, DueFacts DEF Message
  <2>6. One(ack) \in Seq(Message) /\ ToSet(One(ack)) = {ack}
    BY <2>5, OneLaws
  <2>7. ToSet(Cat(d, One(ack))) = ToSet(d) \cup ToSet(One(ack))
    BY <2>5, <2>6, CatLaws
  <2>8. ack \in ToSet(Due(p)')
    BY <2>3, <2>4, <2>6, <2>7
  <2>9. to_report' = fills
    BY <1>1 DEF HSubmitReturn, SubmitReturn
  <2>10. to_report'[i].incoming_order_id = incoming.id
    BY <2>1, <2>9 DEF ComingOK
  <2> QED BY <2>1, <2>8, <2>10
<1>2. CASE DispatchDuplicate \/ DispatchCancel
  <2>1. pc = "parse" /\ to_report' = to_report
    BY <1>2 DEF DispatchDuplicate, DispatchCancel, Complete
  <2>2. to_report' = <<>>
    BY <2>1 DEF OutboxOK
  <2> QED BY <2>2
<1>3. ASSUME pc = "send", UNCHANGED <<fd_table, conn>>, NEW k \in 1..Len(to_report),
             to_report'[i] = to_report[k], ToSet(Due(p)) \subseteq ToSet(Due(p)')
      PROVE  Ack(to_report'[i].incoming_order_id, "NewOrder", 0) \in ToSet(Due(p)')
  <2>1. fd_table[conn] \in Peers /\ link[fd_table[conn]] # "new" /\ p = fd_table[conn]
    BY <1>3, HandledClient
  <2>2. link[p] = "open"
    BY <2>1, LinksStay
  <2>3. Ack(to_report[k].incoming_order_id, "NewOrder", 0) \in ToSet(Due(p))
    BY <1>3, <2>1, <2>2 DEF AckFirstOK
  <2> QED BY <2>3, <1>3
<1>4. CASE HReportFill
  <2>1. /\ pc = "send" /\ outbox = <<>> /\ outbox' \in Seq(Envelope)
        /\ UNCHANGED <<inbox, fd_table, link, conn>>
    BY <1>4, ReportingStep DEF HReportFill
  <2>2. to_report' = Tail(to_report) /\ to_report # <<>> /\ to_report \in Seq(Fill)
    BY <1>4 DEF HReportFill, ReportFill, ServerInv, BuffersOK
  <2>3. to_report'[i] = to_report[i + 1] /\ i + 1 \in 1..Len(to_report)
    BY <2>2, HeadTailProperties
  <2>4. p \in Peers
    BY <2>1, HandledClient
  <2>5. ToSet(Due(p)) \subseteq ToSet(Due(p)')
    <3>1. PICK d, b : d = inbox[p] /\ b = Bound(p)'
      OBVIOUS
    <3>2. Due(p) = d /\ d \in Seq(Message)
      BY <3>1, <2>1, <2>4, DueFacts
    <3>3. b \in Seq(Message)
      <4>1. PICK o, t : o = outbox' /\ t = fd_table'
        OBVIOUS
      <4>2. o \in Seq(Envelope)
        BY <4>1, <2>1
      <4>3. b = BoundIn(o, t, p)
        BY <4>1, <3>1, Zenon DEF Bound
      <4> QED BY <4>2, <4>3, BoundLaws
    <3>4. Due(p)' = Cat(d, b)
      BY <3>1, <2>1, Zenon DEF Due
    <3>5. ToSet(Cat(d, b)) = ToSet(d) \cup ToSet(b)
      <4>1. d \in Seq(Message)
        BY <3>2
      <4> QED BY <4>1, <3>3, CatLaws
    <3> QED BY <3>2, <3>4, <3>5
  <2> QED BY <2>1, <2>3, <2>5, <1>3
<1>5. CASE SendStep
  <2>1. UNCHANGED <<fd_table, conn, pc, to_report>>
    BY <1>5, SendFacts
  <2>2. p \in Peers
    BY <2>1, HandledClient
  <2>3. Due(p)' = Due(p)
    BY <2>2, <1>5, SendKeepsDue DEF Reachable
  <2> QED BY <2>1, <2>3, <1>3
<1>6. CASE OtherStep /\ ~SendStep /\ ~DispatchDuplicate /\ ~DispatchCancel
  <2>1. pc = "send" /\ UNCHANGED <<fd_table, conn, to_report>>
    BY <1>6, OtherFrame
  <2>2. p \in Peers
    BY <2>1, HandledClient
  <2>3. Due(p)' = Due(p)
    BY <2>2, <1>6, QuietDue
  <2> QED BY <2>1, <2>3, <1>3
<1> QED BY <1>1, <1>2, <1>4, <1>5, <1>6 DEF Histories

(* Every step keeps the ack in front of its fills.                         *)
LEMMA NextAckFirstOK ==
    ASSUME ServerInv, MessagesOK, MessagesOK', OutboxOK, [ServerNext]_vars, HistoryTypeOK, ComingOK,
           ReportedOK, AckFirstOK, Histories
    PROVE  AckFirstOK'
<1>1. AckPrecedesFills'
  BY NextAckPrecedes
<1>2. ASSUME NEW i \in 1..Len(outbox'), NEW f \in Fill, outbox'[i].msg = FillMsg(f)
      PROVE  /\ \A q \in Peers : f \in taken'[q] => q = fd_table'[conn']
             /\ link'[fd_table'[conn']] = "open" =>
                   Ack(f.incoming_order_id, "NewOrder", 0) \in ToSet(inbox'[fd_table'[conn']])
  BY <1>2, NextOutboxFollows
<1>3. ASSUME pc' = "send", link'[fd_table'[conn']] = "open", NEW i \in 1..Len(to_report')
      PROVE  Ack(to_report'[i].incoming_order_id, "NewOrder", 0) \in ToSet(Due(fd_table[conn])')
  <2>1. PICK p : p = fd_table'[conn']
    OBVIOUS
  <2>2. Ack(to_report'[i].incoming_order_id, "NewOrder", 0) \in ToSet(Due(p)')
    BY <2>1, <1>3, NextAckDue
  <2>3. Due(p)' = Due(fd_table[conn])'
    BY <2>1, Zenon DEF Due, Bound
  <2> QED BY <2>2, <2>3
<1> QED BY <1>1, <1>2, <1>3 DEF AckFirstOK

-----------------------------------------------------------------------------
(* The theorems about the fills. *)

(* At the start there are no fills.                                        *)
LEMMA InitRoutingInv == MCInit => RoutingInv
<1> SUFFICES ASSUME MCInit PROVE RoutingInv
  OBVIOUS
<1>1. /\ pc = "poll" /\ incoming = NoOrder /\ fills = <<>> /\ outbox = <<>> /\ to_report = <<>>
      /\ inbox = [p \in Peers |-> <<>>] /\ order_owner_fd = [i \in {} |-> 0]
      /\ entitled = [p \in Peers |-> <<>>] /\ taken = [p \in Peers |-> {}]
      /\ maker_of = [i \in {} |-> Nobody]
  BY DEF MCInit, ServerInit, BookInit
<1>2. HistoryTypeOK
  BY <1>1, EmptySeq DEF HistoryTypeOK
<1>3. Coming = <<>> /\ Reported = {}
  BY <1>1 DEF Coming, Reported
<1>4. ComingOK
  BY <1>1, <1>3 DEF ComingOK
<1>5. ReportedOK
  <2>1. ToSet(<<>>) = {}
    BY DEF ToSet
  <2> QED BY <2>1, <1>1, <1>3 DEF ReportedOK
<1>6. MakersOK
  BY <1>1, <1>3 DEF MakersOK
<1>7. FillsOK
  <2> SUFFICES ASSUME NEW p \in Peers PROVE Filled(Due(p), entitled[p])
    BY Zenon DEF FillsOK, Filled
  <2>1. MessagesOK
    BY InitAnswerInv DEF MCInit, AnswerInv
  <2>2. Due(p) = <<>> /\ entitled[p] = <<>>
    BY <2>1, <1>1, DueFacts
  <2>3. PICK s \in Seq(Message) : TRUE
    BY EmptySeq
  <2>4. FillsIn(<<>>) = <<>>
    BY <2>3, FillsInLaws
  <2>5. Sift(<<>>, ToSet(<<>>)) = <<>>
    BY SiftEmpty
  <2> QED BY <2>2, <2>4, <2>5, Zenon DEF Filled
<1>8. AckFirstOK
  BY <1>1 DEF AckFirstOK, AckPrecedesFills
<1> QED BY <1>2, <1>4, <1>5, <1>6, <1>7, <1>8 DEF RoutingInv

(* Every step keeps the fills on their way.                                *)
LEMMA NextRoutingInv ==
    ServerInv /\ ServerInv' /\ AnswerInv /\ AnswerInv' /\ RoutingInv /\ [MCNext]_allvars => RoutingInv'
<1> SUFFICES ASSUME ServerInv, ServerInv', AnswerInv, AnswerInv', RoutingInv, [MCNext]_allvars
             PROVE  RoutingInv'
  OBVIOUS
<1>1. [ServerNext]_vars /\ Histories
  BY HistoryStep DEF Histories
<1>2. /\ MessagesOK /\ MessagesOK' /\ OutboxOK /\ HistoryTypeOK /\ ComingOK /\ ReportedOK /\ MakersOK
      /\ FillsOK /\ AckFirstOK
  BY DEF AnswerInv, RoutingInv
<1>3. HistoryTypeOK'
  BY <1>1, <1>2, NextHistoryTypeOK DEF Histories
<1>4. ComingOK'
  BY <1>1, <1>2, NextComingOK DEF Histories, HSubmitReturn, HReportFill
<1>5. ReportedOK'
  BY <1>1, <1>2, NextReportedOK
<1>6. MakersOK'
  BY <1>1, <1>2, NextMakersOK
<1>7. FillsOK'
  BY <1>1, <1>2, NextFillsOK
<1>8. AckFirstOK'
  BY <1>1, <1>2, NextAckFirstOK
<1> QED BY <1>3, <1>4, <1>5, <1>6, <1>7, <1>8 DEF RoutingInv

(* The invariants of the server, of its answers and of its fills hold in   *)
(* every state of the server with its history.                             *)
THEOREM FillsAccounted == MCSpec => [](ServerInv /\ AnswerInv /\ RoutingInv)
<1>1. MCInit => ServerInv /\ AnswerInv /\ RoutingInv
  BY InitServerInv, InitAnswerInv, InitRoutingInv DEF MCInit
<1>2. ServerInv /\ AnswerInv /\ RoutingInv /\ [MCNext]_allvars
         => (ServerInv /\ AnswerInv /\ RoutingInv)'
  <2> SUFFICES ASSUME ServerInv, AnswerInv, RoutingInv, [MCNext]_allvars
               PROVE  (ServerInv /\ AnswerInv /\ RoutingInv)'
    OBVIOUS
  <2>1. [ServerNext]_vars
    BY HistoryStep
  <2>2. ServerInv' /\ AnswerInv'
    BY <2>1, NextServerInv, NextAnswerInv
  <2> QED BY <2>2, NextRoutingInv
<1> QED BY <1>1, <1>2, PTL DEF MCSpec

(* Between dispatches nothing is on its way.                               *)
LEMMA RoutingInvGivesFills == ServerInv /\ AnswerInv /\ RoutingInv => FillsReachEntitled
<1> SUFFICES ASSUME ServerInv, AnswerInv, RoutingInv, BetweenDispatches,
                    NEW p \in Peers, link[p] = "open"
             PROVE  Sift(FillsOf(p), ToSet(entitled[p])) = entitled[p]
  BY DEF FillsReachEntitled
<1>1. outbox = <<>> /\ MessagesOK
  BY DEF BetweenDispatches, AnswerInv, OutboxOK
<1>2. Due(p) = inbox[p]
  BY <1>1, DueFacts
<1>3. Sift(FillsIn(Due(p)), ToSet(entitled[p])) = entitled[p]
  BY DEF RoutingInv, FillsOK, Reachable
<1> QED BY <1>2, <1>3, Zenon DEF FillsOf

(* Both parties of a trade and every subscriber get each fill exactly once *)
(* and in the order of the trades, if they are still connected.            *)
THEOREM FillsReachAll == MCSpec => []FillsReachEntitled
BY FillsAccounted, RoutingInvGivesFills, PTL

(* The ack of an order is sent before the fills it takes part in.          *)
THEOREM AcksComeFirst == MCSpec => []AckPrecedesFills
<1>1. RoutingInv => AckPrecedesFills
  BY DEF RoutingInv, AckFirstOK
<1> QED BY <1>1, FillsAccounted, PTL
=============================================================================
