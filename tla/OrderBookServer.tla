-------------------------- MODULE OrderBookServer --------------------------
(***************************************************************************)
(* The poll()-based TCP server of engine/src/server.cpp around one         *)
(* OrderBook, with the clients and the part of the kernel it depends on.   *)
(*                                                                         *)
(* The server is one thread.  Its steps are the points at which something  *)
(* else can happen in between: poll, each accept, each recv, each turn of  *)
(* the parse loop, each step of OrderBook, and each send.  Clients connect,*)
(* write requests, close and are reset at any time.                        *)
(*                                                                         *)
(* On the wire a message is its tag and its body, which may arrive in      *)
(* separate reads (SubscribeFills has no body); the encoding of the fields *)
(* is left out.  Descriptors are given out lowest first, as POSIX says.    *)
(***************************************************************************)
EXTENDS OrderBook, FiniteSets, SequencesExt, Sifting

CONSTANTS
    Peers,          \* client sockets; each connects at most once
    Nobody,         \* a descriptor that is not open
    MaxFd,          \* descriptors are 1..MaxFd
    Requests,       \* the requests a client may write
    MaxRequests,    \* bound: the requests one client writes
    MaxTotal        \* bound: the requests all clients write together

ASSUME ServerAssumption ==
    MaxFd \in Nat /\ MaxRequests \in Nat /\ MaxTotal \in Nat /\ Nobody \notin Peers

(* Whatever bytes a request carries decode to these: any byte is a side    *)
(* and an order type.                                                      *)
ASSUME RequestsAssumption ==
    \A m \in Requests :
        /\ m.tag = "NewOrder" => /\ m.id \in OrderIds /\ m.side \in Sides /\ m.type \in OrderTypes
                                 /\ m.price \in Prices /\ m.quantity \in Quantities
        /\ m.tag = "Cancel" => m.id \in OrderIds

Fds == 1..MaxFd

NewOrder(id, side, type, price, quantity) ==
    [tag |-> "NewOrder", id |-> id, side |-> side, type |-> type,
     price |-> price, quantity |-> quantity]

CancelRequest(id) == [tag |-> "Cancel", id |-> id]
SubscribeFills    == [tag |-> "SubscribeFills"]
UnknownTag        == [tag |-> "Unknown"]
FillFromClient    == [tag |-> "Fill"]       \* a tag only the server may send

VARIABLES
    (* the kernel and the clients *)
    link,           \* per client: what the server's kernel knows of the connection
    backlog,        \* connections that wait to be accepted
    fd_table,       \* descriptor -> client socket
    wire,           \* per client: written and not yet received by the server
    requested,      \* per client: the requests it has written
    inbox,          \* per client: the messages sent to it
    (* the server *)
    alive,          \* the process has not been killed
    pc,             \* where its thread is
    connections,    \* the vector of connections, by descriptor
    read_buf,       \* read_buf of each connection
    subscribed,     \* descriptors with subscribed_to_fills
    order_owner_fd, \* order id -> owning connection's descriptor
    ready,          \* descriptors poll reported that this pass has still to handle
    conn,           \* the connection being handled
    outbox,         \* sends still to be made by the dispatch in progress
    to_report       \* fills of the dispatch in progress not yet reported

kernelVars == <<link, backlog, fd_table, wire, requested, inbox>>
serverVars == <<alive, pc, connections, read_buf, subscribed, order_owner_fd,
                ready, conn, outbox, to_report>>
vars == <<bookVars, kernelVars, serverVars>>

(* The link states: what a send or a recv will meet.                       *)
(*   fin       the client closed; a send still succeeds and is answered    *)
(*             by a reset                                                  *)
(*   fin_sent  such a send was made, its reset is on the way               *)
(*   aborted   the client reset an open connection; the next send reports  *)
(*             ECONNRESET                                                  *)
(*   broken    the error was reported; the next send is EPIPE              *)
LinkStates == {"new", "open", "fin", "fin_sent", "aborted", "broken", "closed"}

(* A message in the units that may arrive separately.                      *)
HasBody(m) == m.tag \notin {"SubscribeFills", "Unknown"}
Units(m)   == IF HasBody(m) THEN << [part |-> "tag", msg |-> m], [part |-> "body", msg |-> m] >>
                            ELSE << [part |-> "tag", msg |-> m] >>

-----------------------------------------------------------------------------
(* The clients and the kernel. *)

kernelFrame == UNCHANGED bookVars /\ UNCHANGED serverVars

Connect(p) ==
    /\ link[p] = "new"
    /\ link' = [link EXCEPT ![p] = "open"]
    /\ backlog' = Append(backlog, p)
    /\ UNCHANGED <<fd_table, wire, requested, inbox>> /\ kernelFrame

Write(p, m) ==
    /\ link[p] = "open"
    /\ Len(requested[p]) < MaxRequests
    /\ MapThenSumSet(LAMBDA c : Len(requested[c]), Peers) < MaxTotal
    /\ requested' = [requested EXCEPT ![p] = Append(@, m)]
    /\ wire' = [wire EXCEPT ![p] = @ \o Units(m)]
    /\ UNCHANGED <<link, backlog, fd_table, inbox>> /\ kernelFrame

(* close() by the client, possibly with requests still unread.             *)
ClientCloses(p) ==
    /\ link[p] = "open"
    /\ link' = [link EXCEPT ![p] = "fin"]
    /\ UNCHANGED <<backlog, fd_table, wire, requested, inbox>> /\ kernelFrame

(* The client dies, or closes with unread data: its kernel sends a reset.  *)
ClientResets(p) ==
    /\ link[p] = "open"
    /\ link' = [link EXCEPT ![p] = "aborted"]
    /\ UNCHANGED <<backlog, fd_table, wire, requested, inbox>> /\ kernelFrame

(* The answer to a send after the client's close.                          *)
ResetArrives(p) ==
    /\ link[p] = "fin_sent"
    /\ link' = [link EXCEPT ![p] = "broken"]
    /\ UNCHANGED <<backlog, fd_table, wire, requested, inbox>> /\ kernelFrame

-----------------------------------------------------------------------------
(* The event loop. *)

(* poll reports a connection with data, an end of file or an error.        *)
Readable(fd) == LET p == fd_table[fd] IN wire[p] # <<>> \/ link[p] # "open"

(* Slip: revents is not tested.                                            *)
PollReportsAll ==
    /\ alive /\ pc = "poll"
    /\ backlog # <<>> \/ \E fd \in ToSet(connections) : Readable(fd)
    /\ ready' = connections
    /\ pc' = IF backlog # <<>> THEN "accept" ELSE "scan"
    /\ UNCHANGED <<alive, connections, read_buf, subscribed, order_owner_fd, conn, outbox, to_report>>
    /\ UNCHANGED <<bookVars, kernelVars>>

(* The pollfd vector is built and poll returns.  A timeout changes nothing.*)
Poll ==
    /\ alive /\ pc = "poll"
    /\ backlog # <<>> \/ \E fd \in ToSet(connections) : Readable(fd)
    /\ ready' = Sift(connections, {fd \in ToSet(connections) : Readable(fd)})
    /\ pc' = IF backlog # <<>> THEN "accept" ELSE "scan"
    /\ UNCHANGED <<alive, connections, read_buf, subscribed, order_owner_fd, conn, outbox, to_report>>
    /\ UNCHANGED <<bookVars, kernelVars>>

FreeFds == {fd \in Fds : fd_table[fd] = Nobody}

AcceptOne ==
    /\ alive /\ pc = "accept"
    /\ backlog # <<>> /\ FreeFds # {}
    /\ LET fd == Min(FreeFds)
       IN  /\ fd_table' = [fd_table EXCEPT ![fd] = Head(backlog)]
           /\ connections' = Append(connections, fd)
    /\ backlog' = Tail(backlog)
    /\ UNCHANGED <<link, wire, requested, inbox>>
    /\ UNCHANGED <<alive, pc, read_buf, subscribed, order_owner_fd, ready, conn, outbox, to_report>>
    /\ UNCHANGED bookVars

(* accept fails: nothing is pending, or no descriptor is left.             *)
AcceptDone ==
    /\ alive /\ pc = "accept"
    /\ backlog = <<>> \/ FreeFds = {}
    /\ pc' = "scan"
    /\ UNCHANGED <<alive, connections, read_buf, subscribed, order_owner_fd, ready, conn, outbox, to_report>>
    /\ UNCHANGED <<bookVars, kernelVars>>

(* Slip: the subscription outlives the connection.                         *)
remove_connection_but_subscription(fd) ==
    /\ fd_table' = [fd_table EXCEPT ![fd] = Nobody]
    /\ link' = [link EXCEPT ![fd_table[fd]] = "closed"]
    /\ wire' = [wire EXCEPT ![fd_table[fd]] = <<>>]
    /\ connections' = Sift(connections, Fds \ {fd})
    /\ read_buf' = [read_buf EXCEPT ![fd] = <<>>]
    /\ UNCHANGED <<subscribed, order_owner_fd, backlog, requested, inbox>>

(* The vector loses its element, the descriptor is closed, and with the    *)
(* Connection go its buffer and its subscription.  order_owner_fd is left  *)
(* as it is.                                                               *)
remove_connection(fd) ==
    /\ fd_table' = [fd_table EXCEPT ![fd] = Nobody]
    /\ link' = [link EXCEPT ![fd_table[fd]] = "closed"]
    /\ wire' = [wire EXCEPT ![fd_table[fd]] = <<>>]
    /\ connections' = Sift(connections, Fds \ {fd})
    /\ read_buf' = [read_buf EXCEPT ![fd] = <<>>]
    /\ subscribed' = subscribed \ {fd}
    /\ UNCHANGED <<order_owner_fd, backlog, requested, inbox>>

(* The end of the pass.                                                    *)
ScanDone ==
    /\ alive /\ pc = "scan" /\ ready = <<>>
    /\ pc' = "poll"
    /\ UNCHANGED <<alive, connections, read_buf, subscribed, order_owner_fd, ready, conn, outbox, to_report>>
    /\ UNCHANGED <<bookVars, kernelVars>>

(* handle_readable: recv takes some of what has arrived, and the parse     *)
(* loop follows.  The pass never meets a descriptor that was removed since *)
(* poll, and recv never EAGAIN: ReadyIsReadable says so.                   *)
RecvData ==
    /\ alive /\ pc = "scan" /\ ready # <<>>
    /\ LET fd == Head(ready) IN
       LET p == fd_table[fd] IN
       /\ p # Nobody /\ wire[p] # <<>>
       /\ \E n \in 1..Len(wire[p]) :
            /\ read_buf' = [read_buf EXCEPT ![fd] = @ \o SubSeq(wire[p], 1, n)]
            /\ wire' = [wire EXCEPT ![p] = SubSeq(@, n + 1, Len(@))]
       /\ conn' = fd
    /\ ready' = Tail(ready)
    /\ pc' = "parse"
    /\ UNCHANGED <<alive, connections, subscribed, order_owner_fd, outbox, to_report>>
    /\ UNCHANGED <<link, backlog, fd_table, requested, inbox>>
    /\ UNCHANGED bookVars

(* recv returns 0 or an error.                                             *)
RecvEnd ==
    /\ alive /\ pc = "scan" /\ ready # <<>>
    /\ fd_table[Head(ready)] # Nobody /\ wire[fd_table[Head(ready)]] = <<>>
    /\ remove_connection(Head(ready))
    /\ ready' = Tail(ready)
    /\ UNCHANGED <<alive, pc, conn, outbox, to_report>>
    /\ UNCHANGED bookVars

-----------------------------------------------------------------------------
(* The parse loop of handle_readable. *)

buf == read_buf[conn]

(* A complete message of the given tag is at the front of the buffer.      *)
Complete(tag) == /\ alive /\ pc = "parse" /\ buf # <<>> /\ buf[1].msg.tag = tag
                 /\ Len(buf) >= Len(Units(buf[1].msg))

Msg == buf[1].msg

(* Slip: the whole buffer is cleared.                                      *)
ConsumeBuffer == read_buf' = [read_buf EXCEPT ![conn] = <<>>]

ConsumeMessage == read_buf' = [read_buf EXCEPT ![conn] = SubSeq(@, Len(Units(Msg)) + 1, Len(@))]

(* Slip: the bytes of an incomplete message are not kept.                  *)
ParseDropsRest ==
    /\ alive /\ pc = "parse"
    /\ buf # <<>> => Msg.tag # "Unknown" /\ Len(buf) < Len(Units(Msg))
    /\ pc' = "scan"
    /\ conn' = 0
    /\ read_buf' = [read_buf EXCEPT ![conn] = <<>>]
    /\ UNCHANGED <<alive, connections, subscribed, order_owner_fd, ready, outbox, to_report>>
    /\ UNCHANGED <<bookVars, kernelVars>>

(* The buffer is empty or ends in the middle of a message.                 *)
ParseWaits ==
    /\ alive /\ pc = "parse"
    /\ buf # <<>> => Msg.tag # "Unknown" /\ Len(buf) < Len(Units(Msg))
    /\ pc' = "scan"
    /\ conn' = 0
    /\ UNCHANGED <<alive, connections, read_buf, subscribed, order_owner_fd, ready, outbox, to_report>>
    /\ UNCHANGED <<bookVars, kernelVars>>

(* A tag that no message has, or one that clients may not send.            *)
ParseViolation ==
    /\ Complete("Unknown") \/ Complete("Fill")
    /\ remove_connection(conn)
    /\ pc' = "scan"
    /\ conn' = 0
    /\ UNCHANGED <<alive, ready, outbox, to_report>>
    /\ UNCHANGED bookVars

Subscribe ==
    /\ Complete("SubscribeFills")
    /\ subscribed' = subscribed \cup {conn}
    /\ ConsumeMessage
    /\ UNCHANGED <<alive, pc, connections, order_owner_fd, ready, conn, outbox, to_report>>
    /\ UNCHANGED <<bookVars, kernelVars>>

Ack(id, request, status) == [tag |-> "Ack", id |-> id, request |-> request, status |-> status]
FillMsg(f)               == [tag |-> "Fill", fill |-> f]

To(fd, m) == [fd |-> fd, msg |-> m]

(* dispatch_new_order of an id that is resting: the book is not called.    *)
DispatchDuplicate ==
    /\ Complete("NewOrder")
    /\ contains(Msg.id)
    /\ outbox' = << To(conn, Ack(Msg.id, "NewOrder", 1)) >>
    /\ ConsumeMessage
    /\ pc' = "send"
    /\ UNCHANGED <<alive, connections, subscribed, order_owner_fd, ready, conn, to_report>>
    /\ UNCHANGED <<bookVars, kernelVars>>

(* dispatch_new_order calls book.submit...                                 *)
DispatchNewOrder ==
    /\ Complete("NewOrder")
    /\ SubmitBegin(Msg.id, Msg.side, Msg.type, Msg.price, Msg.quantity)
    /\ ConsumeMessage
    /\ pc' = "match"
    /\ UNCHANGED <<alive, connections, subscribed, order_owner_fd, ready, conn, outbox, to_report>>
    /\ UNCHANGED kernelVars

SubmitTrades ==
    /\ alive /\ pc = "match"
    /\ MatchOne
    /\ UNCHANGED <<kernelVars, serverVars>>

OwnerPut(id, fd) ==
    [i \in DOMAIN order_owner_fd \cup {id} |-> IF i = id THEN fd ELSE order_owner_fd[i]]

(* Slips: the owner of an order that is gone is kept, or only blanked.     *)
OwnerKept(id)    == order_owner_fd
OwnerBlanked(id) == [order_owner_fd EXCEPT ![id] = 0]

OwnerErase(id) == [i \in DOMAIN order_owner_fd \ {id} |-> order_owner_fd[i]]

(* Slip: the fills are sent as they are found, before the ack.             *)
SubmitReturnFillsFirst ==
    /\ alive /\ pc = "match"
    /\ Return
    /\ to_report' = fills
    /\ outbox' = [i \in 1..Len(fills) |-> To(conn, FillMsg(fills[i]))]
                  \o << To(conn, Ack(incoming.id, "NewOrder", 0)) >>
    /\ order_owner_fd' = IF Rests(incoming) THEN OwnerPut(incoming.id, conn) ELSE order_owner_fd
    /\ pc' = "send"
    /\ UNCHANGED <<alive, connections, read_buf, subscribed, ready, conn>>
    /\ UNCHANGED kernelVars

(* ... which returns its fills; the ack is sent first, and an order that   *)
(* rests gets its owner.                                                   *)
SubmitReturn ==
    /\ alive /\ pc = "match"
    /\ Return
    /\ to_report' = fills
    /\ outbox' = << To(conn, Ack(incoming.id, "NewOrder", 0)) >>
    /\ order_owner_fd' = IF Rests(incoming) THEN OwnerPut(incoming.id, conn) ELSE order_owner_fd
    /\ pc' = "send"
    /\ UNCHANGED <<alive, connections, read_buf, subscribed, ready, conn>>
    /\ UNCHANGED kernelVars

(* Slip: the owner of the resting order is forgotten.                      *)
RecipientsButOwner(f) ==
    << conn >> \o Sift(connections, subscribed \ {conn})

(* Whom a fill goes to: the connection of the incoming order, the owner of *)
(* the resting order if that is another one, then every subscriber that    *)
(* has not had it, in the order of the connections.                        *)
Recipients(f) ==
    LET owner == IF f.resting_order_id \in DOMAIN order_owner_fd
                 THEN << order_owner_fd[f.resting_order_id] >> ELSE <<>>
        sent_to == << conn >> \o Sift(owner, Fds \ {conn})
    IN  sent_to \o Sift(connections, subscribed \ ToSet(sent_to))

(* The body of the loop over the fills, up to its sends.  The owner of an  *)
(* order that is used up is forgotten.                                     *)
ReportFill ==
    /\ alive /\ pc = "send" /\ outbox = <<>> /\ to_report # <<>>
    /\ LET f == Head(to_report)
           fds == Recipients(f)
       IN  /\ outbox' = [i \in 1..Len(fds) |-> To(fds[i], FillMsg(f))]
           /\ order_owner_fd' = IF contains(f.resting_order_id) THEN order_owner_fd
                                ELSE OwnerErase(f.resting_order_id)
    /\ to_report' = Tail(to_report)
    /\ UNCHANGED <<alive, pc, connections, read_buf, subscribed, ready, conn>>
    /\ UNCHANGED <<bookVars, kernelVars>>

(* dispatch_cancel; any connection may cancel any order.                   *)
DispatchCancel ==
    /\ Complete("Cancel")
    /\ \/ /\ CancelFound(Msg.id)
          /\ order_owner_fd' = OwnerErase(Msg.id)
          /\ outbox' = << To(conn, Ack(Msg.id, "Cancel", 0)) >>
       \/ /\ CancelNotFound(Msg.id)
          /\ UNCHANGED order_owner_fd
          /\ outbox' = << To(conn, Ack(Msg.id, "Cancel", 1)) >>
    /\ ConsumeMessage
    /\ pc' = "send"
    /\ UNCHANGED <<alive, connections, subscribed, ready, conn, to_report>>
    /\ UNCHANGED kernelVars

(* The dispatch is over: back to the parse loop.                           *)
DispatchDone ==
    /\ alive /\ pc = "send" /\ outbox = <<>> /\ to_report = <<>>
    /\ pc' = "parse"
    /\ UNCHANGED <<alive, connections, read_buf, subscribed, order_owner_fd, ready, conn, outbox, to_report>>
    /\ UNCHANGED <<bookVars, kernelVars>>

-----------------------------------------------------------------------------
(* send_all of the message at the head of the outbox. *)

Sending == alive /\ pc = "send" /\ outbox # <<>>
Target  == fd_table[Head(outbox).fd]

sendFrame ==
    /\ outbox' = Tail(outbox)
    /\ UNCHANGED <<pc, connections, read_buf, subscribed, order_owner_fd, ready, conn, to_report>>
    /\ UNCHANGED <<backlog, fd_table, wire, requested>>
    /\ UNCHANGED bookVars

SendDelivered ==
    /\ Sending /\ Target # Nobody /\ link[Target] = "open"
    /\ inbox' = [inbox EXCEPT ![Target] = Append(@, Head(outbox).msg)]
    /\ UNCHANGED <<link, alive>> /\ sendFrame

(* The descriptor is closed: EBADF, dropped.                               *)
SendToNobody ==
    /\ Sending /\ Target = Nobody
    /\ UNCHANGED <<link, inbox, alive>> /\ sendFrame

(* The client has closed, and the message is lost.  The first send after   *)
(* its close makes it answer with a reset; the first after a reset is told *)
(* so (ECONNRESET).                                                        *)
SendLost ==
    /\ Sending /\ Target # Nobody /\ link[Target] \in {"fin", "fin_sent", "aborted"}
    /\ link' = [link EXCEPT ![Target] = IF @ = "aborted" THEN "broken" ELSE "fin_sent"]
    /\ UNCHANGED <<inbox, alive>> /\ sendFrame

(* EPIPE: send is called with no MSG_NOSIGNAL and SIGPIPE is not ignored,  *)
(* so the signal ends the process.                                         *)
SendBroken ==
    /\ Sending /\ Target # Nobody /\ link[Target] = "broken"
    /\ alive' = FALSE
    /\ UNCHANGED <<link, inbox>> /\ sendFrame

-----------------------------------------------------------------------------
ServerInit ==
    /\ BookInit
    /\ link = [p \in Peers |-> "new"]
    /\ backlog = <<>>
    /\ fd_table = [fd \in Fds |-> Nobody]
    /\ wire = [p \in Peers |-> <<>>]
    /\ requested = [p \in Peers |-> <<>>]
    /\ inbox = [p \in Peers |-> <<>>]
    /\ alive = TRUE
    /\ pc = "poll"
    /\ connections = <<>>
    /\ read_buf = [fd \in Fds |-> <<>>]
    /\ subscribed = {}
    /\ order_owner_fd = [i \in {} |-> 0]
    /\ ready = <<>>
    /\ conn = 0
    /\ outbox = <<>>
    /\ to_report = <<>>

ServerStep ==
    \/ Poll \/ AcceptOne \/ AcceptDone \/ ScanDone \/ RecvData \/ RecvEnd
    \/ ParseWaits \/ ParseViolation \/ Subscribe
    \/ DispatchDuplicate \/ DispatchNewOrder \/ SubmitTrades \/ SubmitReturn
    \/ ReportFill \/ DispatchCancel \/ DispatchDone
    \/ SendDelivered \/ SendToNobody \/ SendLost \/ SendBroken

ClientStep ==
    \E p \in Peers :
        \/ Connect(p)
        \/ \E m \in Requests : Write(p, m)
        \/ ClientCloses(p)
        \/ ClientResets(p)
        \/ ResetArrives(p)

ServerNext == ServerStep \/ ClientStep

(* The server's thread keeps running; clients owe nothing.                 *)
ServerSpec == ServerInit /\ [][ServerNext]_vars /\ WF_vars(ServerStep)

-----------------------------------------------------------------------------
(* Properties. *)

(* The types of the server's members and of the kernel's tables.           *)
ServerTypeOK ==
    /\ link \in [Peers -> LinkStates]
    /\ backlog \in Seq(Peers)
    /\ fd_table \in [Fds -> Peers \cup {Nobody}]
    /\ alive \in BOOLEAN
    /\ pc \in {"poll", "accept", "scan", "parse", "match", "send"}
    /\ connections \in Seq(Fds)
    /\ subscribed \subseteq Fds
    /\ DOMAIN order_owner_fd \subseteq OrderIds
    /\ \A id \in DOMAIN order_owner_fd : order_owner_fd[id] \in Fds
    /\ ready \in Seq(Fds)
    /\ conn \in Fds \cup {0}

(* No dispatch is in progress.                                             *)
BetweenDispatches == pc \notin {"match", "send"}

(* Between dispatches the owner map names exactly the resting orders:      *)
(* orders that are filled, cancelled by anybody, or never rest leave no    *)
(* entry behind, and every resting order has an owner to notify.           *)
OwnersAreResting == BetweenDispatches => DOMAIN order_owner_fd = DOMAIN order_index

(* A descriptor that poll reported is, when its turn comes, still the      *)
(* connection that poll saw, with something to read: nothing the pass does *)
(* in between (accepting, removing others) can make the report stale.      *)
ReadyIsReadable ==
    alive => \A fd \in ToSet(ready) : fd \in ToSet(connections) /\ Readable(fd)

(* The connections are exactly the open descriptors, each listed once, and *)
(* subscriptions and buffered bytes die with the connection: a later       *)
(* client that gets the same descriptor starts clean.                      *)
ConnectionsMatchFds ==
    /\ ToSet(connections) = {fd \in Fds : fd_table[fd] # Nobody}
    /\ \A i, j \in 1..Len(connections) : connections[i] = connections[j] => i = j
    /\ \A f, g \in Fds : fd_table[f] = fd_table[g] /\ fd_table[f] # Nobody => f = g
    /\ \A fd \in Fds : fd \notin ToSet(connections) => read_buf[fd] = <<>> /\ fd \notin subscribed

(* The requests that are to be answered by an ack, and the acks.           *)
Answered == {m \in Requests : m.tag \in {"NewOrder", "Cancel"}}
Acks     == [tag : {"Ack"}, id : OrderIds, request : {"NewOrder", "Cancel"}, status : {0, 1}]

(* What an ack repeats of its request.                                     *)
Key(m)    == [id |-> m.id, request |-> m.tag]
AckKey(m) == [id |-> m.id, request |-> m.request]

RequestKeys(msgs) ==
    LET r == Sift(msgs, Answered) IN [i \in 1..Len(r) |-> Key(r[i])]

AckKeysIn(msgs) ==
    LET r == Sift(msgs, Acks) IN [i \in 1..Len(r) |-> AckKey(r[i])]

AckKeys(p) == AckKeysIn(inbox[p])

(* What the client wrote and the server has not dispatched.                *)
Stream(p) ==
    LET fds == {fd \in Fds : fd_table[fd] = p}
    IN  (IF fds = {} THEN <<>> ELSE read_buf[Min(fds)]) \o wire[p]

MessagesIn(units) ==
    LET r == Sift(units, [part : {"tag"}, msg : Requests]) IN [i \in 1..Len(r) |-> r[i].msg]

Unparsed(p) == MessagesIn(Stream(p))

(* Every NewOrder and Cancel gets exactly one ack, in the order the client *)
(* wrote them, however the bytes were split over reads and whatever other  *)
(* clients did meanwhile: the acks a client has and the requests not yet   *)
(* dispatched are together what it wrote.                                  *)
OneAckPerRequest ==
    (alive /\ BetweenDispatches) =>
        \A p \in Peers : link[p] = "open" =>
            AckKeys(p) \o RequestKeys(Unparsed(p)) = RequestKeys(requested[p])

Connected(p) == link[p] = "open" /\ \E fd \in Fds : fd_table[fd] = p

(* Every request of a client that stays connected is answered in the end,  *)
(* as long as the process lives.                                           *)
RequestsAreAnswered ==
    \A p \in Peers :
        Connected(p) ~> (\/ AckKeys(p) = RequestKeys(requested[p])
                        \/ link[p] # "open" \/ ~alive)

(* What the comment at the end of send_all says: a broken connection is    *)
(* dropped silently, so that no client can end the server by leaving.      *)
ServerStaysUp == alive
=============================================================================
