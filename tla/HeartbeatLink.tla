----------------------------- MODULE HeartbeatLink -----------------------------
(***************************************************************************)
(* The TCP link that carries heartbeats, status updates and emergency      *)
(* stops from the Jetson (HeartbeatClientDaemon over PersistentTCPClient)  *)
(* to the Raspberry Pi (HeartbeatServerDaemon over MultiClientTCPServer),  *)
(* and acknowledgements back (src/src/comm/health_monitor.py, runtime.py). *)
(*                                                                         *)
(* A packet is identified by its kind and its sequence number; an ACK is   *)
(* represented by the packet it acknowledges.  A connection is numbered in *)
(* the order the client opened it and carries a FIFO in each direction.    *)
(* When it breaks or is closed, any suffix of what is in flight is lost;   *)
(* what reached the peer's buffer can still be read.  Pauses (backoff,     *)
(* polling) change no state and are not represented.                       *)
(***************************************************************************)
EXTENDS Naturals, Sequences, SequencesExt

CONSTANTS
  Senders,         \* threads that call send_heartbeat/_status_update/_estop
  KindsOf,         \* the kinds of packet each of them sends
  MaxPackets,      \* bound: packets sent in a behaviour
  MaxConnections,  \* bound: connections opened in a behaviour
  Nothing          \* no packet

Kinds == {"HEARTBEAT", "STATUS_UPDATE", "ESTOP"}

ASSUME LinkAssumption ==
  /\ KindsOf \in [Senders -> SUBSET Kinds]
  /\ MaxPackets \in Nat
  /\ MaxConnections \in Nat \ {0}

VARIABLES
  nextSeq,     \* HeartbeatClientDaemon._seq
  pending,     \* AckTracker._pending
  acks,        \* HeartbeatClientDaemon.acks
  draft,       \* per sender: the packet registered and not yet queued
  outbox,      \* PersistentTCPClient._outbox
  writer,      \* where the client's _run thread is
  inHand,      \* the packet it took from the outbox
  stopping,    \* PersistentTCPClient._stop_event
  conn,        \* the newest connection, 0 before the first
  link,        \* per connection: is it up
  toServer,    \* per connection: packets in flight
  toClient,    \* per connection: acknowledgements in flight
  reader,      \* per connection: where the client's _read_loop thread is
  handler,     \* per connection: where the server's _handle_client thread is
  serving,     \* per connection: the packet it handled and has not acknowledged
  queued,      \* history: packets in the order of outbox.put
  received     \* history: packets in the order the server queued them, each
               \* with the connection it came over

clientVars == <<nextSeq, pending, acks, draft, outbox>>
writerVars == <<writer, inHand, stopping>>
netVars == <<conn, link, toServer, toClient>>
serverVars == <<handler, serving>>
vars == <<clientVars, writerVars, netVars, reader, serverVars, queued, received>>

Connections == 1 .. MaxConnections
Packet == [kind : Kinds, seq : 0 .. MaxPackets - 1]

ASSUME NothingAssumption == Nothing \notin Packet

TypeOK ==
  /\ nextSeq \in 0 .. MaxPackets
  /\ pending \subseteq Packet
  /\ acks \in Seq(Packet)
  /\ draft \in [Senders -> Packet \union {Nothing}]
  /\ outbox \in Seq(Packet)
  /\ writer \in {"connecting", "sending", "holding", "closing", "stopped"}
  /\ inHand \in Packet \union {Nothing}
  /\ inHand # Nothing <=> writer = "holding"
  /\ stopping \in BOOLEAN
  /\ conn \in 0 .. MaxConnections
  /\ link \in [Connections -> {"unopened", "up", "down"}]
  /\ toServer \in [Connections -> Seq(Packet)]
  /\ toClient \in [Connections -> Seq(Packet)]
  /\ reader \in [Connections -> {"none", "reading", "ended"}]
  /\ handler \in [Connections -> {"none", "reading", "acking", "ended"}]
  /\ serving \in [Connections -> Packet \union {Nothing}]
  /\ queued \in Seq(Packet)
  /\ received \in Seq(Packet \X Connections)

Init ==
  /\ nextSeq = 0
  /\ pending = {}
  /\ acks = <<>>
  /\ draft = [s \in Senders |-> Nothing]
  /\ outbox = <<>>
  /\ writer = "connecting"
  /\ inHand = Nothing
  /\ stopping = FALSE
  /\ conn = 0
  /\ link = [c \in Connections |-> "unopened"]
  /\ toServer = [c \in Connections |-> <<>>]
  /\ toClient = [c \in Connections |-> <<>>]
  /\ reader = [c \in Connections |-> "none"]
  /\ handler = [c \in Connections |-> "none"]
  /\ serving = [c \in Connections |-> Nothing]
  /\ queued = <<>>
  /\ received = <<>>

--------------------------------------------------------------------------------
(* A connection goes down; of what is in flight a prefix gets through.     *)

Cut(c) ==
  /\ link' = [link EXCEPT ![c] = "down"]
  /\ \E i \in 0 .. Len(toServer[c]) :
       toServer' = [toServer EXCEPT ![c] = SubSeq(@, 1, i)]
  /\ \E i \in 0 .. Len(toClient[c]) :
       toClient' = [toClient EXCEPT ![c] = SubSeq(@, 1, i)]

\* The client's socket is closed once its owner has closed it and the stream of
\* the reader thread, which keeps it open, is gone.
CutIf(closed, c) ==
  IF closed /\ link[c] = "up" THEN Cut(c) ELSE UNCHANGED <<link, toServer, toClient>>

--------------------------------------------------------------------------------
(* send_heartbeat, send_status_update and send_estop.  There is no call    *)
(* between the two lines that draw a sequence number, so no thread switch. *)

Register(s) ==
  /\ draft[s] = Nothing
  /\ nextSeq < MaxPackets
  /\ \E k \in KindsOf[s] :
       /\ k = "HEARTBEAT" => ~stopping
       /\ LET p == [kind |-> k, seq |-> nextSeq] IN
            /\ pending' = pending \union {p}
            /\ draft' = [draft EXCEPT ![s] = p]
  /\ nextSeq' = nextSeq + 1
  /\ UNCHANGED <<acks, outbox, writerVars, netVars, reader, serverVars, queued,
                 received>>

Put(s) ==
  /\ draft[s] # Nothing
  /\ outbox' = Append(outbox, draft[s])
  /\ queued' = Append(queued, draft[s])
  /\ draft' = [draft EXCEPT ![s] = Nothing]
  /\ UNCHANGED <<nextSeq, pending, acks, writerVars, netVars, reader, serverVars,
                 received>>

--------------------------------------------------------------------------------
(* PersistentTCPClient: _run and _connected_loop.                          *)

\* The loop of _connected_loop tests the stop event before it waits for a packet.
NextRound == IF stopping THEN "closing" ELSE "sending"

Connect ==
  /\ writer = "connecting"
  /\ conn < MaxConnections
  /\ conn' = conn + 1
  /\ link' = [link EXCEPT ![conn'] = "up"]
  /\ reader' = [reader EXCEPT ![conn'] = "reading"]
  /\ writer' = NextRound
  /\ UNCHANGED <<clientVars, inHand, stopping, toServer, toClient, serverVars,
                 queued, received>>

Take ==
  /\ writer = "sending"
  /\ outbox # <<>>
  /\ writer' = "holding"
  /\ inHand' = Head(outbox)
  /\ outbox' = Tail(outbox)
  /\ UNCHANGED <<nextSeq, pending, acks, draft, stopping, netVars, reader,
                 serverVars, queued, received>>

\* sendall returns.  On a broken connection the kernel may still accept the
\* bytes, which then go nowhere.
SendReturns ==
  /\ writer = "holding"
  /\ toServer' = IF link[conn] = "up"
                   THEN [toServer EXCEPT ![conn] = Append(@, inHand)]
                   ELSE toServer
  /\ writer' = NextRound
  /\ inHand' = Nothing
  /\ UNCHANGED <<clientVars, stopping, conn, link, toClient, reader, serverVars,
                 queued, received>>

\* Mutant: the packet goes back to the end of the outbox.
SendFails_Requeues ==
  /\ writer = "holding"
  /\ link[conn] = "down"
  /\ writer' = "closing"
  /\ inHand' = Nothing
  /\ outbox' = Append(outbox, inHand)
  /\ UNCHANGED <<nextSeq, pending, acks, draft, stopping, netVars, reader,
                 serverVars, queued, received>>

\* sendall raises OSError: the loop breaks and drops the packet it holds.
SendFails ==
  /\ writer = "holding"
  /\ link[conn] = "down"
  /\ writer' = "closing"
  /\ inHand' = Nothing
  /\ UNCHANGED <<clientVars, stopping, netVars, reader, serverVars, queued,
                 received>>

\* The stop event ends the loop after an attempt to connect failed or a wait for
\* a packet timed out.
LeaveLoop ==
  /\ stopping
  /\ \/ writer = "sending" /\ writer' = "closing"
     \/ writer = "connecting" /\ writer' = "stopped"
  /\ UNCHANGED <<clientVars, inHand, stopping, netVars, reader, serverVars, queued,
                 received>>

\* Mutant: a client that connects only once.
CloseSession_GivesUp ==
  /\ writer = "closing"
  /\ writer' = "stopped"
  /\ UNCHANGED <<clientVars, inHand, stopping, netVars, reader, serverVars,
                 queued, received>>

\* The reader is joined, for at most 0.5 s, and the socket closed.
CloseSession ==
  /\ writer = "closing"
  /\ writer' = IF stopping THEN "stopped" ELSE "connecting"
  /\ CutIf(reader[conn] = "ended", conn)
  /\ UNCHANGED <<clientVars, inHand, stopping, conn, reader, serverVars, queued,
                 received>>

\* stop joins the heartbeat loop before it stops the client, whose _on_stop closes
\* the socket of the session.
Stop ==
  /\ ~stopping
  /\ \A s \in Senders : "HEARTBEAT" \in KindsOf[s] => draft[s] = Nothing
  /\ stopping' = TRUE
  /\ IF conn > 0 /\ writer # "connecting"
       THEN CutIf(reader[conn] = "ended", conn)
       ELSE UNCHANGED <<link, toServer, toClient>>
  /\ UNCHANGED <<clientVars, writer, inHand, conn, reader, serverVars, queued,
                 received>>

--------------------------------------------------------------------------------
(* PersistentTCPClient: _read_loop, with HeartbeatClientDaemon._on_packet. *)

\* Mutant: an acknowledgement resolves every packet of its kind.
ReadAck_ByKind(c) ==
  /\ reader[c] = "reading"
  /\ toClient[c] # <<>>
  /\ pending' = {p \in pending : p.kind # Head(toClient[c]).kind}
  /\ acks' = Append(acks, Head(toClient[c]))
  /\ toClient' = [toClient EXCEPT ![c] = Tail(@)]
  /\ UNCHANGED <<nextSeq, draft, outbox, writerVars, conn, link, toServer,
                 reader, serverVars, queued, received>>

ReadAck(c) ==
  /\ reader[c] = "reading"
  /\ toClient[c] # <<>>
  /\ pending' = pending \ {Head(toClient[c])}
  /\ acks' = Append(acks, Head(toClient[c]))
  /\ toClient' = [toClient EXCEPT ![c] = Tail(@)]
  /\ UNCHANGED <<nextSeq, draft, outbox, writerVars, conn, link, toServer,
                 reader, serverVars, queued, received>>

\* With nothing to read for 0.2 s the stream times out; the next read of a
\* stream that timed out raises OSError, so `continue` leads to `break`.  The
\* end of the stream and the stop event end the loop as well.
ReaderEnds(c) ==
  /\ reader[c] = "reading"
  /\ toClient[c] = <<>> \/ stopping
  /\ reader' = [reader EXCEPT ![c] = "ended"]
  /\ CutIf(stopping \/ c < conn \/ writer = "connecting", c)
  /\ UNCHANGED <<clientVars, writerVars, conn, serverVars, queued, received>>

--------------------------------------------------------------------------------
(* MultiClientTCPServer, with HeartbeatServerDaemon._handle_packet.        *)

Accept(c) ==
  /\ c <= conn
  /\ handler[c] = "none"
  /\ handler' = [handler EXCEPT ![c] = "reading"]
  /\ UNCHANGED <<clientVars, writerVars, netVars, reader, serving, queued,
                 received>>

\* read_packet, then the put on heartbeats, status_updates or estops.
QueuePacket(c) ==
  /\ handler[c] = "reading"
  /\ toServer[c] # <<>>
  /\ received' = Append(received, <<Head(toServer[c]), c>>)
  /\ handler' = [handler EXCEPT ![c] = "acking"]
  /\ serving' = [serving EXCEPT ![c] = Head(toServer[c])]
  /\ toServer' = [toServer EXCEPT ![c] = Tail(@)]
  /\ UNCHANGED <<clientVars, writerVars, conn, link, toClient, reader, queued>>

\* Mutant: a server that handles one packet per connection.
AckReturns_Once(c) ==
  /\ handler' = [handler EXCEPT ![c] = "ended"]
  /\ toClient' = [toClient EXCEPT ![c] = Append(@, serving[c])]

\* send_ack returns; on a broken connection the bytes may go nowhere.
AckReturns(c) ==
  /\ handler' = [handler EXCEPT ![c] = "reading"]
  /\ toClient' = IF link[c] = "up"
                   THEN [toClient EXCEPT ![c] = Append(@, serving[c])]
                   ELSE toClient

\* send_ack raises outside the try of _handle_client: the thread dies, and what
\* it had not read is never handled.
AckRaises(c) ==
  /\ link[c] = "down"
  /\ handler' = [handler EXCEPT ![c] = "ended"]
  /\ toClient' = toClient

SendAck(c) ==
  /\ handler[c] = "acking"
  /\ AckReturns(c) \/ AckRaises(c)
  /\ serving' = [serving EXCEPT ![c] = Nothing]
  /\ UNCHANGED <<clientVars, writerVars, conn, link, toServer, reader, queued,
                 received>>

HandlerEnds(c) ==
  /\ handler[c] = "reading"
  /\ toServer[c] = <<>>
  /\ link[c] = "down"
  /\ handler' = [handler EXCEPT ![c] = "ended"]
  /\ UNCHANGED <<clientVars, writerVars, netVars, reader, serving, queued,
                 received>>

--------------------------------------------------------------------------------
(* The network.                                                            *)

Break(c) ==
  /\ link[c] = "up"
  /\ Cut(c)
  /\ UNCHANGED <<clientVars, writerVars, conn, reader, serverVars, queued, received>>

Sending == SendReturns \/ SendFails

Next ==
  \/ \E s \in Senders : Register(s) \/ Put(s)
  \/ Connect \/ Take \/ Sending \/ LeaveLoop \/ CloseSession \/ Stop
  \/ \E c \in Connections :
       \/ ReadAck(c) \/ ReaderEnds(c)
       \/ Accept(c) \/ QueuePacket(c) \/ SendAck(c) \/ HandlerEnds(c)
       \/ Break(c)

Spec == Init /\ [][Next]_vars

\* Threads that can run do run, the server accepts what was connected, and an
\* attempt to connect eventually succeeds.  Nobody is obliged to send a packet,
\* to stop the client or to break a connection.
Fairness ==
  /\ \A s \in Senders : WF_vars(Put(s))
  /\ WF_vars(Connect) /\ WF_vars(Take) /\ WF_vars(Sending)
  /\ WF_vars(LeaveLoop) /\ WF_vars(CloseSession)
  /\ \A c \in Connections :
       /\ WF_vars(ReadAck(c))
       /\ WF_vars(Accept(c)) /\ WF_vars(QueuePacket(c)) /\ WF_vars(SendAck(c))

FairSpec == Spec /\ Fairness

--------------------------------------------------------------------------------
(* Properties                                                              *)

QueuedAt(p) == CHOOSE i \in DOMAIN queued : queued[i] = p

\* The server handles packets in the order they were put in the outbox, except
\* that a packet of an older connection may be handled after packets of a newer
\* one, whose handler runs beside it (runtime.py:113-115, 163-190).
HandledInOrder ==
  \A i, j \in DOMAIN received :
    i < j /\ QueuedAt(received[i][1]) > QueuedAt(received[j][1])
      => received[i][2] > received[j][2]

\* An acknowledgement on its way to the client is for a packet the server has
\* queued and the client still waits for: register comes before send, and the
\* put before send_ack (health_monitor.py:249-265, 354-355).
AcksMatch ==
  \A c \in Connections : \A i \in DOMAIN toClient[c] :
    /\ toClient[c][i] \in pending
    /\ \E j \in DOMAIN received : received[j][1] = toClient[c][i]

Broken == \E c \in Connections : link[c] = "down"
Received(p) == \E i \in DOMAIN received : received[i][1] = p

\* A packet put in the outbox reaches the server's queues unless a connection
\* breaks or the client is stopped.
DeliveredUnlessBroken ==
  \A p \in Packet :
    (\E i \in DOMAIN queued : queued[i] = p) ~> (Received(p) \/ Broken \/ stopping)

\* The outbox drains: after each break the client reconnects and goes on
\* sending, as long as it has connections left (runtime.py:163-190).
OutboxDrains ==
  []<>(outbox = <<>> \/ stopping \/ (conn = MaxConnections /\ link[conn] = "down"))

\* The acknowledgement of every control message reaches client.acks
\* (tests/unit/test_comm_runtime.py:273-274) unless the connection breaks.
AcksHandled ==
  \A p \in Packet :
    (\E c \in Connections : \E i \in DOMAIN toClient[c] : toClient[c][i] = p)
      ~> ((\E i \in DOMAIN acks : acks[i] = p) \/ Broken \/ stopping)

================================================================================
