-------------------------- MODULE HeartbeatLink_proofs --------------------------
(***************************************************************************)
(* Theorems about HeartbeatLink, for any senders, kinds and bounds: each   *)
(* acknowledgement on its way is for a packet the server has queued and    *)
(* the client waits for, and the server handles the packets of the outbox  *)
(* in order, and each once.  All rest on where a packet can be: in one     *)
(* place at a time, and further along the link the earlier it was put in   *)
(* the outbox.                                                             *)
(***************************************************************************)
EXTENDS HeartbeatLink, SequenceTheorems, TLAPS

--------------------------------------------------------------------------------
(* Types.                                                                  *)

\* The client has opened a connection while it uses one, and the server holds a
\* packet exactly while it has one to acknowledge.
Control ==
  /\ writer \in {"sending", "holding", "closing"} => conn \in Connections
  /\ \A c \in Connections : serving[c] # Nothing <=> handler[c] = "acking"

TypeInv == TypeOK /\ Control

\* What is left in flight when a connection goes down has the type it had.
LEMMA CutType ==
  ASSUME TypeOK, NEW c \in Connections, Cut(c)
  PROVE  /\ link' \in [Connections -> {"unopened", "up", "down"}]
         /\ toServer' \in [Connections -> Seq(Packet)]
         /\ toClient' \in [Connections -> Seq(Packet)]
<1>1. \A s \in Seq(Packet) : \A i \in 0 .. Len(s) : SubSeq(s, 1, i) \in Seq(Packet)
  OBVIOUS
<1>2. toServer[c] \in Seq(Packet) /\ toClient[c] \in Seq(Packet)
  BY DEF TypeOK
<1> QED
  BY <1>1, <1>2 DEF Cut, TypeOK

LEMMA CutIfType ==
  ASSUME TypeOK, NEW closed \in BOOLEAN, NEW c \in Connections, CutIf(closed, c)
  PROVE  /\ link' \in [Connections -> {"unopened", "up", "down"}]
         /\ toServer' \in [Connections -> Seq(Packet)]
         /\ toClient' \in [Connections -> Seq(Packet)]
<1>1. CASE Cut(c)
  BY <1>1, CutType
<1>2. CASE UNCHANGED <<link, toServer, toClient>>
  BY <1>2 DEF TypeOK
<1> QED
  BY <1>1, <1>2 DEF CutIf

\* The client's steps keep the types.
LEMMA ClientTypes ==
  ASSUME TypeInv,
         \/ \E s \in Senders : Register(s) \/ Put(s)
         \/ Connect \/ Take \/ Sending \/ LeaveLoop \/ CloseSession \/ Stop
         \/ \E c \in Connections : ReadAck(c) \/ ReaderEnds(c)
  PROVE  TypeInv'
<1> USE LinkAssumption, NothingAssumption DEF TypeInv, TypeOK, Control, Connections
<1>1. ASSUME NEW s \in Senders, Register(s)
      PROVE  TypeInv'
  <2>1. PICK k \in KindsOf[s] :
          /\ pending' = pending \union {[kind |-> k, seq |-> nextSeq]}
          /\ draft' = [draft EXCEPT ![s] = [kind |-> k, seq |-> nextSeq]]
    BY <1>1 DEF Register
  <2>2. [kind |-> k, seq |-> nextSeq] \in Packet
    BY <1>1 DEF Register, Packet
  <2>3. nextSeq' \in 0 .. MaxPackets
    BY <1>1 DEF Register
  <2>4. pending' \subseteq Packet /\ draft' \in [Senders -> Packet \union {Nothing}]
    BY <2>1, <2>2
  <2> QED
    BY <1>1, <2>3, <2>4 DEF Register, writerVars, netVars, serverVars
<1>2. ASSUME NEW s \in Senders, Put(s)
      PROVE  TypeInv'
  BY <1>2 DEF Put, writerVars, netVars, serverVars
<1>3. ASSUME Connect
      PROVE  TypeInv'
  BY <1>3 DEF Connect, NextRound, clientVars, serverVars
<1>4. ASSUME Take
      PROVE  TypeInv'
  <2>1. Head(outbox) \in Packet /\ Tail(outbox) \in Seq(Packet)
    BY <1>4 DEF Take
  <2> QED
    BY <1>4, <2>1 DEF Take, netVars, serverVars
<1>5. ASSUME SendReturns
      PROVE  TypeInv'
  <2>1. inHand \in Packet /\ conn \in Connections
    BY <1>5 DEF SendReturns
  <2>2. toServer' \in [Connections -> Seq(Packet)]
    BY <1>5, <2>1 DEF SendReturns
  <2> QED
    BY <1>5, <2>1, <2>2 DEF SendReturns, NextRound, clientVars, serverVars
<1>6. ASSUME SendFails
      PROVE  TypeInv'
  BY <1>6 DEF SendFails, clientVars, netVars, serverVars
<1>7. ASSUME LeaveLoop
      PROVE  TypeInv'
  BY <1>7 DEF LeaveLoop, clientVars, netVars, serverVars
<1>8. ASSUME CloseSession
      PROVE  TypeInv'
  BY <1>8, CutIfType DEF CloseSession, clientVars, serverVars
<1>9. ASSUME Stop
      PROVE  TypeInv'
  <2>1. CASE conn > 0 /\ writer # "connecting"
    <3>1. conn \in Connections
      BY <2>1
    <3>2. CutIf(reader[conn] = "ended", conn)
      BY <1>9, <2>1 DEF Stop
    <3>3. /\ link' \in [Connections -> {"unopened", "up", "down"}]
          /\ toServer' \in [Connections -> Seq(Packet)]
          /\ toClient' \in [Connections -> Seq(Packet)]
      BY <3>1, <3>2, CutIfType
    <3> QED
      BY <1>9, <3>3 DEF Stop, clientVars, serverVars
  <2>2. CASE ~(conn > 0 /\ writer # "connecting")
    BY <1>9, <2>2 DEF Stop, clientVars, serverVars
  <2> QED
    BY <2>1, <2>2
<1>10. ASSUME NEW c \in Connections, ReadAck(c)
       PROVE  TypeInv'
  <2>1. Head(toClient[c]) \in Packet /\ Tail(toClient[c]) \in Seq(Packet)
    BY <1>10 DEF ReadAck
  <2>2. pending' \subseteq Packet /\ acks' \in Seq(Packet)
    BY <1>10, <2>1 DEF ReadAck
  <2>3. toClient' \in [Connections -> Seq(Packet)]
    BY <1>10, <2>1 DEF ReadAck
  <2>4. UNCHANGED <<nextSeq, draft, outbox, writer, inHand, stopping, conn, link,
                    toServer, reader, handler, serving, queued, received>>
    BY <1>10 DEF ReadAck, writerVars, serverVars
  <2> QED
    BY <2>2, <2>3, <2>4
<1>11. ASSUME NEW c \in Connections, ReaderEnds(c)
       PROVE  TypeInv'
  BY <1>11, CutIfType DEF ReaderEnds, clientVars, writerVars, serverVars
<1> QED
  BY <1>1, <1>2, <1>3, <1>4, <1>5, <1>6, <1>7, <1>8, <1>9, <1>10, <1>11
  DEF Sending

\* So do the server's and the network's.
LEMMA ServerTypes ==
  ASSUME TypeInv,
         \E c \in Connections :
           Accept(c) \/ QueuePacket(c) \/ SendAck(c) \/ HandlerEnds(c) \/ Break(c)
  PROVE  TypeInv'
<1> USE NothingAssumption DEF TypeInv, TypeOK, Control
<1> PICK c \in Connections :
           Accept(c) \/ QueuePacket(c) \/ SendAck(c) \/ HandlerEnds(c) \/ Break(c)
  OBVIOUS
<1>1. ASSUME Accept(c)
      PROVE  TypeInv'
  BY <1>1 DEF Accept, clientVars, writerVars, netVars
<1>2. ASSUME QueuePacket(c)
      PROVE  TypeInv'
  <2>1. Head(toServer[c]) \in Packet /\ Tail(toServer[c]) \in Seq(Packet)
    BY <1>2 DEF QueuePacket
  <2>2. received' \in Seq(Packet \X Connections)
    BY <1>2, <2>1 DEF QueuePacket
  <2>3. toServer' \in [Connections -> Seq(Packet)]
    BY <1>2, <2>1 DEF QueuePacket
  <2>4. serving' \in [Connections -> Packet \union {Nothing}]
    BY <1>2, <2>1 DEF QueuePacket
  <2>5. \A d \in Connections : serving'[d] # Nothing <=> handler'[d] = "acking"
    BY <1>2, <2>1 DEF QueuePacket
  <2>6. handler' \in [Connections -> {"none", "reading", "acking", "ended"}]
    BY <1>2 DEF QueuePacket
  <2>7. UNCHANGED <<nextSeq, pending, acks, draft, outbox, writer, inHand, stopping,
                    conn, link, toClient, reader, queued>>
    BY <1>2 DEF QueuePacket, clientVars, writerVars
  <2> QED
    BY <2>2, <2>3, <2>4, <2>5, <2>6, <2>7
<1>3. ASSUME SendAck(c)
      PROVE  TypeInv'
  <2>1. toClient' \in [Connections -> Seq(Packet)]
    <3>1. serving[c] \in Packet
      BY <1>3 DEF SendAck
    <3>2. Append(toClient[c], serving[c]) \in Seq(Packet)
      BY <3>1
    <3> QED
      BY <1>3, <3>2 DEF SendAck, AckReturns, AckRaises
  <2>2. handler' \in [Connections -> {"none", "reading", "acking", "ended"}]
    BY <1>3 DEF SendAck, AckReturns, AckRaises
  <2>3. \A d \in Connections : serving'[d] # Nothing <=> handler'[d] = "acking"
    BY <1>3 DEF SendAck, AckReturns, AckRaises
  <2> QED
    BY <1>3, <2>1, <2>2, <2>3 DEF SendAck, clientVars, writerVars
<1>4. ASSUME HandlerEnds(c)
      PROVE  TypeInv'
  BY <1>4 DEF HandlerEnds, clientVars, writerVars, netVars
<1>5. ASSUME Break(c)
      PROVE  TypeInv'
  BY <1>5, CutType DEF Break, clientVars, writerVars, serverVars
<1> QED
  BY <1>1, <1>2, <1>3, <1>4, <1>5

LEMMA TypeStep ==
  ASSUME TypeInv, [Next]_vars
  PROVE  TypeInv'
<1>1. CASE UNCHANGED vars
  BY <1>1 DEF TypeInv, TypeOK, Control, vars, clientVars, writerVars, netVars, serverVars
<1>2. CASE Next
  BY <1>2, ClientTypes, ServerTypes DEF Next
<1> QED
  BY <1>1, <1>2

LEMMA TypeInit == Init => TypeInv
<1> SUFFICES ASSUME Init PROVE TypeInv
  OBVIOUS
<1>1. TypeOK
  <2>1. /\ nextSeq \in 0 .. MaxPackets
        /\ conn \in 0 .. MaxConnections
    BY LinkAssumption DEF Init
  <2>2. /\ acks \in Seq(Packet) /\ outbox \in Seq(Packet) /\ queued \in Seq(Packet)
        /\ received \in Seq(Packet \X Connections)
    BY DEF Init
  <2>3. /\ toServer \in [Connections -> Seq(Packet)]
        /\ toClient \in [Connections -> Seq(Packet)]
    BY DEF Init
  <2>4. /\ draft \in [Senders -> Packet \union {Nothing}]
        /\ serving \in [Connections -> Packet \union {Nothing}]
    BY DEF Init
  <2> QED
    BY <2>1, <2>2, <2>3, <2>4 DEF Init, TypeOK
<1>2. Control
  BY DEF Init, Control
<1> QED
  BY <1>1, <1>2 DEF TypeInv

\* The variables of the link have the types of the source's fields.
THEOREM TypeCorrect == Spec => []TypeOK
<1>1. Init => TypeInv
  BY TypeInit
<1>2. TypeInv /\ [Next]_vars => TypeInv'
  BY TypeStep
<1>3. TypeInv => TypeOK
  BY DEF TypeInv
<1> QED
  BY <1>1, <1>2, <1>3, PTL DEF Spec

--------------------------------------------------------------------------------
(* The inductive invariant.                                                *)

\* Of two elements of q the first stands before the second, wherever they stand.
Before(q, x, y) == \A i, j \in DOMAIN q : q[i] = x /\ q[j] = y => i < j
AllBefore(q, A, B) == \A x \in A, y \in B : Before(q, x, y)
InOrderOf(q, s) == \A i, j \in DOMAIN s : i < j => Before(q, s[i], s[j])
Once(q) == \A i, j \in DOMAIN q : q[i] = q[j] => i = j

\* The packets in each place of the link.
InHand == {inHand} \ {Nothing}
Serving(c) == {serving[c]} \ {Nothing}
Acked(c) == Range(toClient[c])
Got(c) == {p \in Packet : \E i \in DOMAIN received : received[i] = <<p, c>>}
Sent(c) == Got(c) \union Range(toServer[c])

\* A drafted packet is not queued, no two drafts are the same, and sequence numbers
\* from nextSeq on are unused.
Drafts ==
  /\ Once(queued)
  /\ \A p \in Range(queued) : p.seq < nextSeq
  /\ \A s \in Senders : draft[s] # Nothing =>
       draft[s].seq < nextSeq /\ draft[s] \notin Range(queued)
  /\ \A s, t \in Senders : draft[s] # Nothing /\ draft[s] = draft[t] => s = t

\* The client's end keeps the order of the queue.
Outgoing ==
  /\ Range(outbox) \union InHand \subseteq Range(queued)
  /\ InOrderOf(queued, outbox)
  /\ AllBefore(queued, InHand, Range(outbox))

\* So do the connections, one after the other, and on each the part that the server
\* has queued comes first.
Transit ==
  /\ \A c \in Connections :
       /\ Sent(c) \subseteq Range(queued)
       /\ c > conn => Sent(c) = {}
       /\ AllBefore(queued, Sent(c), InHand \union Range(outbox))
       /\ InOrderOf(queued, toServer[c])
       /\ AllBefore(queued, Got(c), Range(toServer[c]))
  /\ \A c, d \in Connections : c < d => AllBefore(queued, Sent(c), Sent(d))
  /\ \A i, j \in DOMAIN received : i < j /\ received[i][2] = received[j][2] =>
       Before(queued, received[i][1], received[j][1])

\* What is acknowledged on a connection was received over it, in order.
Acks ==
  \A c \in Connections :
    /\ Acked(c) \union Serving(c) \subseteq Got(c)
    /\ InOrderOf(queued, toClient[c])
    /\ AllBefore(queued, Acked(c), Serving(c))

\* The client waits for every packet that is anywhere on the link.
Awaited ==
  /\ \A s \in Senders : draft[s] # Nothing => draft[s] \in pending
  /\ Range(outbox) \union InHand \subseteq pending
  /\ \A c \in Connections :
       Range(toServer[c]) \union Serving(c) \union Acked(c) \subseteq pending

LinkInv == TypeInv /\ Drafts /\ Outgoing /\ Transit /\ Acks /\ Awaited

\* An entry of the history is a packet and the connection it came over.
LEMMA ReceivedFields ==
  ASSUME TypeOK, NEW i \in DOMAIN received
  PROVE  /\ received[i][1] \in Packet /\ received[i][2] \in Connections
         /\ received[i][1] \in Got(received[i][2])
<1>1. received[i] \in Packet \X Connections
  BY DEF TypeOK
<1>2. /\ received[i][1] \in Packet /\ received[i][2] \in Connections
      /\ received[i] = <<received[i][1], received[i][2]>>
  BY <1>1
<1> QED
  BY <1>2 DEF Got

--------------------------------------------------------------------------------
(* The order of a queue.                                                   *)

LEMMA BeforeIrreflexive ==
  ASSUME NEW S, NEW q \in Seq(S), NEW x \in Range(q)
  PROVE  ~Before(q, x, x)
BY DEF Before, Range

\* What was ordered stays so when an element is added, and it comes before that one.
LEMMA OrderGrows ==
  ASSUME NEW S, NEW q \in Seq(S), NEW e \in S, e \notin Range(q)
  PROVE  /\ \A A, B : /\ A \subseteq Range(q) /\ B \subseteq Range(q)
                     /\ AllBefore(q, A, B)
                     => AllBefore(Append(q, e), A, B)
         /\ \A s : Range(s) \subseteq Range(q) /\ InOrderOf(q, s)
                     => InOrderOf(Append(q, e), s)
         /\ \A A : A \subseteq Range(q) => AllBefore(Append(q, e), A, {e})
         /\ Once(q) => Once(Append(q, e))
<1> DEFINE r == Append(q, e)
<1>1. /\ DOMAIN q = 1 .. Len(q) /\ DOMAIN r = 1 .. Len(q) + 1 /\ Len(q) \in Nat
      /\ \A i \in 1 .. Len(q) : r[i] = q[i]
      /\ r[Len(q) + 1] = e
  OBVIOUS
<1>2. \A i \in DOMAIN q : q[i] # e
  BY DEF Range
<1> HIDE DEF r
<1>3. ASSUME NEW x \in Range(q), NEW y \in Range(q), Before(q, x, y)
      PROVE  Before(r, x, y)
  BY <1>1, <1>2, <1>3 DEF Before, Range
<1>4. ASSUME NEW x \in Range(q)
      PROVE  Before(r, x, e)
  BY <1>1, <1>2 DEF Before, Range
<1>5. Once(q) => Once(r)
  BY <1>1, <1>2 DEF Once
<1>6. \A s : Range(s) \subseteq Range(q) /\ InOrderOf(q, s) => InOrderOf(r, s)
  BY <1>3 DEF InOrderOf, Range
<1> QED
  BY <1>3, <1>4, <1>5, <1>6 DEF AllBefore, r

\* Adding an element that comes after all others, taking the first one and cutting
\* the last ones off: which elements a sequence has then, and in which order.
LEMMA AppendInOrder ==
  ASSUME NEW S, NEW s \in Seq(S), NEW e \in S
  PROVE  /\ Range(Append(s, e)) = Range(s) \union {e}
         /\ \A q : InOrderOf(q, s) /\ AllBefore(q, Range(s), {e})
                     => InOrderOf(q, Append(s, e))
<1> DEFINE r == Append(s, e)
<1>1. /\ DOMAIN s = 1 .. Len(s) /\ DOMAIN r = 1 .. Len(s) + 1 /\ Len(s) \in Nat
      /\ \A i \in 1 .. Len(s) : r[i] = s[i]
      /\ r[Len(s) + 1] = e
  OBVIOUS
<1> HIDE DEF r
<1>2. Range(r) = Range(s) \union {e}
  BY <1>1 DEF Range
<1>3. \A q : InOrderOf(q, s) /\ AllBefore(q, Range(s), {e}) => InOrderOf(q, r)
  BY <1>1 DEF InOrderOf, AllBefore, Range
<1> QED
  BY <1>2, <1>3 DEF r

LEMMA TakeFirst ==
  ASSUME NEW S, NEW s \in Seq(S), s # <<>>
  PROVE  /\ Range(s) = {Head(s)} \union Range(Tail(s))
         /\ \A q : InOrderOf(q, s)
              => InOrderOf(q, Tail(s)) /\ AllBefore(q, {Head(s)}, Range(Tail(s)))
<1> DEFINE t == Tail(s)
<1>1. /\ DOMAIN s = 1 .. Len(s) /\ DOMAIN t = 1 .. Len(s) - 1 /\ Len(s) \in Nat \ {0}
      /\ \A i \in 1 .. Len(s) - 1 : t[i] = s[i + 1]
      /\ Head(s) = s[1]
  OBVIOUS
<1> HIDE DEF t
<1>2. Range(s) = {Head(s)} \union Range(t)
  <2>1. ASSUME NEW i \in DOMAIN s PROVE s[i] \in {Head(s)} \union Range(t)
    <3>1. i = 1 \/ (i - 1 \in DOMAIN t /\ t[i - 1] = s[i])
      BY <1>1
    <3> QED
      BY <3>1, <1>1 DEF Range
  <2>2. 1 \in DOMAIN s /\ \A i \in DOMAIN t : i + 1 \in DOMAIN s
    BY <1>1
  <2> QED
    BY <1>1, <2>1, <2>2 DEF Range
<1>3. \A q : InOrderOf(q, s) => InOrderOf(q, t) /\ AllBefore(q, {Head(s)}, Range(t))
  <2>1. \A i \in DOMAIN t : i + 1 \in DOMAIN s /\ 1 < i + 1 /\ t[i] = s[i + 1]
    BY <1>1
  <2>2. \A i, j \in DOMAIN t : i < j => i + 1 < j + 1
    BY <1>1
  <2> QED
    BY <1>1, <2>1, <2>2 DEF InOrderOf, AllBefore, Range
<1> QED
  BY <1>2, <1>3 DEF t

LEMMA CutInOrder ==
  ASSUME NEW S, NEW s \in Seq(S), NEW n \in 0 .. Len(s)
  PROVE  /\ Range(SubSeq(s, 1, n)) \subseteq Range(s)
         /\ \A q : InOrderOf(q, s) => InOrderOf(q, SubSeq(s, 1, n))
<1> DEFINE t == SubSeq(s, 1, n)
<1>1. /\ DOMAIN s = 1 .. Len(s) /\ DOMAIN t = 1 .. n /\ n <= Len(s)
      /\ \A i \in 1 .. n : t[i] = s[i]
  OBVIOUS
<1> HIDE DEF t
<1> QED
  <2>1. \A i \in DOMAIN t : i \in DOMAIN s /\ t[i] = s[i]
    BY <1>1
  <2> QED
    BY <2>1 DEF InOrderOf, Range, t

--------------------------------------------------------------------------------
(* The steps.                                                              *)

\* Nothing is added to what is in flight, and its order stays.
LessInFlight ==
  \A c \in Connections :
    /\ Range(toServer'[c]) \subseteq Range(toServer[c])
    /\ InOrderOf(queued, toServer[c]) => InOrderOf(queued, toServer'[c])
    /\ Range(toClient'[c]) \subseteq Range(toClient[c])
    /\ InOrderOf(queued, toClient[c]) => InOrderOf(queued, toClient'[c])

\* Steps that move no packet on and may lose some.
Losing ==
  /\ UNCHANGED <<nextSeq, pending, draft, outbox, serving, queued, received>>
  /\ conn' >= conn
  /\ inHand' \in {inHand, Nothing}
  /\ LessInFlight

LEMMA CutLoses ==
  ASSUME TypeOK, NEW c \in Connections, Cut(c)
  PROVE  LessInFlight
<1>1. toServer[c] \in Seq(Packet) /\ toClient[c] \in Seq(Packet)
  BY DEF TypeOK
<1>2. PICK i \in 0 .. Len(toServer[c]) :
        toServer' = [toServer EXCEPT ![c] = SubSeq(@, 1, i)]
  BY DEF Cut
<1>3. PICK j \in 0 .. Len(toClient[c]) :
        toClient' = [toClient EXCEPT ![c] = SubSeq(@, 1, j)]
  BY DEF Cut
<1>4. /\ Range(SubSeq(toServer[c], 1, i)) \subseteq Range(toServer[c])
      /\ InOrderOf(queued, toServer[c]) => InOrderOf(queued, SubSeq(toServer[c], 1, i))
  BY <1>1, CutInOrder
<1>5. /\ Range(SubSeq(toClient[c], 1, j)) \subseteq Range(toClient[c])
      /\ InOrderOf(queued, toClient[c]) => InOrderOf(queued, SubSeq(toClient[c], 1, j))
  BY <1>1, CutInOrder
<1>6. /\ toServer'[c] = SubSeq(toServer[c], 1, i)
      /\ toClient'[c] = SubSeq(toClient[c], 1, j)
      /\ \A d \in Connections \ {c} :
           toServer'[d] = toServer[d] /\ toClient'[d] = toClient[d]
  BY <1>2, <1>3 DEF TypeOK
<1> QED
  BY <1>4, <1>5, <1>6 DEF LessInFlight

LEMMA UncutLoses ==
  ASSUME UNCHANGED <<toServer, toClient>>
  PROVE  LessInFlight
BY DEF LessInFlight

LEMMA LosingSteps ==
  ASSUME TypeInv,
         \/ Connect \/ SendFails \/ LeaveLoop \/ CloseSession \/ Stop
         \/ \E c \in Connections : ReaderEnds(c) \/ Accept(c) \/ HandlerEnds(c) \/ Break(c)
  PROVE  Losing
<1> USE DEF clientVars, writerVars, netVars, serverVars
<1>1. conn \in Nat /\ TypeOK
  BY DEF TypeInv, TypeOK
<1>2. ASSUME NEW closed, NEW c \in Connections, CutIf(closed, c)
      PROVE  LessInFlight
  BY <1>1, <1>2, CutLoses, UncutLoses DEF CutIf
<1>3. CASE Connect
  BY <1>1, <1>3, UncutLoses DEF Connect, Losing
<1>4. CASE SendFails \/ LeaveLoop
  BY <1>1, <1>4, UncutLoses DEF SendFails, LeaveLoop, Losing
<1>5. CASE CloseSession
  <2>1. conn \in Connections /\ CutIf(reader[conn] = "ended", conn)
    BY <1>5 DEF CloseSession, TypeInv, Control
  <2>2. LessInFlight
    BY <2>1, <1>2
  <2> QED
    BY <1>1, <1>5, <2>2 DEF CloseSession, Losing
<1>6. CASE Stop
  <2>1. CASE conn > 0 /\ writer # "connecting"
    <3>1. conn \in Connections /\ CutIf(reader[conn] = "ended", conn)
      BY <1>6, <2>1 DEF Stop, TypeInv, TypeOK, Connections
    <3>2. LessInFlight
      BY <3>1, <1>2
    <3> QED
      BY <1>1, <1>6, <3>2 DEF Stop, Losing
  <2>2. CASE ~(conn > 0 /\ writer # "connecting")
    BY <1>1, <1>6, <2>2, UncutLoses DEF Stop, Losing
  <2> QED
    BY <2>1, <2>2
<1>7. ASSUME NEW c \in Connections, ReaderEnds(c)
      PROVE  Losing
  <2>1. CutIf(stopping \/ c < conn \/ writer = "connecting", c)
    BY <1>7 DEF ReaderEnds
  <2>2. LessInFlight
    BY <2>1, <1>2
  <2> QED
    BY <1>1, <1>7, <2>2 DEF ReaderEnds, Losing
<1>8. ASSUME NEW c \in Connections, Accept(c) \/ HandlerEnds(c)
      PROVE  Losing
  BY <1>1, <1>8, UncutLoses DEF Accept, HandlerEnds, Losing
<1>9. ASSUME NEW c \in Connections, Break(c)
      PROVE  Losing
  BY <1>1, <1>9, CutLoses DEF Break, Losing
<1> QED
  BY <1>3, <1>4, <1>5, <1>6, <1>7, <1>8, <1>9

\* They keep the invariant.
LEMMA LosingStep ==
  ASSUME LinkInv, Losing, TypeInv'
  PROVE  LinkInv'
<1> USE DEF LessInFlight
<1>1. Drafts'
  BY DEF LinkInv, Losing, Drafts
<1>2. InHand' \subseteq InHand
  BY DEF Losing, InHand
<1>3. Outgoing'
  BY <1>2 DEF LinkInv, Losing, Outgoing, AllBefore
<1>4. \A c \in Connections : /\ Got(c)' = Got(c) /\ Serving(c)' = Serving(c)
                            /\ Sent(c)' \subseteq Sent(c) /\ Acked(c)' \subseteq Acked(c)
  BY DEF Losing, Got, Serving, Sent, Acked
<1>5. conn \in Nat /\ conn' \in Nat
  BY DEF LinkInv, TypeInv, TypeOK
<1>6. Transit'
  <2>1. ASSUME NEW c \in Connections
        PROVE  /\ Sent(c)' \subseteq Range(queued)'
               /\ c > conn' => Sent(c)' = {}
               /\ AllBefore(queued', Sent(c)', InHand' \union Range(outbox)')
               /\ InOrderOf(queued', toServer'[c])
               /\ AllBefore(queued', Got(c)', Range(toServer'[c]))
    BY <1>2, <1>4, <1>5 DEF LinkInv, Losing, Transit, AllBefore, Connections
  <2>2. ASSUME NEW c \in Connections, NEW d \in Connections, c < d
        PROVE  AllBefore(queued', Sent(c)', Sent(d)')
    BY <1>4, <2>2 DEF LinkInv, Losing, Transit, AllBefore
  <2> QED
    BY <2>1, <2>2 DEF LinkInv, Losing, Transit
<1>7. Acks'
  BY <1>4 DEF LinkInv, Losing, Acks, AllBefore
<1>8. Awaited'
  BY <1>2, <1>4 DEF LinkInv, Losing, Awaited
<1> QED
  BY <1>1, <1>3, <1>6, <1>7, <1>8 DEF LinkInv

\* A step that changes neither connections nor histories keeps what is about them.
LEMMA SameTransit ==
  ASSUME LinkInv, UNCHANGED <<conn, toServer, received, queued>>,
         InHand' \union Range(outbox)' \subseteq InHand \union Range(outbox)
  PROVE  Transit'
<1>1. \A c \in Connections : Got(c)' = Got(c) /\ Sent(c)' = Sent(c)
  BY DEF Got, Sent
<1> QED
  BY <1>1 DEF LinkInv, Transit, AllBefore

LEMMA SameAcks ==
  ASSUME LinkInv, UNCHANGED <<toClient, serving, received, queued>>
  PROVE  Acks'
<1>1. \A c \in Connections : /\ Got(c)' = Got(c) /\ Acked(c)' = Acked(c)
                            /\ Serving(c)' = Serving(c)
  BY DEF Got, Acked, Serving
<1> QED
  BY <1>1 DEF LinkInv, Acks

\* send_*: a sequence number nobody has used.
LEMMA RegisterStep ==
  ASSUME LinkInv, TypeInv', NEW s \in Senders, Register(s)
  PROVE  LinkInv'
<1> USE DEF writerVars, netVars, serverVars
<1>1. PICK k \in KindsOf[s] :
        /\ pending' = pending \union {[kind |-> k, seq |-> nextSeq]}
        /\ draft' = [draft EXCEPT ![s] = [kind |-> k, seq |-> nextSeq]]
  BY DEF Register
<1> DEFINE p == [kind |-> k, seq |-> nextSeq]
<1>2. p.seq = nextSeq /\ nextSeq \in Nat /\ nextSeq' = nextSeq + 1
  BY DEF Register, LinkInv, TypeInv, TypeOK
<1>3. /\ draft'[s] = p /\ \A t \in Senders \ {s} : draft'[t] = draft[t]
      /\ pending' = pending \union {p}
  BY <1>1 DEF LinkInv, TypeInv, TypeOK
<1> HIDE DEF p
<1>4. UNCHANGED <<outbox, inHand, conn, toServer, toClient, serving, queued, received>>
  BY DEF Register
<1>5. /\ \A q \in Range(queued) : q.seq \in Nat
      /\ \A t \in Senders : draft[t] # Nothing => draft[t].seq \in Nat
  <2>1. Range(queued) \subseteq Packet
    BY DEF LinkInv, TypeInv, TypeOK, Range
  <2> QED
    BY <2>1 DEF Packet, LinkInv, TypeInv, TypeOK
<1>6. Drafts'
  <2>1. p \notin Range(queued)
    BY <1>2, <1>5 DEF LinkInv, Drafts
  <2>2. \A q \in Range(queued) : q.seq < nextSeq'
    BY <1>2, <1>5 DEF LinkInv, Drafts
  <2>3. \A t \in Senders : draft'[t] # Nothing =>
          draft'[t].seq < nextSeq' /\ draft'[t] \notin Range(queued)
    BY <1>2, <1>3, <1>5, <2>1 DEF LinkInv, Drafts
  <2>4. \A t \in Senders : draft[t] # Nothing => draft[t] # p
    BY <1>2, <1>5 DEF LinkInv, Drafts
  <2>5. \A t, u \in Senders : draft'[t] # Nothing /\ draft'[t] = draft'[u] => t = u
    BY <1>3, <2>4 DEF LinkInv, Drafts
  <2> QED
    BY <1>4, <2>2, <2>3, <2>5 DEF LinkInv, Drafts
<1>7. InHand' = InHand
  BY <1>4 DEF InHand
<1>8. Outgoing'
  BY <1>4, <1>7 DEF LinkInv, Outgoing
<1>9. Transit'
  BY <1>4, <1>7, SameTransit
<1>10. Acks'
  BY <1>4, SameAcks
<1>11. Awaited'
  <2>1. \A t \in Senders : draft'[t] # Nothing => draft'[t] \in pending'
    BY <1>3 DEF LinkInv, Awaited
  <2>2. Range(outbox) \union InHand \subseteq pending'
    BY <1>3 DEF LinkInv, Awaited
  <2>3. \A c \in Connections :
          Range(toServer[c]) \union Serving(c) \union Acked(c) \subseteq pending'
    BY <1>3 DEF LinkInv, Awaited
  <2>4. \A c \in Connections : Serving(c)' = Serving(c) /\ Acked(c)' = Acked(c)
    BY <1>4 DEF Serving, Acked
  <2> QED
    BY <1>4, <1>7, <2>1, <2>2, <2>3, <2>4 DEF Awaited
<1> QED
  BY <1>6, <1>8, <1>9, <1>10, <1>11 DEF LinkInv

\* outbox.put: the packet is the last of the queue and of the outbox.
LEMMA PutStep ==
  ASSUME LinkInv, TypeInv', NEW s \in Senders, Put(s)
  PROVE  LinkInv'
<1> USE DEF writerVars, netVars, serverVars
<1> DEFINE p == draft[s]
<1>1. p \in Packet /\ p # Nothing /\ p \notin Range(queued)
  BY DEF Put, LinkInv, TypeInv, TypeOK, Drafts
<1>2. /\ draft'[s] = Nothing /\ \A t \in Senders \ {s} : draft'[t] = draft[t]
      /\ queued' = Append(queued, p) /\ outbox' = Append(outbox, p)
  BY DEF Put, LinkInv, TypeInv, TypeOK
<1>3. UNCHANGED <<nextSeq, pending, inHand, conn, toServer, toClient, serving, received>>
  BY DEF Put
<1>4. queued \in Seq(Packet) /\ outbox \in Seq(Packet)
  BY DEF LinkInv, TypeInv, TypeOK
<1>5. p.seq < nextSeq /\ p \in pending /\ \A t \in Senders \ {s} : draft[t] # p
  BY <1>1 DEF LinkInv, Drafts, Awaited
<1> HIDE DEF p
<1>6. /\ Range(queued') = Range(queued) \union {p}
      /\ Range(outbox') = Range(outbox) \union {p}
      /\ \A q : InOrderOf(q, outbox) /\ AllBefore(q, Range(outbox), {p})
              => InOrderOf(q, outbox')
  <2>1. ASSUME NEW b \in Seq(Packet)
        PROVE  /\ Range(Append(b, p)) = Range(b) \union {p}
               /\ \A q : InOrderOf(q, b) /\ AllBefore(q, Range(b), {p}) => InOrderOf(q, Append(b, p))
    BY <1>1, AppendInOrder
  <2> QED
    BY <1>2, <1>4, <2>1
<1>7. /\ \A A, B : /\ A \subseteq Range(queued) /\ B \subseteq Range(queued)
                  /\ AllBefore(queued, A, B)
                  => AllBefore(queued', A, B)
      /\ \A t : Range(t) \subseteq Range(queued) /\ InOrderOf(queued, t)
                  => InOrderOf(queued', t)
      /\ \A A : A \subseteq Range(queued) => AllBefore(queued', A, {p})
      /\ Once(queued) => Once(queued')
  BY <1>1, <1>2, <1>4, OrderGrows
<1>8. \A A, B, C : AllBefore(queued', A, B) /\ AllBefore(queued', A, C)
                  => AllBefore(queued', A, B \union C)
  BY DEF AllBefore
<1>9. Drafts'
  BY <1>2, <1>3, <1>5, <1>6, <1>7 DEF LinkInv, Drafts
<1>10. InHand' = InHand
  BY <1>3 DEF InHand
<1>11. Outgoing'
  <2>1. InHand \subseteq Range(queued) /\ Range(outbox) \subseteq Range(queued)
    BY DEF LinkInv, Outgoing
  <2>2. InOrderOf(queued', outbox')
    BY <1>6, <1>7, <2>1 DEF LinkInv, Outgoing
  <2>3. AllBefore(queued', InHand, Range(outbox) \union {p})
    BY <1>7, <1>8, <2>1 DEF LinkInv, Outgoing
  <2> QED
    BY <1>6, <1>10, <2>1, <2>2, <2>3 DEF Outgoing
<1>12. \A c \in Connections : Got(c)' = Got(c) /\ Sent(c)' = Sent(c)
  BY <1>3 DEF Got, Sent
<1>13. Transit'
  <2>1. ASSUME NEW c \in Connections
        PROVE  /\ Sent(c) \subseteq Range(queued')
               /\ c > conn => Sent(c) = {}
               /\ AllBefore(queued', Sent(c), InHand \union Range(outbox'))
               /\ InOrderOf(queued', toServer[c])
               /\ AllBefore(queued', Got(c), Range(toServer[c]))
    <3>1. /\ Sent(c) \subseteq Range(queued) /\ InHand \union Range(outbox) \subseteq Range(queued)
          /\ Got(c) \subseteq Sent(c) /\ Range(toServer[c]) \subseteq Sent(c)
      BY DEF LinkInv, Transit, Outgoing, Sent
    <3>2. /\ AllBefore(queued, Sent(c), InHand \union Range(outbox))
          /\ InOrderOf(queued, toServer[c]) /\ AllBefore(queued, Got(c), Range(toServer[c]))
          /\ c > conn => Sent(c) = {}
      BY DEF LinkInv, Transit
    <3>3. /\ AllBefore(queued', Sent(c), InHand \union Range(outbox))
          /\ AllBefore(queued', Sent(c), {p})
          /\ InOrderOf(queued', toServer[c])
      BY <1>7, <3>1, <3>2
    <3>4. AllBefore(queued', Got(c), Range(toServer[c]))
      <4>1. Got(c) \subseteq Range(queued) /\ Range(toServer[c]) \subseteq Range(queued)
        BY <3>1
      <4> QED
        BY <1>7, <3>2, <4>1
    <3>5. InHand \union Range(outbox') = (InHand \union Range(outbox)) \union {p}
      BY <1>6
    <3> QED
      BY <1>6, <1>8, <3>1, <3>2, <3>3, <3>4, <3>5
  <2>2. ASSUME NEW c \in Connections, NEW d \in Connections, c < d
        PROVE  AllBefore(queued', Sent(c), Sent(d))
    BY <1>7, <2>2 DEF LinkInv, Transit
  <2>3. ASSUME NEW i \in DOMAIN received, NEW j \in DOMAIN received, i < j,
               received[i][2] = received[j][2]
        PROVE  Before(queued', received[i][1], received[j][1])
    <3>1. \A k \in DOMAIN received : received[k][1] \in Range(queued)
      BY ReceivedFields DEF LinkInv, TypeInv, Transit, Sent
    <3>2. AllBefore(queued, {received[i][1]}, {received[j][1]})
      BY <2>3 DEF LinkInv, Transit, AllBefore
    <3>3. AllBefore(queued', {received[i][1]}, {received[j][1]})
      BY <1>7, <3>1, <3>2
    <3> QED
      BY <3>3 DEF AllBefore
  <2>4. ASSUME NEW c \in Connections
        PROVE  /\ Sent(c)' \subseteq Range(queued')
               /\ c > conn' => Sent(c)' = {}
               /\ AllBefore(queued', Sent(c)', InHand' \union Range(outbox'))
               /\ InOrderOf(queued', toServer'[c])
               /\ AllBefore(queued', Got(c)', Range(toServer'[c]))
    <3>1. Sent(c)' = Sent(c) /\ Got(c)' = Got(c)
      BY <1>12
    <3> QED
      BY <1>3, <1>10, <2>1, <3>1
  <2>5. ASSUME NEW c \in Connections, NEW d \in Connections, c < d
        PROVE  AllBefore(queued', Sent(c)', Sent(d)')
    <3>1. Sent(c)' = Sent(c) /\ Sent(d)' = Sent(d)
      BY <1>12
    <3>2. AllBefore(queued', Sent(c), Sent(d))
      BY <2>2, <2>5
    <3> QED
      BY <3>1, <3>2
  <2>6. \A i, j \in DOMAIN received' : i < j /\ received'[i][2] = received'[j][2] =>
          Before(queued', received'[i][1], received'[j][1])
    BY <1>3, <2>3
  <2> QED
    BY <2>4, <2>5, <2>6 DEF Transit
<1>14. \A c \in Connections : Serving(c)' = Serving(c) /\ Acked(c)' = Acked(c)
  BY <1>3 DEF Serving, Acked
<1>15. Acks'
  <2>1. \A c \in Connections :
          /\ Acked(c) \subseteq Range(queued) /\ Serving(c) \subseteq Range(queued)
          /\ Acked(c) \union Serving(c) \subseteq Got(c)
    BY DEF LinkInv, Acks, Transit, Sent
  <2>2. \A c \in Connections : /\ InOrderOf(queued', toClient[c])
                              /\ AllBefore(queued', Acked(c), Serving(c))
    BY <1>7, <2>1 DEF LinkInv, Acks, Acked
  <2> QED
    BY <1>3, <1>12, <1>14, <2>1, <2>2 DEF Acks
<1>16. Awaited'
  BY <1>2, <1>3, <1>5, <1>6, <1>10, <1>14 DEF LinkInv, Awaited
<1> QED
  BY <1>9, <1>11, <1>13, <1>15, <1>16 DEF LinkInv

\* outbox.get: the first packet of the outbox is the one in hand.
LEMMA TakeStep ==
  ASSUME LinkInv, TypeInv', Take
  PROVE  LinkInv'
<1> USE DEF netVars, serverVars
<1>1. /\ outbox \in Seq(Packet) /\ outbox # <<>> /\ inHand = Nothing
      /\ Head(outbox) \in Packet /\ Head(outbox) # Nothing
  BY NothingAssumption DEF Take, LinkInv, TypeInv, TypeOK
<1>2. /\ inHand' = Head(outbox) /\ outbox' = Tail(outbox)
      /\ UNCHANGED <<nextSeq, pending, draft, conn, toServer, toClient, serving, queued,
                     received>>
  BY DEF Take
<1>3. /\ Range(outbox) = {Head(outbox)} \union Range(Tail(outbox))
      /\ InOrderOf(queued, outbox) =>
           /\ InOrderOf(queued, Tail(outbox))
           /\ AllBefore(queued, {Head(outbox)}, Range(Tail(outbox)))
  BY <1>1, TakeFirst
<1>4. InHand = {} /\ InHand' = {Head(outbox)}
  BY <1>1, <1>2 DEF InHand
<1>5. InHand' \union Range(outbox') = InHand \union Range(outbox)
  BY <1>2, <1>3, <1>4
<1>6. Drafts'
  BY <1>2 DEF LinkInv, Drafts
<1>7. Outgoing'
  BY <1>2, <1>3, <1>4, <1>5 DEF LinkInv, Outgoing
<1>8. Transit'
  BY <1>2, <1>5, SameTransit
<1>9. Acks'
  BY <1>2, SameAcks
<1>10. \A c \in Connections : Serving(c)' = Serving(c) /\ Acked(c)' = Acked(c)
  BY <1>2 DEF Serving, Acked
<1>11. Awaited'
  BY <1>2, <1>5, <1>10 DEF LinkInv, Awaited
<1> QED
  BY <1>6, <1>7, <1>8, <1>9, <1>11 DEF LinkInv

\* sendall: the packet in hand is the last on the newest connection, unless that
\* broke.
LEMMA SendReturnsStep ==
  ASSUME LinkInv, TypeInv', SendReturns
  PROVE  LinkInv'
<1> USE DEF clientVars, serverVars
<1>1. /\ conn \in Connections /\ inHand \in Packet /\ InHand = {inHand}
      /\ \A c \in Connections : toServer[c] \in Seq(Packet)
  BY DEF SendReturns, LinkInv, TypeInv, TypeOK, Control, InHand
<1>2. /\ inHand' = Nothing
      /\ UNCHANGED <<nextSeq, pending, draft, outbox, conn, toClient, serving, queued,
                     received>>
  BY DEF SendReturns
<1>3. CASE link[conn] # "up"
  <2>1. UNCHANGED <<toServer, toClient>>
    BY <1>3 DEF SendReturns
  <2>2. Losing
    BY <1>1, <1>2, <2>1, UncutLoses DEF Losing, Connections
  <2> QED
    BY <2>2, LosingStep
<1>4. CASE link[conn] = "up"
  <2>1. /\ toServer'[conn] = Append(toServer[conn], inHand)
        /\ \A c \in Connections \ {conn} : toServer'[c] = toServer[c]
    BY <1>1, <1>4 DEF SendReturns, LinkInv, TypeInv, TypeOK
  <2>2. /\ Range(toServer'[conn]) = Range(toServer[conn]) \union InHand
        /\ InOrderOf(queued, toServer[conn])
              /\ AllBefore(queued, Range(toServer[conn]), InHand)
            => InOrderOf(queued, toServer'[conn])
    <3> DEFINE t == toServer[conn]
    <3>1. t \in Seq(Packet) /\ inHand \in Packet
      BY <1>1
    <3> HIDE DEF t
    <3>2. /\ Range(Append(t, inHand)) = Range(t) \union {inHand}
          /\ \A q : InOrderOf(q, t) /\ AllBefore(q, Range(t), {inHand})
                  => InOrderOf(q, Append(t, inHand))
      BY <3>1, AppendInOrder
    <3> QED
      BY <1>1, <2>1, <3>2 DEF t
  <2>3. InHand' = {}
    BY <1>2 DEF InHand
  <2>4. Drafts'
    BY <1>2 DEF LinkInv, Drafts
  <2>5. Outgoing'
    BY <1>2, <2>3 DEF LinkInv, Outgoing, AllBefore
  <2>6. \A c \in Connections :
          /\ Got(c)' = Got(c)
          /\ Sent(c)' = IF c = conn THEN Sent(c) \union InHand ELSE Sent(c)
    <3>1. ASSUME NEW c \in Connections
          PROVE  /\ Got(c)' = Got(c)
                 /\ Sent(c)' = Got(c) \union Range(toServer'[c])
      BY <1>2 DEF Got, Sent
    <3>2. ASSUME NEW c \in Connections
          PROVE  Range(toServer'[c]) =
                   IF c = conn THEN Range(toServer[c]) \union InHand ELSE Range(toServer[c])
      BY <2>1, <2>2
    <3> QED
      BY <3>1, <3>2 DEF Sent
  <2>7. Transit'
    <3>1. ASSUME NEW c \in Connections
          PROVE  /\ Sent(c)' \subseteq Range(queued')
                 /\ c > conn' => Sent(c)' = {}
                 /\ AllBefore(queued', Sent(c)', InHand' \union Range(outbox'))
                 /\ InOrderOf(queued', toServer'[c])
                 /\ AllBefore(queued', Got(c)', Range(toServer'[c]))
      <4>1. /\ Sent(c) \union InHand \subseteq Range(queued)
            /\ c > conn => Sent(c) = {}
            /\ AllBefore(queued, Sent(c), InHand) /\ AllBefore(queued, Sent(c), Range(outbox))
            /\ AllBefore(queued, InHand, Range(outbox))
            /\ InOrderOf(queued, toServer[c])
            /\ AllBefore(queued, Got(c), Range(toServer[c]))
        BY DEF LinkInv, Transit, Outgoing, AllBefore
      <4>2. Got(c) \subseteq Sent(c) /\ Range(toServer[c]) \subseteq Sent(c)
        BY DEF Sent
      <4>3. CASE c = conn
        <5>1. Sent(c)' = Sent(c) \union InHand
          BY <2>6, <4>3
        <5>2. AllBefore(queued, Sent(c) \union InHand, Range(outbox))
          BY <4>1 DEF AllBefore
        <5>3. InOrderOf(queued, toServer'[c])
          BY <2>2, <4>1, <4>2, <4>3 DEF AllBefore
        <5>4. AllBefore(queued, Got(c), Range(toServer'[c]))
          BY <2>2, <4>1, <4>2, <4>3 DEF AllBefore
        <5>5. Got(c)' = Got(c) /\ ~(c > conn) /\ InHand' \union Range(outbox') = Range(outbox)
          BY <1>1, <1>2, <2>3, <2>6, <4>3 DEF Connections
        <5> QED
          BY <1>2, <4>1, <5>1, <5>2, <5>3, <5>4, <5>5
      <4>4. CASE c # conn
        <5>1. Sent(c)' = Sent(c) /\ Got(c)' = Got(c) /\ toServer'[c] = toServer[c]
              /\ InHand' \union Range(outbox') = Range(outbox)
          BY <1>2, <2>1, <2>3, <2>6, <4>4
        <5> QED
          BY <1>2, <4>1, <5>1
      <4> QED
        BY <4>3, <4>4
    <3>2. ASSUME NEW c \in Connections, NEW d \in Connections, c < d
          PROVE  AllBefore(queued', Sent(c)', Sent(d)')
      <4>1. AllBefore(queued, Sent(c), Sent(d)) /\ AllBefore(queued, Sent(c), InHand)
        BY <3>2 DEF LinkInv, Transit, AllBefore
      <4>2. c = conn => Sent(d)' = {}
        BY <1>1, <2>6, <3>2 DEF LinkInv, Transit, Connections
      <4>3. c # conn => Sent(c)' = Sent(c)
        BY <2>6
      <4>4. Sent(d)' \subseteq Sent(d) \union InHand
        BY <2>6
      <4> QED
        BY <1>2, <4>1, <4>2, <4>3, <4>4 DEF AllBefore
    <3>3. \A i, j \in DOMAIN received' : i < j /\ received'[i][2] = received'[j][2] =>
            Before(queued', received'[i][1], received'[j][1])
      BY <1>2 DEF LinkInv, Transit
    <3> QED
      BY <3>1, <3>2, <3>3 DEF Transit
  <2>8. Acks'
    BY <1>2, SameAcks
  <2>9. Awaited'
    <3>1. \A c \in Connections : Serving(c)' = Serving(c) /\ Acked(c)' = Acked(c)
      BY <1>2 DEF Serving, Acked
    <3>2. \A c \in Connections : Range(toServer'[c]) \subseteq pending
      BY <2>1, <2>2 DEF LinkInv, Awaited
    <3> QED
      BY <1>2, <2>3, <3>1, <3>2 DEF LinkInv, Awaited
  <2> QED
    BY <2>4, <2>5, <2>7, <2>8, <2>9 DEF LinkInv
<1> QED
  BY <1>3, <1>4

\* _read_loop: the packet acknowledged is nowhere else on the link.
LEMMA ReadAckStep ==
  ASSUME LinkInv, TypeInv', NEW c \in Connections, ReadAck(c)
  PROVE  LinkInv'
<1> USE DEF writerVars, serverVars
<1> DEFINE p == Head(toClient[c])
<1>1. /\ toClient[c] \in Seq(Packet) /\ toClient[c] # <<>>
      /\ toClient'[c] = Tail(toClient[c])
      /\ \A d \in Connections \ {c} : toClient'[d] = toClient[d]
      /\ pending' = pending \ {p}
  BY DEF ReadAck, LinkInv, TypeInv, TypeOK
<1>2. UNCHANGED <<nextSeq, draft, outbox, inHand, conn, toServer, serving, queued, received>>
  BY DEF ReadAck
<1>3. /\ Acked(c) = {p} \union Range(Tail(toClient[c]))
      /\ \A q : InOrderOf(q, toClient[c])
           => InOrderOf(q, Tail(toClient[c])) /\ AllBefore(q, {p}, Range(Tail(toClient[c])))
  BY <1>1, TakeFirst DEF Acked
<1> HIDE DEF p
<1>4. /\ Acked(c)' = Range(Tail(toClient[c]))
      /\ \A d \in Connections \ {c} : Acked(d)' = Acked(d)
      /\ \A d \in Connections : Serving(d)' = Serving(d) /\ Got(d)' = Got(d)
      /\ InHand' = InHand
  BY <1>1, <1>2 DEF Acked, Serving, Got, InHand
<1>5. p \in Acked(c) /\ p \in Got(c) /\ p \in Sent(c) /\ p \in Range(queued)
  BY <1>3 DEF LinkInv, Acks, Sent, Transit
<1>6. ~Before(queued, p, p)
  BY <1>5, BeforeIrreflexive DEF LinkInv, TypeInv, TypeOK
<1>7. Drafts'
  BY <1>2 DEF LinkInv, Drafts
<1>8. Outgoing'
  BY <1>2, <1>4 DEF LinkInv, Outgoing
<1>9. Transit'
  BY <1>2, <1>4, SameTransit
<1>10. Acks'
  <2>1. ASSUME NEW d \in Connections
        PROVE  /\ Acked(d)' \union Serving(d)' \subseteq Got(d)'
               /\ InOrderOf(queued', toClient'[d])
               /\ AllBefore(queued', Acked(d)', Serving(d)')
    <3>1. CASE d = c
      BY <1>1, <1>2, <1>3, <1>4, <3>1 DEF LinkInv, Acks, AllBefore
    <3>2. CASE d # c
      BY <1>1, <1>2, <1>4, <3>2 DEF LinkInv, Acks
    <3> QED
      BY <3>1, <3>2
  <2> QED
    BY <2>1 DEF Acks
<1>11. Awaited'
  <2>1. \A s \in Senders : draft[s] # Nothing => draft[s] # p
    BY <1>5 DEF LinkInv, Drafts
  <2>2. p \notin InHand \union Range(outbox)
    BY <1>5, <1>6 DEF LinkInv, Transit, AllBefore
  <2>3. ASSUME NEW d \in Connections
        PROVE  p \notin Range(toServer[d]) \union Serving(d)' \union Acked(d)'
    <3>1. CASE d = c
      <4>1. p \notin Range(toServer[c])
        BY <1>5, <1>6 DEF LinkInv, Transit, AllBefore
      <4>2. p \notin Serving(c)
        BY <1>5, <1>6 DEF LinkInv, Acks, AllBefore
      <4>3. p \notin Range(Tail(toClient[c]))
        BY <1>3, <1>6 DEF LinkInv, Acks, AllBefore
      <4> QED
        BY <1>4, <3>1, <4>1, <4>2, <4>3
    <3>2. CASE d # c
      <4>1. AllBefore(queued, Sent(c), Sent(d)) \/ AllBefore(queued, Sent(d), Sent(c))
        BY <3>2 DEF LinkInv, Transit, Connections
      <4>2. p \notin Sent(d)
        BY <1>5, <1>6, <4>1 DEF AllBefore
      <4>3. Range(toServer[d]) \union Serving(d) \union Acked(d) \subseteq Sent(d)
        BY DEF LinkInv, Acks, Sent
      <4> QED
        BY <1>4, <3>2, <4>2, <4>3
    <3> QED
      BY <3>1, <3>2
  <2>4. \A d \in Connections :
          Range(toServer[d]) \union Serving(d)' \union Acked(d)' \subseteq pending
    BY <1>3, <1>4 DEF LinkInv, Awaited
  <2>5. \A s \in Senders : draft'[s] # Nothing => draft'[s] \in pending'
    BY <1>1, <1>2, <2>1 DEF LinkInv, Awaited
  <2>6. Range(outbox') \union InHand' \subseteq pending'
    BY <1>1, <1>2, <1>4, <2>2 DEF LinkInv, Awaited
  <2>7. ASSUME NEW d \in Connections
        PROVE  Range(toServer'[d]) \union Serving(d)' \union Acked(d)' \subseteq pending'
    BY <1>1, <1>2, <2>3, <2>4
  <2> QED
    BY <2>5, <2>6, <2>7 DEF Awaited
<1> QED
  BY <1>7, <1>8, <1>9, <1>10, <1>11 DEF LinkInv

\* send_ack, or its failure: the packet served is the last that was acknowledged.
LEMMA SendAckStep ==
  ASSUME LinkInv, TypeInv', NEW c \in Connections, SendAck(c)
  PROVE  LinkInv'
<1> USE DEF clientVars, writerVars
<1>1. /\ toClient[c] \in Seq(Packet) /\ serving[c] \in Packet
      /\ Serving(c) = {serving[c]}
  BY DEF SendAck, LinkInv, TypeInv, TypeOK, Control, Serving
<1>2. /\ toClient'[c] \in {toClient[c], Append(toClient[c], serving[c])}
      /\ \A d \in Connections \ {c} : toClient'[d] = toClient[d] /\ serving'[d] = serving[d]
      /\ serving'[c] = Nothing
  BY DEF SendAck, AckReturns, AckRaises, LinkInv, TypeInv, TypeOK
<1>3. UNCHANGED <<nextSeq, pending, draft, outbox, inHand, conn, toServer, queued, received>>
  BY DEF SendAck
<1>4. /\ Range(toClient'[c]) \subseteq Acked(c) \union Serving(c)
      /\ InOrderOf(queued, toClient[c]) /\ AllBefore(queued, Acked(c), Serving(c))
           => InOrderOf(queued, toClient'[c])
  <2> DEFINE buffer == toClient[c]
             a == serving[c]
  <2>1. buffer \in Seq(Packet) /\ a \in Packet
    BY <1>1
  <2> HIDE DEF buffer, a
  <2>2. /\ Range(Append(buffer, a)) = Range(buffer) \union {a}
        /\ \A q : InOrderOf(q, buffer) /\ AllBefore(q, Range(buffer), {a})
                => InOrderOf(q, Append(buffer, a))
    BY <2>1, AppendInOrder
  <2>3. toClient'[c] = buffer \/ toClient'[c] = Append(buffer, a)
    BY <1>2 DEF buffer, a
  <2>4. Acked(c) = Range(buffer) /\ Serving(c) = {a} /\ toClient[c] = buffer
    BY <1>1 DEF Acked, buffer, a
  <2> QED
    BY <2>2, <2>3, <2>4
<1>5. /\ Acked(c)' \subseteq Acked(c) \union Serving(c) /\ Serving(c)' = {}
      /\ \A d \in Connections \ {c} : Acked(d)' = Acked(d) /\ Serving(d)' = Serving(d)
      /\ \A d \in Connections : Got(d)' = Got(d)
      /\ InHand' = InHand
  BY <1>2, <1>3, <1>4 DEF Acked, Serving, Got, InHand
<1>6. Drafts'
  BY <1>3 DEF LinkInv, Drafts
<1>7. Outgoing'
  BY <1>3, <1>5 DEF LinkInv, Outgoing
<1>8. Transit'
  BY <1>3, <1>5, SameTransit
<1>9. Acks'
  <2>1. ASSUME NEW d \in Connections
        PROVE  /\ Acked(d)' \union Serving(d)' \subseteq Got(d)'
               /\ InOrderOf(queued', toClient'[d])
               /\ AllBefore(queued', Acked(d)', Serving(d)')
    <3>1. CASE d = c
      BY <1>3, <1>4, <1>5, <3>1 DEF LinkInv, Acks, AllBefore
    <3>2. CASE d # c
      BY <1>2, <1>3, <1>5, <3>2 DEF LinkInv, Acks
    <3> QED
      BY <3>1, <3>2
  <2> QED
    BY <2>1 DEF Acks
<1>10. Awaited'
  <2>1. ASSUME NEW d \in Connections
        PROVE  Range(toServer'[d]) \union Serving(d)' \union Acked(d)' \subseteq pending'
    BY <1>3, <1>5 DEF LinkInv, Awaited
  <2> QED
    BY <1>3, <1>5, <2>1 DEF LinkInv, Awaited
<1> QED
  BY <1>6, <1>7, <1>8, <1>9, <1>10 DEF LinkInv

\* read_packet and the put on a queue of the server: the packet moves from what is on
\* its way to what was got.
LEMMA QueuePacketStep ==
  ASSUME LinkInv, TypeInv', NEW c \in Connections, QueuePacket(c)
  PROVE  LinkInv'
<1> USE DEF clientVars, writerVars
<1> DEFINE p == Head(toServer[c])
<1>1. /\ toServer[c] \in Seq(Packet) /\ toServer[c] # <<>> /\ p \in Packet /\ p # Nothing
      /\ serving[c] = Nothing
  BY NothingAssumption DEF QueuePacket, LinkInv, TypeInv, TypeOK, Control
<1>2. /\ toServer'[c] = Tail(toServer[c]) /\ serving'[c] = p
      /\ \A d \in Connections \ {c} : toServer'[d] = toServer[d] /\ serving'[d] = serving[d]
      /\ received' = Append(received, <<p, c>>)
  BY DEF QueuePacket, LinkInv, TypeInv, TypeOK
<1>3. UNCHANGED <<nextSeq, pending, draft, outbox, inHand, conn, toClient, queued>>
  BY DEF QueuePacket
<1>4. /\ Range(toServer[c]) = {p} \union Range(toServer'[c])
      /\ InOrderOf(queued, toServer[c])
           => InOrderOf(queued, toServer'[c]) /\ AllBefore(queued, {p}, Range(toServer'[c]))
  <2>1. /\ Range(toServer[c]) = {p} \union Range(Tail(toServer[c]))
        /\ InOrderOf(queued, toServer[c]) =>
             /\ InOrderOf(queued, Tail(toServer[c]))
             /\ AllBefore(queued, {p}, Range(Tail(toServer[c])))
    BY <1>1, TakeFirst
  <2> QED
    BY <1>2, <2>1
<1> HIDE DEF p
<1>5. /\ DOMAIN received = 1 .. Len(received) /\ DOMAIN received' = 1 .. Len(received) + 1
      /\ Len(received) \in Nat
      /\ \A i \in DOMAIN received : received'[i] = received[i]
      /\ received'[Len(received) + 1] = <<p, c>>
  <2>1. received \in Seq(Packet \X Connections) /\ <<p, c>> \in Packet \X Connections
    BY <1>1 DEF LinkInv, TypeInv, TypeOK
  <2> QED
    BY <1>2, <2>1
<1>6. \A d \in Connections : Got(d)' = IF d = c THEN Got(d) \union {p} ELSE Got(d)
  <2>1. ASSUME NEW d \in Connections, NEW q \in Packet
        PROVE  (\E i \in DOMAIN received' : received'[i] = <<q, d>>)
                 <=> (\E i \in DOMAIN received : received[i] = <<q, d>>) \/ (q = p /\ d = c)
    <3>1. \A i \in DOMAIN received' : i \in DOMAIN received \/ i = Len(received) + 1
      BY <1>5
    <3>2. Len(received) + 1 \in DOMAIN received' /\ DOMAIN received \subseteq DOMAIN received'
      BY <1>5
    <3> QED
      BY <1>5, <3>1, <3>2
  <2> QED
    BY <1>1, <2>1 DEF Got
<1>7. \A d \in Connections : Sent(d)' = Sent(d)
  <2>1. ASSUME NEW d \in Connections
        PROVE  Sent(d)' = Got(d)' \union Range(toServer'[d])
    BY DEF Sent
  <2>2. ASSUME NEW d \in Connections
        PROVE  Sent(d)' = Sent(d)
    <3>1. CASE d = c
      BY <1>4, <1>6, <2>1, <3>1 DEF Sent
    <3>2. CASE d # c
      BY <1>2, <1>6, <2>1, <3>2 DEF Sent
    <3> QED
      BY <3>1, <3>2
  <2> QED
    BY <2>2
<1>8. /\ InHand' = InHand /\ Serving(c) = {} /\ Serving(c)' = {p}
      /\ \A d \in Connections \ {c} : Serving(d)' = Serving(d)
      /\ \A d \in Connections : Acked(d)' = Acked(d)
  BY <1>1, <1>2, <1>3 DEF InHand, Serving, Acked
<1>9. Drafts'
  BY <1>3 DEF LinkInv, Drafts
<1>10. Outgoing'
  BY <1>3, <1>8 DEF LinkInv, Outgoing
<1>11. Transit'
  <2>1. ASSUME NEW d \in Connections
        PROVE  /\ Sent(d)' \subseteq Range(queued')
               /\ d > conn' => Sent(d)' = {}
               /\ AllBefore(queued', Sent(d)', InHand' \union Range(outbox'))
               /\ InOrderOf(queued', toServer'[d])
               /\ AllBefore(queued', Got(d)', Range(toServer'[d]))
    <3>1. /\ Sent(d) \subseteq Range(queued)
          /\ d > conn => Sent(d) = {}
          /\ AllBefore(queued, Sent(d), InHand \union Range(outbox))
          /\ InOrderOf(queued, toServer[d])
          /\ AllBefore(queued, Got(d), Range(toServer[d]))
      BY DEF LinkInv, Transit
    <3>2. InOrderOf(queued, toServer'[d]) /\ AllBefore(queued, Got(d)', Range(toServer'[d]))
      <4>1. CASE d = c
        BY <1>4, <1>6, <3>1, <4>1 DEF AllBefore
      <4>2. CASE d # c
        BY <1>2, <1>6, <3>1, <4>2
      <4> QED
        BY <4>1, <4>2
    <3> QED
      BY <1>3, <1>7, <1>8, <3>1, <3>2
  <2>2. ASSUME NEW d \in Connections, NEW e \in Connections, d < e
        PROVE  AllBefore(queued', Sent(d)', Sent(e)')
    BY <1>3, <1>7, <2>2 DEF LinkInv, Transit
  <2>3. ASSUME NEW i \in DOMAIN received', NEW j \in DOMAIN received', i < j,
               received'[i][2] = received'[j][2]
        PROVE  Before(queued', received'[i][1], received'[j][1])
    <3>1. i \in DOMAIN received /\ received'[i] = received[i]
      BY <1>5, <2>3
    <3>2. CASE j \in DOMAIN received
      BY <1>3, <1>5, <2>3, <3>1, <3>2 DEF LinkInv, Transit
    <3>3. CASE j = Len(received) + 1
      <4>1. received'[j][1] = p /\ received[i][2] = c
        BY <1>5, <2>3, <3>1, <3>3
      <4>2. received[i][1] \in Got(c)
        BY <3>1, <4>1, ReceivedFields DEF LinkInv, TypeInv
      <4>3. p \in Range(toServer[c])
        BY <1>4
      <4> QED
        BY <1>3, <3>1, <4>1, <4>2, <4>3 DEF LinkInv, Transit, AllBefore
    <3> QED
      BY <1>5, <3>2, <3>3
  <2> QED
    BY <2>1, <2>2, <2>3 DEF Transit
<1>12. Acks'
  <2>1. ASSUME NEW d \in Connections
        PROVE  /\ Acked(d)' \union Serving(d)' \subseteq Got(d)'
               /\ InOrderOf(queued', toClient'[d])
               /\ AllBefore(queued', Acked(d)', Serving(d)')
    <3>1. Acked(d) \union Serving(d) \subseteq Got(d) /\ InOrderOf(queued, toClient[d])
          /\ AllBefore(queued, Acked(d), Serving(d))
      BY DEF LinkInv, Acks
    <3>2. CASE d = c
      <4>1. AllBefore(queued, Acked(c), {p})
        BY <1>4, <3>1, <3>2 DEF LinkInv, Transit, AllBefore
      <4> QED
        BY <1>3, <1>6, <1>8, <3>1, <3>2, <4>1
    <3>3. CASE d # c
      BY <1>3, <1>6, <1>8, <3>1, <3>3
    <3> QED
      BY <3>2, <3>3
  <2> QED
    BY <2>1 DEF Acks
<1>13. Awaited'
  <2>1. ASSUME NEW d \in Connections
        PROVE  Range(toServer'[d]) \union Serving(d)' \union Acked(d)' \subseteq pending'
    <3>1. Range(toServer[d]) \union Serving(d) \union Acked(d) \subseteq pending
      BY DEF LinkInv, Awaited
    <3>2. CASE d = c
      BY <1>3, <1>4, <1>8, <3>1, <3>2
    <3>3. CASE d # c
      BY <1>2, <1>3, <1>8, <3>1, <3>3
    <3> QED
      BY <3>2, <3>3
  <2> QED
    BY <1>3, <1>8, <2>1 DEF LinkInv, Awaited
<1> QED
  BY <1>9, <1>10, <1>11, <1>12, <1>13 DEF LinkInv

--------------------------------------------------------------------------------
(* The theorems.                                                           *)

LEMMA LinkInit == Init => LinkInv
<1> SUFFICES ASSUME Init PROVE LinkInv
  OBVIOUS
<1>1. /\ Range(outbox) = {} /\ InHand = {} /\ Range(queued) = {}
      /\ DOMAIN queued = {} /\ DOMAIN outbox = {} /\ DOMAIN received = {}
  BY DEF Init, InHand, Range
<1>2. \A c \in Connections :
        /\ Range(toServer[c]) = {} /\ Got(c) = {} /\ Sent(c) = {}
        /\ Acked(c) = {} /\ Serving(c) = {}
        /\ DOMAIN toServer[c] = {} /\ DOMAIN toClient[c] = {}
  BY DEF Init, Range, Got, Sent, Acked, Serving
<1>3. Drafts
  BY <1>1 DEF Init, Drafts, Once
<1>4. Outgoing
  BY <1>1 DEF Outgoing, InOrderOf, AllBefore
<1>5. Transit
  BY <1>1, <1>2 DEF Transit, InOrderOf, AllBefore
<1>6. Acks
  BY <1>2 DEF Acks, InOrderOf, AllBefore
<1>7. Awaited
  BY <1>1, <1>2 DEF Init, Awaited
<1> QED
  BY <1>3, <1>4, <1>5, <1>6, <1>7, TypeInit DEF LinkInv

\* Every step keeps the places and the order of the packets.
LEMMA LinkStep ==
  ASSUME LinkInv, [Next]_vars
  PROVE  LinkInv'
<1>1. TypeInv'
  BY TypeStep DEF LinkInv
<1>2. CASE UNCHANGED vars
  <2>1. conn \in Nat
    BY DEF LinkInv, TypeInv, TypeOK
  <2>2. Losing
    BY <1>2, <2>1, UncutLoses DEF Losing, vars, clientVars, writerVars, netVars, serverVars
  <2> QED
    BY <1>1, <2>2, LosingStep
<1>3. ASSUME NEW s \in Senders, Register(s) \/ Put(s)
      PROVE  LinkInv'
  BY <1>1, <1>3, RegisterStep, PutStep
<1>4. CASE Take \/ SendReturns
  BY <1>1, <1>4, TakeStep, SendReturnsStep
<1>5. ASSUME NEW c \in Connections, ReadAck(c) \/ QueuePacket(c) \/ SendAck(c)
      PROVE  LinkInv'
  BY <1>1, <1>5, ReadAckStep, QueuePacketStep, SendAckStep
<1>6. CASE \/ Connect \/ SendFails \/ LeaveLoop \/ CloseSession \/ Stop
           \/ \E c \in Connections :
                ReaderEnds(c) \/ Accept(c) \/ HandlerEnds(c) \/ Break(c)
  BY <1>1, <1>6, LosingSteps, LosingStep DEF LinkInv
<1> QED
  BY <1>2, <1>3, <1>4, <1>5, <1>6 DEF Next, Sending

\* An acknowledgement on its way to the client is for a packet the server has queued
\* and the client still waits for (health_monitor.py:249-265, 354-355): no other copy of
\* the packet is left that could have been acknowledged before.
THEOREM AcknowledgementsMatch == Spec => []AcksMatch
<1>1. LinkInv => AcksMatch
  <2> SUFFICES ASSUME LinkInv, NEW c \in Connections, NEW i \in DOMAIN toClient[c]
               PROVE  /\ toClient[c][i] \in pending
                      /\ \E j \in DOMAIN received : received[j][1] = toClient[c][i]
    BY DEF AcksMatch
  <2>1. toClient[c][i] \in Acked(c)
    BY DEF Acked, Range
  <2>2. toClient[c][i] \in pending /\ toClient[c][i] \in Got(c)
    BY <2>1 DEF LinkInv, Awaited, Acks
  <2> QED
    BY <2>2 DEF Got
<1>2. LinkInv /\ [Next]_vars => LinkInv'
  BY LinkStep
<1> QED
  BY <1>1, <1>2, LinkInit, PTL DEF Spec

\* The server handles packets in the order they were put in the outbox, except that a
\* packet of an older connection may be handled after packets of a newer one
\* (runtime.py:113-115, 163-190).
THEOREM HandledInOrderTheorem == Spec => []HandledInOrder
<1>1. LinkInv => HandledInOrder
  <2> SUFFICES ASSUME LinkInv, NEW i \in DOMAIN received, NEW j \in DOMAIN received,
                      i < j, QueuedAt(received[i][1]) > QueuedAt(received[j][1])
               PROVE  received[i][2] > received[j][2]
    BY DEF HandledInOrder
  <2> DEFINE x == received[i][1]
             y == received[j][1]
             c == received[i][2]
             d == received[j][2]
  <2>1. /\ x \in Got(c) /\ y \in Got(d) /\ c \in Connections /\ d \in Connections
    BY ReceivedFields DEF LinkInv, TypeInv
  <2>2. x \in Sent(c) /\ y \in Sent(d) /\ x \in Range(queued) /\ y \in Range(queued)
    BY <2>1 DEF LinkInv, Sent, Transit
  <2>3. \A p \in Range(queued) : QueuedAt(p) \in DOMAIN queued /\ queued[QueuedAt(p)] = p
    BY DEF QueuedAt, Range
  <2>4. DOMAIN queued \subseteq Nat
    <3>1. queued \in Seq(Packet)
      BY DEF LinkInv, TypeInv, TypeOK
    <3> QED
      BY <3>1
  <2>5. ~Before(queued, x, y)
    <3> DEFINE i1 == QueuedAt(x)
               j1 == QueuedAt(y)
    <3>1. i1 \in DOMAIN queued /\ queued[i1] = x
      BY <2>2, <2>3
    <3>2. j1 \in DOMAIN queued /\ queued[j1] = y
      BY <2>2, <2>3
    <3>3. i1 > j1
      OBVIOUS
    <3> HIDE DEF i1, j1, x, y
    <3> QED
      BY <2>4, <3>1, <3>2, <3>3 DEF Before
  <2>6. c # d
    BY <2>5 DEF LinkInv, Transit
  <2>7. ~(c < d)
    BY <2>1, <2>2, <2>5 DEF LinkInv, Transit, AllBefore
  <2> QED
    BY <2>1, <2>6, <2>7 DEF Connections
<1>2. LinkInv /\ [Next]_vars => LinkInv'
  BY LinkStep
<1> QED
  BY <1>1, <1>2, LinkInit, PTL DEF Spec

\* The server queues each packet at most once: a reconnect loses packets but never
\* repeats one, since the outbox is not filled again (runtime.py:163-190).
HandledOnce ==
  \A i, j \in DOMAIN received : received[i][1] = received[j][1] => i = j

THEOREM NothingHandledTwice == Spec => []HandledOnce
<1>1. LinkInv => HandledOnce
  <2> SUFFICES ASSUME LinkInv, NEW i \in DOMAIN received, NEW j \in DOMAIN received,
                      i < j, received[i][1] = received[j][1]
               PROVE  FALSE
    <3>1. DOMAIN received \subseteq Nat
      BY DEF LinkInv, TypeInv, TypeOK
    <3> QED
      BY <3>1 DEF HandledOnce
  <2> DEFINE x == received[i][1]
             c == received[i][2]
             d == received[j][2]
  <2>1. /\ x \in Got(c) /\ x \in Got(d) /\ c \in Connections /\ d \in Connections
    BY ReceivedFields DEF LinkInv, TypeInv
  <2>2. x \in Sent(c) /\ x \in Sent(d) /\ x \in Range(queued)
    BY <2>1 DEF LinkInv, Sent, Transit
  <2>3. ~Before(queued, x, x)
    BY <2>2, BeforeIrreflexive DEF LinkInv, TypeInv, TypeOK
  <2>4. c # d
    BY <2>3 DEF LinkInv, Transit
  <2>5. ~(c < d) /\ ~(d < c)
    BY <2>1, <2>2, <2>3 DEF LinkInv, Transit, AllBefore
  <2> QED
    BY <2>1, <2>4, <2>5 DEF Connections
<1>2. LinkInv /\ [Next]_vars => LinkInv'
  BY LinkStep
<1> QED
  BY <1>1, <1>2, LinkInit, PTL DEF Spec

================================================================================
