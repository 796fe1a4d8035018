------------------------------ MODULE Runtime_proofs ------------------------------
(***************************************************************************)
(* Theorems about RuntimeController and RuntimeStatus for any cameras,     *)
(* slow services, readers, streams and bounds.                             *)
(*                                                                         *)
(* The controller: with one caller, a service runs exactly when the        *)
(* controller says so, on sockets that are open, unless an exception in    *)
(* the closing of the camera has left a stop or a clean-up half way.       *)
(* This rests on what the steps a call has left say of each service: what  *)
(* has not been stopped yet is still to be stopped, and what is not        *)
(* running yet is still to be started.  That the camera is closed with its *)
(* threads is proved for any callers: a part that is held is still to be   *)
(* closed by a thread or a call, or the driver failed to close it or one   *)
(* above it.                                                               *)
(*                                                                         *)
(* The status: one beside which no control call runs finds one state at    *)
(* each of its reads, so that what it has noted stays true until it        *)
(* reports; this holds for any callers.  With one caller, a status beside  *)
(* which at most one control call runs has asked the loop that serves when *)
(* it reports ready and RUNNING, or the call is a stop that has begun      *)
(* meanwhile.                                                              *)
(***************************************************************************)
EXTENDS RuntimeStatus, SequenceTheorems, FiniteSetTheorems, TLAPS

TheCaller == CHOOSE c \in Callers : TRUE
OneCaller == Callers = {TheCaller}

Services == Threaded \union Socketed

--------------------------------------------------------------------------------
(* The steps a call has left.                                              *)

StartOps == {"test", "clear", "open", "create", "spawn"}
StopOps == {"halt", "tell", "join", "release", "free", "forget", "close", "drop"}

\* The steps that close the camera.
CameraOps == {"release", "free", "forget"}

\* The service a step is about.
Service(s) == IF s[1] \in CameraOps THEN "source" ELSE s[2]

\* Of the steps that a test or a halt is replaced by, which come first.
Rank(op) ==
  CASE op \in {"clear", "tell", "join"} -> 1
    [] op \in {"open", "create"} \union CameraOps -> 2
    [] op \in {"spawn", "close", "drop"} -> 3
    [] OTHER -> 0

\* Step a may stand before step b.  The steps of a service stand in their order, the
\* last step of a call sets the state, and the loop starts after and stops before the
\* publisher.
Earlier(a, b) ==
  /\ a[1] = "set" => a[2] = "STARTING"
  /\ Service(a) = Service(b) => 0 < Rank(a[1]) /\ Rank(a[1]) < Rank(b[1])
  /\ Service(a) = "loop" /\ Service(b) = "publisher" => a[1] \notin StartOps
  /\ Service(a) = "publisher" /\ Service(b) = "loop" => a[1] \notin StopOps

Sorted(t) == \A i, j \in DOMAIN t : i < j => Earlier(t[i], t[j])

\* Among the steps of t one does op to x.
Has(t, op, x) == \E s \in Range(t) : s[1] = op /\ s[2] = x

Starting(t) == Has(t, "set", "RUNNING")
Stopping(t) == Has(t, "set", "STOPPED") \/ Has(t, "set", "ERROR")
Only(t, ops, states) ==
  \A s \in Range(t) : s[1] \in ops \/ (s[1] = "set" /\ s[2] \in states)

\* The services an operation is for.
Fits(s) ==
  /\ s[1] = "clear" => s[2] \in Restartable
  /\ s[1] \in {"create", "tell", "drop"} => s[2] \in Fresh
  /\ s[1] \in {"open", "close"} => s[2] \in Socketed
  /\ s[1] \in {"spawn", "halt", "join"} => s[2] \in Threaded

left == todo[TheCaller]

\* A call that is under way starts the services or stops them.
Script ==
  /\ Sorted(left)
  /\ \A s \in Range(left) : Fits(s)
  /\ left # <<>> => Starting(left) \/ Stopping(left)
  /\ Starting(left) => Only(left, StartOps, {"STARTING", "RUNNING"})
  /\ Stopping(left) => Only(left, StopOps, {"STOPPED", "ERROR"})

Down == (left = <<>> /\ state # "RUNNING") \/ Stopping(left)
Up == (left = <<>> /\ state = "RUNNING") \/ Starting(left)

--------------------------------------------------------------------------------
(* The inductive invariant.                                                *)

\* Threads are numbered, each call makes at most one of a service, and of the threads
\* that are alive all but the newest were given up and told to stop.
Counted(x) ==
  /\ count[x] <= calls /\ ref[x] <= count[x]
  /\ alive[x] \subseteq 1 .. count[x]
  /\ alive[x] \subseteq outlived[x] \union {ref[x]}
  /\ Starting(left) /\ (Has(left, "test", x) \/ Has(left, "create", x))
       => count[x] < calls
OneThread(x) ==
  /\ alive[x] \subseteq {ref[x]}
  /\ Starting(left) /\ Has(left, "spawn", x) => count[x] < calls
OldTold(x) ==
  /\ event[x] \subseteq 1 .. count[x]
  /\ alive[x] \ {ref[x]} \subseteq event[x]
Threads ==
  /\ \A x \in Threaded : Counted(x)
  /\ \A x \in Restartable : OneThread(x)
  /\ \A x \in Fresh : OldTold(x)

\* While the services are stopped, and after that unless an exception left it half way:
\* what is still there is still to be stopped, and a thread whose join is over has ended or
\* was given up.
Stops ==
  Down /\ (left = <<>> => ~aborted) =>
    /\ \A x \in Socketed :
         \/ socket[x] = "none" \/ Has(left, "close", x)
         \/ x \in Restartable /\ Has(left, "halt", x)
    /\ \A x \in Fresh : ref[x] = 0 \/ Has(left, "halt", x) \/ Has(left, "drop", x)
    /\ \A x \in Fresh : Has(left, "tell", x) => ref[x] # 0
    /\ \A x \in Threaded :
         \/ alive[x] \subseteq Told(x)
         \/ Has(left, "halt", x) \/ Has(left, "tell", x)
    /\ \A x \in Threaded :
         \/ alive[x] \subseteq outlived[x]
         \/ Has(left, "halt", x) \/ Has(left, "tell", x) \/ Has(left, "join", x)
    /\ \A s \in Range(left) : s[1] = "join" => s[3] = ref[s[2]]

\* The service runs as RunningServes wants it.
Serves(x) ==
  \/ /\ ref[x] \in alive[x] \ Told(x)
     /\ x \in Socketed => socket[x] = "bound"
  \/ ref[x] \in outlived[x]
  \/ x = "source" /\ ref[x] \in crashed

Launching(x) ==
  Has(left, "clear", x) \/ Has(left, "open", x) \/ Has(left, "create", x)
    \/ Has(left, "spawn", x)

\* While the services are started, and after that: what is not running yet is as a stop
\* left it, unless an exception left that half way, and still to be started.
StartsPublisher ==
  ~aborted =>
    /\ Has(left, "test", "publisher") => socket["publisher"] = "none"
    /\ \/ socket["publisher"] = "bound"
       \/ Has(left, "test", "publisher") \/ Has(left, "open", "publisher")
    /\ Has(left, "test", "publisher") \/ Has(left, "open", "publisher")
         => alive["loop"] \subseteq outlived["loop"]
StartsAgain(x) ==
  /\ Has(left, "test", x) /\ ~aborted => alive[x] \subseteq outlived[x]
  /\ Has(left, "clear", x) => Has(left, "open", x)
  /\ Has(left, "open", x) => Has(left, "spawn", x)
  /\ Has(left, "spawn", x) =>
       /\ alive[x] = {}
       /\ Has(left, "clear", x) \/ event[x] = {}
       /\ Has(left, "open", x) \/ socket[x] = "bound"
StartsNew(x) ==
  /\ Has(left, "test", x) /\ ~aborted => ref[x] = 0
  /\ Has(left, "create", x) => ref[x] = 0
  /\ Has(left, "create", x) => Has(left, "spawn", x)
  /\ Has(left, "spawn", x) =>
       Has(left, "create", x) \/ (ref[x] # 0 /\ ref[x] \notin event[x])
StartsOrServes(x) == Has(left, "test", x) \/ Launching(x) \/ Serves(x) \/ aborted
Starts ==
  Up =>
    /\ StartsPublisher
    /\ \A x \in Restartable : StartsAgain(x)
    /\ \A x \in Fresh : StartsNew(x)
    /\ \A x \in Threaded : StartsOrServes(x)

\* The parts before the k-th.
Opened(k) == {Parts[j] : j \in {n \in DOMAIN Parts : n < k}}

\* The source's thread holds the parts its phase says, unless it was given up and the
\* stop closed some; it closes the camera for a reason.
CameraInv ==
  /\ \A i \in Ids \ alive["source"] : phase[i] = <<"open", 1>>
  /\ camera = "scada_zmq" => \A i \in Ids : phase[i] = <<"open", 1>>
  /\ \A i \in alive["source"] :
       /\ phase[i][1] \in {"close", "free", "forget"} =>
            i \in Told("source") \/ i \in outlived["source"] \/ i \in crashed
       /\ i \notin outlived["source"] =>
            /\ phase[i][1] = "open" => Opened(phase[i][2]) \subseteq held
            /\ phase[i][1] = "read" => Range(Parts) \subseteq held

\* No thread uses a closed socket.
SocketsInv == UsesOpenSockets

ControllerInv == TypeOK /\ Script /\ Threads /\ Stops /\ Starts /\ CameraInv /\ SocketsInv

--------------------------------------------------------------------------------
(* Sequences of steps.                                                     *)

LEMMA SequenceFacts ==
  ASSUME NEW S, NEW t \in Seq(S), t # <<>>
  PROVE  /\ Range(t) = {Head(t)} \union Range(Tail(t))
         /\ Head(t) \in S /\ Tail(t) \in Seq(S)
         /\ DOMAIN t = 1 .. Len(t) /\ Len(t) \in Nat \ {0} /\ Head(t) = t[1]
         /\ DOMAIN Tail(t) = 1 .. Len(t) - 1
         /\ \A i \in DOMAIN Tail(t) : i + 1 \in DOMAIN t /\ Tail(t)[i] = t[i + 1]
<1> DEFINE u == Tail(t)
<1>1. /\ Head(t) \in S /\ u \in Seq(S) /\ Head(t) = t[1]
      /\ DOMAIN t = 1 .. Len(t) /\ Len(t) \in Nat \ {0} /\ DOMAIN u = 1 .. Len(t) - 1
      /\ \A i \in 1 .. Len(t) - 1 : u[i] = t[i + 1]
  OBVIOUS
<1> HIDE DEF u
<1>2. \A i \in DOMAIN u : i + 1 \in DOMAIN t /\ u[i] = t[i + 1]
  BY <1>1
<1>3. ASSUME NEW i \in DOMAIN t
      PROVE  t[i] \in {Head(t)} \union Range(u)
  <2>1. i = 1 \/ (i - 1 \in DOMAIN u /\ u[i - 1] = t[i])
    BY <1>1
  <2> QED
    BY <2>1, <1>1 DEF Range
<1>4. 1 \in DOMAIN t
  BY <1>1
<1>5. Range(t) = {Head(t)} \union Range(u)
  BY <1>1, <1>2, <1>3, <1>4 DEF Range
<1> QED
  BY <1>1, <1>2, <1>5 DEF u

LEMMA JoinedFacts ==
  ASSUME NEW S, NEW s \in Seq(S), NEW u \in Seq(S)
  PROVE  /\ s \o u \in Seq(S)
         /\ Range(s \o u) = Range(s) \union Range(u)
         /\ \A i, j \in DOMAIN (s \o u) : i < j =>
              \/ i \in DOMAIN s /\ j \in DOMAIN s /\ (s \o u)[i] = s[i] /\ (s \o u)[j] = s[j]
              \/ (s \o u)[i] \in Range(s) /\ (s \o u)[j] \in Range(u)
              \/ \E k, l \in DOMAIN u : k < l /\ (s \o u)[i] = u[k] /\ (s \o u)[j] = u[l]
<1> DEFINE t == s \o u
<1>1. /\ t \in Seq(S) /\ DOMAIN t = 1 .. Len(s) + Len(u)
      /\ Len(s) \in Nat /\ Len(u) \in Nat
      /\ DOMAIN s = 1 .. Len(s) /\ DOMAIN u = 1 .. Len(u)
      /\ \A i \in 1 .. Len(s) + Len(u) : t[i] = IF i <= Len(s) THEN s[i] ELSE u[i - Len(s)]
  BY ConcatProperties
<1> HIDE DEF t
<1>2. \A i \in DOMAIN t :
        \/ i \in DOMAIN s /\ t[i] = s[i]
        \/ i - Len(s) \in DOMAIN u /\ t[i] = u[i - Len(s)] /\ i > Len(s)
  BY <1>1
<1>3. /\ \A i \in DOMAIN s : i \in DOMAIN t /\ t[i] = s[i]
      /\ \A i \in DOMAIN u : i + Len(s) \in DOMAIN t /\ t[i + Len(s)] = u[i]
  BY <1>1
<1>4. Range(t) = Range(s) \union Range(u)
  BY <1>2, <1>3 DEF Range
<1>5. ASSUME NEW i \in DOMAIN t, NEW j \in DOMAIN t, i < j
      PROVE  \/ i \in DOMAIN s /\ j \in DOMAIN s /\ t[i] = s[i] /\ t[j] = s[j]
             \/ t[i] \in Range(s) /\ t[j] \in Range(u)
             \/ \E k, l \in DOMAIN u : k < l /\ t[i] = u[k] /\ t[j] = u[l]
  <2>1. CASE i \in DOMAIN s /\ t[i] = s[i]
    BY <1>2, <2>1 DEF Range
  <2>2. CASE i - Len(s) \in DOMAIN u /\ t[i] = u[i - Len(s)] /\ i > Len(s)
    <3>1. j - Len(s) \in DOMAIN u /\ t[j] = u[j - Len(s)]
      BY <1>1, <1>2, <1>5, <2>2
    <3>2. i - Len(s) < j - Len(s)
      BY <1>1, <1>5
    <3> QED
      BY <2>2, <3>1, <3>2
  <2> QED
    BY <1>2, <2>1, <2>2
<1> QED
  BY <1>1, <1>4, <1>5 DEF t

\* The first step is done: the others stay in order, and it is not among them.
LEMMA FirstDone ==
  ASSUME NEW S, NEW t \in Seq(S), t # <<>>, Sorted(t)
  PROVE  /\ Sorted(Tail(t))
         /\ \A s \in Range(Tail(t)) : Earlier(Head(t), s)
         /\ \A op, x :
              (Has(Tail(t), op, x)
                 <=> Has(t, op, x) /\ ~(op = Head(t)[1] /\ x = Head(t)[2]))
<1> DEFINE h == Head(t)
           u == Tail(t)
<1>1. /\ Range(t) = {h} \union Range(u) /\ h = t[1] /\ 1 \in DOMAIN t
      /\ \A i \in DOMAIN u : i + 1 \in DOMAIN t /\ 1 < i + 1 /\ u[i] = t[i + 1]
      /\ \A i, j \in DOMAIN u : i < j => i + 1 < j + 1
  BY SequenceFacts
<1> HIDE DEF h, u
<1>2. Sorted(u)
  BY <1>1 DEF Sorted
<1>3. \A s \in Range(u) : Earlier(h, s)
  BY <1>1 DEF Sorted, Range
<1>4. ASSUME NEW s \in Range(u), s[1] = h[1], s[2] = h[2]
      PROVE  FALSE
  <2>1. Service(s) = Service(h) /\ Rank(s[1]) = Rank(h[1]) /\ Rank(h[1]) \in Nat
    BY <1>4 DEF Service, Rank, CameraOps
  <2> QED
    BY <1>3, <1>4, <2>1 DEF Earlier
<1>5. \A op, x :
        (Has(u, op, x) <=> Has(t, op, x) /\ ~(op = h[1] /\ x = h[2]))
  BY <1>1, <1>4 DEF Has
<1> QED
  BY <1>2, <1>3, <1>5 DEF h, u

\* The first step is replaced by steps s of the same service.
LEMMA FirstReplaced ==
  ASSUME NEW S, NEW t \in Seq(S), t # <<>>, Sorted(t),
         NEW s \in Seq(S), Sorted(s),
         \A a \in Range(s) :
           /\ Service(a) = Service(Head(t)) /\ a[1] # "set"
           /\ Rank(Head(t)[1]) = 0 \/ Rank(a[1]) = Rank(Head(t)[1])
           /\ \/ a[1] \in StartOps /\ Head(t)[1] \in StartOps
              \/ a[1] \in StopOps /\ Head(t)[1] \in StopOps
  PROVE  /\ s \o Tail(t) \in Seq(S)
         /\ Sorted(s \o Tail(t))
         /\ Range(s \o Tail(t)) = Range(s) \union Range(Tail(t))
<1> DEFINE h == Head(t)
           u == Tail(t)
<1>1. Sorted(u) /\ \A b \in Range(u) : Earlier(h, b)
  BY FirstDone
<1>2. u \in Seq(S)
  BY SequenceFacts
<1> HIDE DEF u
<1> DEFINE r == s \o u
<1>3. /\ r \in Seq(S) /\ Range(r) = Range(s) \union Range(u)
      /\ \A i, j \in DOMAIN r : i < j =>
              \/ i \in DOMAIN s /\ j \in DOMAIN s /\ r[i] = s[i] /\ r[j] = s[j]
              \/ r[i] \in Range(s) /\ r[j] \in Range(u)
              \/ \E k, l \in DOMAIN u : k < l /\ r[i] = u[k] /\ r[j] = u[l]
  <2>1. /\ s \o u \in Seq(S)
        /\ Range(s \o u) = Range(s) \union Range(u)
        /\ \A i, j \in DOMAIN (s \o u) : i < j =>
             \/ i \in DOMAIN s /\ j \in DOMAIN s /\ (s \o u)[i] = s[i] /\ (s \o u)[j] = s[j]
             \/ (s \o u)[i] \in Range(s) /\ (s \o u)[j] \in Range(u)
             \/ \E k, l \in DOMAIN u : k < l /\ (s \o u)[i] = u[k] /\ (s \o u)[j] = u[l]
    BY <1>2, JoinedFacts
  <2> QED
    BY <2>1
<1>4. ASSUME NEW a \in Range(s), NEW b \in Range(u)
      PROVE  Earlier(a, b)
  <2>1. Earlier(h, b) /\ Service(a) = Service(h) /\ a[1] # "set"
    BY <1>1
  <2>2. Service(a) = Service(b) => 0 < Rank(h[1]) /\ Rank(h[1]) < Rank(b[1])
    BY <2>1 DEF Earlier
  <2>3. Rank(h[1]) = 0 \/ Rank(a[1]) = Rank(h[1])
    OBVIOUS
  <2>4. Service(a) = Service(b) => 0 < Rank(a[1]) /\ Rank(a[1]) < Rank(b[1])
    BY <2>2, <2>3
  <2>5. \/ a[1] \in StartOps /\ h[1] \in StartOps
        \/ a[1] \in StopOps /\ h[1] \in StopOps
    OBVIOUS
  <2> HIDE DEF h, u
  <2>6. ~(StartOps \intersect StopOps # {})
    BY DEF StartOps, StopOps
  <2> QED
    BY <2>1, <2>4, <2>5, <2>6 DEF Earlier
<1> HIDE DEF h, u, r
<1>5. Sorted(r)
  BY <1>1, <1>3, <1>4 DEF Sorted
<1> QED
  BY <1>3, <1>5 DEF h, u, r

--------------------------------------------------------------------------------
(* The sequences of steps the controller builds.                           *)

LEMMA ServiceNames ==
  /\ Services = {"ingest", "publisher", "source", "loop", "heartbeat"}
  /\ Threaded = {"ingest", "source", "loop", "heartbeat"}
  /\ Socketed = {"ingest", "source", "publisher"}
BY DEF Services, Threaded, Socketed, Restartable, Fresh

\* A step of an operation on a service.
LEMMA OpStep ==
  ASSUME NEW op \in Ops, NEW x \in Services
  PROVE  <<op, x>> \in Step
BY DEF Step, Services

LEMMA StartFacts ==
  /\ StartSteps \in Seq(Step) /\ StartSteps # <<>>
  /\ Range(StartSteps) = {<<"set", "STARTING">>, <<"set", "RUNNING">>}
                           \union {<<"test", x>> : x \in Services}
  /\ Sorted(StartSteps)
<1> DEFINE t == StartSteps
<1>1. /\ DOMAIN t = 1 .. 7
      /\ t[1] = <<"set", "STARTING">> /\ t[2] = <<"test", "ingest">>
      /\ t[3] = <<"test", "publisher">> /\ t[4] = <<"test", "source">>
      /\ t[5] = <<"test", "loop">> /\ t[6] = <<"test", "heartbeat">>
      /\ t[7] = <<"set", "RUNNING">>
  BY DEF StartSteps
<1>2. /\ \A x \in Services : <<"test", x>> \in Step
      /\ <<"set", "STARTING">> \in Step /\ <<"set", "RUNNING">> \in Step
  BY OpStep DEF Step, Ops, States
<1>3. t \in Seq(Step) /\ t # <<>>
  BY <1>2, ServiceNames DEF StartSteps
<1> HIDE DEF t
<1>4. Range(t) = {<<"set", "STARTING">>, <<"set", "RUNNING">>}
                   \union {<<"test", x>> : x \in Services}
  <2>1. Range(t) = {t[1], t[2], t[3], t[4], t[5], t[6], t[7]}
    BY <1>1 DEF Range
  <2>2. {<<"test", x>> : x \in Services} =
          {<<"test", "ingest">>, <<"test", "publisher">>, <<"test", "source">>,
           <<"test", "loop">>, <<"test", "heartbeat">>}
    BY ServiceNames
  <2> QED
    BY <1>1, <2>1, <2>2
<1>5. Sorted(t)
  <2> SUFFICES ASSUME NEW i \in 1 .. 7, NEW j \in 1 .. 7, i < j
               PROVE  Earlier(t[i], t[j])
    BY <1>1 DEF Sorted
  <2>1. Service(t[i]) # Service(t[j])
    BY <1>1 DEF Service, CameraOps
  <2>2. t[i][1] = "set" => t[i][2] = "STARTING"
    BY <1>1
  <2>3. /\ Service(t[i]) = "loop" => Service(t[j]) # "publisher"
        /\ t[i][1] \notin StopOps
    BY <1>1 DEF Service, StopOps, CameraOps
  <2> QED
    BY <2>1, <2>2, <2>3 DEF Earlier
<1> QED
  BY <1>3, <1>4, <1>5 DEF t

\* Both ways to stop: every service is halted, the publisher closed.
StopRange(final) ==
  {<<"set", final>>, <<"close", "publisher">>} \union {<<"halt", x>> : x \in Threaded}

LEMMA StopFacts ==
  /\ StopSteps \in Seq(Step) /\ StopSteps # <<>>
  /\ Range(StopSteps) = StopRange("STOPPED")
  /\ Sorted(StopSteps)
<1> DEFINE t == StopSteps
<1>1. /\ DOMAIN t = 1 .. 6
      /\ t[1] = <<"halt", "loop">> /\ t[2] = <<"halt", "source">>
      /\ t[3] = <<"halt", "heartbeat">> /\ t[4] = <<"halt", "ingest">>
      /\ t[5] = <<"close", "publisher">> /\ t[6] = <<"set", "STOPPED">>
  BY DEF StopSteps
<1>2. /\ \A x \in Services : <<"halt", x>> \in Step /\ <<"close", x>> \in Step
      /\ <<"set", "STOPPED">> \in Step
  BY OpStep DEF Step, Ops, States
<1>3. t \in Seq(Step) /\ t # <<>>
  BY <1>2, ServiceNames DEF StopSteps
<1> HIDE DEF t
<1>4. Range(t) = StopRange("STOPPED")
  <2>1. Range(t) = {t[1], t[2], t[3], t[4], t[5], t[6]}
    BY <1>1 DEF Range
  <2>2. {<<"halt", x>> : x \in Threaded} =
          {<<"halt", "loop">>, <<"halt", "source">>, <<"halt", "heartbeat">>,
           <<"halt", "ingest">>}
    BY ServiceNames
  <2> QED
    BY <1>1, <2>1, <2>2 DEF StopRange
<1>5. Sorted(t)
  <2> SUFFICES ASSUME NEW i \in 1 .. 6, NEW j \in 1 .. 6, i < j
               PROVE  Earlier(t[i], t[j])
    BY <1>1 DEF Sorted
  <2>1. Service(t[i]) # Service(t[j])
    BY <1>1 DEF Service, CameraOps
  <2>2. t[i][1] # "set" /\ t[i][1] \notin StartOps
    BY <1>1 DEF StartOps
  <2>3. Service(t[i]) = "publisher" => Service(t[j]) # "loop"
    BY <1>1 DEF Service, CameraOps
  <2> QED
    BY <2>1, <2>2, <2>3 DEF Earlier
<1> QED
  BY <1>3, <1>4, <1>5 DEF t

LEMMA CleanUpFacts ==
  /\ CleanUpSteps \in Seq(Step) /\ CleanUpSteps # <<>>
  /\ Range(CleanUpSteps) = StopRange("ERROR")
  /\ Sorted(CleanUpSteps)
<1> DEFINE t == CleanUpSteps
<1>1. /\ DOMAIN t = 1 .. 6
      /\ t[1] = <<"halt", "loop">> /\ t[2] = <<"halt", "source">>
      /\ t[3] = <<"halt", "ingest">> /\ t[4] = <<"close", "publisher">>
      /\ t[5] = <<"halt", "heartbeat">> /\ t[6] = <<"set", "ERROR">>
  BY DEF CleanUpSteps
<1>2. /\ \A x \in Services : <<"halt", x>> \in Step /\ <<"close", x>> \in Step
      /\ <<"set", "ERROR">> \in Step
  BY OpStep DEF Step, Ops, States
<1>3. t \in Seq(Step) /\ t # <<>>
  BY <1>2, ServiceNames DEF CleanUpSteps
<1> HIDE DEF t
<1>4. Range(t) = StopRange("ERROR")
  <2>1. Range(t) = {t[1], t[2], t[3], t[4], t[5], t[6]}
    BY <1>1 DEF Range
  <2>2. {<<"halt", x>> : x \in Threaded} =
          {<<"halt", "loop">>, <<"halt", "source">>, <<"halt", "heartbeat">>,
           <<"halt", "ingest">>}
    BY ServiceNames
  <2> QED
    BY <1>1, <2>1, <2>2 DEF StopRange
<1>5. Sorted(t)
  <2> SUFFICES ASSUME NEW i \in 1 .. 6, NEW j \in 1 .. 6, i < j
               PROVE  Earlier(t[i], t[j])
    BY <1>1 DEF Sorted
  <2>1. Service(t[i]) # Service(t[j])
    BY <1>1 DEF Service, CameraOps
  <2>2. t[i][1] # "set" /\ t[i][1] \notin StartOps
    BY <1>1 DEF StartOps
  <2>3. Service(t[i]) = "publisher" => Service(t[j]) # "loop"
    BY <1>1 DEF Service, CameraOps
  <2> QED
    BY <2>1, <2>2, <2>3 DEF Earlier
<1> QED
  BY <1>3, <1>4, <1>5 DEF t

\* The steps a test is replaced by.
LEMMA LaunchFacts ==
  ASSUME NEW x \in Services
  PROVE  /\ Launch(x) \in Seq(Step) /\ Sorted(Launch(x))
         /\ Range(Launch(x)) =
              IF x \in Restartable THEN {<<"clear", x>>, <<"open", x>>, <<"spawn", x>>}
              ELSE IF x = "publisher" THEN {<<"open", x>>}
              ELSE {<<"create", x>>, <<"spawn", x>>}
<1>1. \A op \in Ops : <<op, x>> \in Step
  BY OpStep
<1>2. /\ Rank("clear") = 1 /\ Rank("open") = 2 /\ Rank("create") = 2
      /\ Rank("spawn") = 3
  BY DEF Rank, CameraOps
<1>3. \A a, b \in {<<"clear", x>>, <<"open", x>>, <<"create", x>>, <<"spawn", x>>} :
        Rank(a[1]) < Rank(b[1]) => Earlier(a, b)
  <2> SUFFICES ASSUME NEW o \in {"clear", "open", "create", "spawn"},
                      NEW q \in {"clear", "open", "create", "spawn"},
                      Rank(o) < Rank(q)
               PROVE  Earlier(<<o, x>>, <<q, x>>)
    OBVIOUS
  <2>1. Service(<<o, x>>) = x /\ Service(<<q, x>>) = x
    BY DEF Service, CameraOps
  <2>2. 0 < Rank(o)
    BY <1>2
  <2> QED
    BY <2>1, <2>2 DEF Earlier
<1>4. CASE x \in Restartable
  <2> DEFINE t == << <<"clear", x>>, <<"open", x>>, <<"spawn", x>> >>
  <2>1. Launch(x) = t
    BY <1>4 DEF Launch, Restartable, Fresh
  <2>2. /\ DOMAIN t = 1 .. 3 /\ t[1] = <<"clear", x>> /\ t[2] = <<"open", x>>
        /\ t[3] = <<"spawn", x>>
    OBVIOUS
  <2>3. t \in Seq(Step)
    BY <1>1 DEF Ops
  <2> HIDE DEF t
  <2>4. Range(t) = {t[1], t[2], t[3]}
    BY <2>2 DEF Range
  <2>5. ASSUME NEW i \in 1 .. 3, NEW j \in 1 .. 3, i < j
        PROVE  Earlier(t[i], t[j])
    <3>1. (i = 1 /\ j = 2) \/ (i = 1 /\ j = 3) \/ (i = 2 /\ j = 3)
      BY <2>5
    <3> QED
      BY <1>2, <1>3, <2>2, <3>1
  <2> QED
    BY <1>4, <2>1, <2>2, <2>3, <2>4, <2>5 DEF Sorted
<1>5. CASE x = "publisher"
  <2>1. Launch(x) = << <<"open", x>> >> /\ x \notin Restartable
    BY <1>5 DEF Launch, Restartable, Fresh
  <2> DEFINE t == << <<"open", x>> >>
  <2>2. DOMAIN t = 1 .. 1 /\ t[1] = <<"open", x>> /\ t \in Seq(Step)
    BY <1>1 DEF Ops
  <2> HIDE DEF t
  <2> QED
    BY <1>5, <2>1, <2>2 DEF Sorted, Range, t
<1>6. CASE x \in Fresh
  <2>1. Launch(x) = << <<"create", x>>, <<"spawn", x>> >> /\ x \notin Restartable
        /\ x # "publisher"
    BY <1>6 DEF Launch, Restartable, Fresh
  <2> DEFINE t == << <<"create", x>>, <<"spawn", x>> >>
  <2>2. /\ DOMAIN t = 1 .. 2 /\ t[1] = <<"create", x>> /\ t[2] = <<"spawn", x>>
        /\ t \in Seq(Step)
    BY <1>1 DEF Ops
  <2> HIDE DEF t
  <2>3. Range(t) = {t[1], t[2]}
    BY <2>2 DEF Range
  <2>4. Earlier(t[1], t[2])
    BY <1>2, <1>3, <2>2
  <2>5. \A i, j \in 1 .. 2 : i < j => i = 1 /\ j = 2
    OBVIOUS
  <2> QED
    BY <2>1, <2>2, <2>3, <2>4, <2>5 DEF Sorted, t
<1> QED
  BY <1>4, <1>5, <1>6, ServiceNames DEF Restartable, Fresh

\* The parts of each camera.
LEMMA PartsFacts ==
  ASSUME camera \in Cameras
  PROVE  /\ DOMAIN Parts = 1 .. Len(Parts) /\ Len(Parts) \in {0, 1, 4}
         /\ Len(Parts) = 0 <=> camera = "scada_zmq"
         /\ camera \in {"openni", "v4l2", "scada_zmq"}
<1>1. camera \in {"openni", "v4l2", "scada_zmq"}
  BY ControllerAssumption
<1>2. CASE camera = "openni"
  <2>1. Parts = <<"openni2", "device", "depth stream", "color stream">>
    BY <1>2 DEF Parts
  <2>2. \A a, b, c, d : Len(<<a, b, c, d>>) = 4 /\ DOMAIN <<a, b, c, d>> = 1 .. 4
    OBVIOUS
  <2>3. Len(Parts) = 4 /\ DOMAIN Parts = 1 .. 4
    BY <2>1, <2>2, Zenon
  <2> QED
    BY <1>2, <2>3
<1>3. CASE camera = "v4l2"
  <2>1. Parts = <<"capture">>
    BY <1>3 DEF Parts
  <2> QED
    BY <1>1, <1>3, <2>1
<1>4. CASE camera = "scada_zmq"
  <2>1. Parts = <<>>
    BY <1>4 DEF Parts
  <2> QED
    BY <1>1, <1>4, <2>1
<1> QED
  BY <1>1, <1>2, <1>3, <1>4

LEMMA NoSteps ==
  /\ Range(<<>>) = {} /\ Sorted(<<>>)
  /\ \A o, y : ~Has(<<>>, o, y)
  /\ ~Starting(<<>>) /\ ~Stopping(<<>>)
<1>1. Range(<<>>) = {} /\ Sorted(<<>>)
  BY DEF Range, Sorted
<1>2. \A o, y : ~Has(<<>>, o, y)
  BY <1>1 DEF Has
<1> QED
  BY <1>1, <1>2 DEF Starting, Stopping

\* The steps a halt is replaced by.
HaltSteps(x) == << <<"join", x, ref[x]>> >> \o Releases(x) \o << <<"close", x>> >>

LEMMA HaltFacts ==
  ASSUME camera \in Cameras, NEW x \in Restartable, ref[x] \in Ids \union {0}
  PROVE  /\ HaltSteps(x) \in Seq(Step) /\ Sorted(HaltSteps(x))
         /\ Range(HaltSteps(x)) =
              {<<"join", x, ref[x]>>, <<"close", x>>} \union Range(Releases(x))
         /\ \A a \in Range(Releases(x)) : x = "source" /\ a[1] = "release"
<1> DEFINE r == Releases(x)
           j == << <<"join", x, ref[x]>> >>
           e == << <<"close", x>> >>
<1>1. /\ j \in Seq(Step) /\ Range(j) = {<<"join", x, ref[x]>>}
      /\ DOMAIN j = 1 .. 1
  <2>1. <<"join", x, ref[x]>> \in Step
    BY DEF Step, Threaded
  <2> QED
    BY <2>1 DEF Range
<1>2. e \in Seq(Step) /\ Range(e) = {<<"close", x>>} /\ DOMAIN e = 1 .. 1
  <2>1. <<"close", x>> \in Step
    BY DEF Step, Threaded, Ops
  <2> QED
    BY <2>1 DEF Range
<1>3. /\ r \in Seq(Step) /\ \A a \in Range(r) : x = "source" /\ a[1] = "release"
      /\ \A k, l \in DOMAIN r : ~(k < l)
  <2>1. CASE x = "source" /\ Parts # <<>>
    <3> DEFINE n == Len(Parts)
               s == <<"release", n>>
    <3>1. n \in DOMAIN Parts
      BY <2>1, PartsFacts
    <3>2. s \in Step /\ s[1] = "release"
      BY <3>1 DEF Step
    <3>3. r = <<s>>
      BY <2>1 DEF Releases
    <3> HIDE DEF n, r, s
    <3>4. r \in Seq(Step) /\ DOMAIN r = {1} /\ r[1] = s
      BY <3>2, <3>3
    <3> QED
      BY <2>1, <3>2, <3>4 DEF Range
  <2>2. CASE ~(x = "source" /\ Parts # <<>>)
    <3>1. r = <<>>
      BY <2>2 DEF Releases
    <3> QED
      BY <3>1, NoSteps
  <2> QED
    BY <2>1, <2>2
<1> HIDE DEF r, j, e
<1> DEFINE u == j \o r
           t == u \o e
<1>4. /\ u \in Seq(Step) /\ Range(u) = Range(j) \union Range(r)
      /\ \A k, l \in DOMAIN u : k < l =>
           \/ k \in DOMAIN j /\ l \in DOMAIN j /\ u[k] = j[k] /\ u[l] = j[l]
           \/ u[k] \in Range(j) /\ u[l] \in Range(r)
           \/ \E m, n \in DOMAIN r : m < n /\ u[k] = r[m] /\ u[l] = r[n]
  <2>1. j \in Seq(Step) /\ r \in Seq(Step)
    BY <1>1, <1>3
  <2> QED
    BY <2>1, JoinedFacts
<1> HIDE DEF u
<1>5. /\ t \in Seq(Step) /\ Range(t) = Range(u) \union Range(e)
      /\ \A k, l \in DOMAIN t : k < l =>
           \/ k \in DOMAIN u /\ l \in DOMAIN u /\ t[k] = u[k] /\ t[l] = u[l]
           \/ t[k] \in Range(u) /\ t[l] \in Range(e)
           \/ \E m, n \in DOMAIN e : m < n /\ t[k] = e[m] /\ t[l] = e[n]
  <2>1. u \in Seq(Step) /\ e \in Seq(Step)
    BY <1>2, <1>4
  <2> QED
    BY <2>1, JoinedFacts
<1> HIDE DEF t
<1>6. \A a \in Range(j), b \in Range(r) : Earlier(a, b)
  <2> SUFFICES ASSUME NEW b \in Range(r) PROVE Earlier(<<"join", x, ref[x]>>, b)
    BY <1>1
  <2>1. /\ Rank("join") = 1 /\ Rank(b[1]) = 2
        /\ Service(<<"join", x, ref[x]>>) = x /\ Service(b) = "source"
        /\ x = "source"
    BY <1>3 DEF Rank, Service, CameraOps
  <2> QED
    BY <2>1 DEF Earlier
<1>8. \A a \in Range(u), b \in Range(e) : Earlier(a, b)
  <2> SUFFICES ASSUME NEW a \in Range(u) PROVE Earlier(a, <<"close", x>>)
    BY <1>2
  <2>1. Service(<<"close", x>>) = x /\ Rank("close") = 3 /\ x # "publisher" /\ x # "loop"
    BY DEF Service, Rank, Restartable, CameraOps
  <2>2. CASE a = <<"join", x, ref[x]>>
    <3>1. Service(a) = x /\ Rank(a[1]) = 1 /\ a[1] = "join"
      BY <2>2 DEF Service, Rank, CameraOps
    <3> QED
      BY <2>1, <3>1 DEF Earlier
  <2>3. CASE a \in Range(r)
    <3>1. Service(a) = x /\ Rank(a[1]) = 2 /\ a[1] = "release"
      BY <1>3, <2>3 DEF Service, Rank, CameraOps
    <3> QED
      BY <2>1, <3>1 DEF Earlier
  <2> QED
    BY <1>1, <1>4, <2>2, <2>3
<1>9. Sorted(u)
  <2>1. \A k, l \in 1 .. 1 : ~(k < l)
    OBVIOUS
  <2> QED
    BY <1>1, <1>3, <1>4, <1>6, <2>1 DEF Sorted, Range
<1>10. Sorted(t)
  <2>1. \A k, l \in 1 .. 1 : ~(k < l)
    OBVIOUS
  <2> QED
    BY <1>2, <1>5, <1>8, <1>9, <2>1 DEF Sorted
<1>11. HaltSteps(x) = t
  BY DEF HaltSteps, t, u, j, r, e
<1>12. Range(t) = {<<"join", x, ref[x]>>, <<"close", x>>} \union Range(r)
  BY <1>1, <1>2, <1>4, <1>5
<1>13. Range(r) = Range(Releases(x))
  BY DEF r
<1> QED
  BY <1>3, <1>5, <1>10, <1>11, <1>12, <1>13

--------------------------------------------------------------------------------
(* What a step does to the steps left.                                     *)

LEMMA CallerFacts ==
  ASSUME OneCaller, TypeOK
  PROVE  /\ TheCaller \in Callers /\ left \in Seq(Step)
         /\ Idle <=> left = <<>>
         /\ \A t : todo' = [todo EXCEPT ![TheCaller] = t] =>
              /\ left' = t
              /\ t \in Seq(Step) => todo' \in [Callers -> Seq(Step)]
BY DEF OneCaller, TypeOK, left, Idle

LEMMA SameStep ==
  ASSUME UNCHANGED camera
  PROVE  Step' = Step /\ Parts' = Parts
BY DEF Step, Parts

\* The first step left tells which call is under way and what else is left to do for
\* its service.
LEMMA HeadFacts ==
  ASSUME Script, left \in Seq(Step), left # <<>>,
         NEW op \in StartOps \union StopOps, NEW x,
         Head(left)[1] = op, Head(left)[2] = x
  PROVE  /\ Has(left, op, x)
         /\ op \in StartOps => Starting(left) /\ ~Stopping(left) /\ Up /\ ~Down
         /\ op \in StopOps => Stopping(left) /\ ~Starting(left) /\ Down /\ ~Up /\ left # <<>>
         /\ \A o : o \notin CameraOps /\ op \notin CameraOps /\ Has(left, o, x)
              => o = op \/ (0 < Rank(op) /\ Rank(op) < Rank(o))
         /\ \A o : op \in CameraOps /\ o \notin CameraOps /\ Has(left, o, "source")
              => 2 < Rank(o)
         /\ \A o : op \in StartOps /\ x = "loop" /\ o \notin CameraOps
              => ~Has(left, o, "publisher")
         /\ \A o : op \in StopOps /\ op \notin CameraOps /\ x = "publisher" /\ o \notin CameraOps
              => ~Has(left, o, "loop")
<1> DEFINE h == Head(left)
<1>1. h \in Range(left) /\ Range(left) = {h} \union Range(Tail(left))
  BY SequenceFacts
<1>2. \A b \in Range(Tail(left)) : Earlier(h, b)
  BY FirstDone DEF Script
<1>3. h[1] = op /\ h[2] = x
  OBVIOUS
<1> HIDE DEF h
<1>4. Has(left, op, x)
  BY <1>1, <1>3 DEF Has
<1>5. op # "set" /\ (op \in StartOps <=> op \notin StopOps) /\ CameraOps \intersect StartOps = {}
  BY DEF StartOps, StopOps, CameraOps
<1>6. Starting(left) => op \in StartOps /\ ~Stopping(left)
  <2>1. ASSUME Starting(left), NEW s \in Range(left)
        PROVE  s[1] \in StartOps \/ (s[1] = "set" /\ s[2] \in {"STARTING", "RUNNING"})
    BY <2>1 DEF Script, Only
  <2>2. Starting(left) => op \in StartOps
    BY <1>1, <1>3, <1>5, <2>1
  <2>3. "set" \notin StartOps
    BY DEF StartOps
  <2> QED
    BY <2>1, <2>2, <2>3 DEF Stopping, Has
<1>7. Stopping(left) => op \in StopOps
  <2>1. ASSUME Stopping(left), NEW s \in Range(left)
        PROVE  s[1] \in StopOps \/ s[1] = "set"
    BY <2>1 DEF Script, Only
  <2> QED
    BY <1>1, <1>3, <1>5, <2>1
<1>8. Starting(left) \/ Stopping(left)
  BY DEF Script
<1>9. ASSUME NEW o, o \notin CameraOps, op \notin CameraOps, Has(left, o, x)
      PROVE  o = op \/ (0 < Rank(op) /\ Rank(op) < Rank(o))
  <2>1. PICK b \in Range(left) : b[1] = o /\ b[2] = x
    BY <1>9 DEF Has
  <2>2. Service(b) = x /\ Service(h) = x
    BY <1>3, <1>9, <2>1 DEF Service, CameraOps
  <2> QED
    BY <1>1, <1>2, <1>3, <1>9, <2>1, <2>2 DEF Earlier
<1>10. ASSUME NEW o, op \in CameraOps, o \notin CameraOps, Has(left, o, "source")
       PROVE  2 < Rank(o)
  <2>1. PICK b \in Range(left) : b[1] = o /\ b[2] = "source"
    BY <1>10 DEF Has
  <2>2. Service(b) = "source" /\ Service(h) = "source" /\ Rank(op) = 2
    BY <1>3, <1>10, <2>1 DEF Service, Rank, CameraOps
  <2> QED
    BY <1>1, <1>2, <1>3, <1>10, <2>1, <2>2 DEF Earlier
<1>11. ASSUME NEW o, op \in StartOps, x = "loop", o \notin CameraOps, Has(left, o, "publisher")
       PROVE  FALSE
  <2>1. PICK b \in Range(left) : b[1] = o /\ b[2] = "publisher"
    BY <1>11 DEF Has
  <2>2. Service(b) = "publisher" /\ Service(h) = "loop"
    BY <1>3, <1>5, <1>11, <2>1 DEF Service, CameraOps
  <2> QED
    BY <1>1, <1>2, <1>3, <1>11, <2>1, <2>2 DEF Earlier
<1>12. ASSUME NEW o, op \in StopOps, op \notin CameraOps, x = "publisher", o \notin CameraOps,
              Has(left, o, "loop")
       PROVE  FALSE
  <2>1. PICK b \in Range(left) : b[1] = o /\ b[2] = "loop"
    BY <1>12 DEF Has
  <2>2. Service(b) = "loop" /\ Service(h) = "publisher"
    BY <1>3, <1>5, <1>12, <2>1 DEF Service, CameraOps
  <2> QED
    BY <1>1, <1>2, <1>3, <1>12, <2>1, <2>2 DEF Earlier
<1> QED
  BY <1>4, <1>5, <1>6, <1>7, <1>8, <1>9, <1>10, <1>11, <1>12 DEF Up, Down

\* The call that is under way goes on.
SameCall ==
  /\ Script' /\ left' # <<>>
  /\ Starting(left') <=> Starting(left)
  /\ Stopping(left') <=> Stopping(left)
  /\ Up' <=> Up
  /\ Down' <=> Down

\* The steps s take the place of the first one.
LEMMA ReplaceScript ==
  ASSUME Script, left \in Seq(Step), left # <<>>,
         NEW op \in StartOps \union StopOps, Head(left)[1] = op,
         NEW s \in Seq(Step), Sorted(s),
         \A a \in Range(s) :
           /\ Service(a) = Service(Head(left)) /\ a[1] # "set"
           /\ Rank(op) = 0 \/ Rank(a[1]) = Rank(op)
           /\ (a[1] \in StartOps /\ op \in StartOps) \/ (a[1] \in StopOps /\ op \in StopOps)
           /\ Fits(a),
         left' = s \o Tail(left)
  PROVE  /\ left' \in Seq(Step) /\ SameCall
         /\ Range(left') = Range(s) \union Range(Tail(left))
         /\ \A o, y :
              (Has(left', o, y)
                 <=> \/ Has(left, o, y) /\ ~(o = op /\ y = Head(left)[2])
                     \/ Has(s, o, y))
<1> DEFINE h == Head(left)
           u == Tail(left)
<1>1. /\ left' \in Seq(Step) /\ Sorted(left') /\ Range(left') = Range(s) \union Range(u)
  BY FirstReplaced DEF Script
<1>2. /\ Range(left) = {h} \union Range(u)
      /\ \A o, y :
           (Has(u, o, y) <=> Has(left, o, y) /\ ~(o = h[1] /\ y = h[2]))
  BY SequenceFacts, FirstDone DEF Script
<1>3. h[1] = op
  OBVIOUS
<1>4. \A a \in Range(s) :
        /\ a[1] # "set"
        /\ (a[1] \in StartOps /\ op \in StartOps) \/ (a[1] \in StopOps /\ op \in StopOps)
  OBVIOUS
<1> HIDE DEF h, u
<1>5. \A o, y : Has(left', o, y) <=> Has(u, o, y) \/ Has(s, o, y)
  BY <1>1 DEF Has
<1>6. op # "set" /\ op \notin StartOps \intersect StopOps
  BY DEF StartOps, StopOps
<1>7. \A y : Has(left', "set", y) <=> Has(left, "set", y)
  <2>1. \A y : ~Has(s, "set", y)
    BY <1>4 DEF Has
  <2> QED
    BY <1>2, <1>3, <1>5, <1>6, <2>1
<1>8. /\ Starting(left') <=> Starting(left)
      /\ Stopping(left') <=> Stopping(left)
  BY <1>7 DEF Starting, Stopping
<1>9. left' # <<>> /\ (Starting(left) \/ Stopping(left))
  <2>1. Starting(left') \/ Stopping(left')
    BY <1>8 DEF Script
  <2>2. Range(left') # {}
    BY <2>1 DEF Starting, Stopping, Has
  <2>3. Range(<<>>) = {}
    BY DEF Range
  <2> QED
    BY <1>8, <2>1, <2>2, <2>3
<1>10. Starting(left) => Only(left', StartOps, {"STARTING", "RUNNING"})
  <2>1. Starting(left) => Only(left, StartOps, {"STARTING", "RUNNING"})
    BY DEF Script
  <2>2. Starting(left) => op \in StartOps
    BY <1>2, <1>3, <1>6, <2>1 DEF Only
  <2> QED
    BY <1>1, <1>2, <1>4, <1>6, <2>1, <2>2 DEF Only
<1>11. Stopping(left) => Only(left', StopOps, {"STOPPED", "ERROR"})
  <2>1. Stopping(left) => Only(left, StopOps, {"STOPPED", "ERROR"})
    BY DEF Script
  <2>2. Stopping(left) => op \in StopOps
    BY <1>2, <1>3, <1>6, <2>1 DEF Only
  <2> QED
    BY <1>1, <1>2, <1>4, <1>6, <2>1, <2>2 DEF Only
<1>12. \A a \in Range(left') : Fits(a)
  BY <1>1, <1>2 DEF Script
<1>13. SameCall
  BY <1>1, <1>8, <1>9, <1>10, <1>11, <1>12 DEF SameCall, Script, Up, Down
<1>14. \A o, y :
         (Has(left', o, y) <=> \/ Has(left, o, y) /\ ~(o = op /\ y = h[2])
                               \/ Has(s, o, y))
  BY <1>2, <1>3, <1>5
<1> QED
  BY <1>1, <1>13, <1>14 DEF h, u

\* The first step is done.
LEMMA DoneScript ==
  ASSUME Script, left \in Seq(Step), left # <<>>,
         NEW op \in StartOps \union StopOps, Head(left)[1] = op,
         left' = Tail(left)
  PROVE  /\ left' \in Seq(Step) /\ SameCall
         /\ Range(left') \subseteq Range(left)
         /\ \A o, y :
              (Has(left', o, y) <=> Has(left, o, y) /\ ~(o = op /\ y = Head(left)[2]))
<1> DEFINE h == Head(left)
           u == Tail(left)
<1>1. u \in Seq(Step) /\ Range(left) = {h} \union Range(u) /\ Sorted(u)
  BY SequenceFacts, FirstDone DEF Script
<1>2. \A o, y :
           (Has(u, o, y) <=> Has(left, o, y) /\ ~(o = h[1] /\ y = h[2]))
  BY FirstDone DEF Script
<1>3. h[1] = op /\ left' = u
  OBVIOUS
<1> HIDE DEF h, u
<1>4. op # "set"
  BY DEF StartOps, StopOps
<1>5. /\ Starting(left') <=> Starting(left)
      /\ Stopping(left') <=> Stopping(left)
  BY <1>2, <1>3, <1>4 DEF Starting, Stopping
<1>6. left' # <<>> /\ (Starting(left) \/ Stopping(left))
  <2>1. Starting(left') \/ Stopping(left')
    BY <1>5 DEF Script
  <2>2. Range(left') # {}
    BY <2>1 DEF Starting, Stopping, Has
  <2>3. Range(<<>>) = {}
    BY DEF Range
  <2> QED
    BY <1>5, <2>1, <2>2, <2>3
<1>7. SameCall
  BY <1>1, <1>3, <1>5, <1>6 DEF SameCall, Script, Up, Down, Only
<1> QED
  BY <1>1, <1>2, <1>3, <1>7 DEF h

--------------------------------------------------------------------------------
(* Each action preserves the invariant.                                    *)

\* The step that a call does next, and what else it has left for the same service.
LEMMA AtFacts ==
  ASSUME OneCaller, ControllerInv, NEW c \in Callers, NEW step, At(c, step),
         NEW op \in StartOps \union StopOps, step[1] = op, NEW x, step[2] = x
  PROVE  /\ c = TheCaller /\ left # <<>> /\ Head(left) = step
         /\ step \in Range(left) /\ Fits(step) /\ left \in Seq(Step)
         /\ Has(left, op, x)
         /\ op \in StartOps => Starting(left) /\ ~Stopping(left) /\ Up /\ ~Down
         /\ op \in StopOps => Stopping(left) /\ ~Starting(left) /\ Down /\ ~Up /\ left # <<>>
         /\ \A o : o \notin CameraOps /\ op \notin CameraOps /\ Has(left, o, x)
              => o = op \/ (0 < Rank(op) /\ Rank(op) < Rank(o))
         /\ \A o : op \in CameraOps /\ o \notin CameraOps /\ Has(left, o, "source")
              => 2 < Rank(o)
         /\ \A o : op \in StartOps /\ x = "loop" /\ o \notin CameraOps
              => ~Has(left, o, "publisher")
         /\ \A o : op \in StopOps /\ op \notin CameraOps /\ x = "publisher"
                     /\ o \notin CameraOps
              => ~Has(left, o, "loop")
<1>1. c = TheCaller /\ left \in Seq(Step)
  BY CallerFacts DEF OneCaller, ControllerInv
<1>2. left # <<>> /\ Head(left) = step
  BY <1>1 DEF At, left
<1>3. step \in Range(left) /\ Script
  BY <1>1, <1>2, SequenceFacts DEF ControllerInv
<1>4. Fits(step)
  BY <1>3 DEF Script
<1> QED
  BY <1>1, <1>2, <1>3, <1>4, HeadFacts

LEMMA NotCamera ==
  {"test", "clear", "open", "create", "spawn", "halt", "tell", "join", "close", "drop"}
    \intersect CameraOps = {}
BY DEF CameraOps

\* A step that is done leaves the others.
LEMMA DoneFacts ==
  ASSUME OneCaller, ControllerInv, NEW c \in Callers, NEW step, At(c, step),
         NEW op \in StartOps \union StopOps, step[1] = op, NEW x, step[2] = x, Done(c)
  PROVE  /\ todo' \in [Callers -> Seq(Step)] /\ SameCall
         /\ Range(left') \subseteq Range(left)
         /\ \A o, y :
              (Has(left', o, y) <=> Has(left, o, y) /\ ~(o = op /\ y = x))
<1>1. /\ c = TheCaller /\ left # <<>> /\ Head(left) = step /\ left \in Seq(Step)
  BY AtFacts
<1>2. todo' = [todo EXCEPT ![TheCaller] = Tail(left)]
  BY <1>1 DEF Done, left
<1>3. left' = Tail(left) /\ Tail(left) \in Seq(Step)
  BY <1>1, <1>2, CallerFacts, SequenceFacts DEF ControllerInv
<1>4. todo' \in [Callers -> Seq(Step)]
  BY <1>2, <1>3, CallerFacts DEF ControllerInv
<1> QED
  BY <1>1, <1>3, <1>4, DoneScript DEF ControllerInv

\* The steps t take the place of the first one.
LEMMA ThenFacts ==
  ASSUME OneCaller, ControllerInv, NEW c \in Callers, NEW step, At(c, step),
         NEW op \in StartOps \union StopOps, step[1] = op, NEW x, step[2] = x,
         NEW t \in Seq(Step), Sorted(t), Then(c, t),
         \A a \in Range(t) :
           /\ Service(a) = Service(step) /\ a[1] # "set"
           /\ Rank(op) = 0 \/ Rank(a[1]) = Rank(op)
           /\ \/ a[1] \in StartOps /\ op \in StartOps
              \/ a[1] \in StopOps /\ op \in StopOps
           /\ Fits(a)
  PROVE  /\ todo' \in [Callers -> Seq(Step)] /\ SameCall
         /\ Range(left') \subseteq Range(t) \union Range(left)
         /\ \A o, y :
              (Has(left', o, y) <=> \/ Has(left, o, y) /\ ~(o = op /\ y = x)
                                    \/ Has(t, o, y))
<1>1. /\ c = TheCaller /\ left # <<>> /\ Head(left) = step /\ left \in Seq(Step)
  BY AtFacts
<1>2. todo' = [todo EXCEPT ![TheCaller] = t \o Tail(left)]
  BY <1>1 DEF Then, left
<1>3. Tail(left) \in Seq(Step) /\ Range(Tail(left)) \subseteq Range(left)
  BY <1>1, SequenceFacts
<1>4. left' = t \o Tail(left)
  BY <1>2, CallerFacts DEF ControllerInv
<1>5. /\ left' \in Seq(Step) /\ SameCall
      /\ Range(left') = Range(t) \union Range(Tail(left))
      /\ \A o, y :
              (Has(left', o, y) <=> \/ Has(left, o, y) /\ ~(o = op /\ y = x)
                                    \/ Has(t, o, y))
  <2>1. Script
    BY DEF ControllerInv
  <2> QED
    BY <1>1, <1>4, <2>1, ReplaceScript
<1>6. todo' \in [Callers -> Seq(Step)]
  BY <1>2, <1>4, <1>5, CallerFacts DEF ControllerInv
<1> QED
  BY <1>3, <1>5, <1>6

LEMMA ClearKeeps ==
  ASSUME OneCaller, ControllerInv, NEW c \in Callers, NEW x \in Services, Clear(c, x)
  PROVE  ControllerInv' /\ SameCall
<1>1. TypeOK /\ Script /\ Threads /\ Stops /\ Starts /\ CameraInv /\ SocketsInv
  BY DEF ControllerInv
<1>2. At(c, <<"clear", x>>) /\ Done(c)
  BY DEF Clear
<1>3. /\ x \in Restartable /\ Has(left, "clear", x) /\ Starting(left) /\ Up /\ ~Down
      /\ \A o : o \notin CameraOps /\ Has(left, o, x) => o = "clear" \/ Rank("clear") < Rank(o)
  <2>1. "clear" \in StartOps
    BY DEF StartOps
  <2>2. Fits(<<"clear", x>>)
    BY <1>2, <2>1, AtFacts
  <2> QED
    BY <1>2, <2>1, <2>2, AtFacts, NotCamera DEF Fits
<1>4. /\ todo' \in [Callers -> Seq(Step)] /\ SameCall
      /\ \A o, y :
              (Has(left', o, y) <=> Has(left, o, y) /\ ~(o = "clear" /\ y = x))
  BY <1>2, DoneFacts DEF StartOps
<1>5. /\ event' = [event EXCEPT ![x] = {}]
      /\ UNCHANGED <<state, reason, socket, ref, count, alive, camera, held, phase,
                     outlived, crashed, aborted, stuck, calls, failures>>
  BY DEF Clear, cameraVars, historyVars
<1>6. Step' = Step /\ Parts' = Parts
  BY <1>5, SameStep
<1>7. TypeOK'
  BY <1>1, <1>3, <1>4, <1>5, <1>6 DEF TypeOK, Threaded
<1>8. Threads'
  BY <1>1, <1>3, <1>4, <1>5 DEF Threads, Counted, OneThread, OldTold, SameCall, TypeOK, Threaded, Restartable, Fresh
<1>9. Stops'
  BY <1>3, <1>4 DEF Stops, SameCall
<1>10. Starts'
  BY <1>1, <1>3, <1>4, <1>5
     DEF Starts, StartsPublisher, StartsAgain, StartsNew, StartsOrServes, SameCall, TypeOK, Threaded, Launching, Serves, Told, Object, Rank, Fresh,
         Restartable, CameraOps
<1>11. CameraInv'
  <2>1. alive["source"] = {} \/ event'["source"] = event["source"]
    BY <1>1, <1>3, <1>5 DEF Starts, StartsPublisher, StartsAgain, StartsNew, StartsOrServes, TypeOK, Threaded
  <2> QED
    BY <1>1, <1>5, <1>6, <2>1 DEF CameraInv, Opened, Told, Object
<1>12. SocketsInv'
  BY <1>1, <1>5 DEF SocketsInv, UsesOpenSockets
<1> QED
  BY <1>4, <1>7, <1>8, <1>9, <1>10, <1>11, <1>12 DEF ControllerInv, SameCall

\* A call that is to stop everything has all of it to do yet.
LEMMA StopsAnew ==
  ASSUME NEW t \in Seq(Step), t # <<>>, Sorted(t), NEW final \in {"STOPPED", "ERROR"},
         Range(t) = StopRange(final), left' = t
  PROVE  Script' /\ Stops' /\ Starts' /\ ~Starting(left') /\ Down'
<1>1. /\ \A x \in Threaded : <<"halt", x>> \in Range(t)
      /\ <<"close", "publisher">> \in Range(t) /\ <<"set", final>> \in Range(t)
      /\ \A s \in Range(t) :
           \/ s = <<"set", final>> \/ s = <<"close", "publisher">>
           \/ \E x \in Threaded : s = <<"halt", x>>
  BY DEF StopRange
<1>2. /\ \A x \in Threaded : Has(t, "halt", x)
      /\ Has(t, "close", "publisher") /\ Has(t, "set", final)
  BY <1>1 DEF Has
<1>3. /\ \A s \in Range(t) : s[1] \in {"set", "halt", "close"}
      /\ \A s \in Range(t) : s[1] = "set" => s[2] = final
      /\ \A s \in Range(t) : Fits(s)
  BY <1>1 DEF Fits, Socketed
<1>4. Stopping(t) /\ ~Starting(t)
  <2>1. Stopping(t)
    BY <1>2 DEF Stopping
  <2>2. ~Starting(t)
    BY <1>3 DEF Starting, Has
  <2> QED
    BY <2>1, <2>2
<1>5. Only(t, StopOps, {"STOPPED", "ERROR"})
  BY <1>3 DEF Only, StopOps
<1>6. Script'
  BY <1>3, <1>4, <1>5 DEF Script
<1>7. Down' /\ ~Up'
  BY <1>4 DEF Down, Up
<1>8. \A x : ~Has(t, "tell", x) /\ \A s \in Range(t) : s[1] # "join"
  BY <1>3 DEF Has
<1>9. Stops'
  BY <1>2, <1>8, ServiceNames DEF Stops, Fresh, Restartable
<1>10. Starts'
  BY <1>7 DEF Starts, StartsPublisher, StartsAgain, StartsNew, StartsOrServes
<1> QED
  BY <1>4, <1>6, <1>7, <1>9, <1>10

\* An exception turns a start to its except branch.
LEMMA RaiseFacts ==
  ASSUME OneCaller, ControllerInv, Starting(left), NEW c \in Callers, Raise(c),
         UNCHANGED camera
  PROVE  /\ todo' \in [Callers -> Seq(Step)]
         /\ Script' /\ Stops' /\ Starts' /\ ~Starting(left') /\ Down'
<1>1. /\ c = TheCaller /\ left \in Seq(Step) /\ Script /\ TypeOK
  BY CallerFacts DEF OneCaller, ControllerInv
<1>2. PICK s \in Range(left) : s[1] = "set" /\ s[2] = "RUNNING"
  BY DEF Starting, Has
<1>3. PICK i \in DOMAIN left : s = left[i]
  BY DEF Range
<1> DEFINE n == Len(left)
<1>4. n \in Nat /\ DOMAIN left = 1 .. n /\ i \in 1 .. n /\ n \in DOMAIN left
  BY <1>1, <1>3
<1> HIDE DEF n
<1>5. i = n
  <2>1. ASSUME i < n PROVE FALSE
    <3>1. Earlier(left[i], left[n])
      BY <1>1, <1>3, <1>4, <2>1 DEF Script, Sorted
    <3> QED
      BY <1>2, <1>3, <3>1 DEF Earlier
  <2> QED
    BY <1>4, <2>1
<1>6. s = <<"set", "RUNNING">>
  <2>1. s \in Step
    BY <1>1, <1>3
  <2>2. s \notin Ops \X (Threaded \union Socketed)
    BY <1>2 DEF Ops
  <2>3. s \notin {"join"} \X Threaded \X (Ids \union {0})
    BY <1>2
  <2>4. s \notin {"release", "free", "forget"} \X DOMAIN Parts
    BY <1>2
  <2>5. s \in {"set"} \X States
    BY <2>1, <2>2, <2>3, <2>4 DEF Step
  <2> QED
    BY <1>2, <2>5
<1>7. Last(left) = <<"set", "RUNNING">>
  BY <1>3, <1>5, <1>6 DEF Last, n
<1>8. todo' = [todo EXCEPT ![TheCaller] = CleanUpSteps]
  BY <1>1, <1>7 DEF Raise, left
<1>9. left' = CleanUpSteps /\ todo' \in [Callers -> Seq(Step)]
  BY <1>1, <1>8, CallerFacts, CleanUpFacts
<1> QED
  BY <1>9, CleanUpFacts, StopsAnew

LEMMA BindKeeps ==
  ASSUME OneCaller, ControllerInv, NEW c \in Callers, NEW x \in Services, Bind(c, x)
  PROVE  ControllerInv' /\ SameCall
<1>1. TypeOK /\ Script /\ Threads /\ Stops /\ Starts /\ CameraInv /\ SocketsInv
  BY DEF ControllerInv
<1>2. At(c, <<"open", x>>) /\ Done(c) /\ "open" \in StartOps
  BY DEF Bind, StartOps
<1>3. /\ x \in Socketed /\ Has(left, "open", x) /\ Starting(left) /\ Up /\ ~Down
      /\ \A o : o \notin CameraOps /\ Has(left, o, x) => o = "open" \/ Rank("open") < Rank(o)
  <2>1. Fits(<<"open", x>>)
    BY <1>2, AtFacts
  <2> QED
    BY <1>2, <2>1, AtFacts, NotCamera DEF Fits
<1>4. /\ todo' \in [Callers -> Seq(Step)] /\ SameCall
      /\ \A o, y :
              (Has(left', o, y) <=> Has(left, o, y) /\ ~(o = "open" /\ y = x))
  BY <1>2, DoneFacts
<1>5. /\ socket' = [socket EXCEPT ![x] = "bound"]
      /\ UNCHANGED <<state, reason, ref, count, alive, event, camera, held, phase,
                     outlived, crashed, aborted, stuck, calls, failures>>
  BY DEF Bind, threadVars, cameraVars, historyVars
<1>6. Step' = Step /\ Parts' = Parts
  BY <1>5, SameStep
<1>7. TypeOK'
  BY <1>1, <1>3, <1>4, <1>5, <1>6 DEF TypeOK
<1>8. Threads'
  BY <1>1, <1>3, <1>4, <1>5 DEF Threads, Counted, OneThread, OldTold, SameCall
<1>9. Stops'
  BY <1>3, <1>4 DEF Stops, SameCall
<1>10. Starts'
  <2>1. ~Has(left, "test", x) /\ ~Has(left, "clear", x)
    BY <1>3 DEF Rank, CameraOps
  <2>2. StartsPublisher'
    <3>1. StartsPublisher
      BY <1>1, <1>3 DEF Starts
    <3>2. CASE x = "publisher"
      <4>1. socket'[x] = "bound"
        BY <1>1, <1>3, <1>5 DEF TypeOK
      <4>2. ~Has(left', "test", x) /\ ~Has(left', "open", x)
        BY <1>4, <2>1
      <4> QED
        BY <3>2, <4>1, <4>2 DEF StartsPublisher
    <3>3. CASE x # "publisher"
      <4>1. socket'["publisher"] = socket["publisher"]
        BY <1>1, <1>5, <3>3 DEF TypeOK, Socketed
      <4>2. /\ Has(left', "test", "publisher") <=> Has(left, "test", "publisher")
            /\ Has(left', "open", "publisher") <=> Has(left, "open", "publisher")
        BY <1>4, <3>3
      <4> QED
        BY <1>5, <3>1, <4>1, <4>2 DEF StartsPublisher
    <3> QED
      BY <3>2, <3>3
  <2>3. ASSUME NEW y \in Restartable PROVE StartsAgain(y)'
    BY <1>1, <1>3, <1>4, <1>5, <2>1 DEF Starts, StartsAgain, TypeOK, Restartable, Socketed
  <2>4. ASSUME NEW y \in Fresh PROVE StartsNew(y)'
    BY <1>1, <1>3, <1>4, <1>5 DEF Starts, StartsNew
  <2>5. ASSUME NEW y \in Threaded PROVE StartsOrServes(y)'
    <3>1. StartsOrServes(y)
      BY <1>1, <1>3 DEF Starts
    <3>2. Serves(y) => Serves(y)'
      BY <1>1, <1>3, <1>5 DEF Serves, Told, Object, TypeOK
    <3>3. Launching(y) => Launching(y)' \/ y = x
      BY <1>4 DEF Launching
    <3>4. y = x => Launching(y)'
      <4>1. y = x => x \in Restartable
        BY <1>3 DEF Socketed, Restartable, Fresh, Threaded
      <4>2. x \in Restartable => Has(left, "spawn", x)
        BY <1>1, <1>3 DEF Starts, StartsAgain
      <4> QED
        BY <1>4, <4>1, <4>2 DEF Launching
    <3>5. Has(left, "test", y) => Has(left', "test", y)
      BY <1>4
    <3> QED
      BY <1>5, <3>1, <3>2, <3>3, <3>4, <3>5 DEF StartsOrServes
  <2> QED
    BY <2>2, <2>3, <2>4, <2>5 DEF Starts
<1>11. CameraInv'
  BY <1>1, <1>5, <1>6 DEF CameraInv, Opened, Told, Object
<1>12. SocketsInv'
  BY <1>1, <1>5 DEF SocketsInv, UsesOpenSockets, TypeOK
<1> QED
  BY <1>4, <1>7, <1>8, <1>9, <1>10, <1>11, <1>12 DEF ControllerInv, SameCall

LEMMA BindRaisesKeeps ==
  ASSUME OneCaller, ControllerInv, NEW c \in Callers, NEW x \in Services, BindRaises(c, x)
  PROVE  ControllerInv' /\ Up /\ Down'
<1>1. TypeOK /\ Script /\ Threads /\ Stops /\ Starts /\ CameraInv /\ SocketsInv
  BY DEF ControllerInv
<1>2. At(c, <<"open", x>>) /\ Raise(c) /\ "open" \in StartOps
  BY DEF BindRaises, Unforeseen, StartOps
<1>3. /\ x \in Socketed /\ Has(left, "open", x) /\ Starting(left) /\ Up
  <2>1. Fits(<<"open", x>>)
    BY <1>2, AtFacts
  <2> QED
    BY <1>2, <2>1, AtFacts DEF Fits
<1>4. /\ socket' = [socket EXCEPT ![x] = "open"]
      /\ failures < MaxFailures /\ failures' = failures + 1
      /\ UNCHANGED <<state, reason, ref, count, alive, event, camera, held, phase,
                     outlived, crashed, aborted, stuck, calls>>
  BY DEF BindRaises, Unforeseen, threadVars, cameraVars, historyVars
<1>5. Step' = Step /\ Parts' = Parts
  BY <1>4, SameStep
<1>6. /\ todo' \in [Callers -> Seq(Step)]
      /\ Script' /\ Stops' /\ Starts' /\ ~Starting(left') /\ Down'
  BY <1>2, <1>3, <1>4, RaiseFacts
<1>7. TypeOK'
  BY <1>1, <1>3, <1>4, <1>5, <1>6, ControllerAssumption DEF TypeOK
<1>8. Threads'
  BY <1>1, <1>4, <1>6 DEF Threads, Counted, OneThread, OldTold
<1>9. CameraInv'
  BY <1>1, <1>4, <1>5 DEF CameraInv, Opened, Told, Object
<1>10. SocketsInv'
  <2>1. x \in Restartable => alive[x] = {}
    BY <1>1, <1>3 DEF Starts, StartsPublisher, StartsAgain, StartsNew, StartsOrServes
  <2>2. x = "publisher" => alive["loop"] \subseteq outlived["loop"] \/ aborted
    BY <1>1, <1>3 DEF Starts, StartsPublisher, StartsAgain, StartsNew, StartsOrServes
  <2> QED
    BY <1>1, <1>3, <1>4, <2>1, <2>2
       DEF SocketsInv, UsesOpenSockets, TypeOK, Socketed, Restartable
<1> QED
  BY <1>3, <1>6, <1>7, <1>8, <1>9, <1>10 DEF ControllerInv

LEMMA CreateRaisesKeeps ==
  ASSUME OneCaller, ControllerInv, NEW c \in Callers, CreateRaises(c)
  PROVE  ControllerInv' /\ Up /\ Down'
<1>1. TypeOK /\ Script /\ Threads /\ Stops /\ Starts /\ CameraInv /\ SocketsInv
  BY DEF ControllerInv
<1>2. At(c, <<"create", "loop">>) /\ Raise(c) /\ "create" \in StartOps
  BY DEF CreateRaises, Unforeseen, StartOps
<1>3. Starting(left) /\ Up
  BY <1>2, AtFacts
<1>4. /\ failures < MaxFailures /\ failures' = failures + 1
      /\ UNCHANGED <<state, reason, socket, ref, count, alive, event, camera, held, phase,
                     outlived, crashed, aborted, stuck, calls>>
  BY DEF CreateRaises, Unforeseen, threadVars, cameraVars, historyVars
<1>5. Step' = Step /\ Parts' = Parts
  BY <1>4, SameStep
<1>6. /\ todo' \in [Callers -> Seq(Step)]
      /\ Script' /\ Stops' /\ Starts' /\ ~Starting(left') /\ Down'
  BY <1>2, <1>3, <1>4, RaiseFacts
<1>7. TypeOK'
  BY <1>1, <1>4, <1>5, <1>6, ControllerAssumption DEF TypeOK
<1>8. Threads'
  BY <1>1, <1>4, <1>6 DEF Threads, Counted, OneThread, OldTold
<1>9. CameraInv'
  BY <1>1, <1>4, <1>5 DEF CameraInv, Opened, Told, Object
<1>10. SocketsInv'
  BY <1>1, <1>4 DEF SocketsInv, UsesOpenSockets
<1> QED
  BY <1>3, <1>6, <1>7, <1>8, <1>9, <1>10 DEF ControllerInv

LEMMA CreateKeeps ==
  ASSUME OneCaller, ControllerInv, NEW c \in Callers, NEW x \in Services, Create(c, x)
  PROVE  ControllerInv' /\ SameCall
<1>1. TypeOK /\ Script /\ Threads /\ Stops /\ Starts /\ CameraInv /\ SocketsInv
  BY DEF ControllerInv
<1>2. At(c, <<"create", x>>) /\ Done(c) /\ "create" \in StartOps
  BY DEF Create, StartOps
<1>3. /\ x \in Fresh /\ Has(left, "create", x) /\ Starting(left) /\ Up /\ ~Down
      /\ \A o : o \notin CameraOps /\ Has(left, o, x)
           => o = "create" \/ Rank("create") < Rank(o)
  <2>1. Fits(<<"create", x>>)
    BY <1>2, AtFacts
  <2> QED
    BY <1>2, <2>1, AtFacts, NotCamera DEF Fits
<1>4. /\ todo' \in [Callers -> Seq(Step)] /\ SameCall
      /\ \A o, y :
              (Has(left', o, y) <=> Has(left, o, y) /\ ~(o = "create" /\ y = x))
  BY <1>2, DoneFacts
<1>5. ~Has(left, "test", x)
  BY <1>3 DEF Rank, CameraOps
<1>6. /\ ref[x] = 0 /\ Has(left, "spawn", x)
      /\ count[x] \in Nat /\ count[x] < calls /\ calls \in Nat /\ calls <= MaxCalls
      /\ alive[x] \subseteq 1 .. count[x] /\ event[x] \subseteq 1 .. count[x]
  <2>1. count[x] \in Nat /\ calls \in Nat /\ calls <= MaxCalls
    BY <1>1, <1>3, ControllerAssumption DEF TypeOK, Threaded
  <2> QED
    BY <1>1, <1>3, <2>1 DEF Threads, Counted, OneThread, OldTold, Starts, StartsPublisher, StartsAgain, StartsNew, StartsOrServes, Threaded
<1>7. /\ count' = [count EXCEPT ![x] = count[x] + 1]
      /\ ref' = [ref EXCEPT ![x] = count[x] + 1]
      /\ UNCHANGED <<state, reason, socket, alive, event, camera, held, phase,
                     outlived, crashed, aborted, stuck, calls, failures>>
  BY DEF Create, New, cameraVars, historyVars
<1>8. Step' = Step /\ Parts' = Parts
  BY <1>7, SameStep
<1>9. TypeOK'
  BY <1>1, <1>3, <1>4, <1>6, <1>7, <1>8, ControllerAssumption DEF TypeOK, Threaded
<1>10. Threads'
  <2>1. ASSUME NEW y \in Threaded \ {x}
        PROVE  count'[y] = count[y] /\ ref'[y] = ref[y] /\ Counted(y)
    BY <1>1, <1>7 DEF TypeOK, Threads
  <2>2. count'[x] = count[x] + 1 /\ ref'[x] = count[x] + 1
    BY <1>1, <1>3, <1>7 DEF TypeOK, Threaded
  <2>3. ASSUME NEW y \in Threaded \ {x} PROVE Counted(y)'
    BY <1>4, <1>7, <2>1 DEF Counted, SameCall
  <2>4. Counted(x)'
    <3>1. ~Has(left', "test", x) /\ ~Has(left', "create", x)
      BY <1>4, <1>5
    <3>2. alive[x] \subseteq outlived[x] \union {0}
      BY <1>1, <1>3, <1>6 DEF Threads, Counted, Threaded
    <3>3. alive[x] \subseteq outlived[x] /\ alive[x] \subseteq 1 .. (count[x] + 1)
      BY <1>6, <3>2
    <3> QED
      BY <1>6, <1>7, <2>2, <3>1, <3>3 DEF Counted
  <2>5. ASSUME NEW y \in Restartable PROVE OneThread(y)'
    <3>1. y \in Threaded \ {x} /\ OneThread(y)
      BY <1>1, <1>3 DEF Restartable, Fresh, Threaded, Threads
    <3> QED
      BY <1>4, <1>7, <2>1, <3>1 DEF OneThread, SameCall
  <2>6. ASSUME NEW y \in Fresh \ {x} PROVE OldTold(y)'
    BY <1>1, <1>7, <2>1 DEF OldTold, Threads, Threaded
  <2>7. OldTold(x)'
    <3>1. OldTold(x) /\ alive[x] \subseteq event[x]
      BY <1>1, <1>3, <1>6 DEF Threads, OldTold
    <3> QED
      BY <1>6, <1>7, <2>2, <3>1 DEF OldTold
  <2> QED
    BY <2>3, <2>4, <2>5, <2>6, <2>7 DEF Threads
<1>11. Stops'
  BY <1>3, <1>4 DEF Stops, SameCall
<1>12. Starts'
  <2>1. /\ StartsPublisher'
        /\ \A y \in Restartable : StartsAgain(y)'
    BY <1>1, <1>3, <1>4, <1>7
       DEF Starts, StartsPublisher, StartsAgain, SameCall, Fresh, Restartable
  <2>2. ASSUME NEW y \in Fresh PROVE StartsNew(y)'
    <3>1. CASE y = x
      <4>1. ~Has(left', "test", x) /\ ~Has(left', "create", x)
        BY <1>4, <1>5
      <4>2. ref'[x] # 0 /\ ref'[x] \notin event'[x]
        BY <1>1, <1>3, <1>6, <1>7 DEF TypeOK, Threaded
      <4> QED
        BY <3>1, <4>1, <4>2 DEF StartsNew
    <3>2. CASE y # x
      <4>1. StartsNew(y) /\ ref'[y] = ref[y]
        BY <1>1, <1>3, <1>7, <3>2 DEF Starts, TypeOK, Threaded
      <4> QED
        BY <1>4, <1>7, <3>2, <4>1 DEF StartsNew
    <3> QED
      BY <3>1, <3>2
  <2>3. ASSUME NEW y \in Threaded PROVE StartsOrServes(y)'
    <3>1. StartsOrServes(y)
      BY <1>1, <1>3 DEF Starts
    <3>2. y # x /\ Serves(y) => Serves(y)'
      BY <1>1, <1>7 DEF Serves, Told, Object, TypeOK
    <3>3. Launching(y) => Launching(y)' \/ y = x
      BY <1>4 DEF Launching
    <3>4. Launching(x)'
      BY <1>4, <1>6 DEF Launching
    <3>5. Has(left, "test", y) => Has(left', "test", y)
      BY <1>4
    <3> QED
      BY <1>7, <3>1, <3>2, <3>3, <3>4, <3>5 DEF StartsOrServes
  <2> QED
    BY <2>1, <2>2, <2>3 DEF Starts
<1>13. CameraInv'
  BY <1>1, <1>7, <1>8 DEF CameraInv, Opened, Told, Object
<1>14. SocketsInv'
  BY <1>1, <1>7 DEF SocketsInv, UsesOpenSockets
<1> QED
  BY <1>4, <1>9, <1>10, <1>11, <1>12, <1>13, <1>14 DEF ControllerInv, SameCall

LEMMA RespawnKeeps ==
  ASSUME OneCaller, ControllerInv, NEW c \in Callers, NEW x \in Services, Respawn(c, x)
  PROVE  ControllerInv' /\ SameCall
<1>1. TypeOK /\ Script /\ Threads /\ Stops /\ Starts /\ CameraInv /\ SocketsInv
  BY DEF ControllerInv
<1>2. At(c, <<"spawn", x>>) /\ Done(c) /\ "spawn" \in StartOps /\ x \in Restartable
  BY DEF Respawn, StartOps
<1>3. /\ Has(left, "spawn", x) /\ Starting(left) /\ Up /\ ~Down
      /\ \A o : o \notin CameraOps /\ Has(left, o, x)
           => o = "spawn" \/ Rank("spawn") < Rank(o)
  BY <1>2, AtFacts, NotCamera
<1>4. /\ todo' \in [Callers -> Seq(Step)] /\ SameCall
      /\ \A o, y :
              (Has(left', o, y) <=> Has(left, o, y) /\ ~(o = "spawn" /\ y = x))
  BY <1>2, DoneFacts
<1>5. /\ ~Has(left, "test", x) /\ ~Has(left, "clear", x) /\ ~Has(left, "open", x)
      /\ ~Has(left, "create", x)
  BY <1>3 DEF Rank, CameraOps
<1> DEFINE n == count[x] + 1
<1>6. /\ alive[x] = {} /\ event[x] = {} /\ socket[x] = "bound"
      /\ count[x] \in Nat /\ count[x] < calls /\ calls \in Nat /\ calls <= MaxCalls
      /\ n \in Ids
  <2>1. count[x] \in Nat /\ calls \in Nat /\ calls <= MaxCalls
    BY <1>1, <1>2, ControllerAssumption DEF TypeOK, Threaded
  <2>2. alive[x] = {} /\ event[x] = {} /\ socket[x] = "bound" /\ count[x] < calls
    BY <1>1, <1>2, <1>3, <1>5 DEF Threads, Counted, OneThread, OldTold, Starts, StartsPublisher, StartsAgain, StartsNew, StartsOrServes
  <2> QED
    BY <2>1, <2>2, ControllerAssumption DEF Ids
<1>7. /\ count' = [count EXCEPT ![x] = n]
      /\ ref' = [ref EXCEPT ![x] = n]
      /\ alive' = [alive EXCEPT ![x] = {n}]
      /\ UNCHANGED <<state, reason, socket, event, camera, held, phase,
                     outlived, crashed, aborted, stuck, calls, failures>>
  BY <1>6 DEF Respawn, New, cameraVars, historyVars
<1>8. n = count[x] + 1
  OBVIOUS
<1> HIDE DEF n
<1>9. Step' = Step /\ Parts' = Parts
  BY <1>7, SameStep
<1>10. TypeOK'
  BY <1>1, <1>2, <1>4, <1>6, <1>7, <1>8, <1>9, ControllerAssumption DEF TypeOK, Threaded, Ids
<1>11. Threads'
  <2>1. ASSUME NEW y \in Threaded \ {x}
        PROVE  count'[y] = count[y] /\ ref'[y] = ref[y] /\ alive'[y] = alive[y] /\ Counted(y)
    BY <1>1, <1>7 DEF TypeOK, Threads
  <2>2. count'[x] = n /\ ref'[x] = n /\ alive'[x] = {n}
    BY <1>1, <1>2, <1>7 DEF TypeOK, Threaded
  <2>3. ASSUME NEW y \in Threaded \ {x} PROVE Counted(y)'
    BY <1>4, <1>7, <2>1 DEF Counted, SameCall
  <2>4. Counted(x)' /\ OneThread(x)'
    <3>1. ~Has(left', "test", x) /\ ~Has(left', "create", x) /\ ~Has(left', "spawn", x)
      BY <1>4, <1>5
    <3>2. n \in 1 .. n /\ n <= calls
      BY <1>6, <1>8
    <3> QED
      BY <1>7, <2>2, <3>1, <3>2 DEF Counted, OneThread
  <2>5. ASSUME NEW y \in Restartable \ {x} PROVE OneThread(y)'
    BY <1>1, <1>4, <1>7, <2>1 DEF OneThread, SameCall, Threads, Threaded
  <2>6. ASSUME NEW y \in Fresh PROVE OldTold(y)'
    <3>1. y \in Threaded \ {x} /\ OldTold(y)
      BY <1>1, <1>2 DEF Restartable, Fresh, Threaded, Threads
    <3> QED
      BY <1>7, <2>1, <3>1 DEF OldTold
  <2> QED
    BY <2>3, <2>4, <2>5, <2>6 DEF Threads
<1>12. Stops'
  BY <1>3, <1>4 DEF Stops, SameCall
<1>13. Starts'
  <2>1. Serves(x)'
    BY <1>1, <1>2, <1>6, <1>7 DEF Serves, Told, Object, TypeOK, Threaded
  <2>2. \A y \in Threaded \ {x} : Serves(y) => Serves(y)'
    BY <1>1, <1>2, <1>7 DEF Serves, Told, Object, TypeOK, Threaded
  <2> QED
    BY <1>1, <1>2, <1>3, <1>4, <1>5, <1>6, <1>7, <2>1, <2>2
       DEF Starts, StartsPublisher, StartsAgain, StartsNew, StartsOrServes, SameCall, TypeOK, Threaded, Launching, Fresh, Restartable
<1>14. CameraInv'
  <2>1. CASE x # "source"
    <3>1. alive'["source"] = alive["source"] /\ Told("source")' = Told("source")
      BY <1>1, <1>2, <1>7, <2>1 DEF TypeOK, Threaded, Told, Object
    <3> QED
      BY <1>1, <1>7, <1>9, <3>1 DEF CameraInv, Opened
  <2>2. CASE x = "source"
    <3>1. alive'["source"] = {n} /\ \A i \in Ids : phase[i] = <<"open", 1>>
      BY <1>1, <1>2, <1>6, <1>7, <2>2 DEF TypeOK, Threaded, CameraInv
    <3>2. Opened(1) = {}
      BY <1>1, PartsFacts DEF Opened, TypeOK
    <3> QED
      BY <1>1, <1>6, <1>7, <1>9, <3>1, <3>2 DEF CameraInv, Opened
  <2> QED
    BY <2>1, <2>2
<1>15. SocketsInv'
  BY <1>1, <1>2, <1>6, <1>7 DEF SocketsInv, UsesOpenSockets, Restartable, TypeOK, Threaded
<1> QED
  BY <1>4, <1>10, <1>11, <1>12, <1>13, <1>14, <1>15 DEF ControllerInv, SameCall

LEMMA SpawnKeeps ==
  ASSUME OneCaller, ControllerInv, NEW c \in Callers, NEW x \in Services, Spawn(c, x)
  PROVE  ControllerInv' /\ SameCall
<1>1. TypeOK /\ Script /\ Threads /\ Stops /\ Starts /\ CameraInv /\ SocketsInv
  BY DEF ControllerInv
<1>2. At(c, <<"spawn", x>>) /\ "spawn" \in StartOps /\ x \in Fresh
  BY DEF Spawn, StartOps
<1>3. /\ Has(left, "spawn", x) /\ Starting(left) /\ Up /\ ~Down
      /\ \A o : o \notin CameraOps /\ Has(left, o, x)
           => o = "spawn" \/ Rank("spawn") < Rank(o)
      /\ x = "loop" => ~Has(left, "test", "publisher") /\ ~Has(left, "open", "publisher")
  BY <1>2, AtFacts, NotCamera
<1>4. /\ ~Has(left, "test", x) /\ ~Has(left, "create", x)
  BY <1>3 DEF Rank, CameraOps
<1>5. /\ ref[x] # 0 /\ ref[x] \notin event[x] /\ ref[x] \in Ids
      /\ ref[x] <= count[x] /\ count[x] \in Nat
  <2>1. ref[x] # 0 /\ ref[x] \notin event[x] /\ ref[x] <= count[x]
    BY <1>1, <1>2, <1>3, <1>4 DEF Starts, StartsPublisher, StartsAgain, StartsNew, StartsOrServes, Threads, Counted, OneThread, OldTold, Threaded
  <2> QED
    BY <1>1, <1>2, <2>1, ControllerAssumption DEF TypeOK, Threaded, Ids
<1>6. Done(c)
  BY <1>5 DEF Spawn
<1>7. /\ todo' \in [Callers -> Seq(Step)] /\ SameCall
      /\ \A o, y :
              (Has(left', o, y) <=> Has(left, o, y) /\ ~(o = "spawn" /\ y = x))
  BY <1>2, <1>6, DoneFacts
<1>8. /\ alive' = [alive EXCEPT ![x] = @ \union {ref[x]}]
      /\ event' = event
      /\ UNCHANGED <<state, reason, socket, ref, count, camera, held, phase,
                     outlived, crashed, aborted, stuck, calls, failures>>
  <2>1. event' = event
    BY <1>1, <1>2, <1>5 DEF Spawn, TypeOK, Threaded
  <2>2. {ref[x]} \ {0} = {ref[x]}
    BY <1>5
  <2> QED
    BY <2>1, <2>2 DEF Spawn, cameraVars, historyVars
<1>9. Step' = Step /\ Parts' = Parts
  BY <1>8, SameStep
<1>10. TypeOK'
  BY <1>1, <1>2, <1>5, <1>7, <1>8, <1>9 DEF TypeOK, Threaded
<1>11. Threads'
  <2>1. ASSUME NEW y \in Threaded \ {x} PROVE alive'[y] = alive[y] /\ Counted(y)
    BY <1>1, <1>8 DEF TypeOK, Threads
  <2>2. alive'[x] = alive[x] \union {ref[x]} /\ Counted(x) /\ OldTold(x)
    BY <1>1, <1>2, <1>8 DEF TypeOK, Threaded, Threads
  <2>3. ASSUME NEW y \in Threaded \ {x} PROVE Counted(y)'
    BY <1>7, <1>8, <2>1 DEF Counted, SameCall
  <2>4. Counted(x)'
    <3>1. ref[x] \in 1 .. count[x]
      BY <1>5 DEF Ids
    <3>2. ~Has(left', "test", x) /\ ~Has(left', "create", x)
      BY <1>4, <1>7
    <3> QED
      BY <1>8, <2>2, <3>1, <3>2 DEF Counted
  <2>5. ASSUME NEW y \in Restartable PROVE OneThread(y)'
    <3>1. y \in Threaded \ {x} /\ OneThread(y)
      BY <1>1, <1>2 DEF Restartable, Fresh, Threaded, Threads
    <3> QED
      BY <1>7, <1>8, <2>1, <3>1 DEF OneThread, SameCall
  <2>6. ASSUME NEW y \in Fresh \ {x} PROVE OldTold(y)'
    BY <1>1, <1>8, <2>1 DEF OldTold, Threads, Threaded
  <2>7. OldTold(x)'
    BY <1>8, <2>2 DEF OldTold
  <2> QED
    BY <2>3, <2>4, <2>5, <2>6, <2>7 DEF Threads
<1>12. Stops'
  BY <1>3, <1>7 DEF Stops, SameCall
<1>13. Starts'
  <2>1. Serves(x)'
    BY <1>1, <1>2, <1>5, <1>8
       DEF Serves, Told, Object, TypeOK, Threaded, Fresh, Restartable, Socketed
  <2>2. \A y \in Threaded \ {x} : Serves(y) => Serves(y)'
    BY <1>1, <1>2, <1>8 DEF Serves, Told, Object, TypeOK, Threaded
  <2>3. alive'["loop"] = alive["loop"] \/ x = "loop"
    BY <1>1, <1>2, <1>8 DEF TypeOK, Threaded, Fresh
  <2>4. \A y \in Restartable : alive'[y] = alive[y]
    BY <1>1, <1>2, <1>8 DEF TypeOK, Threaded, Fresh, Restartable
  <2> QED
    BY <1>1, <1>2, <1>3, <1>4, <1>5, <1>7, <1>8, <2>1, <2>2, <2>3, <2>4
       DEF Starts, StartsPublisher, StartsAgain, StartsNew, StartsOrServes, SameCall, Threaded, Launching, Fresh, Restartable
<1>14. CameraInv'
  <2>1. alive'["source"] = alive["source"] /\ Told("source")' = Told("source")
    BY <1>1, <1>2, <1>8 DEF TypeOK, Threaded, Told, Object, Fresh, Restartable
  <2> QED
    BY <1>1, <1>8, <1>9, <2>1 DEF CameraInv, Opened
<1>15. SocketsInv'
  <2>1. \A y \in Restartable : alive'[y] = alive[y]
    BY <1>1, <1>2, <1>8 DEF TypeOK, Threaded, Fresh, Restartable
  <2>2. alive'["loop"] = alive["loop"] \/ socket["publisher"] = "bound" \/ aborted
    <3>1. x = "loop" => socket["publisher"] = "bound" \/ aborted
      BY <1>1, <1>3 DEF Starts, StartsPublisher, StartsAgain, StartsNew, StartsOrServes
    <3> QED
      BY <1>1, <1>2, <1>8, <3>1 DEF TypeOK, Threaded, Fresh
  <2> QED
    BY <1>1, <1>8, <2>1, <2>2 DEF SocketsInv, UsesOpenSockets, Restartable
<1> QED
  BY <1>7, <1>10, <1>11, <1>12, <1>13, <1>14, <1>15 DEF ControllerInv, SameCall

\* A service that runs already is left as it is, another one is launched.
LEMMA TestKeeps ==
  ASSUME OneCaller, ControllerInv, NEW c \in Callers, NEW x \in Services, Test(c, x)
  PROVE  ControllerInv' /\ SameCall
<1>1. TypeOK /\ Script /\ Threads /\ Stops /\ Starts /\ CameraInv /\ SocketsInv
  BY DEF ControllerInv
<1>2. At(c, <<"test", x>>) /\ "test" \in StartOps
  BY DEF Test, StartOps
<1>3. /\ Has(left, "test", x) /\ Starting(left) /\ Up /\ ~Down
      /\ \A o : o \notin CameraOps /\ Has(left, o, x) => o = "test"
  <2>1. Rank("test") = 0
    BY DEF Rank, CameraOps
  <2>2. /\ Has(left, "test", x) /\ Starting(left) /\ Up /\ ~Down
        /\ \A o : o \notin CameraOps /\ Has(left, o, x) => 
             o = "test" \/ (0 < Rank("test") /\ Rank("test") < Rank(o))
    BY <1>2, AtFacts, NotCamera
  <2> QED
    BY <2>1, <2>2
<1>4. UNCHANGED <<state, reason, socket, ref, count, alive, event, camera, held, phase,
                     outlived, crashed, aborted, stuck, calls, failures>>
  BY DEF Test, threadVars, cameraVars, historyVars
<1>5. Step' = Step /\ Parts' = Parts
  BY <1>4, SameStep
<1>6. CameraInv' /\ SocketsInv'
  BY <1>1, <1>4, <1>5 DEF CameraInv, Opened, Told, Object, SocketsInv, UsesOpenSockets
<1>7. \A y \in Threaded : Serves(y)' <=> Serves(y)
  BY <1>4 DEF Serves, Told, Object
<1>8. CASE Present(x)
  <2>1. /\ todo' \in [Callers -> Seq(Step)] /\ SameCall
        /\ \A o, y :
              (Has(left', o, y) <=> Has(left, o, y) /\ ~(o = "test" /\ y = x))
    BY <1>2, <1>8, DoneFacts DEF Test
  <2>2. TypeOK'
    BY <1>1, <1>4, <1>5, <2>1 DEF TypeOK
  <2>3. Threads'
    BY <1>1, <1>3, <1>4, <2>1 DEF Threads, Counted, OneThread, OldTold, SameCall
  <2>4. Stops'
    BY <1>3, <2>1 DEF Stops, SameCall
  <2>5. aborted \/ (x # "publisher" /\ (x \in Threaded => Serves(x)))
    <3> SUFFICES ASSUME ~aborted
                 PROVE  x # "publisher" /\ (x \in Threaded => Serves(x))
      OBVIOUS
    <3>1. CASE x \in Restartable
      <4>1. ref[x] \in alive[x] /\ alive[x] \subseteq outlived[x]
        BY <1>1, <1>3, <1>8, <3>1 DEF Present, Starts, StartsPublisher, StartsAgain, StartsNew, StartsOrServes
      <4> QED
        BY <3>1, <4>1 DEF Serves, Restartable
    <3>2. CASE x \in Fresh
      <4>1. ref[x] # 0
        BY <1>8, <3>2 DEF Present, Fresh, Restartable
      <4> QED
        BY <1>1, <1>3, <3>2, <4>1 DEF Starts, StartsPublisher, StartsAgain, StartsNew, StartsOrServes
    <3>3. CASE x = "publisher"
      <4>1. socket[x] # "none"
        BY <1>8, <3>3 DEF Present, Fresh, Restartable
      <4> QED
        BY <1>1, <1>3, <3>3, <4>1 DEF Starts, StartsPublisher, StartsAgain, StartsNew, StartsOrServes
    <3> QED
      BY <3>1, <3>2, <3>3, ServiceNames DEF Restartable, Fresh
  <2>6. Starts'
    BY <1>1, <1>3, <1>4, <1>7, <2>1, <2>5 DEF Starts, StartsPublisher, StartsAgain, StartsNew, StartsOrServes, SameCall, Launching
  <2> QED
    BY <1>6, <2>1, <2>2, <2>3, <2>4, <2>6 DEF ControllerInv, SameCall
<1>9. CASE ~Present(x)
  <2> DEFINE t == Launch(x)
  <2>1. /\ t \in Seq(Step) /\ Sorted(t)
        /\ Range(t) = IF x \in Restartable THEN {<<"clear", x>>, <<"open", x>>, <<"spawn", x>>}
                      ELSE IF x = "publisher" THEN {<<"open", x>>}
                      ELSE {<<"create", x>>, <<"spawn", x>>}
    BY LaunchFacts
  <2>2. Then(c, t)
    BY <1>9 DEF Test
  <2> HIDE DEF t
  <2>3. \A a \in Range(t) :
           /\ Service(a) = x /\ a[1] # "set" /\ a[1] \in StartOps /\ a[2] = x
           /\ Fits(a)
    <3>1. \A o \in {"clear", "open", "create", "spawn"} :
            Service(<<o, x>>) = x /\ o # "set" /\ o \in StartOps
      BY DEF Service, StartOps, CameraOps
    <3>2. x \in Restartable \/ x = "publisher" \/ x \in Fresh
      BY ServiceNames DEF Restartable, Fresh
    <3>3. \A a \in Range(t) : Fits(a)
      BY <2>1, <3>2 DEF Fits, Restartable, Fresh, Socketed, Threaded
    <3> QED
      BY <2>1, <3>1, <3>3
  <2>4. Service(<<"test", x>>) = x /\ Rank("test") = 0
    BY DEF Service, Rank, CameraOps
  <2>5. /\ todo' \in [Callers -> Seq(Step)] /\ SameCall
        /\ \A o, y :
              (Has(left', o, y) <=> \/ Has(left, o, y) /\ ~(o = "test" /\ y = x)
                                    \/ Has(t, o, y))
    BY <1>2, <2>1, <2>2, <2>3, <2>4, ThenFacts
  <2>6. /\ \A o, y : Has(t, o, y) => y = x
        /\ \A o : Has(t, o, x) <=>
             o \in IF x \in Restartable THEN {"clear", "open", "spawn"}
                   ELSE IF x = "publisher" THEN {"open"}
                   ELSE {"create", "spawn"}
    <3>1. \A o, y : Has(t, o, y) => y = x
      BY <2>3 DEF Has
    <3>2. \A o : Has(t, o, x) <=> <<o, x>> \in Range(t)
      <4>1. \A a \in Range(t) : a = <<a[1], x>>
        BY <2>1
      <4>2. \A o : <<o, x>>[1] = o /\ <<o, x>>[2] = x
        OBVIOUS
      <4> QED
        BY <4>1, <4>2, Zenon DEF Has
    <3>3. \A o, p : <<o, x>> = <<p, x>> <=> o = p
      OBVIOUS
    <3> QED
      BY <2>1, <3>1, <3>2, <3>3
  <2>7. TypeOK'
    BY <1>1, <1>4, <1>5, <2>5 DEF TypeOK
  <2>8. /\ x \in Restartable => alive[x] = {}
        /\ x = "publisher" => socket[x] = "none"
        /\ x \in Fresh => ref[x] = 0
        /\ x \in Threaded => count[x] < calls
    <3>1. x \in Restartable => alive[x] = {}
      BY <1>1, <1>9 DEF Present, Threads, Counted, OneThread, OldTold, Restartable, Fresh
    <3>2. /\ x = "publisher" => socket[x] = "none"
          /\ x \in Fresh => ref[x] = 0
      BY <1>9 DEF Present, Restartable, Fresh
    <3>3. x \in Threaded => count[x] < calls
      BY <1>1, <1>3 DEF Threads, Counted
    <3> QED
      BY <3>1, <3>2, <3>3
  <2>9. Threads'
    BY <1>1, <1>3, <1>4, <2>5, <2>6, <2>8 DEF Threads, Counted, OneThread, OldTold, SameCall, Threaded, Restartable, Fresh
  <2>10. Stops'
    BY <1>3, <2>5 DEF Stops, SameCall
  <2>11. Starts'
    BY <1>1, <1>3, <1>4, <1>7, <2>5, <2>6, <2>8
       DEF Starts, StartsPublisher, StartsAgain, StartsNew, StartsOrServes, SameCall, Launching, Threaded, Restartable, Fresh
  <2> QED
    BY <1>6, <2>5, <2>7, <2>9, <2>10, <2>11 DEF ControllerInv, SameCall
<1> QED
  BY <1>8, <1>9

LEMMA HaltServiceKeeps ==
  ASSUME OneCaller, ControllerInv, NEW c \in Callers, NEW x \in Services, HaltService(c, x)
  PROVE  ControllerInv' /\ SameCall
<1>1. TypeOK /\ Script /\ Threads /\ Stops /\ Starts /\ CameraInv /\ SocketsInv
  BY DEF ControllerInv
<1>2. At(c, <<"halt", x>>) /\ "halt" \in StopOps /\ x \in Restartable
  BY DEF HaltService, StopOps
<1>3. Stopping(left) /\ ~Starting(left) /\ Down /\ ~Up /\ left # <<>>
  BY <1>2, AtFacts
<1>4. /\ event' = [event EXCEPT ![x] = @ \union {0}]
      /\ UNCHANGED <<state, reason, socket, ref, count, alive, camera, held, phase,
                     outlived, crashed, aborted, stuck, calls, failures>>
  BY DEF HaltService, Set, cameraVars, historyVars
<1>5. Step' = Step /\ Parts' = Parts
  BY <1>4, SameStep
<1> DEFINE t == HaltSteps(x)
<1>6. /\ t \in Seq(Step) /\ Sorted(t)
      /\ Range(t) = {<<"join", x, ref[x]>>, <<"close", x>>} \union Range(Releases(x))
      /\ \A a \in Range(Releases(x)) : x = "source" /\ a[1] = "release"
  <2>1. ref[x] \in Ids \union {0}
    BY <1>1, <1>2, ControllerAssumption DEF TypeOK, Threaded, Ids
  <2>2. camera \in Cameras
    BY <1>1 DEF TypeOK
  <2> QED
    BY <1>2, <2>1, <2>2, HaltFacts
<1>7. Then(c, t)
  BY DEF HaltService, HaltSteps
<1> HIDE DEF t
<1>8. \A a \in Range(t) :
        /\ Service(a) = x /\ a[1] \in {"join", "release", "close"}
        /\ a[1] = "join" => a = <<"join", x, ref[x]>>
        /\ Fits(a)
  <2>1. \A a \in Range(Releases(x)) : Service(a) = x /\ a[1] = "release" /\ Fits(a)
    BY <1>6 DEF Service, Fits, CameraOps
  <2>2. \A a \in {<<"join", x, ref[x]>>, <<"close", x>>} :
          /\ Service(a) = x /\ a[1] \in {"join", "close"}
          /\ a[1] = "join" => a = <<"join", x, ref[x]>>
          /\ Fits(a)
    BY <1>2 DEF Service, Fits, Threaded, Socketed, CameraOps
  <2> QED
    BY <1>6, <2>1, <2>2
<1>9. Service(<<"halt", x>>) = x /\ Rank("halt") = 0
  BY DEF Service, Rank, CameraOps
<1>10. {"join", "release", "close"} \subseteq StopOps /\ "set" \notin StopOps
  BY DEF StopOps
<1>11. /\ todo' \in [Callers -> Seq(Step)] /\ SameCall
       /\ Range(left') \subseteq Range(t) \union Range(left)
       /\ \A o, y :
              (Has(left', o, y) <=> \/ Has(left, o, y) /\ ~(o = "halt" /\ y = x)
                                    \/ Has(t, o, y))
  BY <1>2, <1>6, <1>7, <1>8, <1>9, <1>10, ThenFacts
<1>12. /\ Has(t, "join", x) /\ Has(t, "close", x)
       /\ \A o, y : Has(t, o, y) => o \in {"join", "release", "close"}
       /\ \A y : Has(t, "tell", y) => FALSE
  <2>1. <<"join", x, ref[x]>> \in Range(t) /\ <<"close", x>> \in Range(t)
    BY <1>6
  <2>2. <<"join", x, ref[x]>>[1] = "join" /\ <<"join", x, ref[x]>>[2] = x
    OBVIOUS
  <2> QED
    BY <1>8, <2>1, <2>2 DEF Has
<1>13. TypeOK'
  BY <1>1, <1>2, <1>4, <1>5, <1>11 DEF TypeOK, Threaded
<1>14. Threads'
  BY <1>1, <1>2, <1>3, <1>4, <1>11
     DEF Threads, Counted, OneThread, OldTold, SameCall, TypeOK, Threaded, Restartable, Fresh
<1>15. Told(x)' = Ids /\ \A y \in Threaded : Told(y) \subseteq Told(y)'
  BY <1>1, <1>2, <1>4 DEF Told, Object, TypeOK, Threaded
<1>16. Stops'
  <2>1. \A y \in Socketed :
          \/ socket'[y] = "none" \/ Has(left', "close", y)
          \/ y \in Restartable /\ Has(left', "halt", y)
    BY <1>1, <1>3, <1>4, <1>11, <1>12 DEF Stops
  <2>2. \A y \in Fresh : ref'[y] = 0 \/ Has(left', "halt", y) \/ Has(left', "drop", y)
    BY <1>1, <1>2, <1>3, <1>4, <1>11 DEF Stops, Fresh, Restartable
  <2>3. \A y \in Fresh : Has(left', "tell", y) => ref'[y] # 0
    BY <1>1, <1>3, <1>4, <1>11, <1>12 DEF Stops
  <2>4. \A y \in Threaded :
         \/ alive'[y] \subseteq Told(y)'
         \/ Has(left', "halt", y) \/ Has(left', "tell", y)
    <3>1. alive[x] \subseteq Ids
      BY <1>1, <1>2 DEF TypeOK, Threaded
    <3> QED
      BY <1>1, <1>3, <1>4, <1>11, <1>15, <3>1 DEF Stops
  <2>5. \A y \in Threaded :
         \/ alive'[y] \subseteq outlived'[y]
         \/ Has(left', "halt", y) \/ Has(left', "tell", y) \/ Has(left', "join", y)
    BY <1>1, <1>3, <1>4, <1>11, <1>12 DEF Stops
  <2>6. \A s \in Range(left') : s[1] = "join" => s[3] = ref'[s[2]]
    <3>1. <<"join", x, ref[x]>>[3] = ref[x] /\ <<"join", x, ref[x]>>[2] = x
      OBVIOUS
    <3> QED
      BY <1>1, <1>3, <1>4, <1>8, <1>11, <3>1 DEF Stops
  <2> QED
    BY <2>1, <2>2, <2>3, <2>4, <2>5, <2>6 DEF Stops
<1>17. Starts'
  BY <1>3, <1>11 DEF Starts, StartsPublisher, StartsAgain, StartsNew, StartsOrServes, SameCall
<1>18. CameraInv'
  <2>1. Told("source") \subseteq Told("source")'
    BY <1>15 DEF Threaded, Restartable
  <2> QED
    BY <1>1, <1>4, <1>5, <2>1 DEF CameraInv, Opened
<1>19. SocketsInv'
  BY <1>1, <1>4 DEF SocketsInv, UsesOpenSockets
<1> QED
  BY <1>11, <1>13, <1>14, <1>16, <1>17, <1>18, <1>19 DEF ControllerInv, SameCall

LEMMA HaltFreshKeeps ==
  ASSUME OneCaller, ControllerInv, NEW c \in Callers, NEW x \in Services, HaltFresh(c, x)
  PROVE  ControllerInv' /\ SameCall
<1>1. TypeOK /\ Script /\ Threads /\ Stops /\ Starts /\ CameraInv /\ SocketsInv
  BY DEF ControllerInv
<1>2. At(c, <<"halt", x>>) /\ "halt" \in StopOps /\ x \in Fresh
  BY DEF HaltFresh, StopOps
<1>3. Stopping(left) /\ ~Starting(left) /\ Down /\ ~Up /\ left # <<>>
  BY <1>2, AtFacts
<1>4. UNCHANGED <<state, reason, socket, ref, count, alive, event, camera, held, phase,
                     outlived, crashed, aborted, stuck, calls, failures>>
  BY DEF HaltFresh, threadVars, cameraVars, historyVars
<1>5. Step' = Step /\ Parts' = Parts
  BY <1>4, SameStep
<1>6. CameraInv' /\ SocketsInv'
  BY <1>1, <1>4, <1>5 DEF CameraInv, Opened, Told, Object, SocketsInv, UsesOpenSockets
<1>7. \A y \in Threaded : Told(y)' = Told(y)
  BY <1>4 DEF Told, Object
<1>8. CASE ref[x] = 0
  <2>1. /\ todo' \in [Callers -> Seq(Step)] /\ SameCall
        /\ Range(left') \subseteq Range(left)
        /\ \A o, y :
              (Has(left', o, y) <=> Has(left, o, y) /\ ~(o = "halt" /\ y = x))
    BY <1>2, <1>8, DoneFacts DEF HaltFresh
  <2>2. alive[x] \subseteq outlived[x] /\ alive[x] \subseteq Told(x)
    <3>1. alive[x] \subseteq 1 .. count[x] /\ alive[x] \subseteq Ids
      BY <1>1, <1>2 DEF Threads, Counted, OneThread, OldTold, TypeOK, Threaded
    <3>2. 0 \notin alive[x]
      BY <3>1 DEF Ids
    <3>3. alive[x] \subseteq outlived[x] /\ alive[x] \subseteq event[x]
      BY <1>1, <1>2, <1>8, <3>2 DEF Threads, Counted, OneThread, OldTold, Threaded
    <3> QED
      BY <1>2, <3>1, <3>3 DEF Told, Object, Fresh, Restartable
  <2>3. TypeOK'
    BY <1>1, <1>4, <1>5, <2>1 DEF TypeOK
  <2>4. Threads'
    BY <1>1, <1>3, <1>4, <2>1 DEF Threads, Counted, OneThread, OldTold, SameCall
  <2>5. Stops'
    BY <1>1, <1>2, <1>3, <1>4, <1>7, <1>8, <2>1, <2>2 DEF Stops, SameCall, Fresh, Restartable
  <2>6. Starts'
    BY <1>3, <2>1 DEF Starts, StartsPublisher, StartsAgain, StartsNew, StartsOrServes, SameCall
  <2> QED
    BY <1>6, <2>1, <2>3, <2>4, <2>5, <2>6 DEF ControllerInv, SameCall
<1>9. CASE ref[x] # 0
  <2> DEFINE t == << <<"tell", x>>, <<"drop", x>> >>
  <2>1. Then(c, t)
    BY <1>9 DEF HaltFresh
  <2>2. /\ t \in Seq(Step) /\ DOMAIN t = 1 .. 2 /\ t[1] = <<"tell", x>>
        /\ t[2] = <<"drop", x>>
    <3>1. <<"tell", x>> \in Step /\ <<"drop", x>> \in Step
      BY OpStep DEF Ops
    <3> QED
      BY <3>1
  <2> HIDE DEF t
  <2>3. Range(t) = {<<"tell", x>>, <<"drop", x>>}
    BY <2>2 DEF Range
  <2>4. Sorted(t)
    <3>1. Earlier(<<"tell", x>>, <<"drop", x>>)
      BY <1>2 DEF Earlier, Service, Rank, StopOps, StartOps, Fresh, CameraOps
    <3>2. \A i, j \in 1 .. 2 : i < j => i = 1 /\ j = 2
      OBVIOUS
    <3> QED
      BY <2>2, <3>1, <3>2 DEF Sorted
  <2>5. /\ Service(<<"halt", x>>) = x /\ Rank("halt") = 0
        /\ \A a \in Range(t) :
             /\ Service(a) = x /\ a[1] # "set" /\ a[1] \in StopOps /\ a[1] \in {"tell", "drop"}
             /\ Fits(a)
    BY <1>2, <2>3 DEF Service, Rank, StopOps, Fits, CameraOps
  <2>6. /\ todo' \in [Callers -> Seq(Step)] /\ SameCall
        /\ Range(left') \subseteq Range(t) \union Range(left)
        /\ \A o, y :
              (Has(left', o, y) <=> \/ Has(left, o, y) /\ ~(o = "halt" /\ y = x)
                                    \/ Has(t, o, y))
    BY <1>2, <2>1, <2>2, <2>4, <2>5, ThenFacts
  <2>7. /\ Has(t, "tell", x) /\ Has(t, "drop", x)
        /\ \A o, y : Has(t, o, y) => o \in {"tell", "drop"} /\ y = x
    BY <2>3 DEF Has
  <2>8. TypeOK'
    BY <1>1, <1>4, <1>5, <2>6 DEF TypeOK
  <2>9. Threads'
    BY <1>1, <1>3, <1>4, <2>6 DEF Threads, Counted, OneThread, OldTold, SameCall
  <2>10. Stops'
    <3>1. \A s \in Range(left') : s[1] = "join" => s[3] = ref[s[2]]
      BY <1>1, <1>3, <2>5, <2>6 DEF Stops
    <3>2. \A y \in Socketed :
            \/ socket[y] = "none" \/ Has(left', "close", y)
            \/ y \in Restartable /\ Has(left', "halt", y)
      BY <1>1, <1>2, <1>3, <2>6, <2>7 DEF Stops, Fresh, Restartable
    <3>3. /\ \A y \in Fresh : ref[y] = 0 \/ Has(left', "halt", y) \/ Has(left', "drop", y)
          /\ \A y \in Fresh : Has(left', "tell", y) => ref[y] # 0
      BY <1>1, <1>2, <1>3, <1>9, <2>6, <2>7 DEF Stops
    <3>4. \A y \in Threaded :
            /\ \/ alive[y] \subseteq Told(y)
               \/ Has(left', "halt", y) \/ Has(left', "tell", y)
            /\ \/ alive[y] \subseteq outlived[y]
               \/ Has(left', "halt", y) \/ Has(left', "tell", y) \/ Has(left', "join", y)
      BY <1>1, <1>2, <1>3, <2>6, <2>7 DEF Stops
    <3> QED
      BY <1>4, <1>7, <3>1, <3>2, <3>3, <3>4 DEF Stops
  <2>11. Starts'
    BY <1>3, <2>6 DEF Starts, StartsPublisher, StartsAgain, StartsNew, StartsOrServes, SameCall
  <2> QED
    BY <1>6, <2>6, <2>8, <2>9, <2>10, <2>11 DEF ControllerInv, SameCall
<1> QED
  BY <1>8, <1>9

LEMMA TellKeeps ==
  ASSUME OneCaller, ControllerInv, NEW c \in Callers, NEW x \in Services, Tell(c, x)
  PROVE  ControllerInv' /\ SameCall
<1>1. TypeOK /\ Script /\ Threads /\ Stops /\ Starts /\ CameraInv /\ SocketsInv
  BY DEF ControllerInv
<1>2. At(c, <<"tell", x>>) /\ "tell" \in StopOps
  BY DEF Tell, StopOps
<1>3. /\ x \in Fresh /\ Has(left, "tell", x)
      /\ Stopping(left) /\ ~Starting(left) /\ Down /\ ~Up /\ left # <<>>
      /\ \A o : o \notin CameraOps /\ Has(left, o, x) => o = "tell" \/ Rank("tell") < Rank(o)
  <2>1. Fits(<<"tell", x>>)
    BY <1>2, AtFacts
  <2> QED
    BY <1>2, <2>1, AtFacts, NotCamera DEF Fits
<1>4. /\ ref[x] # 0 /\ ref[x] \in Ids /\ ref[x] <= count[x] /\ count[x] \in Nat
  <2>1. ref[x] # 0 /\ ref[x] <= count[x]
    BY <1>1, <1>3 DEF Stops, Threads, Counted, OneThread, OldTold, Threaded
  <2> QED
    BY <1>1, <1>3, <2>1, ControllerAssumption DEF TypeOK, Threaded, Ids
<1>5. /\ event' = [event EXCEPT ![x] = @ \union {ref[x]}]
      /\ UNCHANGED <<state, reason, socket, ref, count, alive, camera, held, phase,
                     outlived, crashed, aborted, stuck, calls, failures>>
  BY <1>4 DEF Tell, Set, cameraVars, historyVars
<1>6. Step' = Step /\ Parts' = Parts
  BY <1>5, SameStep
<1> DEFINE t == << <<"join", x, ref[x]>> >>
<1>7. Then(c, t)
  BY <1>4 DEF Tell
<1>8. t \in Seq(Step) /\ DOMAIN t = 1 .. 1 /\ t[1] = <<"join", x, ref[x]>>
  <2>1. <<"join", x, ref[x]>> \in Step
    BY <1>3, <1>4 DEF Step, Threaded
  <2> QED
    BY <2>1
<1> HIDE DEF t
<1>9. Range(t) = {<<"join", x, ref[x]>>}
  <2> DEFINE j == <<"join", x, ref[x]>>
  <2>1. DOMAIN t = {1} /\ t[1] = j
    BY <1>8
  <2> HIDE DEF j
  <2>2. Range(t) = {j}
    BY <2>1 DEF Range
  <2> QED
    BY <2>2 DEF j
<1>10. Sorted(t)
  <2>1. \A i, j \in 1 .. 1 : ~(i < j)
    OBVIOUS
  <2> QED
    BY <1>8, <2>1 DEF Sorted
<1>11. /\ Service(<<"tell", x>>) = x /\ Rank("tell") = 1 /\ Rank("join") = 1
       /\ "join" \in StopOps
       /\ \A a \in Range(t) :
            /\ Service(a) = x /\ a[1] # "set" /\ a[1] = "join" /\ a[2] = x /\ a[3] = ref[x]
            /\ Fits(a)
  BY <1>3, <1>9 DEF Service, Rank, StopOps, Fits, Threaded, CameraOps
<1>12. /\ todo' \in [Callers -> Seq(Step)] /\ SameCall
       /\ Range(left') \subseteq Range(t) \union Range(left)
       /\ \A o, y :
              (Has(left', o, y) <=> \/ Has(left, o, y) /\ ~(o = "tell" /\ y = x)
                                    \/ Has(t, o, y))
  BY <1>2, <1>7, <1>8, <1>10, <1>11, ThenFacts
<1>13. \A o, y : Has(t, o, y) <=> o = "join" /\ y = x
  BY <1>9, <1>11 DEF Has
<1>14. TypeOK'
  BY <1>1, <1>3, <1>4, <1>5, <1>6, <1>12 DEF TypeOK, Threaded, Fresh, Restartable
<1>15. Threads'
  <2>1. event'[x] \subseteq 1 .. count[x]
    BY <1>1, <1>3, <1>4, <1>5 DEF Threads, Counted, OneThread, OldTold, TypeOK, Threaded, Ids
  <2> QED
    BY <1>1, <1>3, <1>4, <1>5, <1>12, <2>1
       DEF Threads, Counted, OneThread, OldTold, SameCall, TypeOK, Threaded, Restartable, Fresh
<1>16. /\ alive[x] \subseteq Told(x)' /\ \A y \in Threaded : Told(y) \subseteq Told(y)'
  <2>1. alive[x] \subseteq Ids /\ alive[x] \ {ref[x]} \subseteq event[x]
    BY <1>1, <1>3 DEF Threads, Counted, OneThread, OldTold, TypeOK, Threaded
  <2> QED
    BY <1>1, <1>3, <1>5, <2>1 DEF Told, Object, TypeOK, Threaded, Fresh, Restartable
<1>17. Stops'
  <2>1. \A s \in Range(left') : s[1] = "join" => s[3] = ref[s[2]]
    BY <1>1, <1>3, <1>11, <1>12 DEF Stops
  <2>2. \A y \in Threaded :
         \/ alive[y] \subseteq Told(y)'
         \/ Has(left', "halt", y) \/ Has(left', "tell", y)
    BY <1>1, <1>3, <1>12, <1>16 DEF Stops
  <2>3. \A y \in Threaded :
         \/ alive[y] \subseteq outlived[y]
         \/ Has(left', "halt", y) \/ Has(left', "tell", y) \/ Has(left', "join", y)
    BY <1>1, <1>3, <1>12, <1>13 DEF Stops
  <2> QED
    BY <1>1, <1>3, <1>5, <1>12, <1>13, <2>1, <2>2, <2>3 DEF Stops, Threaded
<1>18. Starts'
  BY <1>3, <1>12 DEF Starts, StartsPublisher, StartsAgain, StartsNew, StartsOrServes, SameCall
<1>19. CameraInv'
  <2>1. Told("source") \subseteq Told("source")'
    BY <1>16 DEF Threaded, Restartable
  <2> QED
    BY <1>1, <1>5, <1>6, <2>1 DEF CameraInv, Opened
<1>20. SocketsInv'
  BY <1>1, <1>5 DEF SocketsInv, UsesOpenSockets
<1> QED
  BY <1>12, <1>14, <1>15, <1>17, <1>18, <1>19, <1>20 DEF ControllerInv, SameCall

\* What a join that is next waits for, and what is left of its service afterwards.
LEMMA JoinNext ==
  ASSUME OneCaller, ControllerInv, NEW c \in Callers, NEW x \in Services,
         NEW i \in Ids \union {0}, At(c, <<"join", x, i>>), Done(c)
  PROVE  /\ x \in Threaded /\ i = ref[x]
         /\ Stopping(left) /\ ~Starting(left) /\ Down /\ ~Up /\ left # <<>>
         /\ todo' \in [Callers -> Seq(Step)] /\ SameCall
         /\ Range(left') \subseteq Range(left)
         /\ \A o, y :
              (Has(left', o, y) <=> Has(left, o, y) /\ ~(o = "join" /\ y = x))
         /\ alive[x] \subseteq Told(x)
         /\ alive[x] \subseteq outlived[x] \union {i}
<1> DEFINE j == <<"join", x, i>>
<1>1. j[1] = "join" /\ j[2] = x /\ j[3] = i
  OBVIOUS
<1>2. At(c, j)
  OBVIOUS
<1> HIDE DEF j
<1>3. "join" \in StopOps
  BY DEF StopOps
<1>4. /\ j \in Range(left) /\ Fits(j) /\ Stopping(left) /\ ~Starting(left) /\ Down /\ ~Up /\ left # <<>>
      /\ \A o : o \notin CameraOps /\ Has(left, o, x) => o = "join" \/ Rank("join") < Rank(o)
  BY <1>1, <1>2, <1>3, AtFacts, NotCamera
<1>5. x \in Threaded /\ i = ref[x]
  <2>1. x \in Threaded
    BY <1>1, <1>4 DEF Fits
  <2>2. i = ref[x]
    BY <1>1, <1>4 DEF ControllerInv, Stops
  <2> QED
    BY <2>1, <2>2
<1>6. /\ todo' \in [Callers -> Seq(Step)] /\ SameCall
      /\ Range(left') \subseteq Range(left)
      /\ \A o, y :
              (Has(left', o, y) <=> Has(left, o, y) /\ ~(o = "join" /\ y = x))
  BY <1>1, <1>2, <1>3, DoneFacts
<1>7. ~Has(left, "halt", x) /\ ~Has(left, "tell", x)
  BY <1>4 DEF Rank, CameraOps
<1>8. alive[x] \subseteq Told(x)
  BY <1>4, <1>5, <1>7 DEF ControllerInv, Stops
<1>9. alive[x] \subseteq outlived[x] \union {i}
  BY <1>5 DEF ControllerInv, Threads, Counted, OneThread, OldTold
<1> QED
  BY <1>4, <1>5, <1>6, <1>8, <1>9

LEMMA JoinKeeps ==
  ASSUME OneCaller, ControllerInv, NEW c \in Callers, NEW x \in Services, Join(c, x)
  PROVE  ControllerInv' /\ SameCall
<1>1. TypeOK /\ Script /\ Threads /\ Stops /\ Starts /\ CameraInv /\ SocketsInv
  BY DEF ControllerInv
<1>2. PICK i \in Ids \union {0} : At(c, <<"join", x, i>>) /\ i \notin alive[x]
  BY DEF Join
<1>3. UNCHANGED <<state, reason, socket, ref, count, alive, event, camera, held, phase,
                     outlived, crashed, aborted, stuck, calls, failures>>
  BY DEF Join, threadVars, cameraVars, historyVars
<1>4. /\ x \in Threaded /\ i = ref[x]
      /\ Stopping(left) /\ ~Starting(left) /\ Down /\ ~Up /\ left # <<>>
      /\ todo' \in [Callers -> Seq(Step)] /\ SameCall
      /\ Range(left') \subseteq Range(left)
      /\ \A o, y :
              (Has(left', o, y) <=> Has(left, o, y) /\ ~(o = "join" /\ y = x))
      /\ alive[x] \subseteq Told(x)
      /\ alive[x] \subseteq outlived[x] \union {i}
  BY <1>2, JoinNext DEF Join
<1>5. Step' = Step /\ Parts' = Parts
  BY <1>3, SameStep
<1>6. CameraInv' /\ SocketsInv'
  BY <1>1, <1>3, <1>5 DEF CameraInv, Opened, Told, Object, SocketsInv, UsesOpenSockets
<1>7. \A y \in Threaded : Told(y)' = Told(y)
  BY <1>3 DEF Told, Object
<1>8. alive[x] \subseteq outlived[x]
  BY <1>2, <1>4
<1>9. TypeOK'
  BY <1>1, <1>3, <1>4, <1>5 DEF TypeOK
<1>10. Threads'
  BY <1>1, <1>3, <1>4 DEF Threads, Counted, OneThread, OldTold, SameCall
<1>11. Stops'
  BY <1>1, <1>3, <1>4, <1>7, <1>8 DEF Stops, SameCall
<1>12. Starts'
  BY <1>4 DEF Starts, StartsPublisher, StartsAgain, StartsNew, StartsOrServes, SameCall
<1> QED
  BY <1>4, <1>6, <1>9, <1>10, <1>11, <1>12 DEF ControllerInv, SameCall

LEMMA JoinTimesOutKeeps ==
  ASSUME OneCaller, ControllerInv, NEW c \in Callers, NEW x \in Services, JoinTimesOut(c, x)
  PROVE  ControllerInv' /\ SameCall
<1>1. TypeOK /\ Script /\ Threads /\ Stops /\ Starts /\ CameraInv /\ SocketsInv
  BY DEF ControllerInv
<1>2. PICK i \in Ids : /\ At(c, <<"join", x, i>>)
                       /\ outlived' = [outlived EXCEPT ![x] = @ \union {i}]
  BY DEF JoinTimesOut
<1>3. UNCHANGED <<state, reason, socket, ref, count, alive, event, camera, held, phase,
                     crashed, aborted, stuck, calls, failures>>
  BY DEF JoinTimesOut, threadVars, cameraVars
<1>4. /\ x \in Threaded /\ i = ref[x]
      /\ Stopping(left) /\ ~Starting(left) /\ Down /\ ~Up /\ left # <<>>
      /\ todo' \in [Callers -> Seq(Step)] /\ SameCall
      /\ Range(left') \subseteq Range(left)
      /\ \A o, y :
              (Has(left', o, y) <=> Has(left, o, y) /\ ~(o = "join" /\ y = x))
      /\ alive[x] \subseteq Told(x)
      /\ alive[x] \subseteq outlived[x] \union {i}
  BY <1>2, JoinNext DEF JoinTimesOut
<1>5. Step' = Step /\ Parts' = Parts
  BY <1>3, SameStep
<1>6. /\ \A y \in Threaded : Told(y)' = Told(y) /\ outlived[y] \subseteq outlived'[y]
      /\ alive[x] \subseteq outlived'[x]
      /\ outlived' \in [Threaded -> SUBSET Ids]
  BY <1>1, <1>2, <1>3, <1>4 DEF Told, Object, TypeOK
<1>7. CameraInv'
  <2>1. Told("source")' = Told("source") /\ outlived["source"] \subseteq outlived'["source"]
    BY <1>6 DEF Threaded, Restartable
  <2> QED
    BY <1>1, <1>3, <1>5, <2>1 DEF CameraInv, Opened
<1>8. SocketsInv'
  BY <1>1, <1>3, <1>6 DEF SocketsInv, UsesOpenSockets, Threaded, Restartable, Fresh
<1>9. TypeOK'
  BY <1>1, <1>3, <1>4, <1>5, <1>6 DEF TypeOK
<1>10. Threads'
  BY <1>1, <1>3, <1>4, <1>6 DEF Threads, Counted, OneThread, OldTold, SameCall
<1>11. Stops'
  BY <1>1, <1>3, <1>4, <1>6 DEF Stops, SameCall
<1>12. Starts'
  BY <1>4 DEF Starts, StartsPublisher, StartsAgain, StartsNew, StartsOrServes, SameCall
<1> QED
  BY <1>4, <1>7, <1>8, <1>9, <1>10, <1>11, <1>12 DEF ControllerInv, SameCall

\* A step that closes the camera: whatever thread there is was given up.
LEMMA CameraStepNext ==
  ASSUME OneCaller, ControllerInv, NEW c \in Callers, NEW op \in CameraOps,
         NEW k \in DOMAIN Parts, At(c, <<op, k>>)
  PROVE  /\ c = TheCaller /\ op \in StopOps
         /\ Stopping(left) /\ ~Starting(left) /\ Down /\ ~Up /\ left # <<>>
         /\ alive["source"] \subseteq outlived["source"]
<1> DEFINE s == <<op, k>>
<1>1. s[1] = op /\ s[2] = k /\ At(c, s)
  OBVIOUS
<1> HIDE DEF s
<1>2. op \in StopOps
  BY DEF CameraOps, StopOps
<1>3. /\ c = TheCaller
      /\ Stopping(left) /\ ~Starting(left) /\ Down /\ ~Up /\ left # <<>>
      /\ \A o : o \notin CameraOps /\ Has(left, o, "source") => 2 < Rank(o)
  BY <1>1, <1>2, AtFacts
<1>4. ~Has(left, "halt", "source") /\ ~Has(left, "tell", "source") /\ ~Has(left, "join", "source")
  BY <1>3 DEF Rank, CameraOps
<1>5. alive["source"] \subseteq outlived["source"]
  BY <1>3, <1>4 DEF ControllerInv, Stops, Threaded, Restartable
<1> QED
  BY <1>2, <1>3, <1>5

\* It is followed by at most one more, and the call goes on.
CameraStepDone(c) == Done(c) \/ \E o \in CameraOps, k \in DOMAIN Parts : Then(c, << <<o, k>> >>)

LEMMA CameraStepGoesOn ==
  ASSUME OneCaller, ControllerInv, NEW c \in Callers, NEW op \in CameraOps,
         NEW k \in DOMAIN Parts, At(c, <<op, k>>), CameraStepDone(c)
  PROVE  /\ todo' \in [Callers -> Seq(Step)] /\ SameCall
         /\ \A s \in Range(left') : s \in Range(left) \/ s[1] \in CameraOps
         /\ \A o, y : o \notin CameraOps => (Has(left', o, y) <=> Has(left, o, y))
<1> DEFINE s == <<op, k>>
<1>1. s[1] = op /\ s[2] = k /\ At(c, s)
  OBVIOUS
<1> HIDE DEF s
<1>2. op \in StopOps
  BY CameraStepNext
<1>3. CASE Done(c)
  <2>1. /\ todo' \in [Callers -> Seq(Step)] /\ SameCall
        /\ Range(left') \subseteq Range(left)
        /\ \A o, y : (Has(left', o, y) <=> Has(left, o, y) /\ ~(o = op /\ y = k))
    BY <1>1, <1>2, <1>3, DoneFacts
  <2> QED
    BY <2>1
<1>4. ASSUME NEW o \in CameraOps, NEW n \in DOMAIN Parts, Then(c, << <<o, n>> >>)
      PROVE  /\ todo' \in [Callers -> Seq(Step)] /\ SameCall
             /\ \A a \in Range(left') : a \in Range(left) \/ a[1] \in CameraOps
             /\ \A q, y : q \notin CameraOps => (Has(left', q, y) <=> Has(left, q, y))
  <2> DEFINE b == <<o, n>>
             t == <<b>>
  <2>1. b \in Step /\ b[1] = o /\ b[2] = n
    BY DEF Step, CameraOps
  <2> HIDE DEF b
  <2>2. t \in Seq(Step) /\ DOMAIN t = {1} /\ t[1] = b
    BY <2>1
  <2>3. Then(c, t)
    BY <1>4 DEF b
  <2> HIDE DEF t
  <2>4. Range(t) = {b} /\ Sorted(t)
    BY <2>2 DEF Range, Sorted
  <2>5. /\ Service(b) = "source" /\ Service(s) = "source" /\ o # "set"
        /\ Rank(o) = 2 /\ Rank(op) = 2 /\ o \in StopOps
    BY <1>1, <2>1 DEF Service, Rank, CameraOps, StopOps
  <2>6. Fits(b)
    BY <2>1 DEF Fits, CameraOps
  <2>7. \A a \in Range(t) :
          /\ Service(a) = Service(s) /\ a[1] # "set"
          /\ Rank(op) = 0 \/ Rank(a[1]) = Rank(op)
          /\ \/ a[1] \in StartOps /\ op \in StartOps
             \/ a[1] \in StopOps /\ op \in StopOps
          /\ Fits(a)
    BY <1>2, <2>1, <2>4, <2>5, <2>6
  <2>8. /\ todo' \in [Callers -> Seq(Step)] /\ SameCall
        /\ Range(left') \subseteq Range(t) \union Range(left)
        /\ \A q, y :
              (Has(left', q, y) <=> \/ Has(left, q, y) /\ ~(q = op /\ y = k)
                                    \/ Has(t, q, y))
    BY <1>1, <1>2, <2>2, <2>3, <2>4, <2>7, ThenFacts
  <2>9. \A q, y : q \notin CameraOps => ~Has(t, q, y)
    BY <2>1, <2>4 DEF Has
  <2> QED
    BY <2>1, <2>4, <2>8, <2>9
<1> QED
  BY <1>3, <1>4 DEF CameraStepDone

\* The camera is closed beside a thread only when its join was given up.
LEMMA CameraStepKeeps ==
  ASSUME OneCaller, ControllerInv, NEW c \in Callers, NEW op \in CameraOps,
         NEW k \in DOMAIN Parts, At(c, <<op, k>>), CameraStepDone(c),
         UNCHANGED <<state, reason, socket, ref, count, alive, event, camera, phase,
                     outlived, crashed, aborted, calls, failures>>,
         held' \subseteq held, stuck' \subseteq stuck
  PROVE  ControllerInv' /\ SameCall
<1>1. TypeOK /\ Script /\ Threads /\ Stops /\ Starts /\ CameraInv /\ SocketsInv
  BY DEF ControllerInv
<1>2. /\ Stopping(left) /\ ~Starting(left) /\ Down /\ ~Up /\ left # <<>>
      /\ alive["source"] \subseteq outlived["source"]
  BY CameraStepNext
<1>3. /\ todo' \in [Callers -> Seq(Step)] /\ SameCall
      /\ \A s \in Range(left') : s \in Range(left) \/ s[1] \in CameraOps
      /\ \A o, y : o \notin CameraOps => (Has(left', o, y) <=> Has(left, o, y))
  BY CameraStepGoesOn
<1>4. Step' = Step /\ Parts' = Parts
  BY SameStep
<1>5. TypeOK'
  BY <1>1, <1>3, <1>4 DEF TypeOK
<1>6. /\ "halt" \notin CameraOps /\ "tell" \notin CameraOps /\ "join" \notin CameraOps
      /\ "close" \notin CameraOps /\ "drop" \notin CameraOps
  BY DEF CameraOps
<1>7. Threads'
  BY <1>1, <1>2, <1>3 DEF Threads, Counted, OneThread, OldTold, SameCall
<1>8. Stops'
  <2>1. \A y \in Threaded : Told(y)' = Told(y)
    BY DEF Told, Object
  <2>2. \A s \in Range(left') : s[1] = "join" => s[3] = ref'[s[2]]
    BY <1>1, <1>2, <1>3, <1>6 DEF Stops
  <2> QED
    BY <1>1, <1>2, <1>3, <1>6, <2>1, <2>2 DEF Stops
<1>9. Starts'
  BY <1>2, <1>3 DEF Starts, SameCall
<1>10. CameraInv'
  BY <1>1, <1>2, <1>4 DEF CameraInv, Opened, Told, Object
<1>11. SocketsInv'
  BY <1>1 DEF SocketsInv, UsesOpenSockets
<1> QED
  BY <1>3, <1>5, <1>7, <1>8, <1>9, <1>10, <1>11 DEF ControllerInv, SameCall

LEMMA OnwardDone ==
  ASSUME camera \in Cameras, NEW c, NEW k \in DOMAIN Parts, Onward(c, k)
  PROVE  CameraStepDone(c)
<1>1. CASE k = 1
  BY <1>1 DEF Onward, CameraStepDone
<1>2. CASE k # 1
  <2>1. k - 1 \in DOMAIN Parts
    BY <1>2, PartsFacts
  <2>2. Then(c, << <<"release", k - 1>> >>) /\ "release" \in CameraOps
    BY <1>2 DEF Onward, CameraOps
  <2> QED
    BY <2>1, <2>2 DEF CameraStepDone
<1> QED
  BY <1>1, <1>2

LEMMA ReleaseKeeps ==
  ASSUME OneCaller, ControllerInv, NEW c \in Callers, Release(c)
  PROVE  ControllerInv' /\ SameCall
<1>1. PICK k \in DOMAIN Parts :
        /\ At(c, <<"release", k>>)
        /\ IF Parts[k] \in held THEN Then(c, << <<"free", k>> >>) ELSE Onward(c, k)
  BY DEF Release
<1>2. CameraStepDone(c)
  <2>1. "free" \in CameraOps /\ camera \in Cameras
    BY DEF CameraOps, ControllerInv, TypeOK
  <2> QED
    BY <1>1, <2>1, OnwardDone DEF CameraStepDone
<1>3. UNCHANGED <<state, reason, socket, ref, count, alive, event, camera, phase,
                  outlived, crashed, aborted, calls, failures, held, stuck>>
  BY DEF Release, threadVars, cameraVars, historyVars
<1>4. "release" \in CameraOps
  BY DEF CameraOps
<1> QED
  BY <1>1, <1>2, <1>3, <1>4, CameraStepKeeps

LEMMA FreeKeeps ==
  ASSUME OneCaller, ControllerInv, NEW c \in Callers, Free(c)
  PROVE  ControllerInv' /\ SameCall
<1>1. PICK k \in DOMAIN Parts : At(c, <<"free", k>>) /\ Then(c, << <<"forget", k>> >>)
  BY DEF Free
<1>2. CameraStepDone(c)
  <2>1. "forget" \in CameraOps
    BY DEF CameraOps
  <2> QED
    BY <1>1, <2>1 DEF CameraStepDone
<1>3. UNCHANGED <<state, reason, socket, ref, count, alive, event, camera, phase,
                  outlived, crashed, aborted, calls, failures, held, stuck>>
  BY DEF Free, threadVars, cameraVars, historyVars
<1>4. "free" \in CameraOps
  BY DEF CameraOps
<1> QED
  BY <1>1, <1>2, <1>3, <1>4, CameraStepKeeps

LEMMA ForgetKeeps ==
  ASSUME OneCaller, ControllerInv, NEW c \in Callers, Forget(c)
  PROVE  ControllerInv' /\ SameCall
<1>1. PICK k \in DOMAIN Parts :
        /\ At(c, <<"forget", k>>) /\ Onward(c, k)
        /\ held' = held \ {Parts[k]} /\ stuck' = stuck \ {Parts[k]}
  BY DEF Forget
<1>2. CameraStepDone(c)
  BY <1>1, OnwardDone DEF ControllerInv, TypeOK
<1>3. UNCHANGED <<state, reason, socket, ref, count, alive, event, camera, phase,
                  outlived, crashed, aborted, calls, failures>>
  BY DEF Forget, threadVars
<1>4. "forget" \in CameraOps
  BY DEF CameraOps
<1>5. held' \subseteq held /\ stuck' \subseteq stuck
  BY <1>1
<1> QED
  BY <1>1, <1>2, <1>3, <1>4, <1>5, CameraStepKeeps

LEMMA UpToFacts ==
  ASSUME camera \in Cameras, NEW k \in DOMAIN Parts
  PROVE  UpTo(k) \subseteq Range(Parts)
BY PartsFacts DEF UpTo, Range

\* The exception leaves the stop, or the clean-up, half way: the services are as it left
\* them, which `aborted` says.
LEMMA FreeRaisesKeeps ==
  ASSUME OneCaller, ControllerInv, NEW c \in Callers, FreeRaises(c)
  PROVE  ControllerInv' /\ left' = <<>> /\ aborted'
<1>1. TypeOK /\ Script /\ Threads /\ Stops /\ Starts /\ CameraInv /\ SocketsInv
  BY DEF ControllerInv
<1>2. PICK k \in DOMAIN Parts :
        /\ At(c, <<"free", k>>) /\ Raise(c)
        /\ \/ failures < MaxFailures /\ failures' = failures + 1
           \/ failures' = failures
        /\ stuck' = stuck \union UpTo(k) \/ stuck' = stuck
  BY DEF FreeRaises, Unforeseen
<1>3. /\ c = TheCaller /\ Stopping(left) /\ ~Starting(left) /\ left # <<>>
  <2>1. "free" \in CameraOps
    BY DEF CameraOps
  <2> QED
    BY <1>2, <2>1, CameraStepNext
<1>4. /\ UNCHANGED <<state, reason, socket, ref, count, alive, event, camera, held, phase,
                     outlived, crashed, calls>>
      /\ aborted' = TRUE
  BY DEF FreeRaises, threadVars, cameraVars
<1>5. Step' = Step /\ Parts' = Parts
  BY <1>4, SameStep
<1>6. left' = <<>> /\ todo' \in [Callers -> Seq(Step)]
  <2>1. left \in Seq(Step)
    BY <1>1, CallerFacts
  <2>2. Last(left) # <<"set", "RUNNING">>
    <3> DEFINE n == Len(left)
    <3>1. n \in DOMAIN left
      BY <1>3, <2>1
    <3>2. Last(left) \in Range(left)
      BY <3>1 DEF Last, Range
    <3>3. <<"set", "RUNNING">>[1] = "set" /\ <<"set", "RUNNING">>[2] = "RUNNING"
      OBVIOUS
    <3> QED
      BY <1>3, <3>2, <3>3 DEF Starting, Has
  <2>3. todo' = [todo EXCEPT ![TheCaller] = <<>>]
    BY <1>2, <1>3, <2>2 DEF Raise, left
  <2>4. <<>> \in Seq(Step)
    OBVIOUS
  <2> QED
    BY <1>1, <2>3, <2>4, CallerFacts
<1>7. (\A o, y : ~Has(left', o, y)) /\ ~Starting(left') /\ ~Stopping(left')
  BY <1>6, NoSteps
<1>8. TypeOK'
  <2>1. failures' \in 0 .. MaxFailures
    BY <1>1, <1>2, ControllerAssumption DEF TypeOK
  <2>2. stuck' \subseteq Range(Parts)
    <3>1. UpTo(k) \subseteq Range(Parts)
      BY <1>1, UpToFacts DEF TypeOK
    <3> QED
      BY <1>1, <1>2, <3>1 DEF TypeOK
  <2>3. aborted' \in BOOLEAN
    BY <1>4
  <2> QED
    BY <1>1, <1>4, <1>5, <1>6, <2>1, <2>2, <2>3 DEF TypeOK
<1>9. Script'
  BY <1>6, <1>7, NoSteps DEF Script
<1>10. Threads'
  BY <1>1, <1>4, <1>7 DEF Threads, Counted, OneThread, OldTold
<1>11. Stops'
  BY <1>4, <1>6 DEF Stops
<1>12. Starts'
  BY <1>4, <1>7 DEF Starts, StartsPublisher, StartsAgain, StartsNew, StartsOrServes
<1>13. CameraInv'
  BY <1>1, <1>4, <1>5 DEF CameraInv, Opened, Told, Object
<1>14. SocketsInv'
  BY <1>1, <1>4 DEF SocketsInv, UsesOpenSockets
<1> QED
  BY <1>4, <1>6, <1>8, <1>9, <1>10, <1>11, <1>12, <1>13, <1>14 DEF ControllerInv

\* A socket is closed when the threads that use it have ended or were given up.
LEMMA CloseKeeps ==
  ASSUME OneCaller, ControllerInv, NEW c \in Callers, NEW x \in Services, Close(c, x)
  PROVE  ControllerInv' /\ SameCall
<1>1. TypeOK /\ Script /\ Threads /\ Stops /\ Starts /\ CameraInv /\ SocketsInv
  BY DEF ControllerInv
<1>2. At(c, <<"close", x>>) /\ Done(c) /\ "close" \in StopOps
  BY DEF Close, StopOps
<1>3. /\ x \in Socketed /\ Has(left, "close", x)
      /\ Stopping(left) /\ ~Starting(left) /\ Down /\ ~Up /\ left # <<>>
      /\ \A o : o \notin CameraOps /\ Has(left, o, x) => o = "close" \/ Rank("close") < Rank(o)
      /\ \A o : x = "publisher" /\ o \notin CameraOps => ~Has(left, o, "loop")
  <2>1. Fits(<<"close", x>>)
    BY <1>2, AtFacts
  <2> QED
    BY <1>2, <2>1, AtFacts, NotCamera DEF Fits
<1>4. /\ todo' \in [Callers -> Seq(Step)] /\ SameCall
      /\ Range(left') \subseteq Range(left)
      /\ \A o, y :
              (Has(left', o, y) <=> Has(left, o, y) /\ ~(o = "close" /\ y = x))
  BY <1>2, DoneFacts
<1>5. /\ socket' = [socket EXCEPT ![x] = "none"]
      /\ UNCHANGED <<state, reason, ref, count, alive, event, camera, held, phase,
                     outlived, crashed, aborted, stuck, calls, failures>>
  BY DEF Close, threadVars, cameraVars, historyVars
<1>6. Step' = Step /\ Parts' = Parts
  BY <1>5, SameStep
<1>7. /\ x \in Restartable => alive[x] \subseteq outlived[x]
      /\ x = "publisher" => alive["loop"] \subseteq outlived["loop"]
  <2>1. ~Has(left, "halt", x) /\ ~Has(left, "tell", x) /\ ~Has(left, "join", x)
    BY <1>3 DEF Rank, CameraOps
  <2>2. x = "publisher" =>
          ~Has(left, "halt", "loop") /\ ~Has(left, "tell", "loop") /\ ~Has(left, "join", "loop")
    BY <1>3, NotCamera
  <2> QED
    BY <1>1, <1>3, <2>1, <2>2 DEF Stops, Threaded, Fresh
<1>8. TypeOK'
  BY <1>1, <1>3, <1>4, <1>5, <1>6 DEF TypeOK
<1>9. Threads'
  BY <1>1, <1>3, <1>4, <1>5 DEF Threads, Counted, OneThread, OldTold, SameCall
<1>10. Stops'
  <2>1. \A y \in Threaded : Told(y)' = Told(y)
    BY <1>5 DEF Told, Object
  <2>2. \A y \in Socketed :
          \/ socket'[y] = "none" \/ Has(left', "close", y)
          \/ y \in Restartable /\ Has(left', "halt", y)
    <3>1. ASSUME NEW y \in Socketed, y # x
          PROVE  \/ socket'[y] = "none" \/ Has(left', "close", y)
                 \/ y \in Restartable /\ Has(left', "halt", y)
      BY <1>1, <1>3, <1>4, <1>5, <3>1 DEF Stops, TypeOK
    <3>2. socket'[x] = "none"
      BY <1>1, <1>3, <1>5 DEF TypeOK
    <3> QED
      BY <3>1, <3>2
  <2> QED
    BY <1>1, <1>3, <1>4, <1>5, <2>1, <2>2 DEF Stops
<1>11. Starts'
  BY <1>3, <1>4 DEF Starts, StartsPublisher, StartsAgain, StartsNew, StartsOrServes, SameCall
<1>12. CameraInv'
  BY <1>1, <1>5, <1>6 DEF CameraInv, Opened, Told, Object
<1>13. SocketsInv'
  BY <1>1, <1>3, <1>5, <1>7 DEF SocketsInv, UsesOpenSockets, TypeOK, Socketed, Restartable
<1> QED
  BY <1>4, <1>8, <1>9, <1>10, <1>11, <1>12, <1>13 DEF ControllerInv, SameCall

LEMMA DropKeeps ==
  ASSUME OneCaller, ControllerInv, NEW c \in Callers, NEW x \in Services, Drop(c, x)
  PROVE  ControllerInv' /\ SameCall
<1>1. TypeOK /\ Script /\ Threads /\ Stops /\ Starts /\ CameraInv /\ SocketsInv
  BY DEF ControllerInv
<1>2. At(c, <<"drop", x>>) /\ Done(c) /\ "drop" \in StopOps
  BY DEF Drop, StopOps
<1>3. /\ x \in Fresh /\ Has(left, "drop", x)
      /\ Stopping(left) /\ ~Starting(left) /\ Down /\ ~Up /\ left # <<>>
      /\ \A o : o \notin CameraOps /\ Has(left, o, x) => o = "drop" \/ Rank("drop") < Rank(o)
  <2>1. Fits(<<"drop", x>>)
    BY <1>2, AtFacts
  <2> QED
    BY <1>2, <2>1, AtFacts, NotCamera DEF Fits
<1>4. /\ todo' \in [Callers -> Seq(Step)] /\ SameCall
      /\ Range(left') \subseteq Range(left)
      /\ \A o, y :
              (Has(left', o, y) <=> Has(left, o, y) /\ ~(o = "drop" /\ y = x))
  BY <1>2, DoneFacts
<1>5. /\ ref' = [ref EXCEPT ![x] = 0]
      /\ UNCHANGED <<state, reason, socket, count, alive, event, camera, held, phase,
                     outlived, crashed, aborted, stuck, calls, failures>>
  BY DEF Drop, cameraVars, historyVars
<1>6. Step' = Step /\ Parts' = Parts
  BY <1>5, SameStep
<1>7. /\ alive[x] \subseteq outlived[x] /\ alive[x] \subseteq event[x]
      /\ ~Has(left, "tell", x) /\ ~Has(left, "join", x)
  <2>1. ~Has(left, "halt", x) /\ ~Has(left, "tell", x) /\ ~Has(left, "join", x)
    BY <1>3 DEF Rank, CameraOps
  <2>2. alive[x] \subseteq outlived[x] /\ alive[x] \subseteq Told(x)
    BY <1>1, <1>3, <2>1 DEF Stops, Threaded
  <2>3. Told(x) \subseteq event[x]
    BY <1>3 DEF Told, Object, Fresh, Restartable
  <2> QED
    BY <2>1, <2>2, <2>3
<1>8. CameraInv' /\ SocketsInv'
  BY <1>1, <1>5, <1>6 DEF CameraInv, Opened, Told, Object, SocketsInv, UsesOpenSockets
<1>9. TypeOK'
  BY <1>1, <1>3, <1>4, <1>5, <1>6, ControllerAssumption DEF TypeOK, Threaded
<1>10. Threads'
  <2>1. x \in Threaded /\ x \notin Restartable /\ count[x] \in Nat
    BY <1>1, <1>3, ControllerAssumption DEF TypeOK, Threaded, Restartable, Fresh
  <2>2. ref \in [Threaded -> 0 .. MaxCalls] /\ ref'[x] = 0
        /\ \A y \in Threaded : y # x => ref'[y] = ref[y]
    BY <1>1, <1>5, <2>1 DEF TypeOK
  <2>3. ~Starting(left')
    BY <1>3, <1>4 DEF SameCall
  <2>4. Counted(x)' /\ OldTold(x)'
    BY <1>1, <1>3, <1>5, <1>7, <2>1, <2>2, <2>3 DEF Threads, Counted, OldTold
  <2>5. \A y \in Threaded : y # x => Counted(y)' /\ (y \in Restartable => OneThread(y)')
                                     /\ (y \in Fresh => OldTold(y)')
    BY <1>1, <1>5, <2>2, <2>3 DEF Threads, Counted, OneThread, OldTold
  <2> QED
    BY <2>1, <2>4, <2>5 DEF Threads, Threaded, Restartable, Fresh
<1>11. Stops'
  <2>1. \A y \in Threaded : Told(y)' = Told(y)
    BY <1>5 DEF Told, Object
  <2>2. \A s \in Range(left') : s[1] = "join" => s[3] = ref'[s[2]]
    <3>1. ASSUME NEW s \in Range(left'), s[1] = "join"
          PROVE  s[2] # x /\ s[2] \in Threaded /\ s[3] = ref[s[2]]
      <4>1. s \in Range(left)
        BY <1>4
      <4>2. Has(left, "join", s[2])
        BY <3>1, <4>1 DEF Has
      <4>3. s[3] = ref[s[2]]
        BY <1>1, <1>3, <3>1, <4>1 DEF Stops
      <4>4. Fits(s)
        BY <1>1, <4>1 DEF Script
      <4> QED
        BY <1>7, <3>1, <4>2, <4>3, <4>4 DEF Fits
    <3> QED
      BY <1>1, <1>5, <3>1 DEF TypeOK
  <2>3. \A y \in Fresh :
          /\ ref'[y] = 0 \/ Has(left', "halt", y) \/ Has(left', "drop", y)
          /\ Has(left', "tell", y) => ref'[y] # 0
    <3>1. ASSUME NEW y \in Fresh, y # x
          PROVE  /\ ref'[y] = 0 \/ Has(left', "halt", y) \/ Has(left', "drop", y)
                 /\ Has(left', "tell", y) => ref'[y] # 0
      BY <1>1, <1>3, <1>4, <1>5, <3>1 DEF Stops, TypeOK, Threaded
    <3>2. ref'[x] = 0
      BY <1>1, <1>3, <1>5 DEF TypeOK, Threaded
    <3> QED
      BY <1>4, <1>7, <3>1, <3>2
  <2> QED
    BY <1>1, <1>3, <1>4, <1>5, <2>1, <2>2, <2>3 DEF Stops
<1>12. Starts'
  BY <1>3, <1>4 DEF Starts, StartsPublisher, StartsAgain, StartsNew, StartsOrServes, SameCall
<1> QED
  BY <1>4, <1>8, <1>9, <1>10, <1>11, <1>12 DEF ControllerInv, SameCall

\* Only the first and the last step of a call set the state.
LEMMA SetStateKeeps ==
  ASSUME OneCaller, ControllerInv, NEW c \in Callers, NEW s \in States, SetState(c, s)
  PROVE  /\ ControllerInv' /\ (Up' <=> Up) /\ (Down' <=> Down)
         /\ Starting(left') => state' # "RUNNING"
         /\ state' = s /\ (s # "STARTING" => left' = <<>>)
         /\ aborted' = (aborted /\ s \notin {"STOPPED", "ERROR"})
<1>1. TypeOK /\ Script /\ Threads /\ Stops /\ Starts /\ CameraInv /\ SocketsInv
  BY DEF ControllerInv
<1> DEFINE h == <<"set", s>>
<1>2. h[1] = "set" /\ h[2] = s
  OBVIOUS
<1>3. c = TheCaller /\ left # <<>> /\ Head(left) = h /\ left \in Seq(Step)
  BY <1>1, CallerFacts DEF SetState, At, left, OneCaller
<1> HIDE DEF h
<1>4. todo' = [todo EXCEPT ![TheCaller] = Tail(left)]
  BY <1>3 DEF SetState, Done, left
<1>5. Tail(left) \in Seq(Step) /\ Range(left) = {h} \union Range(Tail(left))
  BY <1>3, SequenceFacts
<1>6. left' = Tail(left) /\ todo' \in [Callers -> Seq(Step)]
  BY <1>1, <1>4, <1>5, CallerFacts
<1>7. /\ Sorted(Tail(left))
      /\ \A b \in Range(Tail(left)) : Earlier(h, b)
      /\ \A o, y :
           (Has(Tail(left), o, y) <=> Has(left, o, y) /\ ~(o = "set" /\ y = s))
  BY <1>1, <1>2, <1>3, FirstDone DEF Script
<1>8. /\ state' = s /\ reason' \in BOOLEAN
      /\ UNCHANGED <<socket, ref, count, alive, event, camera, held, phase,
                     outlived, crashed, stuck, calls, failures>>
      /\ aborted' = (aborted /\ s \notin {"STOPPED", "ERROR"})
  BY <1>1 DEF SetState, threadVars, cameraVars, historyVars, TypeOK
<1>9. Step' = Step /\ Parts' = Parts
  BY <1>8, SameStep
<1>10. CameraInv'
  BY <1>1, <1>8, <1>9 DEF CameraInv, Opened, Told, Object
<1>11. TypeOK'
  <2>1. aborted' \in BOOLEAN
    BY <1>1, <1>8 DEF TypeOK
  <2> QED
    BY <1>1, <1>6, <1>8, <1>9, <2>1 DEF TypeOK
<1>12. \A y \in Threaded : Told(y)' = Told(y) /\ (Serves(y)' <=> Serves(y))
  BY <1>8 DEF Told, Object, Serves
<1>13. CASE s = "STARTING"
  <2>1. ~Stopping(left)
    <3>1. Stopping(left) => h[1] \in StopOps \/ s \in {"STOPPED", "ERROR"}
      BY <1>1, <1>2, <1>5 DEF Script, Only
    <3> QED
      BY <1>2, <1>13, <3>1 DEF StopOps
  <2>2. Starting(left) /\ Up /\ ~Down
    BY <1>1, <1>3, <2>1 DEF Script, Up, Down
  <2>3. Starting(left') /\ ~Stopping(left')
    BY <1>6, <1>7, <1>13, <2>1, <2>2 DEF Starting, Stopping
  <2>4. left' # <<>> /\ Up' /\ ~Down'
    BY <2>3, NoSteps DEF Up, Down
  <2>5. Script'
    BY <1>1, <1>5, <1>6, <1>7, <2>2, <2>3, <2>4 DEF Script, Only
  <2>6. \A o, y : o # "set" => (Has(left', o, y) <=> Has(left, o, y))
    BY <1>6, <1>7
  <2>7. Threads'
    BY <1>1, <1>8, <2>2, <2>6 DEF Threads, Counted, OneThread, OldTold
  <2>8. Stops'
    BY <2>4 DEF Stops
  <2>9. Starts'
    BY <1>1, <1>8, <1>12, <1>13, <2>2, <2>6 DEF Starts, StartsPublisher, StartsAgain, StartsNew, StartsOrServes, Launching
  <2>10. SocketsInv'
    BY <1>1, <1>8, <1>13 DEF SocketsInv, UsesOpenSockets
  <2> QED
    BY <1>8, <1>10, <1>11, <1>13, <2>2, <2>4, <2>5, <2>7, <2>8, <2>9, <2>10 DEF ControllerInv
<1>14. CASE s # "STARTING"
  <2>1. Range(Tail(left)) = {}
    BY <1>2, <1>7, <1>14 DEF Earlier
  <2>2. left' = <<>>
    <3> DEFINE u == Tail(left)
    <3>1. u \in Seq(Step) /\ Range(u) = {} /\ left' = u
      BY <1>5, <1>6, <2>1
    <3> HIDE DEF u
    <3>2. DOMAIN u = {}
      BY <3>1 DEF Range
    <3> QED
      BY <3>1, <3>2
  <2>3. Range(left) = {h}
    BY <1>5, <2>1
  <2>4. /\ \A o, y : Has(left, o, y) => o = "set" /\ y = s
        /\ \A b \in Range(left) : b[1] = "set"
    BY <1>2, <2>3 DEF Has
  <2>5. \A o, y : ~Has(left', o, y)
    BY <2>2, NoSteps
  <2>6. Script' /\ ~Starting(left')
    BY <1>8, <1>14, <2>2, NoSteps DEF Script
  <2>7. (Up' <=> Up) /\ (Down' <=> Down)
    <3>1. Starting(left) \/ Stopping(left)
      BY <1>1, <1>3 DEF Script
    <3>2. /\ Starting(left) => s = "RUNNING"
          /\ Stopping(left) => s # "RUNNING"
      BY <2>4 DEF Starting, Stopping
    <3>3. (Up' <=> s = "RUNNING") /\ (Down' <=> s # "RUNNING")
      BY <1>8, <2>2, NoSteps DEF Up, Down
    <3> QED
      BY <1>3, <3>1, <3>2, <3>3 DEF Up, Down
  <2>8. Threads'
    BY <1>1, <1>8, <2>6 DEF Threads, Counted, OneThread, OldTold
  <2>9. Stops'
    <3>1. Range(left') = {}
      BY <2>2, NoSteps
    <3> QED
      BY <1>1, <1>3, <1>8, <1>12, <2>4, <2>5, <2>7, <3>1 DEF Stops
  <2>10. Starts'
    <3>1. Up' => s = "RUNNING"
      BY <1>8, <2>6 DEF Up
    <3>2. s = "RUNNING" => aborted' = aborted
      BY <1>1, <1>8 DEF TypeOK
    <3> QED
      BY <1>1, <1>8, <1>12, <2>4, <2>5, <2>7, <3>1, <3>2 DEF Starts, StartsPublisher, StartsAgain, StartsNew, StartsOrServes, Launching
  <2>11. SocketsInv'
    <3>1. CASE s = "RUNNING"
      BY <1>1, <1>8, <3>1 DEF SocketsInv, UsesOpenSockets
    <3>2. CASE s # "RUNNING"
      <4>1. Down
        BY <1>8, <2>2, <2>7, <3>2 DEF Down
      <4>2. alive["loop"] \subseteq outlived["loop"]
        BY <1>1, <1>3, <2>4, <4>1 DEF Stops, Threaded, Fresh
      <4> QED
        BY <1>1, <1>8, <4>2 DEF SocketsInv, UsesOpenSockets
    <3> QED
      BY <3>1, <3>2
  <2> QED
    BY <1>8, <1>10, <1>11, <2>2, <2>6, <2>7, <2>8, <2>9, <2>10, <2>11 DEF ControllerInv
<1> QED
  BY <1>13, <1>14

LEMMA StartKeeps ==
  ASSUME OneCaller, ControllerInv, NEW c \in Callers, Start(c)
  PROVE  ControllerInv'
<1>1. TypeOK /\ Script /\ Threads /\ Stops /\ Starts /\ CameraInv /\ SocketsInv
  BY DEF ControllerInv
<1>2. c = TheCaller /\ left = <<>> /\ state # "RUNNING"
  BY DEF Start, Call, left, OneCaller
<1>3. /\ calls < MaxCalls /\ calls' = calls + 1
      /\ UNCHANGED <<state, reason, socket, ref, count, alive, event, camera, held, phase,
                     outlived, crashed, aborted, stuck, failures>>
  BY DEF Start, Call, threadVars, cameraVars, historyVars
<1>4. Step' = Step /\ Parts' = Parts
  BY <1>3, SameStep
<1>5. left' = StartSteps /\ todo' \in [Callers -> Seq(Step)]
  BY <1>1, <1>2, CallerFacts, StartFacts DEF Start, Call
<1>6. /\ \A o, y : ~Has(left, o, y)
      /\ Down
  BY <1>2, NoSteps DEF Down
<1>7. \A s \in Range(left') :
        /\ s = <<"set", "STARTING">> \/ s = <<"set", "RUNNING">> \/ s[1] = "test"
        /\ s[1] = "set" => s[2] \in {"STARTING", "RUNNING"}
        /\ s[1] \in {"set", "test"}
        /\ Fits(s)
  BY <1>5, StartFacts DEF Fits
<1>8. /\ Starting(left')
      /\ \A x \in Services : Has(left', "test", x)
  <2>1. /\ <<"set", "RUNNING">> \in Range(left')
        /\ \A x \in Services : <<"test", x>> \in Range(left')
    BY <1>5, StartFacts
  <2>2. \A a, b : <<a, b>>[1] = a /\ <<a, b>>[2] = b
    OBVIOUS
  <2> QED
    BY <2>1, <2>2, Zenon DEF Starting, Has
<1>9. ~Stopping(left') /\ \A o, y : Has(left', o, y) => o \in {"set", "test"}
  BY <1>7 DEF Stopping, Has
<1>10. Only(left', StartOps, {"STARTING", "RUNNING"})
  BY <1>7 DEF Only, StartOps
<1>11. Script'
  BY <1>5, <1>7, <1>8, <1>9, <1>10, StartFacts, NoSteps DEF Script
<1>12. ~Down'
  BY <1>8, <1>9, NoSteps DEF Down
<1>13. TypeOK'
  BY <1>1, <1>3, <1>4, <1>5, ControllerAssumption DEF TypeOK
<1>14. Threads'
  <2>1. \A x \in Threaded : count[x] \in Nat /\ calls \in Nat
    BY <1>1, ControllerAssumption DEF TypeOK
  <2>2. \A x \in Threaded : count[x] <= calls /\ count[x] < calls'
    BY <1>1, <1>3, <2>1 DEF Threads, Counted, OneThread, OldTold
  <2>3. \A x \in Restartable : ~Has(left', "spawn", x)
    BY <1>9
  <2> QED
    BY <1>1, <1>3, <2>1, <2>2, <2>3 DEF Threads, Counted, OneThread, OldTold, Threaded
<1>15. Stops'
  BY <1>12 DEF Stops
<1>16. Starts'
  BY <1>1, <1>3, <1>6, <1>8, <1>9, ServiceNames DEF Stops, Starts, StartsPublisher, StartsAgain, StartsNew, StartsOrServes, Restartable, Fresh
<1>17. CameraInv' /\ SocketsInv'
  BY <1>1, <1>3, <1>4 DEF CameraInv, Opened, Told, Object, SocketsInv, UsesOpenSockets
<1> QED
  BY <1>11, <1>13, <1>14, <1>15, <1>16, <1>17 DEF ControllerInv

LEMMA StopKeeps ==
  ASSUME OneCaller, ControllerInv, NEW c \in Callers, Stop(c)
  PROVE  ControllerInv' /\ Down'
<1>1. TypeOK /\ Script /\ Threads /\ Stops /\ Starts /\ CameraInv /\ SocketsInv
  BY DEF ControllerInv
<1>2. c = TheCaller
  BY DEF OneCaller
<1>3. /\ calls < MaxCalls /\ calls' = calls + 1
      /\ UNCHANGED <<state, reason, socket, ref, count, alive, event, camera, held, phase,
                     outlived, crashed, aborted, stuck, failures>>
  BY DEF Stop, Call, threadVars, cameraVars, historyVars
<1>4. Step' = Step /\ Parts' = Parts
  BY <1>3, SameStep
<1>5. left' = StopSteps /\ todo' \in [Callers -> Seq(Step)]
  BY <1>1, <1>2, CallerFacts, StopFacts DEF Stop, Call
<1>6. Script' /\ Stops' /\ Starts' /\ ~Starting(left') /\ Down'
  BY <1>5, StopFacts, StopsAnew
<1>7. TypeOK'
  BY <1>1, <1>3, <1>4, <1>5, ControllerAssumption DEF TypeOK
<1>8. Threads'
  <2>1. \A x \in Threaded : count[x] \in Nat /\ calls \in Nat
    BY <1>1, ControllerAssumption DEF TypeOK
  <2>2. \A x \in Threaded : count[x] <= calls'
    BY <1>1, <1>3, <2>1 DEF Threads, Counted, OneThread, OldTold
  <2> QED
    BY <1>1, <1>3, <1>6, <2>2 DEF Threads, Counted, OneThread, OldTold
<1>9. CameraInv' /\ SocketsInv'
  BY <1>1, <1>3, <1>4 DEF CameraInv, Opened, Told, Object, SocketsInv, UsesOpenSockets
<1> QED
  BY <1>6, <1>7, <1>8, <1>9 DEF ControllerInv

\* A step of a thread leaves the call alone; a thread that ends was told to, was given up
\* or has failed.
LEMMA ThreadKeeps ==
  ASSUME OneCaller, ControllerInv,
         UNCHANGED <<state, reason, todo, socket, ref, count, event, camera, outlived, aborted,
                     calls>>,
         failures' \in 0 .. MaxFailures, stuck' \subseteq Range(Parts),
         alive' \in [Threaded -> SUBSET Ids],
         \A x \in Threaded : alive'[x] \subseteq alive[x],
         crashed \subseteq crashed', crashed' \subseteq Ids,
         \A x \in Threaded : \A i \in alive[x] \ alive'[x] :
           i \in Told(x) \/ i \in outlived[x] \/ (x = "source" /\ i \in crashed'),
         held' \subseteq Range(Parts),
         phase' \in [Ids -> ({"open", "close", "free", "forget"} \X (DOMAIN Parts \union {1}))
                              \union {<<"read", 0>>}],
         CameraInv'
  PROVE  ControllerInv'
<1>1. TypeOK /\ Script /\ Threads /\ Stops /\ Starts /\ CameraInv /\ SocketsInv
  BY DEF ControllerInv
<1>2. /\ Step' = Step /\ Parts' = Parts /\ left' = left
      /\ \A x \in Threaded : Told(x)' = Told(x)
  BY SameStep DEF left, Told, Object
<1>3. TypeOK'
  BY <1>1, <1>2 DEF TypeOK
<1>4. Script' /\ (Up' <=> Up) /\ (Down' <=> Down)
  BY <1>1, <1>2 DEF Script, Up, Down
<1>5. Threads'
  BY <1>1, <1>2 DEF Threads, Counted, OneThread, OldTold, Threaded
<1>6. Stops'
  BY <1>1, <1>2, <1>4 DEF Stops
<1>7. Starts'
  <2>1. ASSUME NEW x \in Threaded, Serves(x)
        PROVE  Serves(x)'
    BY <1>2, <2>1 DEF Serves
  <2>2. /\ alive'["loop"] \subseteq alive["loop"]
        /\ \A x \in Restartable : alive'[x] \subseteq alive[x]
    BY DEF Threaded, Fresh
  <2>3. Up => \A x \in Threaded : (Has(left, "test", x) \/ Launching(x) \/ Serves(x) \/ aborted)'
    BY <1>1, <1>2, <2>1 DEF Starts, StartsPublisher, StartsAgain, StartsNew, StartsOrServes, Launching
  <2>4. Up => \A x \in Restartable :
          /\ Has(left, "test", x) /\ ~aborted => alive'[x] \subseteq outlived[x]
          /\ Has(left, "spawn", x) => alive'[x] = {}
    BY <1>1, <2>2 DEF Starts, StartsPublisher, StartsAgain, StartsNew, StartsOrServes
  <2> QED
    BY <1>1, <1>2, <1>4, <2>2, <2>3, <2>4 DEF Starts, StartsPublisher, StartsAgain, StartsNew, StartsOrServes
<1>8. SocketsInv'
  BY <1>1 DEF SocketsInv, UsesOpenSockets, Threaded, Restartable, Fresh
<1> QED
  BY <1>3, <1>4, <1>5, <1>6, <1>7, <1>8 DEF ControllerInv

LEMMA ThreadEndsKeeps ==
  ASSUME OneCaller, ControllerInv, NEW x \in Threaded, ThreadEnds(x)
  PROVE  ControllerInv'
<1>1. TypeOK /\ CameraInv
  BY DEF ControllerInv
<1>2. PICK i \in alive[x] \intersect Told(x) : alive' = [alive EXCEPT ![x] = @ \ {i}]
  BY DEF ThreadEnds
<1>3. /\ x # "source" \/ camera = "scada_zmq"
      /\ UNCHANGED <<state, reason, todo, socket, ref, count, event, camera, held, phase,
                     outlived, crashed, aborted, stuck, calls, failures>>
  BY DEF ThreadEnds, cameraVars, historyVars
<1>4. /\ alive' \in [Threaded -> SUBSET Ids]
      /\ \A y \in Threaded : alive'[y] \subseteq alive[y]
      /\ \A y \in Threaded : \A j \in alive[y] \ alive'[y] : j \in Told(y)
      /\ x # "source" => alive'["source"] = alive["source"]
  BY <1>1, <1>2 DEF TypeOK, Threaded, Restartable
<1>5. CameraInv'
  <2>1. Parts' = Parts /\ Told("source")' = Told("source")
    BY <1>3, SameStep DEF Told, Object
  <2>2. CASE x # "source"
    BY <1>1, <1>3, <1>4, <2>1, <2>2 DEF CameraInv, Opened
  <2>3. CASE camera = "scada_zmq"
    <3>1. \A j \in Ids : phase[j] = <<"open", 1>>
      BY <1>1, <2>3 DEF CameraInv
    <3>2. alive'["source"] \subseteq alive["source"] /\ alive["source"] \subseteq Ids
      BY <1>1, <1>4 DEF TypeOK, Threaded, Restartable
    <3>3. Opened(1) = {}
      BY <1>1, PartsFacts DEF Opened, TypeOK
    <3> QED
      BY <1>3, <2>1, <3>1, <3>2, <3>3 DEF CameraInv, Opened
  <2> QED
    BY <1>3, <2>2, <2>3
<1> QED
  BY <1>1, <1>3, <1>4, <1>5, ThreadKeeps DEF TypeOK

LEMMA OpenedFacts ==
  ASSUME camera \in Cameras
  PROVE  /\ Opened(1) = {} /\ Opened(Len(Parts) + 1) = Range(Parts)
         /\ \A k \in DOMAIN Parts : Opened(k + 1) = Opened(k) \union {Parts[k]}
<1> DEFINE n == Len(Parts)
<1>1. DOMAIN Parts = 1 .. n /\ n \in Nat
  BY PartsFacts
<1> HIDE DEF n
<1>2. Opened(1) = {}
  BY <1>1 DEF Opened
<1>3. Opened(n + 1) = Range(Parts)
  BY <1>1 DEF Opened, Range
<1>4. \A k \in DOMAIN Parts : Opened(k + 1) = Opened(k) \union {Parts[k]}
  BY <1>1 DEF Opened
<1> QED
  BY <1>2, <1>3, <1>4 DEF n

\* What is known of a thread of the frame source that is at work: it is the only one.
LEMMA InFacts ==
  ASSUME ControllerInv, NEW i \in Ids, NEW name, In(i, name), name # "read"
  PROVE  /\ alive["source"] = {i} /\ camera # "scada_zmq"
         /\ phase[i] = <<name, phase[i][2]>> /\ phase[i][2] \in DOMAIN Parts
         /\ DOMAIN Parts = 1 .. Len(Parts) /\ Len(Parts) \in {1, 4}
<1>1. alive["source"] = {i} /\ camera # "scada_zmq" /\ phase[i][1] = name
  <2>1. i \in alive["source"] /\ alive["source"] \subseteq {ref["source"]}
    BY DEF In, ControllerInv, Threads, Counted, OneThread, OldTold, Restartable
  <2> QED
    BY <2>1 DEF In
<1>2. DOMAIN Parts = 1 .. Len(Parts) /\ Len(Parts) \in {1, 4}
  BY <1>1, PartsFacts DEF ControllerInv, TypeOK
<1>3. phase[i] \in ({"open", "close", "free", "forget"} \X (DOMAIN Parts \union {1})) \union {<<"read", 0>>}
  BY DEF ControllerInv, TypeOK
<1>4. phase[i] = <<name, phase[i][2]>> /\ phase[i][2] \in DOMAIN Parts
  BY <1>1, <1>2, <1>3
<1> QED
  BY <1>1, <1>2, <1>4

\* What CameraInv says of thread i.
Holds(i) ==
  /\ phase[i][1] \in {"close", "free", "forget"} =>
       i \in Told("source") \/ i \in outlived["source"] \/ i \in crashed
  /\ i \notin outlived["source"] =>
       /\ phase[i][1] = "open" => Opened(phase[i][2]) \subseteq held
       /\ phase[i][1] = "read" => Range(Parts) \subseteq held

LEMMA PhaseKeeps ==
  ASSUME OneCaller, ControllerInv, NEW i \in Ids, alive["source"] = {i},
         camera # "scada_zmq",
         NEW p \in ({"open", "close", "free", "forget"} \X (DOMAIN Parts \union {1})) \union {<<"read", 0>>},
         phase' = [phase EXCEPT ![i] = p],
         UNCHANGED <<state, reason, todo, socket, ref, count, alive, event, camera, outlived,
                     aborted, calls>>,
         failures' \in 0 .. MaxFailures, stuck' \subseteq Range(Parts),
         crashed \subseteq crashed', crashed' \subseteq Ids,
         held' \subseteq Range(Parts),
         Holds(i)'
  PROVE  ControllerInv'
<1>1. TypeOK /\ CameraInv
  BY DEF ControllerInv
<1>2. phase' \in [Ids -> ({"open", "close", "free", "forget"} \X (DOMAIN Parts \union {1}))
                           \union {<<"read", 0>>}]
  BY <1>1 DEF TypeOK
<1>3. phase'[i] = p /\ \A j \in Ids \ {i} : phase'[j] = phase[j]
  BY <1>1 DEF TypeOK
<1>4. CameraInv'
  BY <1>1, <1>3 DEF CameraInv, Holds
<1> QED
  BY <1>1, <1>2, <1>4, ThreadKeeps DEF TypeOK

\* The thread ends while it closes the camera.
LEMMA EndKeeps ==
  ASSUME OneCaller, ControllerInv, NEW i \in Ids, alive["source"] = {i},
         phase[i][1] \in {"close", "free", "forget"},
         phase' = [phase EXCEPT ![i] = <<"open", 1>>],
         alive' = [alive EXCEPT !["source"] = @ \ {i}],
         UNCHANGED <<state, reason, todo, socket, ref, count, event, camera, outlived, crashed,
                     aborted, calls>>,
         failures' \in 0 .. MaxFailures, stuck' \subseteq Range(Parts),
         held' \subseteq Range(Parts)
  PROVE  ControllerInv'
<1>1. TypeOK /\ CameraInv
  BY DEF ControllerInv
<1>2. /\ alive'["source"] = {} /\ alive' \in [Threaded -> SUBSET Ids]
      /\ \A x \in Threaded : alive'[x] \subseteq alive[x]
      /\ \A x \in Threaded : \A j \in alive[x] \ alive'[x] : x = "source" /\ j = i
  BY <1>1 DEF TypeOK, Threaded, Restartable
<1>3. i \in Told("source") \/ i \in outlived["source"] \/ i \in crashed
  BY <1>1 DEF CameraInv
<1>4. phase' \in [Ids -> ({"open", "close", "free", "forget"} \X (DOMAIN Parts \union {1}))
                           \union {<<"read", 0>>}]
  BY <1>1 DEF TypeOK
<1>5. \A j \in Ids : phase'[j] = <<"open", 1>>
  <2>1. phase'[i] = <<"open", 1>> /\ \A j \in Ids \ {i} : phase'[j] = phase[j]
    BY <1>1 DEF TypeOK
  <2>2. \A j \in Ids \ {i} : phase[j] = <<"open", 1>>
    BY <1>1 DEF CameraInv
  <2> QED
    BY <2>1, <2>2
<1>6. CameraInv'
  BY <1>2, <1>5 DEF CameraInv
<1>7. crashed' = crashed /\ crashed \subseteq Ids
  BY <1>1 DEF TypeOK
<1> HIDE DEF CameraInv
<1> QED
  BY <1>2, <1>3, <1>4, <1>6, <1>7, ThreadKeeps

\* The thread goes on closing the camera.
LEMMA ClosesOn ==
  ASSUME OneCaller, ControllerInv, NEW i \in Ids, alive["source"] = {i},
         camera # "scada_zmq",
         phase[i][1] \in {"close", "free", "forget"},
         NEW name \in {"close", "free", "forget"}, NEW k \in DOMAIN Parts,
         phase' = [phase EXCEPT ![i] = <<name, k>>],
         UNCHANGED <<state, reason, todo, socket, ref, count, alive, event, camera, outlived,
                     crashed, aborted, calls, failures>>,
         stuck' \subseteq Range(Parts), held' \subseteq Range(Parts)
  PROVE  ControllerInv'
<1> DEFINE p == <<name, k>>
<1>1. TypeOK /\ CameraInv
  BY DEF ControllerInv
<1>2. /\ p \in ({"open", "close", "free", "forget"} \X (DOMAIN Parts \union {1})) \union {<<"read", 0>>}
      /\ p[1] = name /\ phase' = [phase EXCEPT ![i] = p]
  OBVIOUS
<1> HIDE DEF p
<1>3. phase'[i] = p
  BY <1>1, <1>2 DEF TypeOK
<1>4. i \in Told("source") \/ i \in outlived["source"] \/ i \in crashed
  BY <1>1 DEF CameraInv
<1>5. Told("source")' = Told("source")
  BY DEF Told, Object
<1>6. name # "open" /\ name # "read"
  OBVIOUS
<1>7. Holds(i)'
  BY <1>2, <1>3, <1>4, <1>5, <1>6 DEF Holds
<1>8. crashed' = crashed /\ crashed \subseteq Ids /\ failures' \in 0 .. MaxFailures
  BY <1>1 DEF TypeOK
<1> QED
  BY <1>2, <1>7, <1>8, PhaseKeeps

LEMMA DescendKeeps ==
  ASSUME OneCaller, ControllerInv, NEW i \in Ids, alive["source"] = {i},
         camera # "scada_zmq",
         phase[i][1] \in {"close", "free", "forget"}, NEW k \in DOMAIN Parts, Descend(i, k),
         UNCHANGED <<state, reason, todo, socket, ref, count, event, camera, outlived,
                     crashed, aborted, calls, failures>>,
         stuck' \subseteq Range(Parts), held' \subseteq Range(Parts)
  PROVE  ControllerInv'
<1>1. failures' \in 0 .. MaxFailures /\ camera \in Cameras
  BY DEF ControllerInv, TypeOK
<1>2. CASE k = 1
  <2>1. /\ phase' = [phase EXCEPT ![i] = <<"open", 1>>]
        /\ alive' = [alive EXCEPT !["source"] = @ \ {i}]
    BY <1>2 DEF Descend
  <2> QED
    BY <1>1, <2>1, EndKeeps
<1>3. CASE k # 1
  <2>1. phase' = [phase EXCEPT ![i] = <<"close", k - 1>>] /\ alive' = alive
    BY <1>3 DEF Descend
  <2>2. k - 1 \in DOMAIN Parts
    BY <1>1, <1>3, PartsFacts
  <2> QED
    BY <2>1, <2>2, ClosesOn
<1> QED
  BY <1>2, <1>3

LEMMA OpenPartKeeps ==
  ASSUME OneCaller, ControllerInv, NEW i \in Ids, OpenPart(i)
  PROVE  ControllerInv'
<1> DEFINE k == phase[i][2]
           n == Len(Parts)
<1>1. TypeOK /\ CameraInv
  BY DEF ControllerInv
<1>2. /\ alive["source"] = {i} /\ camera # "scada_zmq"
      /\ phase[i] = <<"open", k>> /\ k \in 1 .. n
      /\ DOMAIN Parts = 1 .. n /\ n \in {1, 4}
  BY InFacts DEF OpenPart
<1>3. held' = held \union {Parts[k]} /\ stuck' = stuck \ {Parts[k]}
  BY DEF OpenPart
<1> DEFINE p == IF k > 2 /\ Parts[1] \notin held THEN <<"close", n>>
                ELSE IF k = n THEN <<"read", 0>>
                ELSE <<"open", k + 1>>
<1>4. phase' = [phase EXCEPT ![i] = p]
  BY DEF OpenPart
<1>5. UNCHANGED <<state, reason, todo, socket, ref, count, alive, event, camera, outlived,
                  crashed, aborted, calls, failures>>
  BY DEF OpenPart, threadVars
<1>6. p \in ({"open", "close", "free", "forget"} \X (DOMAIN Parts \union {1})) \union {<<"read", 0>>}
  BY <1>2
<1> HIDE DEF p
<1>7. phase'[i] = p
  BY <1>1, <1>4 DEF TypeOK
<1>8. i \notin outlived["source"] => Opened(k) \subseteq held
  BY <1>1, <1>2 DEF CameraInv
<1>9. /\ Opened(k + 1) = Opened(k) \union {Parts[k]}
      /\ Opened(n + 1) = Range(Parts)
      /\ held' \subseteq Range(Parts)
  BY <1>1, <1>2, <1>3, OpenedFacts DEF TypeOK, Range
<1>10. k > 2 => Parts[1] \in Opened(k)
  BY <1>2 DEF Opened
<1>11. Parts' = Parts /\ \A j : Opened(j)' = Opened(j)
  BY <1>5, SameStep DEF Opened
<1>12. Holds(i)'
  <2>1. CASE p = <<"close", n>> /\ k > 2 /\ Parts[1] \notin held
    <3>1. i \in outlived["source"]
      BY <1>8, <1>10, <2>1
    <3>2. phase'[i][1] = "close"
      BY <1>7, <2>1
    <3> QED
      BY <1>5, <3>1, <3>2 DEF Holds
  <2>2. CASE p = <<"read", 0>> /\ k = n
    <3>1. phase'[i][1] = "read"
      BY <1>7, <2>2
    <3> QED
      BY <1>3, <1>5, <1>8, <1>9, <1>11, <2>2, <3>1 DEF Holds
  <2>3. CASE p = <<"open", k + 1>>
    <3>1. phase'[i][1] = "open" /\ phase'[i][2] = k + 1
      BY <1>7, <2>3
    <3> QED
      BY <1>3, <1>5, <1>8, <1>9, <1>11, <3>1 DEF Holds
  <2> QED
    BY <2>1, <2>2, <2>3 DEF p
<1>13. /\ crashed' = crashed /\ crashed \subseteq Ids /\ failures' \in 0 .. MaxFailures
       /\ stuck' \subseteq Range(Parts)
  BY <1>1, <1>3, <1>5 DEF TypeOK
<1> HIDE DEF k, n
<1> QED
  BY <1>2, <1>4, <1>5, <1>6, <1>9, <1>12, <1>13, PhaseKeeps

\* The thread turns to closing the camera: it was told to stop, was given up or has failed.
LEMMA TurnKeeps ==
  ASSUME OneCaller, ControllerInv, NEW i \in Ids, alive["source"] = {i},
         camera # "scada_zmq",
         phase' = [phase EXCEPT ![i] = <<"close", Len(Parts)>>],
         UNCHANGED <<state, reason, todo, socket, ref, count, alive, event, camera, held,
                     outlived, aborted, stuck, calls, failures>>,
         crashed \subseteq crashed', crashed' \subseteq Ids,
         i \in Told("source") \/ i \in outlived["source"] \/ i \in crashed'
  PROVE  ControllerInv'
<1> DEFINE p == <<"close", Len(Parts)>>
<1>1. TypeOK
  BY DEF ControllerInv
<1>2. p \in ({"open", "close", "free", "forget"} \X (DOMAIN Parts \union {1})) \union {<<"read", 0>>}
  BY <1>1, PartsFacts DEF TypeOK
<1>3. p[1] = "close" /\ p[2] = Len(Parts)
  OBVIOUS
<1>4. phase' = [phase EXCEPT ![i] = p]
  OBVIOUS
<1> HIDE DEF p
<1>5. phase'[i] = p
  BY <1>1, <1>4 DEF TypeOK
<1>6. /\ held' \subseteq Range(Parts) /\ stuck' \subseteq Range(Parts)
      /\ failures' \in 0 .. MaxFailures
  BY <1>1 DEF TypeOK
<1>7. Holds(i)'
  <2>1. Told("source")' = Told("source")
    BY DEF Told, Object
  <2> QED
    BY <1>3, <1>5, <2>1 DEF Holds
<1> QED
  BY <1>2, <1>4, <1>6, <1>7, PhaseKeeps

LEMMA OpenRaisesKeeps ==
  ASSUME OneCaller, ControllerInv, NEW i \in Ids, OpenRaises(i)
  PROVE  ControllerInv'
<1> DEFINE k == phase[i][2]
<1>1. TypeOK /\ CameraInv
  BY DEF ControllerInv
<1>2. /\ alive["source"] = {i} /\ camera # "scada_zmq"
      /\ phase[i] = <<"open", k>> /\ k \in DOMAIN Parts
      /\ DOMAIN Parts = 1 .. Len(Parts) /\ Len(Parts) \in {1, 4}
  BY InFacts DEF OpenRaises
<1>3. Maker(k) \subseteq Opened(k)
  BY <1>2 DEF Maker, Opened
<1>4. i \in outlived["source"]
  BY <1>1, <1>2, <1>3 DEF CameraInv, OpenRaises
<1>5. /\ phase' = [phase EXCEPT ![i] = <<"close", Len(Parts)>>]
      /\ UNCHANGED <<state, reason, todo, socket, ref, count, alive, event, camera, held,
                     outlived, crashed, aborted, stuck, calls, failures>>
  BY DEF OpenRaises, threadVars, historyVars
<1> QED
  BY <1>1, <1>2, <1>4, <1>5, TurnKeeps DEF TypeOK

LEMMA LeaveLoopKeeps ==
  ASSUME OneCaller, ControllerInv, NEW i \in Ids, LeaveLoop(i)
  PROVE  ControllerInv'
<1>1. alive["source"] = {i} /\ camera # "scada_zmq" /\ i \in Told("source")
  BY DEF LeaveLoop, In, ControllerInv, Threads, Counted, OneThread, OldTold, Restartable
<1>2. /\ phase' = [phase EXCEPT ![i] = <<"close", Len(Parts)>>]
      /\ UNCHANGED <<state, reason, todo, socket, ref, count, alive, event, camera, held,
                     outlived, crashed, aborted, stuck, calls, failures>>
  BY DEF LeaveLoop, threadVars, historyVars
<1> QED
  BY <1>1, <1>2, TurnKeeps DEF ControllerInv, TypeOK

LEMMA CameraFailsKeeps ==
  ASSUME OneCaller, ControllerInv, NEW i \in Ids, CameraFails(i)
  PROVE  ControllerInv'
<1>1. alive["source"] = {i} /\ camera # "scada_zmq"
  BY DEF CameraFails, In, ControllerInv, Threads, Counted, OneThread, OldTold, Restartable
<1>2. /\ phase' = [phase EXCEPT ![i] = <<"close", Len(Parts)>>]
      /\ crashed' = crashed \union {i}
      /\ UNCHANGED <<state, reason, todo, socket, ref, count, alive, event, camera, held,
                     outlived, aborted, stuck, calls, failures>>
  BY DEF CameraFails, threadVars
<1> QED
  BY <1>1, <1>2, TurnKeeps DEF ControllerInv, TypeOK

LEMMA ClosePartKeeps ==
  ASSUME OneCaller, ControllerInv, NEW i \in Ids, ClosePart(i)
  PROVE  ControllerInv'
<1> DEFINE k == phase[i][2]
<1>1. /\ alive["source"] = {i} /\ camera # "scada_zmq"
      /\ phase[i][1] = "close" /\ k \in DOMAIN Parts
  BY InFacts DEF ClosePart, In
<1>2. UNCHANGED <<state, reason, todo, socket, ref, count, event, camera, held,
                  outlived, crashed, aborted, stuck, calls, failures>>
  BY DEF ClosePart, historyVars
<1>3. held' \subseteq Range(Parts) /\ stuck' \subseteq Range(Parts)
  BY <1>2 DEF ControllerInv, TypeOK
<1>4. (phase' = [phase EXCEPT ![i] = <<"free", k>>] /\ alive' = alive) \/ Descend(i, k)
  BY DEF ClosePart
<1> HIDE DEF k
<1> QED
  BY <1>1, <1>2, <1>3, <1>4, ClosesOn, DescendKeeps

LEMMA FreePartKeeps ==
  ASSUME OneCaller, ControllerInv, NEW i \in Ids, FreePart(i)
  PROVE  ControllerInv'
<1> DEFINE k == phase[i][2]
<1>1. /\ alive["source"] = {i} /\ camera # "scada_zmq"
      /\ phase[i][1] = "free" /\ k \in DOMAIN Parts
  BY InFacts DEF FreePart, In
<1>2. UNCHANGED <<state, reason, todo, socket, ref, count, alive, event, camera, held,
                  outlived, crashed, aborted, stuck, calls, failures>>
  BY DEF FreePart, threadVars, historyVars
<1>3. held' \subseteq Range(Parts) /\ stuck' \subseteq Range(Parts)
  BY <1>2 DEF ControllerInv, TypeOK
<1>4. phase' = [phase EXCEPT ![i] = <<"forget", k>>]
  BY DEF FreePart
<1> HIDE DEF k
<1> QED
  BY <1>1, <1>2, <1>3, <1>4, ClosesOn

LEMMA FreePartRaisesKeeps ==
  ASSUME OneCaller, ControllerInv, NEW i \in Ids, FreePartRaises(i)
  PROVE  ControllerInv'
<1> DEFINE k == phase[i][2]
<1>1. /\ alive["source"] = {i} /\ phase[i][1] = "free" /\ k \in DOMAIN Parts
  BY InFacts DEF FreePartRaises, In
<1>2. UNCHANGED <<state, reason, todo, socket, ref, count, event, camera, held,
                  outlived, crashed, aborted, calls>>
  BY DEF FreePartRaises
<1>3. /\ failures' = failures \/ (failures < MaxFailures /\ failures' = failures + 1)
      /\ stuck' = stuck \/ stuck' = stuck \union UpTo(k)
      /\ phase' = [phase EXCEPT ![i] = <<"open", 1>>]
      /\ alive' = [alive EXCEPT !["source"] = @ \ {i}]
  BY DEF FreePartRaises
<1>4. failures' \in 0 .. MaxFailures
  BY <1>3, ControllerAssumption DEF ControllerInv, TypeOK
<1>5. held' \subseteq Range(Parts) /\ stuck' \subseteq Range(Parts)
  BY <1>1, <1>2, <1>3, UpToFacts DEF ControllerInv, TypeOK
<1> HIDE DEF k
<1> QED
  BY <1>1, <1>2, <1>3, <1>4, <1>5, EndKeeps

LEMMA ForgetPartKeeps ==
  ASSUME OneCaller, ControllerInv, NEW i \in Ids, ForgetPart(i)
  PROVE  ControllerInv'
<1> DEFINE k == phase[i][2]
<1>1. /\ alive["source"] = {i} /\ camera # "scada_zmq"
      /\ phase[i][1] = "forget" /\ k \in DOMAIN Parts
  BY InFacts DEF ForgetPart, In
<1>2. UNCHANGED <<state, reason, todo, socket, ref, count, event, camera,
                  outlived, crashed, aborted, calls, failures>>
  BY DEF ForgetPart
<1>3. held' \subseteq Range(Parts) /\ stuck' \subseteq Range(Parts) /\ Descend(i, k)
  BY DEF ForgetPart, ControllerInv, TypeOK
<1> HIDE DEF k
<1> QED
  BY <1>1, <1>2, <1>3, DescendKeeps

LEMMA InitHolds ==
  ASSUME OneCaller, Init
  PROVE  ControllerInv
<1>1. left = <<>>
  BY DEF Init, left, OneCaller
<1>2. camera \in Cameras
  BY DEF Init
<1>3. TypeOK
  <2>1. /\ state \in States /\ reason \in BOOLEAN /\ held \subseteq Range(Parts)
        /\ socket \in [Socketed -> {"none", "open", "bound"}]
    BY DEF Init, States
  <2>6. aborted \in BOOLEAN /\ stuck \subseteq Range(Parts)
    BY DEF Init
  <2>2. todo \in [Callers -> Seq(Step)]
    BY DEF Init
  <2>3. /\ ref \in [Threaded -> 0 .. MaxCalls] /\ count \in [Threaded -> 0 .. MaxCalls]
        /\ calls \in 0 .. MaxCalls /\ failures \in 0 .. MaxFailures
    BY ControllerAssumption DEF Init
  <2>4. /\ alive \in [Threaded -> SUBSET Ids] /\ outlived \in [Threaded -> SUBSET Ids]
        /\ event \in [Threaded -> SUBSET (Ids \union {0})] /\ crashed \subseteq Ids
        /\ \A x \in Threaded : event[x] = {}
    BY DEF Init
  <2>5. phase \in [Ids -> ({"open", "close", "free", "forget"} \X (DOMAIN Parts \union {1})) \union {<<"read", 0>>}]
    BY DEF Init
  <2> QED
    BY <1>2, <2>1, <2>2, <2>3, <2>4, <2>5, <2>6 DEF TypeOK
<1>4. Script
  BY <1>1, NoSteps DEF Init, Script
<1>5. Threads
  BY <1>1, NoSteps, ControllerAssumption DEF Init, Threads, Counted, OneThread, OldTold, Threaded
<1>6. Stops
  BY <1>1, NoSteps DEF Init, Stops, Threaded
<1>7. Starts
  BY <1>1, NoSteps DEF Init, Starts, StartsPublisher, StartsAgain, StartsNew, StartsOrServes, Up
<1>8. CameraInv
  BY DEF Init, CameraInv, Threaded, Restartable
<1>9. SocketsInv
  BY DEF Init, SocketsInv, UsesOpenSockets, Threaded, Restartable, Fresh
<1> QED
  BY <1>3, <1>4, <1>5, <1>6, <1>7, <1>8, <1>9 DEF ControllerInv

LEMMA NextKeeps ==
  ASSUME OneCaller, ControllerInv, [Next]_vars
  PROVE  ControllerInv'
<1>1. ASSUME NEW c \in Callers, CallStep(c)
      PROVE  ControllerInv'
  <2>1. ASSUME NEW x \in Threaded \union Socketed,
               \/ Test(c, x) \/ Clear(c, x) \/ Bind(c, x) \/ BindRaises(c, x)
               \/ Create(c, x) \/ Respawn(c, x) \/ Spawn(c, x)
               \/ HaltService(c, x) \/ HaltFresh(c, x) \/ Tell(c, x)
               \/ Join(c, x) \/ JoinTimesOut(c, x) \/ Close(c, x) \/ Drop(c, x)
        PROVE  ControllerInv'
    <3>1. x \in Services
      BY DEF Services
    <3> QED
      BY <2>1, <3>1, TestKeeps, ClearKeeps, BindKeeps, BindRaisesKeeps, CreateKeeps,
         RespawnKeeps, SpawnKeeps, HaltServiceKeeps, HaltFreshKeeps, TellKeeps, JoinKeeps,
         JoinTimesOutKeeps, CloseKeeps, DropKeeps
  <2> QED
    BY <1>1, <2>1, CreateRaisesKeeps, ReleaseKeeps, FreeKeeps, FreeRaisesKeeps, ForgetKeeps,
       SetStateKeeps DEF CallStep
<1>2. ASSUME NEW i \in Ids, SourceStep(i) \/ CameraFails(i)
      PROVE  ControllerInv'
  BY <1>2, OpenPartKeeps, OpenRaisesKeeps, LeaveLoopKeeps, ClosePartKeeps, FreePartKeeps,
     FreePartRaisesKeeps, ForgetPartKeeps, CameraFailsKeeps
     DEF SourceStep
<1>3. CASE UNCHANGED vars
  <2>1. UNCHANGED <<state, reason, todo, socket, ref, count, alive, event, camera, held,
                    phase, outlived, crashed, aborted, stuck, calls, failures>>
    BY <1>3 DEF vars, threadVars, cameraVars, historyVars
  <2>2. CameraInv'
    BY <2>1, SameStep DEF ControllerInv, CameraInv, Opened, Told, Object
  <2> QED
    BY <2>1, <2>2, ThreadKeeps DEF ControllerInv, TypeOK
<1> QED
  BY <1>1, <1>2, <1>3, StartKeeps, StopKeeps, ThreadEndsKeeps DEF Next, ThreadStep

--------------------------------------------------------------------------------
(* The theorems about one caller.  Nothing in the controller keeps two     *)
(* calls apart: with two, all of these but the first fail.                 *)

LEMMA Inductive ==
  ASSUME OneCaller
  PROVE  Spec => []ControllerInv
<1>1. Init => ControllerInv
  BY InitHolds
<1>2. ControllerInv /\ [Next]_vars => ControllerInv'
  BY NextKeeps
<1> QED
  BY <1>1, <1>2, PTL DEF Spec

\* Each variable of the controller, its services and their threads keeps to its type.
THEOREM TypeCorrect == OneCaller => (Spec => []TypeOK)
<1> SUFFICES ASSUME OneCaller PROVE Spec => []TypeOK
  OBVIOUS
<1>1. ControllerInv => TypeOK
  BY DEF ControllerInv
<1> QED
  BY <1>1, Inductive, PTL

LEMMA Sides ==
  ASSUME Script
  PROVE  (Up \/ Down) /\ ~(Up /\ Down)
<1>1. ~(Starting(left) /\ Stopping(left))
  <2> SUFFICES ASSUME Starting(left), Stopping(left) PROVE FALSE
    OBVIOUS
  <2>1. Only(left, StartOps, {"STARTING", "RUNNING"})
    BY DEF Script
  <2>2. PICK s \in Range(left) : s[1] = "set" /\ s[2] \in {"STOPPED", "ERROR"}
    BY DEF Stopping, Has
  <2>3. s[1] \in StartOps \/ s[2] \in {"STARTING", "RUNNING"}
    BY <2>1 DEF Only
  <2> QED
    BY <2>2, <2>3 DEF StartOps
<1>2. left = <<>> => ~Starting(left) /\ ~Stopping(left)
  BY NoSteps
<1> QED
  BY <1>1, <1>2 DEF Script, Up, Down

\* Nothing is left of the services but threads that were told to stop.
Clean ==
  /\ \A x \in Socketed : socket[x] = "none"
  /\ \A x \in Fresh : ref[x] = 0
  /\ \A x \in Threaded : alive[x] \subseteq Told(x)

\* What is STOPPED or ERROR was cleaned up and stays so, also when an exception leaves the
\* next stop half way: a start says STARTING before it starts anything.
Settled ==
  /\ Starting(left) => state = "STARTING" \/ Head(left) = <<"set", "STARTING">>
  /\ state \in {"STOPPED", "ERROR"} => Clean

LEMMA CallSettles ==
  ASSUME OneCaller, ControllerInv, Settled, NEW c \in Callers, CallStep(c)
  PROVE  Settled'
<1>1. TypeOK
  BY DEF ControllerInv
<1>2. ASSUME NEW x \in Services,
             \/ Test(c, x) \/ Clear(c, x) \/ Bind(c, x) \/ BindRaises(c, x)
             \/ Create(c, x) \/ Respawn(c, x) \/ Spawn(c, x)
      PROVE  Settled'
  <2>1. PICK op \in {"test", "clear", "open", "create", "spawn"} : At(c, <<op, x>>)
    BY <1>2 DEF Test, Clear, Bind, BindRaises, Create, Respawn, Spawn
  <2>2. op \in StartOps /\ op # "set"
    BY DEF StartOps
  <2>3. Starting(left) /\ Head(left) = <<op, x>>
    BY <2>1, <2>2, AtFacts
  <2>4. state = "STARTING"
    BY <2>2, <2>3 DEF Settled
  <2>5. state' = state
    BY <1>2 DEF Test, Clear, Bind, BindRaises, Create, Respawn, Spawn
  <2> QED
    BY <2>4, <2>5 DEF Settled
<1>3. CASE CreateRaises(c)
  <2>1. At(c, <<"create", "loop">>) /\ "create" \in StartOps /\ state' = state
    BY <1>3 DEF CreateRaises, StartOps
  <2>2. Starting(left) /\ Head(left) = <<"create", "loop">>
    BY <2>1, AtFacts
  <2>3. state = "STARTING"
    BY <2>2 DEF Settled
  <2> QED
    BY <2>1, <2>3 DEF Settled
<1>4. ASSUME NEW x \in Services,
             \/ HaltService(c, x) \/ HaltFresh(c, x) \/ Tell(c, x)
             \/ Join(c, x) \/ JoinTimesOut(c, x) \/ Close(c, x) \/ Drop(c, x)
      PROVE  Settled'
  <2>1. SameCall
    BY <1>4, HaltServiceKeeps, HaltFreshKeeps, TellKeeps, JoinKeeps, JoinTimesOutKeeps,
       CloseKeeps, DropKeeps
  <2>2. ~Starting(left)
    <3>1. CASE Join(c, x) \/ JoinTimesOut(c, x)
      <4>1. PICK i \in Ids \union {0} : At(c, <<"join", x, i>>) /\ Done(c)
        BY <3>1 DEF Join, JoinTimesOut
      <4> QED
        BY <4>1, JoinNext
    <3>2. CASE \/ HaltService(c, x) \/ HaltFresh(c, x) \/ Tell(c, x)
               \/ Close(c, x) \/ Drop(c, x)
      <4>1. PICK op \in {"halt", "tell", "close", "drop"} : At(c, <<op, x>>)
        BY <3>2 DEF HaltService, HaltFresh, Tell, Close, Drop
      <4>2. op \in StopOps
        BY DEF StopOps
      <4> QED
        BY <4>1, <4>2, AtFacts
    <3> QED
      BY <1>4, <3>1, <3>2
  <2>3. state' = state /\ ~Starting(left')
    BY <1>4, <2>1, <2>2 DEF SameCall, HaltService, HaltFresh, Tell, Join, JoinTimesOut, Close,
                            Drop
  <2>4. Clean => Clean'
    <3>1. CASE HaltService(c, x) \/ Tell(c, x)
      <4>1. /\ \/ event' = event
               \/ \E object : event' = [event EXCEPT ![x] = @ \union {object}]
            /\ UNCHANGED <<socket, ref, alive>>
        BY <3>1 DEF HaltService, Tell, Set
      <4>2. \A y \in Threaded : event[y] \subseteq event'[y]
        BY <1>1, <4>1 DEF TypeOK
      <4> QED
        BY <4>1, <4>2 DEF Clean, Told, Object
    <3>2. CASE HaltFresh(c, x) \/ Join(c, x) \/ JoinTimesOut(c, x)
      <4>1. UNCHANGED <<socket, ref, alive, event>>
        BY <3>2 DEF HaltFresh, Join, JoinTimesOut, threadVars
      <4> QED
        BY <4>1 DEF Clean, Told, Object
    <3>3. CASE Close(c, x)
      <4>1. socket' = [socket EXCEPT ![x] = "none"] /\ UNCHANGED <<ref, alive, event>>
        BY <3>3 DEF Close, threadVars
      <4> QED
        BY <1>1, <4>1 DEF Clean, Told, Object, TypeOK
    <3>4. CASE Drop(c, x)
      <4>1. ref' = [ref EXCEPT ![x] = 0] /\ UNCHANGED <<socket, alive, event>>
        BY <3>4 DEF Drop
      <4> QED
        BY <1>1, <4>1 DEF Clean, Told, Object, TypeOK, Threaded
    <3> QED
      BY <1>4, <3>1, <3>2, <3>3, <3>4
  <2> QED
    BY <2>3, <2>4 DEF Settled
<1>5. CASE Release(c) \/ Free(c) \/ FreeRaises(c) \/ Forget(c)
  <2>1. PICK op \in CameraOps, k \in DOMAIN Parts : At(c, <<op, k>>)
    BY <1>5 DEF Release, Free, FreeRaises, Forget, CameraOps
  <2>2. ~Starting(left)
    BY <2>1, CameraStepNext
  <2>3. ~Starting(left')
    <3>1. FreeRaises(c) => ~Starting(left')
      BY FreeRaisesKeeps, NoSteps
    <3>2. ~FreeRaises(c) => SameCall
      BY <1>5, ReleaseKeeps, FreeKeeps, ForgetKeeps
    <3> QED
      BY <2>2, <3>1, <3>2 DEF SameCall
  <2>4. UNCHANGED <<state, socket, ref, alive, event>>
    BY <1>5 DEF Release, Free, FreeRaises, Forget, threadVars
  <2> QED
    BY <2>3, <2>4 DEF Settled, Clean, Told, Object
<1>6. ASSUME NEW s \in States, SetState(c, s)
      PROVE  Settled'
  <2>1. /\ ControllerInv' /\ state' = s /\ (s # "STARTING" => left' = <<>>)
        /\ aborted' = (aborted /\ s \notin {"STOPPED", "ERROR"})
    BY <1>6, SetStateKeeps
  <2>2. CASE s = "STARTING"
    BY <2>1, <2>2 DEF Settled
  <2>3. CASE s # "STARTING"
    <3>1. left' = <<>> /\ (\A o, y : ~Has(left', o, y)) /\ ~Starting(left')
      BY <2>1, <2>3, NoSteps
    <3>2. ASSUME s \in {"STOPPED", "ERROR"} PROVE Clean'
      <4>1. Stops' /\ Down' /\ ~aborted'
        BY <2>1, <3>1, <3>2 DEF ControllerInv, Down
      <4> QED
        BY <3>1, <4>1 DEF Stops, Clean
    <3> QED
      BY <2>1, <3>1, <3>2 DEF Settled
  <2> QED
    BY <2>2, <2>3
<1> QED
  BY <1>2, <1>3, <1>4, <1>5, <1>6 DEF CallStep, Services

LEMMA NextSettles ==
  ASSUME OneCaller, ControllerInv, Settled, [Next]_vars
  PROVE  Settled'
<1>1. ASSUME NEW c \in Callers, Start(c)
      PROVE  Settled'
  <2>1. left' = StartSteps
    <3>1. c = TheCaller
      BY DEF OneCaller
    <3> QED
      BY <1>1, <3>1, CallerFacts, StartFacts DEF Start, Call, ControllerInv
  <2>2. Head(left') = <<"set", "STARTING">>
    BY <2>1 DEF StartSteps
  <2>3. UNCHANGED <<state, socket, ref, alive, event>>
    BY <1>1 DEF Start, Call, threadVars
  <2> QED
    BY <2>2, <2>3 DEF Settled, Clean, Told, Object
<1>2. ASSUME NEW c \in Callers, Stop(c)
      PROVE  Settled'
  <2>1. ~Starting(left')
    <3>1. ControllerInv' /\ Down'
      BY <1>2, StopKeeps
    <3>2. (~(Up /\ Down))'
      BY <3>1, Sides, PTL DEF ControllerInv
    <3> QED
      BY <3>1, <3>2 DEF Up
  <2>2. UNCHANGED <<state, socket, ref, alive, event>>
    BY <1>2 DEF Stop, Call, threadVars
  <2> QED
    BY <2>1, <2>2 DEF Settled, Clean, Told, Object
<1>3. ASSUME UNCHANGED <<state, todo, socket, ref, event>>,
             \A x \in Threaded : alive'[x] \subseteq alive[x]
      PROVE  Settled'
  BY <1>3 DEF Settled, Clean, Told, Object, left
<1>4. ASSUME NEW x \in Threaded, ThreadEnds(x)
      PROVE  Settled'
  <2>1. \A y \in Threaded : alive'[y] \subseteq alive[y]
    BY <1>4 DEF ThreadEnds, ControllerInv, TypeOK
  <2>2. UNCHANGED <<state, todo, socket, ref, event>>
    BY <1>4 DEF ThreadEnds
  <2> QED
    BY <1>3, <2>1, <2>2
<1>5. ASSUME NEW i \in Ids, SourceStep(i) \/ CameraFails(i)
      PROVE  Settled'
  <2>1. alive' = alive \/ alive' = [alive EXCEPT !["source"] = @ \ {i}]
    BY <1>5 DEF SourceStep, OpenPart, OpenRaises, LeaveLoop, ClosePart, FreePart,
                FreePartRaises, ForgetPart, Descend, CameraFails, threadVars
  <2>2. \A y \in Threaded : alive'[y] \subseteq alive[y]
    BY <2>1 DEF ControllerInv, TypeOK
  <2>3. UNCHANGED <<state, todo, socket, ref, event>>
    BY <1>5 DEF SourceStep, OpenPart, OpenRaises, LeaveLoop, ClosePart, FreePart,
                FreePartRaises, ForgetPart, CameraFails, threadVars
  <2> QED
    BY <1>3, <2>2, <2>3
<1>6. CASE UNCHANGED vars
  <2>1. UNCHANGED <<state, todo, socket, ref, event, alive>>
    BY <1>6 DEF vars, threadVars
  <2> QED
    BY <1>3, <2>1
<1> QED
  BY <1>1, <1>2, <1>4, <1>5, <1>6, CallSettles DEF Next, ThreadStep

\* A stop, and a start that failed half way, leave no socket, no loop, no client and no
\* thread that was not told to stop, for any cameras, slow services and bounds
\* (controller.py:150-159, 172-181).
THEOREM StoppedClean == OneCaller => (Spec => []NothingLeftBehind)
<1> SUFFICES ASSUME OneCaller PROVE Spec => []NothingLeftBehind
  OBVIOUS
<1>1. Init => Settled
  <2> SUFFICES ASSUME Init PROVE Settled
    OBVIOUS
  <2>1. left = <<>>
    BY InitHolds, CallerFacts DEF ControllerInv, Init, Idle
  <2> QED
    BY <2>1, NoSteps DEF Init, Settled, Clean, Threaded
<1>2. ControllerInv /\ Settled /\ [Next]_vars => Settled'
  BY NextSettles
<1>3. Settled => NothingLeftBehind
  BY DEF Settled, Clean, NothingLeftBehind
<1> QED
  BY <1>1, <1>2, <1>3, Inductive, PTL DEF Spec

\* No thread whose join was not given up uses a socket that is not bound, whichever steps
\* of a start, a stop and a clean-up the threads run between (controller.py:142-156,
\* 174-178).
THEOREM SocketsStayOpen == OneCaller => (Spec => []UsesOpenSockets)
<1> SUFFICES ASSUME OneCaller PROVE Spec => []UsesOpenSockets
  OBVIOUS
<1>1. ControllerInv => UsesOpenSockets
  BY DEF ControllerInv, SocketsInv
<1> QED
  BY <1>1, Inductive, PTL

\* A thread that reads frames holds the whole camera, unless its join was given up
\* (frame_source.py:179-182, 318-331).
THEOREM ReadsWholeCamera == OneCaller => (Spec => []ReadsOpenCamera)
<1> SUFFICES ASSUME OneCaller PROVE Spec => []ReadsOpenCamera
  OBVIOUS
<1>1. ControllerInv => ReadsOpenCamera
  BY DEF ControllerInv, CameraInv, ReadsOpenCamera, In
<1> QED
  BY <1>1, Inductive, PTL

\* A thread of the sensor ingest starts on the socket its start() has made: the assertion
\* at zmq_sensor_ingest.py:89, which a second caller can break, holds with one.
THEOREM AssertionHolds == OneCaller => (Spec => AssertSocket)
<1> SUFFICES ASSUME OneCaller PROVE Spec => AssertSocket
  OBVIOUS
<1>1. ASSUME ControllerInv, [Next]_vars
      PROVE  [alive'["ingest"] \subseteq alive["ingest"] \/ socket["ingest"] # "none"]_vars
  <2>1. TypeOK
    BY <1>1 DEF ControllerInv
  <2>2. ASSUME NEW c \in Callers, NEW x \in Services, Respawn(c, x)
        PROVE  alive'["ingest"] \subseteq alive["ingest"] \/ socket["ingest"] # "none"
    <3>1. At(c, <<"spawn", x>>) /\ "spawn" \in StartOps /\ x \in Restartable
      BY <2>2 DEF Respawn, StartOps
    <3>2. /\ Has(left, "spawn", x) /\ Up
          /\ \A o : o \notin CameraOps /\ Has(left, o, x)
               => o = "spawn" \/ Rank("spawn") < Rank(o)
      BY <1>1, <3>1, AtFacts, NotCamera
    <3>3. ~Has(left, "open", x)
      BY <3>2 DEF Rank, CameraOps
    <3>4. socket[x] = "bound"
      BY <1>1, <3>1, <3>2, <3>3 DEF ControllerInv, Starts, StartsPublisher, StartsAgain, StartsNew, StartsOrServes
    <3>5. x # "ingest" => alive'["ingest"] = alive["ingest"]
      BY <2>1, <2>2 DEF Respawn, TypeOK, Threaded, Restartable
    <3> QED
      BY <3>4, <3>5
  <2>3. ASSUME NEW c \in Callers, NEW x \in Services, Spawn(c, x)
        PROVE  alive'["ingest"] = alive["ingest"]
    BY <2>1, <2>3 DEF Spawn, TypeOK, Threaded, Restartable, Fresh
  <2>4. ASSUME NEW x \in Threaded, ThreadEnds(x)
        PROVE  alive'["ingest"] \subseteq alive["ingest"]
    BY <2>1, <2>4 DEF ThreadEnds, TypeOK, Threaded, Restartable
  <2>5. ASSUME NEW i \in Ids, SourceStep(i) \/ CameraFails(i)
        PROVE  alive'["ingest"] = alive["ingest"]
    BY <2>1, <2>5 DEF SourceStep, OpenPart, OpenRaises, LeaveLoop, ClosePart, FreePart,
                      FreePartRaises, ForgetPart, Descend, CameraFails, threadVars, TypeOK,
                      Threaded, Restartable
  <2>6. ASSUME NEW c \in Callers, NEW x \in Services,
               \/ Test(c, x) \/ Clear(c, x) \/ Bind(c, x) \/ BindRaises(c, x)
               \/ Create(c, x) \/ HaltService(c, x) \/ HaltFresh(c, x) \/ Tell(c, x)
               \/ Join(c, x) \/ JoinTimesOut(c, x) \/ Close(c, x) \/ Drop(c, x)
        PROVE  alive' = alive
    BY <2>6 DEF Test, Clear, Bind, BindRaises, Create, HaltService, HaltFresh, Tell, Join,
                JoinTimesOut, Close, Drop, threadVars
  <2>7. ASSUME NEW c \in Callers,
               \/ Start(c) \/ Stop(c) \/ CreateRaises(c)
               \/ Release(c) \/ Free(c) \/ FreeRaises(c) \/ Forget(c)
               \/ \E s \in States : SetState(c, s)
        PROVE  alive' = alive
    BY <2>7 DEF Start, Stop, Call, CreateRaises, Release, Free, FreeRaises, Forget, SetState,
                threadVars
  <2> QED
    BY <1>1, <2>2, <2>3, <2>4, <2>5, <2>6, <2>7 DEF Next, ThreadStep, CallStep, Services
<1> QED
  BY <1>1, Inductive, PTL DEF Spec, AssertSocket

--------------------------------------------------------------------------------
(* The camera, with any number of callers.                                 *)

\* A close at step s comes to part j, or is past it: from there it closes the parts in
\* turn, unless the field it has tested has been set to None since.
Reaches(s, j) ==
  /\ s[2] \in DOMAIN Parts /\ j <= s[2]
  /\ s[1] = "free" /\ ~Guarded(s[2]) => Parts[s[2]] \in held

\* Thread i of the source has part j still to close.
ThreadCloses(i, j) ==
  i \in alive["source"] /\ (phase[i][1] \in {"open", "read"} \/ Reaches(phase[i], j))

\* A stop, or a clean-up, has.
CallCloses(c, j) ==
  todo[c] # <<>> /\ Head(todo[c])[1] \in CameraOps /\ Reaches(Head(todo[c]), j)

Listed == \E S : todo \in [Callers -> Seq(S)]

Numbered ==
  /\ alive \in [Threaded -> SUBSET Nat]
  /\ ref \in [Threaded -> Nat] /\ count \in [Threaded -> Nat]

Phases == ({"open", "close", "free", "forget"} \X (DOMAIN Parts \union {1})) \union {<<"read", 0>>}

\* A part that is held is still to be closed by a thread that has not ended or by a call,
\* whichever thread opened it, unless the driver failed to close it or one above it.
HeldInv ==
  /\ Listed /\ Numbered /\ phase \in [Ids -> Phases]
  /\ camera \in Cameras
  /\ held \subseteq Range(Parts)
  /\ \A j \in DOMAIN Parts : Parts[j] \in held \ stuck =>
       \/ \E i \in Ids : ThreadCloses(i, j)
       \/ \E c \in Callers : CallCloses(c, j)

LEMMA PartsApart ==
  ASSUME camera \in Cameras, NEW j \in DOMAIN Parts, NEW k \in DOMAIN Parts,
         Parts[j] = Parts[k]
  PROVE  j = k
<1>1. CASE camera = "openni"
  <2>1. Parts = <<"openni2", "device", "depth stream", "color stream">>
    BY <1>1 DEF Parts
  <2> DEFINE t == <<"openni2", "device", "depth stream", "color stream">>
  <2>2. /\ t[1] = "openni2" /\ t[2] = "device" /\ t[3] = "depth stream"
        /\ t[4] = "color stream"
    OBVIOUS
  <2>3. t = Parts
    BY <2>1, Zenon
  <2>4. DOMAIN t = 1 .. 4 /\ \A i \in 1 .. 4 : i = 1 \/ i = 2 \/ i = 3 \/ i = 4
    OBVIOUS
  <2> HIDE DEF t
  <2>5. /\ j = 1 \/ j = 2 \/ j = 3 \/ j = 4
        /\ k = 1 \/ k = 2 \/ k = 3 \/ k = 4
        /\ t[j] = t[k]
    BY <2>3, <2>4, Zenon
  <2>6. CASE j = 1
    BY <2>2, <2>5, <2>6
  <2>7. CASE j = 2
    BY <2>2, <2>5, <2>7
  <2>8. CASE j = 3
    BY <2>2, <2>5, <2>8
  <2>9. CASE j = 4
    BY <2>2, <2>5, <2>9
  <2> QED
    BY <2>5, <2>6, <2>7, <2>8, <2>9
<1>2. CASE camera # "openni"
  <2>1. Len(Parts) \in {0, 1} /\ DOMAIN Parts = 1 .. Len(Parts)
    <3>1. camera = "v4l2" => Parts = <<"capture">>
      BY DEF Parts
    <3>2. camera = "v4l2" => Len(Parts) = 1
      BY <3>1
    <3> QED
      BY <1>2, <3>2, PartsFacts
  <2> QED
    BY <2>1
<1> QED
  BY <1>1, <1>2

\* A close goes on, if part k is let go at most, or it was at that part and those below are
\* left.
LEMMA OthersReach ==
  ASSUME camera \in Cameras, camera' = camera, NEW k \in DOMAIN Parts,
         held \ {Parts[k]} \subseteq held',
         NEW j \in DOMAIN Parts, Parts[j] \in held', NEW s, Reaches(s, j)
  PROVE  Reaches(s, j)' \/ (j < k /\ Parts[k] \in held /\ Parts[k] \notin held')
<1>1. Parts' = Parts
  BY DEF Parts
<1>2. CASE Reaches(s, j)'
  BY <1>2
<1>3. CASE ~Reaches(s, j)'
  <2>1. /\ s[2] \in DOMAIN Parts /\ j <= s[2]
        /\ Parts[s[2]] \in held /\ Parts[s[2]] \notin held'
    BY <1>1, <1>3 DEF Reaches, Guarded
  <2>2. Parts[s[2]] = Parts[k]
    BY <2>1
  <2>3. s[2] = k
    BY <2>1, <2>2, PartsApart
  <2>4. j # k /\ j \in Nat /\ k \in Nat
    BY <2>1, <2>3, PartsFacts
  <2> QED
    BY <2>1, <2>3, <2>4
<1> QED
  BY <1>2, <1>3

\* What a step does to the steps left, with any callers.
LEMMA ThenListed ==
  ASSUME Listed, NEW c \in Callers, todo[c] # <<>>, NEW T, NEW t \in Seq(T), Then(c, t)
  PROVE  /\ Listed' /\ \A d \in Callers \ {c} : todo'[d] = todo[d]
         /\ t # <<>> => todo'[c] # <<>> /\ Head(todo'[c]) = Head(t)
<1>1. PICK S : todo \in [Callers -> Seq(S)]
  BY DEF Listed
<1> DEFINE U == S \union T
           u == Tail(todo[c])
<1>2. todo[c] \in Seq(S)
  BY <1>1
<1>3. u \in Seq(S)
  BY <1>2, SequenceFacts
<1>4. u \in Seq(U) /\ t \in Seq(U) /\ \A d \in Callers : todo[d] \in Seq(U)
  BY <1>1, <1>3
<1>5. todo' = [todo EXCEPT ![c] = t \o u]
  BY DEF Then
<1> HIDE DEF U, u
<1>6. t \o u \in Seq(U) /\ (t # <<>> => t \o u # <<>> /\ Head(t \o u) = Head(t))
  BY <1>4
<1>7. todo' \in [Callers -> Seq(U)]
  BY <1>1, <1>4, <1>5, <1>6
<1>8. todo'[c] = t \o u /\ \A d \in Callers \ {c} : todo'[d] = todo[d]
  BY <1>1, <1>5
<1> QED
  BY <1>6, <1>7, <1>8 DEF Listed

LEMMA DoneListed ==
  ASSUME Listed, NEW c \in Callers, todo[c] # <<>>, Done(c)
  PROVE  Listed' /\ \A d \in Callers \ {c} : todo'[d] = todo[d]
<1>1. PICK S : todo \in [Callers -> Seq(S)]
  BY DEF Listed
<1>2. Tail(todo[c]) \in Seq(S)
  BY <1>1, SequenceFacts
<1>3. todo' = [todo EXCEPT ![c] = Tail(todo[c])]
  BY DEF Done
<1> QED
  BY <1>1, <1>2, <1>3 DEF Listed

\* The steps of the caller are replaced by others.
LEMMA AnewListed ==
  ASSUME Listed, NEW c \in Callers, NEW T, NEW t \in Seq(T), todo' = [todo EXCEPT ![c] = t]
  PROVE  Listed' /\ \A d \in Callers \ {c} : todo'[d] = todo[d]
<1>1. PICK S : todo \in [Callers -> Seq(S)]
  BY DEF Listed
<1> DEFINE U == S \union T
<1>2. t \in Seq(U) /\ \A d \in Callers : todo[d] \in Seq(U)
  BY <1>1
<1> HIDE DEF U
<1>3. todo' \in [Callers -> Seq(U)]
  BY <1>1, <1>2
<1> QED
  BY <1>1, <1>3 DEF Listed

LEMMA RaiseListed ==
  ASSUME Listed, NEW c \in Callers, Raise(c)
  PROVE  Listed' /\ \A d \in Callers \ {c} : todo'[d] = todo[d]
<1> DEFINE t == IF Last(todo[c]) = <<"set", "RUNNING">> THEN CleanUpSteps ELSE <<>>
<1>1. t \in Seq(Step)
  BY CleanUpFacts
<1>2. todo' = [todo EXCEPT ![c] = t]
  BY DEF Raise
<1> HIDE DEF t
<1> QED
  BY <1>1, <1>2, AnewListed

\* What a call is at when a step of it is taken.
LEMMA AtHead ==
  ASSUME NEW c, NEW step, At(c, step)
  PROVE  todo[c] # <<>> /\ Head(todo[c]) = step
BY DEF At

\* A step of a call that is not about the camera.
Elsewhere(c) ==
  /\ Listed' /\ (\A d \in Callers \ {c} : todo'[d] = todo[d])
  /\ todo[c] # <<>> => Head(todo[c])[1] \notin CameraOps
  /\ camera' = camera /\ phase' = phase /\ held' = held /\ stuck' = stuck
  /\ Numbered' /\ alive["source"] \subseteq alive'["source"]

LEMMA ElsewhereKeepsHeld ==
  ASSUME HeldInv, NEW c \in Callers, Elsewhere(c)
  PROVE  HeldInv'
<1>1. Parts' = Parts /\ Phases' = Phases
  BY DEF Elsewhere, Parts, Phases
<1>2. \A s, j : Reaches(s, j)' <=> Reaches(s, j)
  BY <1>1 DEF Elsewhere, Reaches, Guarded
<1>3. \A i, j : ThreadCloses(i, j) => ThreadCloses(i, j)'
  BY <1>2 DEF Elsewhere, ThreadCloses
<1>4. \A d \in Callers, j \in DOMAIN Parts : CallCloses(d, j) => CallCloses(d, j)'
  BY <1>2 DEF Elsewhere, CallCloses
<1> QED
  BY <1>1, <1>3, <1>4 DEF HeldInv, Elsewhere

LEMMA CallElsewhere ==
  ASSUME HeldInv, NEW c \in Callers,
         \/ Start(c) \/ Stop(c) \/ CreateRaises(c) \/ \E s \in States : SetState(c, s)
  PROVE  Elsewhere(c)
<1>1. /\ camera' = camera /\ phase' = phase /\ held' = held /\ stuck' = stuck
      /\ UNCHANGED <<alive, ref, count>>
  BY DEF Start, Stop, Call, CreateRaises, SetState, cameraVars, threadVars, historyVars
<1>2. Numbered' /\ alive["source"] \subseteq alive'["source"]
  BY <1>1 DEF HeldInv, Numbered
<1>3. Listed
  BY DEF HeldInv
<1>4. /\ Listed' /\ \A d \in Callers \ {c} : todo'[d] = todo[d]
      /\ todo[c] # <<>> => Head(todo[c])[1] \notin CameraOps
  <2>1. CASE Start(c)
    <3>1. todo[c] = <<>> /\ todo' = [todo EXCEPT ![c] = StartSteps]
      BY <2>1 DEF Start, Call
    <3> QED
      BY <1>3, <3>1, StartFacts, AnewListed
  <2>2. CASE Stop(c)
    <3>1. todo[c] = <<>> /\ todo' = [todo EXCEPT ![c] = StopSteps]
      BY <2>2 DEF Stop, Call
    <3> QED
      BY <1>3, <3>1, StopFacts, AnewListed
  <2>3. CASE CreateRaises(c)
    <3>1. At(c, <<"create", "loop">>) /\ Raise(c)
      BY <2>3 DEF CreateRaises, Unforeseen
    <3>2. todo[c] # <<>> /\ Head(todo[c])[1] = "create"
      BY <3>1, AtHead
    <3> QED
      BY <1>3, <3>1, <3>2, NotCamera, RaiseListed
  <2>4. ASSUME NEW s \in States, SetState(c, s)
        PROVE  /\ Listed' /\ \A d \in Callers \ {c} : todo'[d] = todo[d]
               /\ todo[c] # <<>> => Head(todo[c])[1] \notin CameraOps
    <3>1. At(c, <<"set", s>>) /\ Done(c)
      BY <2>4 DEF SetState
    <3>2. todo[c] # <<>> /\ Head(todo[c])[1] = "set"
      BY <3>1, AtHead
    <3>3. "set" \notin CameraOps
      BY DEF CameraOps
    <3> QED
      BY <1>3, <3>1, <3>2, <3>3, DoneListed
  <2> QED
    BY <2>1, <2>2, <2>3, <2>4
<1> QED
  BY <1>1, <1>2, <1>4 DEF Elsewhere

ServiceStep(c, x) ==
  \/ Test(c, x) \/ Clear(c, x) \/ Bind(c, x) \/ BindRaises(c, x)
  \/ Create(c, x) \/ Respawn(c, x) \/ Spawn(c, x)
  \/ HaltService(c, x) \/ HaltFresh(c, x) \/ Tell(c, x)
  \/ Join(c, x) \/ JoinTimesOut(c, x) \/ Close(c, x) \/ Drop(c, x)

\* It takes the step off, puts others in its place or raises.
LEMMA ServiceStepNext ==
  ASSUME NEW c \in Callers, NEW x \in Services, ServiceStep(c, x)
  PROVE  /\ todo[c] # <<>>
         /\ Head(todo[c])[1] \in {"test", "clear", "open", "create", "spawn", "halt", "tell",
                                  "join", "close", "drop"}
         /\ Done(c) \/ Raise(c) \/ \E T : \E t \in Seq(T) : Then(c, t)
<1>1. CASE Test(c, x)
  <2>1. At(c, <<"test", x>>) /\ (Done(c) \/ Then(c, Launch(x)))
    BY <1>1 DEF Test
  <2>2. Launch(x) \in Seq(Step)
    BY LaunchFacts
  <2> QED
    BY <2>1, <2>2, AtHead
<1>2. CASE Clear(c, x)
  BY <1>2, AtHead DEF Clear
<1>3. CASE Bind(c, x)
  BY <1>3, AtHead DEF Bind
<1>4. CASE BindRaises(c, x)
  BY <1>4, AtHead DEF BindRaises, Unforeseen
<1>5. CASE Create(c, x)
  BY <1>5, AtHead DEF Create
<1>6. CASE Respawn(c, x)
  BY <1>6, AtHead DEF Respawn
<1>7. CASE Spawn(c, x)
  <2>1. At(c, <<"spawn", x>>) /\ (Raise(c) \/ Done(c))
    BY <1>7 DEF Spawn
  <2> QED
    BY <2>1, AtHead
<1>8. CASE HaltService(c, x)
  <2> DEFINE r == Releases(x)
             e == << <<"close", x>> >>
             h == << <<"join", x, ref[x]>> >>
             s == <<"release", Len(Parts)>>
             U == {s, <<"close", x>>, <<"join", x, ref[x]>>}
  <2>1. At(c, <<"halt", x>>) /\ Then(c, h \o r \o e)
    BY <1>8 DEF HaltService
  <2>2. r = <<>> \/ r = <<s>>
    BY DEF Releases
  <2> HIDE DEF r, s
  <2>3. s \in U /\ <<"close", x>> \in U /\ <<"join", x, ref[x]>> \in U
    OBVIOUS
  <2> HIDE DEF U
  <2>4. e \in Seq(U) /\ h \in Seq(U)
    BY <2>3
  <2>5. <<>> \in Seq(U) /\ <<s>> \in Seq(U)
    BY <2>3
  <2>6. r \in Seq(U)
    BY <2>2, <2>5, Zenon
  <2> HIDE DEF e, h
  <2>7. h \o r \o e \in Seq(U)
    BY <2>4, <2>6
  <2>8. <<"halt", x>>[1] = "halt"
    OBVIOUS
  <2> QED
    BY <2>1, <2>7, <2>8, AtHead
<1>9. CASE HaltFresh(c, x)
  <2> DEFINE t == << <<"tell", x>>, <<"drop", x>> >>
             U == {<<"tell", x>>, <<"drop", x>>}
  <2>1. At(c, <<"halt", x>>) /\ (Done(c) \/ Then(c, t))
    BY <1>9 DEF HaltFresh
  <2>2. t \in Seq(U)
    OBVIOUS
  <2> HIDE DEF t, U
  <2> QED
    BY <2>1, <2>2, AtHead
<1>10. CASE Tell(c, x)
  <2> DEFINE t == << <<"join", x, ref[x]>> >>
             U == {<<"join", x, ref[x]>>}
  <2>1. At(c, <<"tell", x>>) /\ (Raise(c) \/ Then(c, t))
    BY <1>10 DEF Tell
  <2>2. t \in Seq(U)
    OBVIOUS
  <2> HIDE DEF t, U
  <2> QED
    BY <2>1, <2>2, AtHead
<1>11. CASE Join(c, x) \/ JoinTimesOut(c, x)
  <2>1. PICK i : At(c, <<"join", x, i>>)
    BY <1>11 DEF Join, JoinTimesOut
  <2> DEFINE s == <<"join", x, i>>
  <2>2. s[1] = "join"
    OBVIOUS
  <2> HIDE DEF s
  <2>3. At(c, s) /\ Done(c)
    BY <1>11, <2>1 DEF Join, JoinTimesOut, s
  <2> QED
    BY <2>2, <2>3, AtHead
<1>12. CASE Close(c, x)
  BY <1>12, AtHead DEF Close
<1>13. CASE Drop(c, x)
  BY <1>13, AtHead DEF Drop
<1> QED
  BY <1>1, <1>2, <1>3, <1>4, <1>5, <1>6, <1>7, <1>8, <1>9, <1>10, <1>11, <1>12, <1>13
     DEF ServiceStep

LEMMA ServiceElsewhere ==
  ASSUME HeldInv, NEW c \in Callers, NEW x \in Services, ServiceStep(c, x)
  PROVE  Elsewhere(c)
<1>1. /\ camera' = camera /\ phase' = phase /\ held' = held /\ stuck' = stuck
      /\ \/ UNCHANGED <<alive, ref, count>>
         \/ Create(c, x) \/ Respawn(c, x) \/ Spawn(c, x) \/ Drop(c, x)
  <2>1. CASE \/ Test(c, x) \/ Clear(c, x) \/ Bind(c, x) \/ BindRaises(c, x)
             \/ HaltService(c, x) \/ HaltFresh(c, x) \/ Tell(c, x)
             \/ Join(c, x) \/ JoinTimesOut(c, x) \/ Close(c, x)
    BY <2>1 DEF Test, Clear, Bind, BindRaises, HaltService, HaltFresh, Tell, Join,
                JoinTimesOut, Close, cameraVars, threadVars, historyVars
  <2>2. CASE Create(c, x) \/ Respawn(c, x) \/ Spawn(c, x) \/ Drop(c, x)
    BY <2>2 DEF Create, Respawn, Spawn, Drop, cameraVars, historyVars
  <2> QED
    BY <2>1, <2>2 DEF ServiceStep
<1>2. Numbered
  BY DEF HeldInv
<1>3. Numbered' /\ alive["source"] \subseteq alive'["source"]
  <2>1. CASE UNCHANGED <<alive, ref, count>>
    BY <1>2, <2>1 DEF Numbered
  <2>2. CASE Create(c, x)
    <3>1. CASE x \in Threaded
      <4>1. New(x) \in Nat
        BY <1>2, <3>1 DEF Numbered, New
      <4> QED
        BY <1>2, <2>2, <4>1 DEF Numbered, Create
    <3>2. CASE x \notin Threaded
      <4>1. count' = count /\ ref' = ref /\ alive' = alive
        BY <1>2, <2>2, <3>2 DEF Numbered, Create
      <4> QED
        BY <1>2, <4>1 DEF Numbered
    <3> QED
      BY <3>1, <3>2
  <2>3. CASE Respawn(c, x)
    BY <1>2, <2>3 DEF Numbered, Respawn, New, Threaded, Restartable
  <2>4. CASE Spawn(c, x)
    BY <1>2, <2>4 DEF Numbered, Spawn, Threaded, Restartable, Fresh
  <2>5. CASE Drop(c, x)
    BY <1>2, <2>5 DEF Numbered, Drop
  <2> QED
    BY <1>1, <2>1, <2>2, <2>3, <2>4, <2>5
<1>4. Listed
  BY DEF HeldInv
<1>5. todo[c] # <<>> /\ Head(todo[c])[1] \notin CameraOps
  BY ServiceStepNext, NotCamera
<1>6. Listed' /\ \A d \in Callers \ {c} : todo'[d] = todo[d]
  <2>1. CASE Done(c)
    BY <1>4, <1>5, <2>1, DoneListed
  <2>2. CASE Raise(c)
    BY <1>4, <2>2, RaiseListed
  <2>3. ASSUME NEW T, NEW t \in Seq(T), Then(c, t)
        PROVE  Listed' /\ \A d \in Callers \ {c} : todo'[d] = todo[d]
    BY <1>4, <1>5, <2>3, ThenListed
  <2> QED
    BY <2>1, <2>2, <2>3, ServiceStepNext
<1> QED
  BY <1>1, <1>3, <1>5, <1>6 DEF Elsewhere

\* Call c takes a step that lets part k go at most: it closes those below if it does, and
\* what it does not come to any more is not held, or stuck.
LEMMA CallKeepsHeld ==
  ASSUME HeldInv, NEW c \in Callers, Listed', \A d \in Callers \ {c} : todo'[d] = todo[d],
         UNCHANGED <<camera, phase, ref, count, alive>>,
         held' \subseteq held, NEW k \in DOMAIN Parts, held \ {Parts[k]} \subseteq held',
         \A j \in DOMAIN Parts : Parts[j] \in held' \ stuck' =>
           /\ Parts[j] \notin stuck
           /\ CallCloses(c, j) => CallCloses(c, j)',
         Parts[k] \in held /\ Parts[k] \notin held' =>
           \A j \in DOMAIN Parts : j < k => CallCloses(c, j)'
  PROVE  HeldInv'
<1>1. Parts' = Parts /\ Phases' = Phases
  BY DEF Parts, Phases
<1>2. Numbered'
  BY DEF HeldInv, Numbered
<1>3. ASSUME NEW j \in DOMAIN Parts, Parts[j] \in held' \ stuck'
      PROVE  (\E i \in Ids : ThreadCloses(i, j)') \/ (\E d \in Callers : CallCloses(d, j)')
  <2>1. Parts[j] \in held \ stuck
    BY <1>3
  <2>2. CASE CallCloses(c, j) \/ (j < k /\ Parts[k] \in held /\ Parts[k] \notin held')
    BY <1>3, <2>2
  <2>3. ASSUME NEW s, Reaches(s, j), ~(j < k /\ Parts[k] \in held /\ Parts[k] \notin held')
        PROVE  Reaches(s, j)'
    BY <1>3, <2>3, OthersReach DEF HeldInv
  <2>4. ASSUME NEW d \in Callers \ {c}, CallCloses(d, j),
               ~(j < k /\ Parts[k] \in held /\ Parts[k] \notin held')
        PROVE  CallCloses(d, j)'
    <3>1. PICK s : s = Head(todo[d])
      OBVIOUS
    <3>2. todo[d] # <<>> /\ s[1] \in CameraOps /\ Reaches(s, j)'
      BY <2>3, <2>4, <3>1 DEF CallCloses
    <3> QED
      BY <3>1, <3>2 DEF CallCloses
  <2>5. ASSUME NEW i \in Ids, ThreadCloses(i, j),
               ~(j < k /\ Parts[k] \in held /\ Parts[k] \notin held')
        PROVE  ThreadCloses(i, j)'
    <3>1. PICK s : s = phase[i]
      OBVIOUS
    <3>2. i \in alive["source"] /\ (s[1] \in {"open", "read"} \/ Reaches(s, j)')
      BY <2>3, <2>5, <3>1 DEF ThreadCloses
    <3> QED
      BY <3>1, <3>2 DEF ThreadCloses
  <2> QED
    BY <2>1, <2>2, <2>4, <2>5 DEF HeldInv
<1> QED
  BY <1>1, <1>2, <1>3 DEF HeldInv

\* A call that goes on from part k has the parts below to close.
LEMMA OnwardCloses ==
  ASSUME HeldInv, NEW c \in Callers, todo[c] # <<>>, NEW k \in DOMAIN Parts, Onward(c, k),
         UNCHANGED camera
  PROVE  /\ Listed' /\ (\A d \in Callers \ {c} : todo'[d] = todo[d])
         /\ \A j \in DOMAIN Parts : j < k => CallCloses(c, j)'
<1>1. Listed /\ Parts' = Parts /\ DOMAIN Parts = 1 .. Len(Parts) /\ Len(Parts) \in Nat
  BY PartsFacts DEF HeldInv, Parts
<1>2. CASE k = 1
  <2>1. Done(c)
    BY <1>2 DEF Onward
  <2>2. \A j \in DOMAIN Parts : ~(j < k)
    BY <1>1, <1>2
  <2> QED
    BY <1>1, <2>1, <2>2, DoneListed
<1>3. CASE k # 1
  <2> DEFINE s == <<"release", k - 1>>
             U == {s}
  <2>1. <<s>> \in Seq(U) /\ <<s>> # <<>> /\ Head(<<s>>) = s
    OBVIOUS
  <2>2. Then(c, <<s>>)
    BY <1>3 DEF Onward
  <2>3. s[1] = "release" /\ s[2] = k - 1
    OBVIOUS
  <2> HIDE DEF s, U
  <2>4. /\ Listed' /\ (\A d \in Callers \ {c} : todo'[d] = todo[d])
        /\ todo'[c] # <<>> /\ Head(todo'[c]) = s
    BY <1>1, <2>1, <2>2, ThenListed
  <2>5. ASSUME NEW j \in DOMAIN Parts, j < k
        PROVE  k - 1 \in DOMAIN Parts /\ j <= k - 1
    BY <1>1, <1>3, <2>5
  <2>6. s[1] \in CameraOps
    BY <2>3 DEF CameraOps
  <2>7. \A j \in DOMAIN Parts : j < k => CallCloses(c, j)'
    BY <1>1, <2>3, <2>4, <2>5, <2>6 DEF CallCloses, Reaches
  <2> QED
    BY <2>4, <2>7
<1> QED
  BY <1>2, <1>3

LEMMA ReleaseKeepsHeld ==
  ASSUME HeldInv, NEW c \in Callers, Release(c)
  PROVE  HeldInv'
<1>1. PICK k \in DOMAIN Parts :
        /\ At(c, <<"release", k>>)
        /\ IF Parts[k] \in held THEN Then(c, << <<"free", k>> >>) ELSE Onward(c, k)
  BY DEF Release
<1>2. UNCHANGED <<camera, phase, ref, count, alive, held, stuck>>
  BY DEF Release, cameraVars, threadVars, historyVars
<1>3. todo[c] # <<>> /\ Head(todo[c]) = <<"release", k>>
  BY <1>1, AtHead
<1>4. Listed /\ Parts' = Parts /\ DOMAIN Parts = 1 .. Len(Parts) /\ Len(Parts) \in Nat
  BY <1>2, PartsFacts DEF HeldInv, Parts
<1>5. CASE Parts[k] \in held
  <2> DEFINE s == <<"free", k>>
             U == {s}
  <2>1. <<s>> \in Seq(U) /\ <<s>> # <<>> /\ Head(<<s>>) = s
    OBVIOUS
  <2>2. Then(c, <<s>>)
    BY <1>1, <1>5
  <2>3. s[1] = "free" /\ s[2] = k
    OBVIOUS
  <2> HIDE DEF s, U
  <2>4. /\ Listed' /\ (\A d \in Callers \ {c} : todo'[d] = todo[d])
        /\ todo'[c] # <<>> /\ Head(todo'[c]) = s
    BY <1>3, <1>4, <2>1, <2>2, ThenListed
  <2>5. \A j \in DOMAIN Parts : CallCloses(c, j) => CallCloses(c, j)'
    BY <1>2, <1>3, <1>4, <1>5, <2>3, <2>4 DEF CallCloses, Reaches, CameraOps
  <2> QED
    BY <1>2, <2>4, <2>5, CallKeepsHeld
<1>6. CASE Parts[k] \notin held
  <2>1. /\ Listed' /\ (\A d \in Callers \ {c} : todo'[d] = todo[d])
        /\ \A j \in DOMAIN Parts : j < k => CallCloses(c, j)'
    BY <1>1, <1>2, <1>3, <1>4, <1>6, OnwardCloses
  <2>2. \A j \in DOMAIN Parts : CallCloses(c, j) => j < k \/ j = k
    BY <1>3, <1>4 DEF CallCloses, Reaches
  <2> QED
    BY <1>2, <1>6, <2>1, <2>2, CallKeepsHeld
<1> QED
  BY <1>5, <1>6

LEMMA FreeKeepsHeld ==
  ASSUME HeldInv, NEW c \in Callers, Free(c)
  PROVE  HeldInv'
<1>1. PICK k \in DOMAIN Parts : At(c, <<"free", k>>) /\ Then(c, << <<"forget", k>> >>)
  BY DEF Free
<1>2. UNCHANGED <<camera, phase, ref, count, alive, held, stuck>>
  BY DEF Free, cameraVars, threadVars, historyVars
<1>3. todo[c] # <<>> /\ Head(todo[c]) = <<"free", k>>
  BY <1>1, AtHead
<1>4. Listed /\ Parts' = Parts
  BY <1>2 DEF HeldInv, Parts
<1> DEFINE s == <<"forget", k>>
           U == {s}
<1>5. <<s>> \in Seq(U) /\ <<s>> # <<>> /\ Head(<<s>>) = s /\ s[1] = "forget" /\ s[2] = k
  OBVIOUS
<1>6. Then(c, <<s>>)
  BY <1>1
<1> HIDE DEF s, U
<1>7. /\ Listed' /\ (\A d \in Callers \ {c} : todo'[d] = todo[d])
      /\ todo'[c] # <<>> /\ Head(todo'[c]) = s
  BY <1>3, <1>4, <1>5, <1>6, ThenListed
<1>8. \A j \in DOMAIN Parts : CallCloses(c, j) => CallCloses(c, j)'
  BY <1>2, <1>3, <1>4, <1>5, <1>7 DEF CallCloses, Reaches, CameraOps
<1> QED
  BY <1>2, <1>7, <1>8, CallKeepsHeld

\* The call is left: part k and those below are stuck, or it did not come to them any more.
LEMMA FreeRaisesKeepsHeld ==
  ASSUME HeldInv, NEW c \in Callers, FreeRaises(c)
  PROVE  HeldInv'
<1>1. PICK k \in DOMAIN Parts :
        /\ At(c, <<"free", k>>) /\ ~Guarded(k) /\ Raise(c)
        /\ IF Parts[k] \in held THEN stuck' = stuck \union UpTo(k) ELSE stuck' = stuck
  BY DEF FreeRaises, Unforeseen
<1>2. UNCHANGED <<camera, phase, ref, count, alive, held>>
  BY DEF FreeRaises, cameraVars, threadVars
<1>3. todo[c] # <<>> /\ Head(todo[c]) = <<"free", k>>
  BY <1>1, AtHead
<1>4. Listed' /\ \A d \in Callers \ {c} : todo'[d] = todo[d]
  BY <1>1, RaiseListed DEF HeldInv
<1>5. ASSUME NEW j \in DOMAIN Parts, CallCloses(c, j)
      PROVE  Parts[j] \in stuck'
  <2>1. j <= k /\ Parts[k] \in held
    BY <1>1, <1>3, <1>5 DEF CallCloses, Reaches
  <2>2. j \in 1 .. k
    BY <2>1, PartsFacts DEF HeldInv
  <2> QED
    BY <1>1, <2>1, <2>2 DEF UpTo
<1>6. stuck \subseteq stuck'
  BY <1>1
<1> QED
  BY <1>2, <1>4, <1>5, <1>6, CallKeepsHeld

LEMMA ForgetKeepsHeld ==
  ASSUME HeldInv, NEW c \in Callers, Forget(c)
  PROVE  HeldInv'
<1>1. PICK k \in DOMAIN Parts :
        /\ At(c, <<"forget", k>>) /\ Onward(c, k)
        /\ held' = held \ {Parts[k]} /\ stuck' = stuck \ {Parts[k]}
  BY DEF Forget
<1>2. UNCHANGED <<camera, phase, ref, count, alive>>
  BY DEF Forget, threadVars
<1>3. todo[c] # <<>> /\ Head(todo[c]) = <<"forget", k>>
  BY <1>1, AtHead
<1>4. Parts' = Parts /\ DOMAIN Parts = 1 .. Len(Parts) /\ Len(Parts) \in Nat
  BY <1>2, PartsFacts DEF HeldInv, Parts
<1>5. /\ Listed' /\ (\A d \in Callers \ {c} : todo'[d] = todo[d])
      /\ \A j \in DOMAIN Parts : j < k => CallCloses(c, j)'
  BY <1>1, <1>2, <1>3, OnwardCloses
<1>6. \A j \in DOMAIN Parts : CallCloses(c, j) => j < k \/ j = k
  BY <1>3, <1>4 DEF CallCloses, Reaches
<1> QED
  BY <1>1, <1>2, <1>5, <1>6, CallKeepsHeld

\* Thread i takes a step.
LEMMA ThreadKeepsHeld ==
  ASSUME HeldInv, NEW i \in Ids, NEW p \in Phases, phase' = [phase EXCEPT ![i] = p],
         UNCHANGED <<camera, ref, count, todo>>,
         alive' = alive \/ alive' = [alive EXCEPT !["source"] = @ \ {i}],
         held' \subseteq Range(Parts), NEW k \in DOMAIN Parts, held \ {Parts[k]} \subseteq held',
         \A j \in DOMAIN Parts : Parts[j] \in held' \ stuck' =>
           \/ ThreadCloses(i, j)'
           \/ Parts[j] \in held \ stuck /\ ~ThreadCloses(i, j),
         Parts[k] \in held /\ Parts[k] \notin held' =>
           \A j \in DOMAIN Parts : j < k => ThreadCloses(i, j)'
  PROVE  HeldInv'
<1>1. Parts' = Parts /\ Phases' = Phases
  BY DEF Parts, Phases
<1>2. Numbered' /\ \A h \in alive["source"] \ {i} : h \in alive'["source"]
  BY DEF HeldInv, Numbered, Threaded, Restartable
<1>3. phase' \in [Ids -> Phases] /\ \A h \in Ids \ {i} : phase'[h] = phase[h]
  BY DEF HeldInv
<1>4. ASSUME NEW j \in DOMAIN Parts, Parts[j] \in held' \ stuck', ~ThreadCloses(i, j)'
      PROVE  (\E h \in Ids : ThreadCloses(h, j)') \/ (\E d \in Callers : CallCloses(d, j)')
  <2>1. Parts[j] \in held \ stuck /\ ~ThreadCloses(i, j)
    BY <1>4
  <2>2. ~(j < k /\ Parts[k] \in held /\ Parts[k] \notin held')
    BY <1>4
  <2>3. ASSUME NEW s, Reaches(s, j)
        PROVE  Reaches(s, j)'
    BY <1>4, <2>2, <2>3, OthersReach DEF HeldInv
  <2>4. ASSUME NEW d \in Callers, CallCloses(d, j)
        PROVE  CallCloses(d, j)'
    <3>1. PICK s : s = Head(todo[d])
      OBVIOUS
    <3>2. todo[d] # <<>> /\ s[1] \in CameraOps /\ Reaches(s, j)'
      BY <2>3, <2>4, <3>1 DEF CallCloses
    <3> QED
      BY <3>1, <3>2 DEF CallCloses
  <2>5. ASSUME NEW h \in Ids \ {i}, ThreadCloses(h, j)
        PROVE  ThreadCloses(h, j)'
    <3>1. PICK s : s = phase[h]
      OBVIOUS
    <3>2. h \in alive["source"] /\ (s[1] \in {"open", "read"} \/ Reaches(s, j)')
      BY <2>3, <2>5, <3>1 DEF ThreadCloses
    <3> QED
      BY <1>2, <1>3, <3>1, <3>2 DEF ThreadCloses
  <2> QED
    BY <2>1, <2>4, <2>5 DEF HeldInv
<1>5. Listed'
  BY DEF HeldInv, Listed
<1>6. camera' \in Cameras
  BY DEF HeldInv
<1> QED
  BY <1>1, <1>2, <1>3, <1>4, <1>5, <1>6 DEF HeldInv

\* What a thread of the local source is at, with any callers.
LEMMA InPhase ==
  ASSUME HeldInv, NEW i \in Ids, NEW name \in {"open", "close", "free", "forget"}, In(i, name)
  PROVE  /\ i \in alive["source"] /\ phase[i][1] = name /\ phase[i][2] \in DOMAIN Parts
         /\ DOMAIN Parts = 1 .. Len(Parts) /\ Len(Parts) \in {1, 4}
<1>1. i \in alive["source"] /\ phase[i][1] = name /\ camera # "scada_zmq"
  BY DEF In
<1>2. DOMAIN Parts = 1 .. Len(Parts) /\ Len(Parts) \in {1, 4}
  BY <1>1, PartsFacts DEF HeldInv
<1>3. phase[i] \in Phases
  BY DEF HeldInv
<1>4. phase[i][2] \in DOMAIN Parts
  BY <1>1, <1>2, <1>3 DEF Phases
<1> QED
  BY <1>1, <1>2, <1>4

LEMMA OpenPartKeepsHeld ==
  ASSUME HeldInv, NEW i \in Ids, OpenPart(i)
  PROVE  HeldInv'
<1> DEFINE k == phase[i][2]
           n == Len(Parts)
           p == IF k > 2 /\ Parts[1] \notin held THEN <<"close", n>>
                ELSE IF k = n THEN <<"read", 0>>
                ELSE <<"open", k + 1>>
<1>1. /\ i \in alive["source"] /\ k \in DOMAIN Parts
      /\ DOMAIN Parts = 1 .. n /\ n \in {1, 4}
  BY InPhase DEF OpenPart
<1>2. /\ held' = held \union {Parts[k]} /\ phase' = [phase EXCEPT ![i] = p]
      /\ UNCHANGED <<camera, ref, count, alive, todo>>
  BY DEF OpenPart, threadVars
<1>3. p = <<"close", n>> \/ p = <<"read", 0>> \/ (p = <<"open", k + 1>> /\ k # n)
  OBVIOUS
<1>4. p \in Phases /\ (p[1] \in {"open", "read"} \/ (p[1] = "close" /\ p[2] = n))
  BY <1>1, <1>3 DEF Phases
<1>5. Parts' = Parts /\ held' \subseteq Range(Parts)
  BY <1>1, <1>2 DEF HeldInv, Parts, Range
<1> HIDE DEF p, n, k
<1>6. phase'[i] = p
  BY <1>2 DEF HeldInv
<1>7. \A j \in DOMAIN Parts : ThreadCloses(i, j)'
  BY <1>1, <1>2, <1>4, <1>5, <1>6 DEF ThreadCloses, Reaches
<1> QED
  BY <1>1, <1>2, <1>4, <1>5, <1>7, ThreadKeepsHeld

\* A thread that turns to closing the camera closes all of it.
LEMMA TurnKeepsHeld ==
  ASSUME HeldInv, NEW i \in Ids, OpenRaises(i) \/ LeaveLoop(i) \/ CameraFails(i)
  PROVE  HeldInv'
<1> DEFINE n == Len(Parts)
           p == <<"close", n>>
<1>1. /\ i \in alive["source"] /\ phase' = [phase EXCEPT ![i] = p] /\ camera # "scada_zmq"
      /\ UNCHANGED <<camera, ref, count, alive, held, todo>>
  BY DEF OpenRaises, LeaveLoop, CameraFails, In, threadVars
<1>2. DOMAIN Parts = 1 .. n /\ n \in {1, 4}
  BY <1>1, PartsFacts DEF HeldInv
<1>3. p \in Phases /\ p[1] = "close" /\ p[2] = n
  BY <1>2 DEF Phases
<1> HIDE DEF p, n
<1>4. phase'[i] = p /\ Parts' = Parts /\ held' \subseteq Range(Parts)
  BY <1>1 DEF HeldInv, Parts
<1>5. \A j \in DOMAIN Parts : ThreadCloses(i, j)'
  BY <1>1, <1>2, <1>3, <1>4 DEF ThreadCloses, Reaches
<1>6. PICK k \in DOMAIN Parts : TRUE
  BY <1>2
<1> QED
  BY <1>1, <1>3, <1>4, <1>5, <1>6, ThreadKeepsHeld

\* A thread that goes on from part k, which is not held, closes the parts below.
LEMMA DescendKeepsHeld ==
  ASSUME HeldInv, NEW i \in Ids, NEW k \in DOMAIN Parts, i \in alive["source"],
         phase[i][1] \in {"close", "free", "forget"}, phase[i][2] = k, Descend(i, k),
         UNCHANGED <<camera, ref, count, todo>>,
         held' = held \ {Parts[k]}, stuck \ {Parts[k]} \subseteq stuck'
  PROVE  HeldInv'
<1>1. Parts' = Parts /\ DOMAIN Parts = 1 .. Len(Parts) /\ Len(Parts) \in Nat
  BY PartsFacts DEF HeldInv, Parts
<1>2. held' \subseteq Range(Parts)
  BY DEF HeldInv
<1>3. \A j \in DOMAIN Parts : ThreadCloses(i, j) => j < k \/ j = k
  BY <1>1 DEF ThreadCloses, Reaches
<1>4. \A j \in DOMAIN Parts : Parts[j] \in held' \ stuck' => Parts[j] \in held \ stuck /\ j # k
  OBVIOUS
<1> DEFINE p == IF k = 1 THEN <<"open", 1>> ELSE <<"close", k - 1>>
<1>5. /\ p \in Phases
      /\ k # 1 => p[1] = "close" /\ p[2] = k - 1
  BY <1>1 DEF Phases
<1>6. phase' = [phase EXCEPT ![i] = p]
  BY DEF Descend
<1>7. IF k = 1 THEN alive' = [alive EXCEPT !["source"] = @ \ {i}] ELSE alive' = alive
  BY DEF Descend
<1> HIDE DEF p
<1>8. \A j \in DOMAIN Parts : j < k => ThreadCloses(i, j)'
  <2>1. phase'[i] = p
    BY <1>6 DEF HeldInv
  <2>2. \A j \in DOMAIN Parts : j < k => k # 1 /\ k - 1 \in DOMAIN Parts /\ j <= k - 1
    BY <1>1
  <2> QED
    BY <1>1, <1>5, <1>7, <2>1, <2>2 DEF ThreadCloses, Reaches
<1>9. alive' = alive \/ alive' = [alive EXCEPT !["source"] = @ \ {i}]
  BY <1>7
<1> QED
  BY <1>2, <1>3, <1>4, <1>5, <1>6, <1>8, <1>9, ThreadKeepsHeld

LEMMA ClosePartKeepsHeld ==
  ASSUME HeldInv, NEW i \in Ids, ClosePart(i)
  PROVE  HeldInv'
<1> DEFINE k == phase[i][2]
<1>1. i \in alive["source"] /\ phase[i][1] = "close" /\ k \in DOMAIN Parts
  BY InPhase DEF ClosePart
<1>2. UNCHANGED <<camera, ref, count, held, stuck, todo>>
  BY DEF ClosePart, historyVars
<1>3. CASE Parts[k] \in held
  <2> DEFINE p == <<"free", k>>
  <2>1. phase' = [phase EXCEPT ![i] = p] /\ alive' = alive
    BY <1>3 DEF ClosePart
  <2>2. p \in Phases /\ p[1] = "free" /\ p[2] = k
    BY <1>1 DEF Phases
  <2> HIDE DEF p, k
  <2>3. phase'[i] = p /\ Parts' = Parts /\ held' \subseteq Range(Parts)
    BY <1>2, <2>1 DEF HeldInv, Parts
  <2>4. \A j \in DOMAIN Parts : ThreadCloses(i, j) => ThreadCloses(i, j)'
    BY <1>1, <1>2, <1>3, <2>1, <2>2, <2>3 DEF ThreadCloses, Reaches, k
  <2> QED
    BY <1>1, <1>2, <2>1, <2>2, <2>3, <2>4, ThreadKeepsHeld
<1>4. CASE Parts[k] \notin held
  <2>1. Descend(i, k)
    BY <1>4 DEF ClosePart
  <2>2. held' = held \ {Parts[k]}
    BY <1>2, <1>4
  <2> QED
    BY <1>1, <1>2, <2>1, <2>2, DescendKeepsHeld
<1> QED
  BY <1>3, <1>4

LEMMA FreePartKeepsHeld ==
  ASSUME HeldInv, NEW i \in Ids, FreePart(i)
  PROVE  HeldInv'
<1> DEFINE k == phase[i][2]
           p == <<"forget", k>>
<1>1. i \in alive["source"] /\ phase[i][1] = "free" /\ k \in DOMAIN Parts
  BY InPhase DEF FreePart
<1>2. UNCHANGED <<camera, ref, count, alive, held, stuck, todo>>
  BY DEF FreePart, threadVars, historyVars
<1>3. phase' = [phase EXCEPT ![i] = p]
  BY DEF FreePart
<1>4. p \in Phases /\ p[1] = "forget" /\ p[2] = k
  BY <1>1 DEF Phases
<1> HIDE DEF p, k
<1>5. phase'[i] = p /\ Parts' = Parts /\ held' \subseteq Range(Parts)
  BY <1>2, <1>3 DEF HeldInv, Parts
<1>6. \A j \in DOMAIN Parts : ThreadCloses(i, j) => ThreadCloses(i, j)'
  BY <1>1, <1>2, <1>4, <1>5 DEF ThreadCloses, Reaches, k
<1> QED
  BY <1>1, <1>2, <1>3, <1>4, <1>5, <1>6, ThreadKeepsHeld

LEMMA FreePartRaisesKeepsHeld ==
  ASSUME HeldInv, NEW i \in Ids, FreePartRaises(i)
  PROVE  HeldInv'
<1> DEFINE k == phase[i][2]
           p == <<"open", 1>>
<1>1. /\ i \in alive["source"] /\ phase[i][1] = "free" /\ k \in DOMAIN Parts
      /\ DOMAIN Parts = 1 .. Len(Parts) /\ Len(Parts) \in Nat
  BY InPhase DEF FreePartRaises
<1>2. /\ UNCHANGED <<camera, ref, count, held, todo>>
      /\ phase' = [phase EXCEPT ![i] = p]
      /\ alive' = [alive EXCEPT !["source"] = @ \ {i}]
      /\ ~Guarded(k)
      /\ IF Parts[k] \in held THEN stuck' = stuck \union UpTo(k) ELSE stuck' = stuck
  BY DEF FreePartRaises
<1>3. p \in Phases
  BY DEF Phases
<1> HIDE DEF p
<1>4. held' \subseteq Range(Parts) /\ stuck \subseteq stuck'
  BY <1>2 DEF HeldInv
<1>5. ASSUME NEW j \in DOMAIN Parts, ThreadCloses(i, j)
      PROVE  Parts[j] \in stuck'
  <2>1. j <= k /\ Parts[k] \in held
    BY <1>1, <1>2, <1>5 DEF ThreadCloses, Reaches
  <2>2. j \in 1 .. k
    BY <1>1, <2>1
  <2> HIDE DEF k
  <2> QED
    BY <1>2, <2>1, <2>2 DEF UpTo
<1> HIDE DEF k
<1> QED
  BY <1>1, <1>2, <1>3, <1>4, <1>5, ThreadKeepsHeld

LEMMA ForgetPartKeepsHeld ==
  ASSUME HeldInv, NEW i \in Ids, ForgetPart(i)
  PROVE  HeldInv'
<1> DEFINE k == phase[i][2]
<1>1. i \in alive["source"] /\ phase[i][1] = "forget" /\ k \in DOMAIN Parts
  BY InPhase DEF ForgetPart
<1>2. /\ UNCHANGED <<camera, ref, count, todo>> /\ Descend(i, k)
      /\ held' = held \ {Parts[k]} /\ stuck' = stuck \ {Parts[k]}
  BY DEF ForgetPart
<1> QED
  BY <1>1, <1>2, DescendKeepsHeld

LEMMA ThreadEndsKeepsHeld ==
  ASSUME HeldInv, NEW x \in Threaded, ThreadEnds(x)
  PROVE  HeldInv'
<1>1. PICK i : alive' = [alive EXCEPT ![x] = @ \ {i}]
  BY DEF ThreadEnds
<1>2. /\ x # "source" \/ camera = "scada_zmq"
      /\ UNCHANGED <<ref, count, camera, held, stuck, phase, todo>>
  BY DEF ThreadEnds, cameraVars, historyVars
<1>3. Numbered' /\ (x # "source" => alive'["source"] = alive["source"])
  BY <1>1, <1>2 DEF HeldInv, Numbered, Threaded, Restartable
<1>4. Parts' = Parts /\ Phases' = Phases /\ (camera = "scada_zmq" => DOMAIN Parts = {})
  <2>1. Parts' = Parts
    BY <1>2 DEF Parts
  <2>2. DOMAIN Parts = 1 .. Len(Parts) /\ (camera = "scada_zmq" => Len(Parts) = 0)
    BY PartsFacts DEF HeldInv
  <2> QED
    BY <2>1, <2>2 DEF Phases
<1>5. /\ Listed' /\ phase' \in [Ids -> Phases'] /\ camera' \in Cameras
      /\ held' \subseteq Range(Parts')
  BY <1>2, <1>4 DEF HeldInv, Listed
<1>6. CASE camera = "scada_zmq"
  BY <1>3, <1>4, <1>5, <1>6 DEF HeldInv
<1>7. CASE camera # "scada_zmq"
  <2>1. alive'["source"] = alive["source"]
    BY <1>2, <1>3, <1>7
  <2>2. \A s, j : Reaches(s, j)' <=> Reaches(s, j)
    BY <1>2, <1>4 DEF Reaches, Guarded
  <2>3. \A n, j : ThreadCloses(n, j)' <=> ThreadCloses(n, j)
    BY <1>2, <2>1, <2>2 DEF ThreadCloses
  <2>4. \A c, j : CallCloses(c, j)' <=> CallCloses(c, j)
    BY <1>2, <2>2 DEF CallCloses
  <2> QED
    BY <1>2, <1>3, <1>4, <1>5, <2>3, <2>4 DEF HeldInv
<1> QED
  BY <1>6, <1>7

\* When the frame source's thread has ended and no call is in progress, no part of the
\* camera stays open but for those a failure of the driver has left, for any number of
\* callers that overlap (frame_source.py:179-182, 246-248, 335-363).
THEOREM CameraClosedWithThread == Spec => []CameraReleased
<1>1. Init => HeldInv
  <2> SUFFICES ASSUME Init PROVE HeldInv
    OBVIOUS
  <2>1. camera \in Cameras /\ held = {}
    BY DEF Init
  <2>2. phase \in [Ids -> Phases]
    BY DEF Init, Phases
  <2>3. Numbered
    BY DEF Init, Numbered
  <2>4. Listed
    <3>1. todo \in [Callers -> Seq({})]
      BY DEF Init
    <3> QED
      BY <3>1 DEF Listed
  <2> QED
    BY <2>1, <2>2, <2>3, <2>4 DEF HeldInv
<1>2. HeldInv /\ [Next]_vars => HeldInv'
  <2> SUFFICES ASSUME HeldInv, [Next]_vars PROVE HeldInv'
    OBVIOUS
  <2>1. ASSUME NEW i \in Ids, SourceStep(i) \/ CameraFails(i)
        PROVE  HeldInv'
    BY <2>1, OpenPartKeepsHeld, TurnKeepsHeld, ClosePartKeepsHeld, FreePartKeepsHeld,
       FreePartRaisesKeepsHeld, ForgetPartKeepsHeld DEF SourceStep
  <2>2. ASSUME NEW c \in Callers, Start(c) \/ Stop(c) \/ CallStep(c)
        PROVE  HeldInv'
    <3>1. ASSUME NEW x \in Services, ServiceStep(c, x)
          PROVE  HeldInv'
      BY <3>1, ServiceElsewhere, ElsewhereKeepsHeld
    <3>2. CASE \/ Start(c) \/ Stop(c) \/ CreateRaises(c) \/ \E s \in States : SetState(c, s)
      BY <3>2, CallElsewhere, ElsewhereKeepsHeld
    <3> QED
      BY <2>2, <3>1, <3>2, ReleaseKeepsHeld, FreeKeepsHeld, FreeRaisesKeepsHeld,
         ForgetKeepsHeld DEF CallStep, ServiceStep, Services
  <2>3. CASE UNCHANGED vars
    <3>1. /\ UNCHANGED <<ref, count, alive, camera, held, stuck, phase, todo>>
      BY <2>3 DEF vars, threadVars, cameraVars, historyVars
    <3>2. Parts' = Parts /\ Phases' = Phases
      BY <3>1 DEF Parts, Phases
    <3>3. \A s, j : Reaches(s, j)' <=> Reaches(s, j)
      BY <3>1, <3>2 DEF Reaches, Guarded
    <3>4. Numbered' /\ Listed'
      BY <3>1 DEF HeldInv, Numbered, Listed
    <3>5. /\ \A i, j : ThreadCloses(i, j)' <=> ThreadCloses(i, j)
          /\ \A c, j : CallCloses(c, j)' <=> CallCloses(c, j)
      BY <3>1, <3>3 DEF ThreadCloses, CallCloses
    <3> QED
      BY <3>1, <3>2, <3>4, <3>5 DEF HeldInv
  <2> QED
    BY <2>1, <2>2, <2>3, ThreadEndsKeepsHeld DEF Next, ThreadStep
<1>3. HeldInv => CameraReleased
  <2> SUFFICES ASSUME HeldInv, Idle, alive["source"] = {}, NEW part \in held
               PROVE  part \in stuck
    BY DEF CameraReleased
  <2>1. PICK j \in DOMAIN Parts : part = Parts[j]
    BY DEF HeldInv, Range
  <2>2. /\ \A i \in Ids : ~ThreadCloses(i, j)
        /\ \A c \in Callers : ~CallCloses(c, j)
    BY DEF Idle, ThreadCloses, CallCloses
  <2> QED
    BY <2>1, <2>2 DEF HeldInv
<1> QED
  BY <1>1, <1>2, <1>3, PTL DEF Spec

--------------------------------------------------------------------------------
(* The loop and the client, which each start makes anew.                   *)

\* A step of a call in progress.
LEMMA CallInProgress ==
  ASSUME NEW c \in Callers, CallStep(c)
  PROVE  calls' = calls /\ todo[c] # <<>>
<1>1. CASE \/ CreateRaises(c) \/ Release(c) \/ Free(c) \/ FreeRaises(c) \/ Forget(c)
           \/ \E s \in States : SetState(c, s)
  BY <1>1 DEF CreateRaises, Release, Free, FreeRaises, Forget, SetState, At
<1>2. ASSUME NEW x \in Threaded \union Socketed,
             \/ Test(c, x) \/ Clear(c, x) \/ Bind(c, x) \/ BindRaises(c, x)
             \/ Create(c, x) \/ Respawn(c, x) \/ Spawn(c, x)
      PROVE  calls' = calls /\ todo[c] # <<>>
  BY <1>2 DEF Test, Clear, Bind, BindRaises, Create, Respawn, Spawn, At
<1>3. ASSUME NEW x \in Threaded \union Socketed,
             \/ HaltService(c, x) \/ HaltFresh(c, x) \/ Tell(c, x)
             \/ Join(c, x) \/ JoinTimesOut(c, x) \/ Close(c, x) \/ Drop(c, x)
      PROVE  calls' = calls /\ todo[c] # <<>>
  BY <1>3 DEF HaltService, HaltFresh, Tell, Join, JoinTimesOut, Close, Drop, At
<1> QED
  BY <1>1, <1>2, <1>3 DEF CallStep

\* A step of the controller adds at most one call, which is then in progress.
LEMMA CallsCounted ==
  ASSUME Next
  PROVE  \/ /\ calls' = calls
            /\ \/ \E c \in Callers : CallStep(c)
               \/ UNCHANGED <<state, reason, todo, ref, count, outlived, aborted>>
         \/ /\ calls' = calls + 1
            /\ \E c \in Callers : Start(c) \/ Stop(c)
            /\ UNCHANGED <<state, reason, ref, count, outlived, aborted>>
<1>1. ASSUME NEW c \in Callers, Start(c) \/ Stop(c)
      PROVE  calls' = calls + 1 /\ UNCHANGED <<state, reason, ref, count, outlived, aborted>>
  BY <1>1 DEF Start, Stop, Call, threadVars, historyVars
<1>2. ASSUME NEW x \in Threaded, ThreadEnds(x)
      PROVE  calls' = calls /\ UNCHANGED <<state, reason, todo, ref, count, outlived, aborted>>
  BY <1>2 DEF ThreadEnds, historyVars
<1>3. ASSUME NEW i \in Ids, SourceStep(i) \/ CameraFails(i)
      PROVE  calls' = calls /\ UNCHANGED <<state, reason, todo, ref, count, outlived, aborted>>
  BY <1>3 DEF SourceStep, OpenPart, OpenRaises, LeaveLoop, ClosePart, FreePart,
              FreePartRaises, ForgetPart, CameraFails, threadVars, historyVars
<1> QED
  BY <1>1, <1>2, <1>3, CallInProgress DEF Next, ThreadStep

\* A new loop or client was not given up, as the only stop that could have done so came
\* before it was made, if none was left half way; and the state is RUNNING only when its start is over.
FreshInv ==
  /\ \A x \in Fresh :
       /\ outlived[x] \subseteq 1 .. count[x]
       /\ Up /\ ~aborted => ref[x] \notin outlived[x]
  /\ Starting(left) => state # "RUNNING"

\* A call begins, which is a stop while RUNNING; a call goes on, which makes a loop only
\* where there is none and drops it only while it stops; or a service's thread takes a step.
\* A call that stops may be left half way, and only one that stops makes up for that.
Moves ==
  \/ /\ left = <<>> /\ calls' = calls + 1 /\ ref' = ref /\ aborted' = aborted
     /\ Up => Down'
  \/ /\ left # <<>> /\ calls' = calls
     /\ Down => Down' \/ aborted'
     /\ aborted => Down' \/ aborted'
     /\ \/ ref'["loop"] = ref["loop"]
        \/ Up /\ ref["loop"] = 0
        \/ Down /\ ref'["loop"] = 0
  \/ UNCHANGED <<state, todo, ref, aborted, calls>>

\* Where a call goes on and no loop or client is made, dropped or given up.
LEMMA SameFresh ==
  ASSUME FreshInv, SameCall, left # <<>>, calls' = calls, state' = state, aborted' = aborted,
         \A x \in Fresh : ref'[x] = ref[x] /\ count'[x] = count[x] /\ outlived'[x] = outlived[x]
  PROVE  FreshInv' /\ Moves
<1>1. Fresh' = Fresh /\ "loop" \in Fresh
  BY DEF Fresh
<1> QED
  BY <1>1 DEF FreshInv, Moves, SameCall

\* Where a start has failed, or a stop begins.
LEMMA StopsFresh ==
  ASSUME FreshInv, ControllerInv', Down', UNCHANGED <<ref, count, outlived>>
  PROVE  FreshInv'
<1>1. ~Up' /\ ~Starting(left')
  <2>1. (~(Up /\ Down))'
    BY Sides, PTL DEF ControllerInv
  <2> QED
    BY <2>1 DEF Up
<1> QED
  BY <1>1 DEF FreshInv

LEMMA CallMoves ==
  ASSUME OneCaller, ControllerInv, FreshInv, NEW c \in Callers, CallStep(c)
  PROVE  FreshInv' /\ Moves
<1>1. left # <<>> /\ calls' = calls
  BY CallInProgress, CallerFacts DEF OneCaller, left, ControllerInv
<1>2. /\ TypeOK /\ Script /\ Threads
      /\ \A x \in Threaded : ref[x] \in Nat /\ count[x] \in Nat
  BY ControllerAssumption DEF ControllerInv, TypeOK
<1>3. ~(Up /\ Down)
  BY <1>2, Sides
<1>4. ASSUME NEW x \in Services,
             \/ Test(c, x) \/ Clear(c, x) \/ Bind(c, x) \/ Spawn(c, x) \/ HaltService(c, x)
             \/ HaltFresh(c, x) \/ Tell(c, x) \/ Join(c, x) \/ Close(c, x)
      PROVE  FreshInv' /\ Moves
  <2>1. SameCall
    BY <1>4, TestKeeps, ClearKeeps, BindKeeps, SpawnKeeps, HaltServiceKeeps, HaltFreshKeeps,
       TellKeeps, JoinKeeps, CloseKeeps
  <2>2. UNCHANGED <<state, ref, count, outlived, aborted>>
    BY <1>4 DEF Test, Clear, Bind, Spawn, HaltService, HaltFresh, Tell, Join, Close,
                threadVars, historyVars
  <2> QED
    BY <1>1, <2>1, <2>2, SameFresh
<1>5. ASSUME NEW x \in Services, Respawn(c, x)
      PROVE  FreshInv' /\ Moves
  <2>1. SameCall /\ x \notin Fresh
    BY <1>5, RespawnKeeps DEF Respawn, Restartable, Fresh
  <2>2. /\ UNCHANGED <<state, outlived, aborted>>
        /\ \A y \in Fresh : ref'[y] = ref[y] /\ count'[y] = count[y]
    BY <1>2, <1>5, <2>1 DEF Respawn, historyVars, TypeOK, Threaded
  <2> QED
    BY <1>1, <2>1, <2>2, SameFresh
<1>6. ASSUME NEW x \in Services, Create(c, x)
      PROVE  FreshInv' /\ Moves
  <2>1. SameCall
    BY <1>6, CreateKeeps
  <2>2. /\ x \in Fresh /\ Up /\ ref[x] = 0
    <3>1. At(c, <<"create", x>>) /\ "create" \in StartOps
      BY <1>6 DEF Create, StartOps
    <3>2. Fits(<<"create", x>>) /\ Has(left, "create", x) /\ Up
      BY <3>1, AtFacts
    <3> QED
      BY <3>2 DEF Fits, ControllerInv, Starts, StartsPublisher, StartsAgain, StartsNew, StartsOrServes
  <2>3. /\ count' = [count EXCEPT ![x] = count[x] + 1]
        /\ ref' = [ref EXCEPT ![x] = count[x] + 1]
        /\ UNCHANGED <<state, outlived, aborted>>
    BY <1>6 DEF Create, New, historyVars
  <2>4. /\ ref'[x] = count[x] + 1 /\ count'[x] = count[x] + 1
        /\ \A y \in Fresh \ {x} : ref'[y] = ref[y] /\ count'[y] = count[y]
    BY <1>2, <2>2, <2>3 DEF TypeOK, Threaded
  <2>5. ASSUME NEW y \in Fresh
        PROVE  /\ outlived'[y] \subseteq 1 .. count'[y]
               /\ aborted \/ ref'[y] \notin outlived'[y]
    <3>1. outlived[y] \subseteq 1 .. count[y] /\ (aborted \/ ref[y] \notin outlived[y])
      BY <2>2 DEF FreshInv
    <3>2. CASE y = x
      <4>1. count[y] \in Nat
        BY <1>2 DEF Threaded
      <4>2. 1 .. count[y] \subseteq 1 .. count[y] + 1 /\ count[y] + 1 \notin 1 .. count[y]
        BY <4>1
      <4> QED
        BY <2>3, <2>4, <3>1, <3>2, <4>2
    <3> QED
      BY <2>3, <2>4, <3>1, <3>2
  <2>6. ref'["loop"] = ref["loop"] \/ ref["loop"] = 0
    BY <2>2, <2>4 DEF Fresh
  <2> QED
    BY <1>1, <2>1, <2>2, <2>3, <2>5, <2>6 DEF FreshInv, Moves, SameCall
<1>7. ASSUME NEW x \in Services, Drop(c, x)
      PROVE  FreshInv' /\ Moves
  <2>1. SameCall
    BY <1>7, DropKeeps
  <2>2. x \in Fresh /\ Down
    <3>1. At(c, <<"drop", x>>) /\ "drop" \in StopOps
      BY <1>7 DEF Drop, StopOps
    <3> QED
      BY <3>1, AtFacts DEF Fits
  <2>3. ref' = [ref EXCEPT ![x] = 0] /\ UNCHANGED <<state, count, outlived, aborted>>
    BY <1>7 DEF Drop, historyVars
  <2>4. ref'["loop"] = ref["loop"] \/ ref'["loop"] = 0
    BY <1>2, <2>2, <2>3 DEF TypeOK, Threaded
  <2> QED
    BY <1>1, <1>3, <2>1, <2>2, <2>3, <2>4 DEF FreshInv, Moves, SameCall
<1>8. ASSUME NEW x \in Services, JoinTimesOut(c, x)
      PROVE  FreshInv' /\ Moves
  <2>1. SameCall
    BY <1>8, JoinTimesOutKeeps
  <2>2. PICK i \in Ids : /\ At(c, <<"join", x, i>>) /\ i \in alive[x]
                         /\ outlived' = [outlived EXCEPT ![x] = @ \union {i}]
    BY <1>8 DEF JoinTimesOut
  <2>3. x \in Threaded /\ Down
    <3>1. Done(c)
      BY <1>8 DEF JoinTimesOut
    <3> QED
      BY <2>2, <3>1, JoinNext
  <2>4. UNCHANGED <<state, ref, count, aborted>>
    BY <1>8 DEF JoinTimesOut, threadVars
  <2>5. i \in 1 .. count[x]
    BY <1>2, <2>2, <2>3 DEF Threads, Counted, OneThread, OldTold
  <2>6. \A y \in Fresh : outlived'[y] \subseteq 1 .. count[y]
    <3>1. \A y \in Fresh : outlived[y] \subseteq 1 .. count[y]
      BY DEF FreshInv
    <3> QED
      BY <1>2, <2>2, <2>5, <3>1 DEF TypeOK, Threaded
  <2> QED
    BY <1>1, <1>3, <2>1, <2>3, <2>4, <2>6 DEF FreshInv, Moves, SameCall
<1>9. ASSUME (\E x \in Services : BindRaises(c, x)) \/ CreateRaises(c)
      PROVE  FreshInv' /\ Moves
  <2>1. ControllerInv' /\ Down'
    BY <1>9, BindRaisesKeeps, CreateRaisesKeeps
  <2>2. UNCHANGED <<ref, count, outlived, aborted>>
    BY <1>9 DEF BindRaises, CreateRaises, threadVars, historyVars
  <2> QED
    BY <1>1, <2>1, <2>2, StopsFresh DEF Moves
<1>10. ASSUME NEW s \in States, SetState(c, s)
       PROVE  FreshInv' /\ Moves
  <2>1. /\ (Up' <=> Up) /\ (Down' <=> Down) /\ (Starting(left') => state' # "RUNNING")
        /\ state' = s /\ (s # "STARTING" => left' = <<>>)
        /\ aborted' = (aborted /\ s \notin {"STOPPED", "ERROR"})
    BY <1>10, SetStateKeeps
  <2>2. UNCHANGED <<ref, count, outlived>>
    BY <1>10 DEF SetState, threadVars
  <2>3. s \in {"STOPPED", "ERROR"} => Down' /\ ~Up'
    BY <2>1, NoSteps DEF Up, Down
  <2>4. s \notin {"STOPPED", "ERROR"} => (aborted' <=> aborted)
    BY <2>1
  <2>5. FreshInv'
    BY <2>1, <2>2, <2>3, <2>4 DEF FreshInv
  <2>6. aborted => Down' \/ aborted'
    BY <2>3, <2>4
  <2> QED
    BY <1>1, <2>1, <2>2, <2>5, <2>6 DEF Moves
<1>11. CASE Release(c) \/ Free(c) \/ Forget(c)
  <2>1. SameCall
    BY <1>11, ReleaseKeeps, FreeKeeps, ForgetKeeps
  <2>2. UNCHANGED <<state, ref, count, outlived, aborted>>
    BY <1>11 DEF Release, Free, Forget, threadVars, historyVars
  <2> QED
    BY <1>1, <2>1, <2>2, SameFresh
<1>12. CASE FreeRaises(c)
  <2>1. left' = <<>> /\ aborted' /\ ~Starting(left')
    BY <1>12, FreeRaisesKeeps, NoSteps
  <2>2. UNCHANGED <<state, ref, count, outlived>>
    BY <1>12 DEF FreeRaises, threadVars
  <2> QED
    BY <1>1, <2>1, <2>2 DEF FreshInv, Moves
<1> QED
  BY <1>4, <1>5, <1>6, <1>7, <1>8, <1>9, <1>10, <1>11, <1>12 DEF CallStep, Services

LEMMA NextMoves ==
  ASSUME OneCaller, ControllerInv, FreshInv, Next
  PROVE  FreshInv' /\ Moves
<1>1. TypeOK /\ Script /\ Stops
  BY DEF ControllerInv
<1>2. ASSUME NEW c \in Callers, Start(c)
      PROVE  FreshInv' /\ Moves
  <2>1. left = <<>> /\ state # "RUNNING" /\ calls' = calls + 1
        /\ UNCHANGED <<state, ref, count, outlived, aborted>>
    BY <1>2, CallerFacts DEF Start, Call, OneCaller, left, threadVars, historyVars
  <2>2. Down /\ ~Up /\ \A o, y : ~Has(left, o, y)
    BY <2>1, NoSteps DEF Up, Down
  <2>3. ~aborted => \A x \in Fresh : ref[x] = 0
    BY <1>1, <2>2 DEF Stops
  <2>4. ~aborted => \A x \in Fresh : ref[x] \notin outlived[x]
    <3>1. \A x \in Fresh : count[x] \in Nat /\ outlived[x] \subseteq 1 .. count[x]
      BY <1>1, ControllerAssumption DEF TypeOK, Threaded, FreshInv
    <3>2. \A n \in Nat : 0 \notin 1 .. n
      OBVIOUS
    <3> QED
      BY <2>3, <3>1, <3>2
  <2> QED
    BY <2>1, <2>2, <2>4 DEF FreshInv, Moves
<1>3. ASSUME NEW c \in Callers, Stop(c)
      PROVE  FreshInv' /\ Moves
  <2>1. left = <<>> /\ calls' = calls + 1 /\ UNCHANGED <<ref, count, outlived, aborted>>
    BY <1>3, CallerFacts DEF Stop, Call, OneCaller, left, threadVars, historyVars
  <2>2. ControllerInv' /\ Down'
    BY <1>3, StopKeeps
  <2> QED
    BY <2>1, <2>2, StopsFresh DEF Moves
<1>4. CASE UNCHANGED <<state, reason, todo, ref, count, outlived, aborted>> /\ calls' = calls
  BY <1>4 DEF FreshInv, Moves, Up, left
<1> QED
  BY <1>2, <1>3, <1>4, CallsCounted, CallMoves DEF Next

LEMMA FreshInductive ==
  ASSUME OneCaller
  PROVE  Spec => [](ControllerInv /\ FreshInv)
<1>1. Init => FreshInv
  <2> SUFFICES ASSUME Init PROVE FreshInv
    OBVIOUS
  <2>1. left = <<>> /\ state = "STOPPED"
    BY InitHolds, CallerFacts DEF ControllerInv, Init, Idle
  <2> QED
    BY <2>1, NoSteps DEF Init, FreshInv, Threaded, Up
<1>2. ControllerInv /\ FreshInv /\ [Next]_vars => FreshInv'
  <2> SUFFICES ASSUME ControllerInv, FreshInv, UNCHANGED vars PROVE FreshInv'
    BY NextMoves
  <2>1. UNCHANGED <<state, todo, ref, count, outlived, aborted>>
    BY DEF vars, threadVars, historyVars
  <2> QED
    BY <2>1 DEF FreshInv, Up, left
<1> QED
  BY <1>1, <1>2, Inductive, PTL DEF Spec

LEMMA ServesNow ==
  ASSUME OneCaller, ControllerInv, FreshInv
  PROVE  RunningServes
<1> SUFFICES ASSUME Idle, state = "RUNNING", ~aborted
             PROVE  /\ socket["publisher"] = "bound"
                    /\ \A y \in Threaded :
                         Serves(y) /\ (y \in Fresh => ref[y] \notin outlived[y])
  BY DEF RunningServes, Serves, Threaded
<1>1. left = <<>> /\ Starts
  BY CallerFacts DEF ControllerInv
<1>2. Up /\ \A o, x : ~Has(left, o, x)
  BY <1>1, NoSteps DEF Up
<1> QED
  BY <1>1, <1>2 DEF Starts, StartsPublisher, StartsAgain, StartsNew, StartsOrServes, Launching, FreshInv, Threaded

\* While RUNNING with no call in progress, the publisher is bound and every service has a
\* thread that works, but for the three exceptions RunningServes names: the camera failed, a
\* join was given up, or an exception left a stop or a clean-up half way.  Unless it did, a
\* loop or a client, which each start makes anew, is never taken for one that was given up
\* (controller.py:141-149, frame_source.py:344-363).
THEOREM RunningMeansServing == OneCaller => (Spec => []RunningServes)
<1> SUFFICES ASSUME OneCaller PROVE Spec => []RunningServes
  OBVIOUS
<1>1. ControllerInv /\ FreshInv => RunningServes
  BY ServesNow
<1> QED
  BY <1>1, FreshInductive, PTL

--------------------------------------------------------------------------------
(* The status.                                                             *)


Stages == {"idle", "loop", "available", "ready", "reason", "report"}

Local ==
  [at : Stages, stream : [Streams -> Ages], loop : Ages \union {"absent", "error"},
   reason : BOOLEAN, available : BOOLEAN, ready : BOOLEAN, overlap : Nat]

StatusTypeOK ==
  /\ stream \subseteq Streams
  /\ outcome \in {"none", "result", "error"}
  /\ reader \in [Readers -> Local]
  /\ calls \in Nat
  /\ reason \in BOOLEAN

--------------------------------------------------------------------------------
(* Types.                                                                  *)

LEMMA ReasonKept ==
  ASSUME reason \in BOOLEAN, Next
  PROVE  reason' \in BOOLEAN
<1>1. ASSUME NEW c \in Callers, CallStep(c)
      PROVE  reason' \in BOOLEAN
  <2>1. CASE \/ CreateRaises(c) \/ Release(c) \/ Free(c) \/ FreeRaises(c) \/ Forget(c)
             \/ \E s \in States : SetState(c, s)
    BY <2>1 DEF CreateRaises, Release, Free, FreeRaises, Forget, SetState
  <2>2. ASSUME NEW x \in Threaded \union Socketed,
               \/ Test(c, x) \/ Clear(c, x) \/ Bind(c, x) \/ BindRaises(c, x)
               \/ Create(c, x) \/ Respawn(c, x) \/ Spawn(c, x)
        PROVE  reason' = reason
    BY <2>2 DEF Test, Clear, Bind, BindRaises, Create, Respawn, Spawn
  <2>3. ASSUME NEW x \in Threaded \union Socketed,
               \/ HaltService(c, x) \/ HaltFresh(c, x) \/ Tell(c, x)
               \/ Join(c, x) \/ JoinTimesOut(c, x) \/ Close(c, x) \/ Drop(c, x)
        PROVE  reason' = reason
    BY <2>3 DEF HaltService, HaltFresh, Tell, Join, JoinTimesOut, Close, Drop
  <2> QED
    BY <1>1, <2>1, <2>2, <2>3 DEF CallStep
<1> QED
  BY <1>1, CallsCounted

LEMMA QuietType == Quiet \in Local
<1>1. [s \in Streams |-> "none"] \in [Streams -> Ages]
  BY DEF Ages
<1> QED
  BY <1>1 DEF Quiet, Local, Stages

\* The local variables that a step of status() gives to its reader.
LEMMA StatusTypes ==
  ASSUME StatusTypeOK, NEW r \in Readers, Status(r)
  PROVE  /\ StatusTypeOK' /\ UNCHANGED <<vars, stream, outcome>>
         /\ \A q \in Readers \ {r} : reader'[q] = reader[q]
<1>1. /\ UNCHANGED <<vars, stream, outcome>>
      /\ reader' = [reader EXCEPT ![r] = reader'[r]]
  BY DEF StatusTypeOK, Status, Snapshot, ReadLoop, ReadAvailable, ReadReady, ReadReason, Report
<1>2. reader \in [Readers -> Local] /\ reader[r] \in Local
  BY DEF StatusTypeOK
<1>3. reader'[r] \in Local
  <2>1. Quiet \in Local
    BY QuietType
  <2>2. CASE Snapshot(r)
    <3>1. InProgress \in Nat
      BY CallersAssumption, FS_Subset, FS_CardinalityType DEF InProgress
    <3>2. PICK ages \in [Streams -> Ages] :
            reader' = [reader EXCEPT ![r] = [Quiet EXCEPT !.at = "loop", !.stream = ages,
                                                          !.overlap = InProgress]]
      BY <2>2 DEF Snapshot
    <3>3. reader'[r] = [Quiet EXCEPT !.at = "loop", !.stream = ages, !.overlap = InProgress]
      BY <1>2, <3>2
    <3> QED
      BY <2>1, <3>1, <3>3 DEF Stages, Local
  <2>3. CASE ReadLoop(r)
    <3>1. LoopStats \subseteq Ages \union {"absent", "error"}
      BY DEF LoopStats, AgeOf, Ages
    <3>2. PICK loop \in LoopStats :
            reader' = [reader EXCEPT ![r].at = "available", ![r].loop = loop,
                                     ![r].reason = reason]
      BY <2>3 DEF ReadLoop
    <3>3. loop \in Ages \union {"absent", "error"} /\ reason \in BOOLEAN
      BY <3>1 DEF StatusTypeOK
    <3>4. reader'[r] = [reader[r] EXCEPT !.at = "available", !.loop = loop, !.reason = reason]
      BY <1>2, <3>2
    <3> QED
      BY <1>2, <3>3, <3>4 DEF Stages, Local
  <2>4. CASE ReadAvailable(r)
    <3>1. PICK engine, device, recent \in BOOLEAN :
            reader' = [reader EXCEPT ![r].at = "ready",
                                     ![r].available = engine /\ CameraAvailable(device, recent)]
      BY <2>4 DEF ReadAvailable
    <3> DEFINE available == engine /\ CameraAvailable(device, recent)
    <3>2. available \in BOOLEAN
      BY DEF CameraAvailable
    <3>3. reader'[r] = [reader[r] EXCEPT !.at = "ready", !.available = available]
      BY <1>2, <3>1
    <3> HIDE DEF available
    <3> QED
      BY <1>2, <3>2, <3>3 DEF Stages, Local
  <2>5. CASE ReadReady(r)
    BY <1>2, <2>5 DEF ReadReady, HasAll, Stages, Local
  <2>6. CASE ReadReason(r)
    BY <1>2, <2>6 DEF ReadReason, Ladder, HasAll, Current, Stages, Local
  <2>7. CASE Report(r)
    BY <1>2, <2>1, <2>7 DEF Report
  <2> QED
    BY <2>2, <2>3, <2>4, <2>5, <2>6, <2>7 DEF Status
<1>4. reader' \in [Readers -> Local]
  BY <1>1, <1>2, <1>3
<1>5. calls' = calls /\ reason' = reason
  BY <1>1 DEF vars
<1> QED
  BY <1>1, <1>4, <1>5 DEF StatusTypeOK

LEMMA ControlTypes ==
  ASSUME StatusTypeOK, Control
  PROVE  /\ StatusTypeOK'
         /\ \A r \in Readers :
              /\ reader[r].at = "idle" => reader'[r] = reader[r]
              /\ reader[r].at # "idle" =>
                   reader'[r] = [reader[r] EXCEPT !.overlap = @ + calls' - calls]
<1>1. calls' \in Nat /\ (calls' = calls \/ calls' = calls + 1)
  BY CallsCounted DEF Control, StatusTypeOK
<1>2. reason' \in BOOLEAN
  BY ReasonKept DEF Control, StatusTypeOK
<1>3. stream' \subseteq Streams /\ outcome' \in {"none", "result", "error"}
  BY DEF Control, StatusTypeOK
<1>4. \A r \in Readers :
        /\ reader[r].at = "idle" => reader'[r] = reader[r]
        /\ reader[r].at # "idle" =>
             reader'[r] = [reader[r] EXCEPT !.overlap = @ + calls' - calls]
  BY DEF Control
<1>5. ASSUME NEW r \in Readers
      PROVE  reader'[r] \in Local
  <2>1. reader[r] \in Local
    BY DEF StatusTypeOK
  <2>2. calls \in Nat /\ reader[r].overlap \in Nat
    BY <2>1 DEF StatusTypeOK, Local
  <2>3. reader[r].overlap + calls' - calls \in Nat
    BY <1>1, <2>2
  <2> QED
    BY <1>4, <2>1, <2>3 DEF Local
<1>6. reader' \in [Readers -> Local]
  <2>1. reader' = [r \in Readers |-> reader'[r]]
    BY DEF Control
  <2> QED
    BY <1>5, <2>1
<1> QED
  BY <1>1, <1>2, <1>3, <1>4, <1>6 DEF StatusTypeOK

LEMMA StatusInitTypes == StatusInit => StatusTypeOK
<1> SUFFICES ASSUME StatusInit PROVE StatusTypeOK
  OBVIOUS
<1>1. reader \in [Readers -> Local]
  BY QuietType DEF StatusInit
<1>2. calls \in Nat /\ stream = {} /\ outcome = "none"
  BY DEF StatusInit, Init
<1>3. reason \in BOOLEAN
  <2>1. reason = FALSE
    BY DEF StatusInit, Init
  <2> QED
    BY <2>1
<1> QED
  BY <1>1, <1>2, <1>3 DEF StatusTypeOK

LEMMA StatusNextTypes ==
  ASSUME StatusTypeOK, [StatusNext]_statusVars
  PROVE  StatusTypeOK'
<1>1. ASSUME NEW r \in Readers, Status(r)
      PROVE  StatusTypeOK'
  BY <1>1, StatusTypes
<1>2. CASE Control
  BY <1>2, ControlTypes
<1>3. CASE Receive \/ Process
  <2>1. /\ UNCHANGED <<reader, calls, reason>>
        /\ stream' \subseteq Streams /\ outcome' \in {"none", "result", "error"}
    BY <1>3 DEF Receive, Process, vars, StatusTypeOK
  <2> QED
    BY <2>1 DEF StatusTypeOK
<1>4. CASE UNCHANGED statusVars
  BY <1>4 DEF statusVars, vars, StatusTypeOK
<1> QED
  BY <1>1, <1>2, <1>3, <1>4 DEF StatusNext

--------------------------------------------------------------------------------
(* A status with no call beside it.                                        *)

Undisturbed(r) == reader[r].at # "idle" /\ reader[r].overlap = 0

\* No call is in progress, and what the reader has noted holds now.
StillTrue(r) ==
  /\ Idle
  /\ reader[r].at \in {"available", "ready", "reason"} => reader[r].reason = reason
  /\ reader[r].at = "reason" => (reader[r].ready <=> (state = "RUNNING" /\ HasAll(r)))
  /\ reader[r].at = "report" =>
       /\ reader[r].ready => state = "RUNNING"
       /\ state = "RUNNING" => (reader[r].ready <=> ~reader[r].reason)
       /\ state = "ERROR" => reader[r].reason

ConsistentInv ==
  /\ StatusTypeOK
  /\ state = "ERROR" => reason
  /\ \A r \in Readers : Undisturbed(r) => StillTrue(r)

LEMMA ErrorHasReason ==
  ASSUME state = "ERROR" => reason, Next
  PROVE  state' = "ERROR" => reason'
<1>1. ASSUME NEW c \in Callers, CallStep(c)
      PROVE  state' = "ERROR" => reason'
  <2>1. CASE CreateRaises(c) \/ Release(c) \/ Free(c) \/ FreeRaises(c) \/ Forget(c)
    BY <2>1 DEF CreateRaises, Release, Free, FreeRaises, Forget
  <2>2. ASSUME NEW s \in States, SetState(c, s)
        PROVE  state' = "ERROR" => reason'
    BY <2>2 DEF SetState
  <2>3. ASSUME NEW x \in Threaded \union Socketed,
               \/ Test(c, x) \/ Clear(c, x) \/ Bind(c, x) \/ BindRaises(c, x)
               \/ Create(c, x) \/ Respawn(c, x) \/ Spawn(c, x)
        PROVE  UNCHANGED <<state, reason>>
    BY <2>3 DEF Test, Clear, Bind, BindRaises, Create, Respawn, Spawn
  <2>4. ASSUME NEW x \in Threaded \union Socketed,
               \/ HaltService(c, x) \/ HaltFresh(c, x) \/ Tell(c, x)
               \/ Join(c, x) \/ JoinTimesOut(c, x) \/ Close(c, x) \/ Drop(c, x)
        PROVE  UNCHANGED <<state, reason>>
    BY <2>4 DEF HaltService, HaltFresh, Tell, Join, JoinTimesOut, Close, Drop
  <2> QED
    BY <1>1, <2>1, <2>2, <2>3, <2>4 DEF CallStep
<1> QED
  BY <1>1, CallsCounted

\* While no call is in progress and none begins, only the services' threads take steps.
LEMMA IdleKept ==
  ASSUME Idle, Next, calls \in Nat, calls' = calls
  PROVE  UNCHANGED <<state, reason, todo>>
<1>1. \A c \in Callers : ~CallStep(c)
  BY CallInProgress DEF Idle
<1> QED
  BY <1>1, CallsCounted

\* A reader is undisturbed only if no call was in progress when it began.
LEMMA SnapshotIdle ==
  ASSUME InProgress = 0
  PROVE  Idle
<1> DEFINE Busy == {c \in Callers : todo[c] # <<>>}
<1>1. IsFiniteSet(Busy)
  BY CallersAssumption, FS_Subset
<1>2. Busy = {}
  BY <1>1, FS_EmptySet DEF InProgress
<1> QED
  BY <1>2 DEF Idle

LEMMA StepConsistent ==
  ASSUME ConsistentInv, NEW r \in Readers, Status(r)
  PROVE  ConsistentInv'
<1>1. /\ StatusTypeOK /\ StatusTypeOK'
      /\ UNCHANGED <<vars, stream, outcome>>
      /\ \A q \in Readers \ {r} : reader'[q] = reader[q]
  BY StatusTypes DEF ConsistentInv
<1>2. UNCHANGED <<state, reason, todo>>
  BY <1>1 DEF vars
<1>3. (Idle' <=> Idle) /\ (state' = "ERROR" => reason')
  BY <1>2 DEF ConsistentInv, Idle
<1>4. ASSUME NEW q \in Readers \ {r}, Undisturbed(q)'
      PROVE  StillTrue(q)'
  <2>1. Undisturbed(q) /\ StillTrue(q)
    BY <1>1, <1>4 DEF ConsistentInv, Undisturbed
  <2> QED
    BY <1>1, <1>2, <1>3, <2>1 DEF StillTrue, HasAll
<1>5. ASSUME Undisturbed(r)'
      PROVE  StillTrue(r)'
  <2> DEFINE old == reader[r]
             new == reader'[r]
  <2>1. reader \in [Readers -> Local] /\ old \in Local
    BY <1>1 DEF StatusTypeOK
  <2>2. Quiet.at = "idle"
    BY DEF Quiet
  <2>3. CASE Snapshot(r)
    <3>1. new.at = "loop" /\ new.overlap = InProgress
      BY <2>1, <2>3 DEF Snapshot, Quiet, Local
    <3>2. Idle
      BY <1>5, <3>1, SnapshotIdle DEF Undisturbed
    <3> QED
      BY <1>3, <3>1, <3>2 DEF StillTrue
  <2>4. CASE ReadLoop(r)
    <3>1. /\ new.at = "available" /\ new.reason = reason /\ new.overlap = old.overlap
          /\ old.at = "loop"
      BY <2>1, <2>4 DEF ReadLoop, Local
    <3>2. StillTrue(r)
      BY <1>5, <3>1 DEF ConsistentInv, Undisturbed
    <3> QED
      BY <1>2, <1>3, <3>1, <3>2 DEF StillTrue
  <2>5. CASE ReadAvailable(r)
    <3>1. /\ new.at = "ready" /\ new.reason = old.reason /\ new.overlap = old.overlap
          /\ old.at = "available"
      BY <2>1, <2>5 DEF ReadAvailable, Local
    <3>2. StillTrue(r)
      BY <1>5, <3>1 DEF ConsistentInv, Undisturbed
    <3> QED
      BY <1>2, <1>3, <3>1, <3>2 DEF StillTrue
  <2>6. CASE ReadReady(r)
    <3>1. /\ new.at = "reason" /\ new.reason = old.reason /\ new.overlap = old.overlap
          /\ new.available = old.available /\ new.stream = old.stream /\ old.at = "ready"
          /\ new.ready <=> (state = "RUNNING" /\ HasAll(r))
      BY <2>1, <2>6 DEF ReadReady, HasAll, Local
    <3>2. StillTrue(r)
      BY <1>5, <3>1 DEF ConsistentInv, Undisturbed
    <3>3. HasAll(r)' <=> HasAll(r)
      BY <3>1 DEF HasAll
    <3> QED
      BY <1>2, <1>3, <3>1, <3>2, <3>3 DEF StillTrue
  <2>7. CASE ReadReason(r)
    <3>1. new.at = "report" /\ new.overlap = old.overlap /\ old.at = "reason"
      BY <2>1, <2>7 DEF ReadReason, Ladder, Local
    <3>2. StillTrue(r)
      BY <1>5, <3>1 DEF ConsistentInv, Undisturbed
    <3>3. CASE state = "RUNNING"
      <4>1. /\ new.ready <=> (old.ready /\ (HasAll(r) => Current(r)))
            /\ new.reason <=> ~(HasAll(r) /\ Current(r))
        BY <2>1, <2>7, <3>3 DEF ReadReason, Ladder, HasAll, Current, Local
      <4>2. old.ready <=> HasAll(r)
        BY <3>1, <3>2, <3>3 DEF StillTrue
      <4> QED
        BY <1>2, <1>3, <3>1, <3>2, <3>3, <4>1, <4>2 DEF StillTrue
    <3>4. CASE state # "RUNNING"
      <4>1. new.ready = old.ready /\ new.reason = old.reason
        BY <2>1, <2>7, <3>4 DEF ReadReason, Local
      <4>2. ~old.ready /\ old.reason = reason
        BY <3>1, <3>2, <3>4 DEF StillTrue
      <4> QED
        BY <1>2, <1>3, <3>1, <3>2, <3>4, <4>1, <4>2 DEF StillTrue, ConsistentInv
    <3> QED
      BY <3>3, <3>4
  <2>8. CASE Report(r)
    BY <1>5, <2>1, <2>2, <2>8 DEF Report, Undisturbed
  <2> QED
    BY <2>3, <2>4, <2>5, <2>6, <2>7, <2>8 DEF Status
<1> QED
  BY <1>1, <1>3, <1>4, <1>5 DEF ConsistentInv

LEMMA ControlConsistent ==
  ASSUME ConsistentInv, Control
  PROVE  ConsistentInv'
<1>1. /\ StatusTypeOK /\ StatusTypeOK'
      /\ \A r \in Readers :
           /\ reader[r].at = "idle" => reader'[r] = reader[r]
           /\ reader[r].at # "idle" =>
                reader'[r] = [reader[r] EXCEPT !.overlap = @ + calls' - calls]
  BY ControlTypes DEF ConsistentInv
<1>2. Next /\ calls \in Nat /\ (calls' = calls \/ calls' = calls + 1)
  BY <1>1, CallsCounted DEF Control, StatusTypeOK
<1>3. state' = "ERROR" => reason'
  BY <1>2, ErrorHasReason DEF ConsistentInv
<1>4. ASSUME NEW r \in Readers, Undisturbed(r)'
      PROVE  StillTrue(r)'
  <2>1. reader[r] \in Local
    BY <1>1 DEF StatusTypeOK
  <2>2. reader[r].at # "idle"
    BY <1>1, <1>4 DEF Undisturbed
  <2>3. /\ reader'[r].overlap = reader[r].overlap + calls' - calls
        /\ reader'[r].at = reader[r].at /\ reader'[r].reason = reader[r].reason
        /\ reader'[r].ready = reader[r].ready /\ reader'[r].available = reader[r].available
        /\ reader'[r].stream = reader[r].stream
    BY <1>1, <2>1, <2>2 DEF Local
  <2>4. reader[r].overlap = 0 /\ calls' = calls
    BY <1>2, <1>4, <2>1, <2>3 DEF Undisturbed, Local
  <2>5. StillTrue(r)
    BY <2>2, <2>4 DEF ConsistentInv, Undisturbed
  <2>6. UNCHANGED <<state, reason, todo>>
    BY <1>2, <2>4, <2>5, IdleKept DEF StillTrue
  <2> QED
    BY <2>3, <2>5, <2>6 DEF StillTrue, Idle, HasAll
<1> QED
  BY <1>1, <1>3, <1>4 DEF ConsistentInv

\* Receiving a message and processing a frame change nothing that a status has read.
LEMMA OthersConsistent ==
  ASSUME ConsistentInv, Receive \/ Process \/ UNCHANGED statusVars, StatusTypeOK'
  PROVE  ConsistentInv'
<1>1. UNCHANGED <<reader, state, reason, todo>>
  BY DEF Receive, Process, statusVars, vars
<1> QED
  BY <1>1 DEF ConsistentInv, Undisturbed, StillTrue, Idle, HasAll

\* A status that no control call runs beside is ready exactly when it gives no reason
\* while RUNNING, never ready otherwise, and gives the reason of a failed start: for any
\* callers and however many readers run beside (controller.py:187-232).
THEOREM ReportsConsistent == StatusSpec => []StatusConsistent
<1>1. StatusInit => ConsistentInv
  <2> SUFFICES ASSUME StatusInit PROVE ConsistentInv
    OBVIOUS
  <2>1. \A r \in Readers : reader[r].at = "idle"
    BY DEF StatusInit, Quiet
  <2>2. state # "ERROR"
    BY DEF StatusInit, Init
  <2> QED
    BY <2>1, <2>2, StatusInitTypes DEF ConsistentInv, Undisturbed
<1>2. ConsistentInv /\ [StatusNext]_statusVars => ConsistentInv'
  <2> SUFFICES ASSUME ConsistentInv, [StatusNext]_statusVars PROVE ConsistentInv'
    OBVIOUS
  <2>1. StatusTypeOK'
    BY StatusNextTypes DEF ConsistentInv
  <2> QED
    BY <2>1, StepConsistent, ControlConsistent, OthersConsistent DEF StatusNext
<1>3. ConsistentInv => StatusConsistent
  BY DEF ConsistentInv, StatusConsistent, Undisturbed, StillTrue
<1> QED
  BY <1>1, <1>2, <1>3, PTL DEF StatusSpec

--------------------------------------------------------------------------------
(* A status with at most one call beside it, which one caller makes.       *)

\* The one call beside this status is a stop, or a start that has failed.
Gone(r) == Down /\ reader[r].overlap = 1

\* What the reader has noted about the loop is about the loop that is referred to now,
\* unless that is gone.
Asked(r) ==
  /\ reader[r].loop = "fresh" => (outcome # "none" /\ Up /\ ref["loop"] # 0) \/ Gone(r)
  /\ reader[r].ready => (left = <<>> /\ state = "RUNNING") \/ Gone(r)
  /\ reader[r].at = "reason" /\ reader[r].ready => HasAll(r) \/ Gone(r)
  /\ reader[r].at = "report" /\ reader[r].ready => reader[r].loop = "fresh" \/ Gone(r)

\* A reader knows of the call in progress, and while that is the only one, and none has been
\* left half way, its notes hold.
Following(r) ==
  reader[r].at # "idle" =>
    /\ left # <<>> => reader[r].overlap >= 1
    /\ reader[r].overlap <= 1 /\ ~aborted => Asked(r)

ReadyInv ==
  /\ ControllerInv /\ FreshInv /\ StatusTypeOK
  /\ \A r \in Readers : Following(r)

\* What Following(r) is about.
LEMMA SameFollowing ==
  ASSUME NEW r \in Readers, Following(r), reader'[r] = reader[r],
         UNCHANGED <<state, todo, aborted>>, ref'["loop"] = ref["loop"],
         outcome # "none" => outcome' # "none"
  PROVE  Following(r)'
<1>1. left' = left /\ (Up' <=> Up) /\ (Down' <=> Down)
  BY DEF left, Up, Down
<1> QED
  BY <1>1 DEF Following, Asked, Gone, HasAll

LEMMA StepReady ==
  ASSUME OneCaller, ReadyInv, NEW r \in Readers, Status(r)
  PROVE  ReadyInv'
<1>1. /\ StatusTypeOK /\ StatusTypeOK'
      /\ UNCHANGED <<vars, stream, outcome>>
      /\ \A q \in Readers \ {r} : reader'[q] = reader[q]
  BY StatusTypes DEF ReadyInv
<1>2. UNCHANGED <<state, todo, ref, count, outlived, aborted>>
  BY <1>1 DEF vars, threadVars, historyVars
<1>3. left' = left /\ (Up' <=> Up) /\ (Down' <=> Down)
  BY <1>2 DEF left, Up, Down
<1>4. ControllerInv' /\ FreshInv'
  <2>1. ControllerInv'
    BY <1>1, NextKeeps DEF ReadyInv
  <2>2. FreshInv'
    BY <1>2, <1>3 DEF ReadyInv, FreshInv
  <2> QED
    BY <2>1, <2>2
<1>5. ASSUME NEW q \in Readers \ {r}
      PROVE  Following(q)'
  BY <1>1, <1>2, SameFollowing DEF ReadyInv
<1>6. /\ TypeOK /\ Script /\ Stops /\ Following(r)
      /\ reader \in [Readers -> Local] /\ reader[r] \in Local
  BY <1>1 DEF ReadyInv, ControllerInv, StatusTypeOK
<1>7. (Up \/ Down) /\ ~(Up /\ Down)
  BY <1>6, Sides
<1> DEFINE old == reader[r]
           new == reader'[r]
<1>8. Following(r)'
  <2>1. CASE Snapshot(r)
    <3>1. new.at = "loop" /\ new.overlap = InProgress /\ new.loop = "absent" /\ ~new.ready
      BY <1>6, <2>1 DEF Snapshot, Quiet
    <3>2. left # <<>> => InProgress >= 1
      <4> SUFFICES ASSUME left # <<>> PROVE InProgress >= 1
        OBVIOUS
      <4> DEFINE Busy == {c \in Callers : todo[c] # <<>>}
      <4>1. IsFiniteSet(Busy)
        BY CallersAssumption, FS_Subset
      <4>2. TheCaller \in Busy
        BY <1>6, CallerFacts DEF left
      <4>3. Cardinality(Busy) \in Nat /\ Cardinality(Busy) # 0
        BY <4>1, <4>2, FS_CardinalityType, FS_EmptySet
      <4> QED
        BY <4>3 DEF InProgress
    <3> QED
      BY <1>3, <3>1, <3>2 DEF Following, Asked
  <2>2. CASE ReadLoop(r)
    <3>1. PICK loop \in LoopStats :
            reader' = [reader EXCEPT ![r].at = "available", ![r].loop = loop,
                                     ![r].reason = reason]
      BY <2>2 DEF ReadLoop
    <3>2. /\ new.at = "available" /\ new.loop = loop /\ new.ready = old.ready
          /\ new.overlap = old.overlap
      BY <1>6, <3>1 DEF Local
    <3>3. old.at # "idle"
      BY <2>2 DEF ReadLoop
    <3>4. ASSUME loop = "fresh", old.overlap <= 1, ~aborted
          PROVE  (outcome # "none" /\ Up /\ ref["loop"] # 0) \/ Gone(r)
      <4>1. Running("loop") /\ outcome = "result"
        BY <3>1, <3>4 DEF LoopStats, AgeOf
      <4>2. ref["loop"] # 0
        <5>1. alive["loop"] \subseteq Ids /\ 0 \notin Ids
          BY <1>6, ControllerAssumption DEF TypeOK, Threaded, Fresh, Ids
        <5> QED
          BY <4>1, <5>1 DEF Running
      <4>3. CASE Down
        <5>1. Has(left, "halt", "loop") \/ Has(left, "drop", "loop")
          BY <1>6, <3>4, <4>2, <4>3 DEF Stops, Fresh
        <5>2. left # <<>>
          BY <5>1, NoSteps
        <5>3. old.overlap >= 1 /\ old.overlap \in Nat
          BY <1>6, <3>3, <5>2 DEF Following, Local
        <5> QED
          BY <3>4, <4>1, <4>3, <5>3 DEF Gone
      <4> QED
        BY <1>7, <4>1, <4>2, <4>3
    <3>5. Gone(r)' <=> Gone(r)
      BY <1>3, <3>2 DEF Gone
    <3> QED
      BY <1>1, <1>2, <1>3, <1>6, <3>2, <3>3, <3>4, <3>5 DEF Following, Asked
  <2>3. CASE ReadAvailable(r)
    <3>1. /\ new.at = "ready" /\ new.loop = old.loop /\ new.ready = old.ready
          /\ new.overlap = old.overlap /\ old.at = "available"
      BY <1>6, <2>3 DEF ReadAvailable, Local
    <3>2. Gone(r)' <=> Gone(r)
      BY <1>3, <3>1 DEF Gone
    <3> QED
      BY <1>1, <1>2, <1>3, <1>6, <3>1, <3>2 DEF Following, Asked
  <2>4. CASE ReadReady(r)
    <3>1. /\ new.at = "reason" /\ new.loop = old.loop /\ new.overlap = old.overlap
          /\ new.available = old.available /\ new.stream = old.stream /\ old.at = "ready"
          /\ new.ready <=> (state = "RUNNING" /\ HasAll(r))
      BY <1>6, <2>4 DEF ReadReady, HasAll, Local
    <3>2. (Gone(r)' <=> Gone(r)) /\ (HasAll(r)' <=> HasAll(r))
      BY <1>3, <3>1 DEF Gone, HasAll
    <3>3. ASSUME state = "RUNNING", old.overlap <= 1, left # <<>>
          PROVE  Gone(r)
      <4>1. Down
        BY <1>7, <3>3 DEF Up, ReadyInv, FreshInv
      <4>2. old.overlap >= 1 /\ old.overlap \in Nat
        BY <1>6, <3>1, <3>3 DEF Following, Local
      <4> QED
        BY <3>3, <4>1, <4>2 DEF Gone
    <3> QED
      BY <1>1, <1>2, <1>3, <1>6, <3>1, <3>2, <3>3 DEF Following, Asked
  <2>5. CASE ReadReason(r)
    <3>1. /\ new.at = "report" /\ new.loop = old.loop /\ new.overlap = old.overlap
          /\ new.ready => old.ready
          /\ old.at = "reason"
      BY <1>6, <2>5 DEF ReadReason, Ladder, HasAll, Current, Local
    <3>2. Gone(r)' <=> Gone(r)
      BY <1>3, <3>1 DEF Gone
    <3>3. ASSUME new.ready, old.overlap <= 1, ~aborted
          PROVE  new.loop = "fresh" \/ Gone(r)
      <4>1. Asked(r) /\ old.ready
        BY <1>6, <3>1, <3>3 DEF Following
      <4>2. CASE state = "RUNNING"
        <5>1. HasAll(r) \/ Gone(r)
          BY <3>1, <4>1 DEF Asked
        <5>2. HasAll(r) => Current(r)
          BY <1>6, <2>5, <3>3, <4>2 DEF ReadReason, Ladder, HasAll, Current, Local
        <5> QED
          BY <3>1, <5>1, <5>2 DEF Current
      <4>3. CASE state # "RUNNING"
        BY <4>1, <4>3 DEF Asked
      <4> QED
        BY <4>2, <4>3
    <3> QED
      BY <1>1, <1>2, <1>3, <1>6, <3>1, <3>2, <3>3 DEF Following, Asked
  <2>6. CASE Report(r)
    <3>1. new.at = "idle"
      BY <1>6, <2>6 DEF Report, Quiet
    <3> QED
      BY <3>1 DEF Following
  <2> QED
    BY <2>1, <2>2, <2>3, <2>4, <2>5, <2>6 DEF Status
<1> QED
  BY <1>1, <1>4, <1>5, <1>8 DEF ReadyInv

LEMMA ControlReady ==
  ASSUME OneCaller, ReadyInv, Control
  PROVE  ReadyInv'
<1>1. /\ StatusTypeOK /\ StatusTypeOK'
      /\ \A r \in Readers :
           /\ reader[r].at = "idle" => reader'[r] = reader[r]
           /\ reader[r].at # "idle" =>
                reader'[r] = [reader[r] EXCEPT !.overlap = @ + calls' - calls]
  BY ControlTypes DEF ReadyInv
<1>2. Next /\ ControllerInv /\ FreshInv /\ calls \in Nat
  BY <1>1 DEF Control, ReadyInv, StatusTypeOK
<1>3. ControllerInv'
  BY <1>2, NextKeeps
<1>4. FreshInv' /\ Moves
  BY <1>2, NextMoves
<1>5. (Up \/ Down) /\ ~(Up /\ Down) /\ (Up' \/ Down')
  <2>1. Script => (Up \/ Down) /\ ~(Up /\ Down)
    BY Sides
  <2>2. (Script => (Up \/ Down) /\ ~(Up /\ Down))'
    BY Sides, PTL
  <2> QED
    BY <1>2, <1>3, <2>1, <2>2 DEF ControllerInv
<1>6. outcome' = IF ref'["loop"] \in {0, ref["loop"]} THEN outcome ELSE "none"
  BY DEF Control
<1>7. ASSUME NEW r \in Readers
      PROVE  Following(r)'
  <2>1. reader[r] \in Local /\ Following(r)
    BY <1>1 DEF StatusTypeOK, ReadyInv
  <2>2. CASE reader[r].at = "idle"
    BY <1>1, <2>2 DEF Following
  <2>3. CASE reader[r].at # "idle"
    <3> DEFINE old == reader[r]
               new == reader'[r]
    <3>1. /\ new.at = old.at /\ new.loop = old.loop /\ new.ready = old.ready
          /\ new.available = old.available /\ new.stream = old.stream
          /\ new.overlap = old.overlap + calls' - calls
          /\ old.overlap \in Nat
      BY <1>1, <2>1, <2>3 DEF Local
    <3>2. HasAll(r)' <=> HasAll(r)
      BY <3>1 DEF HasAll
    <3>3. CASE /\ left = <<>> /\ calls' = calls + 1 /\ ref' = ref /\ aborted' = aborted
               /\ Up => Down'
      <4>1. new.overlap = old.overlap + 1 /\ new.overlap >= 1
        BY <1>2, <3>1, <3>3
      <4>2. ASSUME new.overlap <= 1, ~aborted
            PROVE  new.overlap = 1 /\ old.overlap = 0 /\ Asked(r) /\ ~Gone(r)
        BY <2>1, <2>3, <3>1, <4>1, <4>2 DEF Following, Gone
      <4>3. left = <<>> /\ state = "RUNNING" => Up
        BY DEF Up
      <4>4. outcome' = outcome
        BY <1>6, <3>3
      <4> QED
        BY <3>1, <3>2, <3>3, <4>1, <4>2, <4>3, <4>4 DEF Following, Asked, Gone
    <3>4. CASE /\ left # <<>> /\ calls' = calls
               /\ Down => Down' \/ aborted'
               /\ aborted => Down' \/ aborted'
               /\ \/ ref'["loop"] = ref["loop"]
                  \/ Up /\ ref["loop"] = 0
                  \/ Down /\ ref'["loop"] = 0
      <4>1. new.overlap = old.overlap /\ old.overlap >= 1
        BY <1>2, <2>1, <2>3, <3>1, <3>4 DEF Following
      <4>2. ASSUME new.overlap <= 1, ~aborted'
            PROVE  /\ new.overlap = 1 /\ old.overlap = 1
                   /\ aborted => Down'
                   /\ Down => Down'
                   /\ ~aborted => Asked(r)
                   /\ Gone(r)' <=> Down'
                   /\ Gone(r) <=> Down
        <5>1. new.overlap = 1 /\ old.overlap = 1 /\ (~aborted => Asked(r))
          BY <2>1, <2>3, <3>1, <4>1, <4>2 DEF Following
        <5> QED
          BY <3>4, <4>2, <5>1 DEF Gone
      <4>3. ASSUME new.overlap <= 1, ~aborted', ~Down'
            PROVE  /\ Asked(r) /\ ~Down /\ Up /\ Up' /\ ~Gone(r) /\ ~Gone(r)'
        BY <1>5, <4>2, <4>3
      <4>4. ASSUME new.overlap <= 1, ~aborted', ~Down', old.loop = "fresh"
            PROVE  outcome' # "none" /\ ref'["loop"] # 0
        <5>1. outcome # "none" /\ ref["loop"] # 0
          BY <4>3, <4>4 DEF Asked
        <5> QED
          BY <1>6, <3>4, <4>3, <4>4, <5>1
      <4>5. new.overlap <= 1 /\ ~aborted' => Asked(r)'
        <5>1. CASE Down'
          BY <4>2, <5>1 DEF Asked
        <5>2. ASSUME ~Down', new.overlap <= 1, ~aborted'
              PROVE  Asked(r)'
          <6>1. Asked(r) /\ Up' /\ ~Gone(r)
            BY <4>3, <5>2
          <6>2. ~old.ready
            BY <3>4, <6>1 DEF Asked
          <6> QED
            BY <3>1, <4>4, <5>2, <6>1, <6>2 DEF Asked
        <5> QED
          BY <5>1, <5>2
      <4> QED
        BY <3>1, <4>1, <4>5 DEF Following
    <3>5. CASE UNCHANGED <<state, todo, ref, aborted, calls>>
      <4>1. reader'[r] = reader[r]
        BY <1>1, <1>2, <2>1, <2>3, <3>5 DEF Local
      <4> QED
        BY <1>6, <2>1, <3>5, <4>1, SameFollowing
    <3> QED
      BY <1>4, <3>3, <3>4, <3>5 DEF Moves
  <2> QED
    BY <2>2, <2>3
<1> QED
  BY <1>1, <1>3, <1>4, <1>7 DEF ReadyInv

LEMMA OthersReady ==
  ASSUME OneCaller, ReadyInv, Receive \/ Process \/ UNCHANGED statusVars, StatusTypeOK'
  PROVE  ReadyInv'
<1>1. /\ UNCHANGED <<vars, reader>>
      /\ outcome # "none" => outcome' # "none"
  BY DEF Receive, Process, statusVars
<1>2. UNCHANGED <<state, todo, ref, count, outlived, aborted>>
  BY <1>1 DEF vars, threadVars, historyVars
<1>3. ControllerInv'
  BY <1>1, NextKeeps DEF ReadyInv
<1>4. FreshInv'
  BY <1>2 DEF ReadyInv, FreshInv, Up, left
<1>5. \A r \in Readers : Following(r)'
  BY <1>1, <1>2, SameFollowing DEF ReadyInv
<1> QED
  BY <1>3, <1>4, <1>5 DEF ReadyInv

\* With one caller, a status that says ready and RUNNING while no call is in progress is
\* about the loop that serves now, has published, and has its publisher bound, if at most
\* one call ran beside it: no start follows a stop within one call, so the loop that was
\* asked is not another one (controller.py:183-234).
THEOREM ReadyServes == OneCaller => (StatusSpec => []ReadyMeansServing)
<1> SUFFICES ASSUME OneCaller PROVE StatusSpec => []ReadyMeansServing
  OBVIOUS
<1>1. StatusInit => ReadyInv
  <2> SUFFICES ASSUME StatusInit PROVE ReadyInv
    OBVIOUS
  <2>1. Init /\ \A r \in Readers : reader[r].at = "idle"
    BY DEF StatusInit, Quiet
  <2>2. ControllerInv /\ left = <<>>
    BY <2>1, InitHolds, CallerFacts DEF ControllerInv, Init, Idle
  <2>3. FreshInv
    BY <2>1, <2>2, NoSteps DEF Init, FreshInv, Threaded, Up
  <2> QED
    BY <2>1, <2>2, <2>3, StatusInitTypes DEF ReadyInv, Following
<1>2. ReadyInv /\ [StatusNext]_statusVars => ReadyInv'
  <2> SUFFICES ASSUME ReadyInv, [StatusNext]_statusVars PROVE ReadyInv'
    OBVIOUS
  <2>1. StatusTypeOK'
    BY StatusNextTypes DEF ReadyInv
  <2> QED
    BY <2>1, StepReady, ControlReady, OthersReady DEF StatusNext
<1>3. ReadyInv => ReadyMeansServing
  <2> SUFFICES ASSUME ReadyInv, NEW r \in Readers, reader[r].at = "report", reader[r].ready,
                      state = "RUNNING", reader[r].overlap <= 1, Idle, ~aborted
               PROVE  /\ ref["loop"] \in alive["loop"] \ Told("loop")
                      /\ outcome # "none"
                      /\ socket["publisher"] = "bound"
    BY DEF ReadyMeansServing
  <2>1. left = <<>> /\ ControllerInv /\ FreshInv
    BY CallerFacts DEF ReadyInv, ControllerInv
  <2>2. Up /\ ~Gone(r)
    BY <2>1, NoSteps DEF Up, Gone, Down
  <2>3. outcome # "none"
    BY <2>2 DEF ReadyInv, Following, Asked
  <2>4. RunningServes
    BY <2>1, ServesNow
  <2> QED
    BY <2>3, <2>4 DEF RunningServes, Threaded, Fresh, Restartable
<1> QED
  BY <1>1, <1>2, <1>3, PTL DEF StatusSpec
================================================================================
