----------------------------- MODULE RelayProofs -----------------------------
(***************************************************************************)
(* Proofs about the HTTP relay, for any sessions and any number of         *)
(* requests.                                                               *)
(*                                                                         *)
(* Most steps have one of two shapes: a request arrives, or one ends, and  *)
(* some connections are closed and lose their registration with it.        *)
(***************************************************************************)
EXTENDS Relay, SequenceTheorems, TLAPS

Points == {"connecting", "exchanging", "awaiting", "answered", "failed", "done"}

LEMMA Constants ==
  None \notin Requests /\ \A c \in Requests : c # None /\ c \in Nat
BY RelayAssumption DEF None, Requests

LEMMA ReceivedRequests ==
  ASSUME TypeOK
  PROVE  /\ Received = 1..Len(handler) /\ Len(handler) \in Nat
         /\ \A r \in Received : r \in Requests /\ handler[r] \in Handlers
BY DEF TypeOK, Received

(* A sequence with at most one element.                                    *)
LEMMA OneElement ==
  ASSUME NEW x
  PROVE  /\ Head(<<x>>) = x /\ Tail(<<x>>) = <<>> /\ Append(<<>>, x) = <<x>>
         /\ <<x>> # <<>> /\ \A y : <<x>> = <<y>> => x = y
OBVIOUS

-----------------------------------------------------------------------------
(* What a step does to the handlers.                                       *)

LEMMA GoesEffect ==
  ASSUME TypeOK, NEW r \in Received, NEW p \in Points, Goes(r, p)
  PROVE  /\ handler' \in Seq(Handlers) /\ Received' = Received
         /\ \A q \in Received :
              /\ handler'[q].at = IF q = r THEN p ELSE handler[q].at
              /\ handler'[q].kind = handler[q].kind
              /\ handler'[q].session = handler[q].session
              /\ handler'[q].connection = handler[q].connection
              /\ handler'[q].answer = handler[q].answer
<1>1. handler \in Seq(Handlers)
  BY DEF TypeOK
<1>2. [handler[r] EXCEPT !.at = p] \in Handlers
  BY ReceivedRequests DEF Handlers, Points
<1>3. handler' = [handler EXCEPT ![r] = [handler[r] EXCEPT !.at = p]]
  BY DEF Goes
<1>4. handler' \in Seq(Handlers) /\ Received' = Received
  BY <1>1, <1>2, <1>3, ExceptSeq DEF Received
<1>5. \A q \in Received :
        handler'[q] = IF q = r THEN [handler[r] EXCEPT !.at = p] ELSE handler[q]
  BY <1>1, <1>3 DEF Received
<1> QED BY <1>2, <1>4, <1>5, ReceivedRequests DEF Handlers

LEMMA ArrivesEffect ==
  ASSUME TypeOK, Len(handler) < MaxRequests,
         NEW h \in Handlers, handler' = Append(handler, h)
  PROVE  LET n == Len(handler) + 1 IN
         /\ handler' \in Seq(Handlers)
         /\ n \in Requests /\ n \notin Received /\ Received' = Received \cup {n}
         /\ handler'[n] = h
         /\ \A q \in Received : handler'[q] = handler[q]
<1>1. handler \in Seq(Handlers) /\ Received = 1..Len(handler) /\ Len(handler) \in Nat
  BY ReceivedRequests DEF TypeOK
<1>2. /\ handler' \in Seq(Handlers) /\ Len(handler') = Len(handler) + 1
      /\ \A q \in 1..Len(handler) : handler'[q] = handler[q]
      /\ handler'[Len(handler) + 1] = h
  BY <1>1, AppendProperties
<1>3. Received' = 1..Len(handler)+1
  BY <1>2 DEF Received
<1> QED BY <1>1, <1>2, <1>3, RelayAssumption DEF Requests

-----------------------------------------------------------------------------
(* What closing connections does.                                          *)

Closing(C) ==
  /\ C \subseteq socket_open
  /\ socket_open' = socket_open \ C
  /\ \A c \in Requests :
       /\ process'[c] = IF c \in C THEN "exited" ELSE process[c]
       /\ server_queue'[c] = IF c \in C THEN <<>> ELSE server_queue[c]
       /\ buffer'[c] = IF c \in C THEN <<>> ELSE buffer[c]
  /\ \A s \in Sessions :
       PIBT_CONNECTIONS'[s] = IF PIBT_CONNECTIONS[s] \in C THEN None
                              ELSE PIBT_CONNECTIONS[s]
  /\ process' \in [Requests -> {"none", "serving", "finished", "exited", "leaked"}]
  /\ server_queue' \in [Requests -> Seq(Requests)]
  /\ buffer' \in [Requests -> Seq(Requests)]
  /\ PIBT_CONNECTIONS' \in [Sessions -> Requests \cup {None}]

LEMMA CloseEffect ==
  ASSUME TypeOK, NEW C, Close(C)
  PROVE  /\ socket_open' = socket_open \ C
         /\ \A c \in Requests :
              /\ process'[c] = IF c \in C THEN "exited" ELSE process[c]
              /\ server_queue'[c] = IF c \in C THEN <<>> ELSE server_queue[c]
              /\ buffer'[c] = IF c \in C THEN <<>> ELSE buffer[c]
         /\ process' \in [Requests -> {"none", "serving", "finished", "exited", "leaked"}]
         /\ server_queue' \in [Requests -> Seq(Requests)]
         /\ buffer' \in [Requests -> Seq(Requests)]
<1>1. /\ process' = [c \in Requests |-> IF c \in C THEN "exited" ELSE process[c]]
      /\ server_queue' = [c \in Requests |-> IF c \in C THEN <<>> ELSE server_queue[c]]
      /\ buffer' = [c \in Requests |-> IF c \in C THEN <<>> ELSE buffer[c]]
      /\ socket_open' = socket_open \ C
  BY DEF Close
<1>2. \A c \in Requests : /\ (IF c \in C THEN <<>> ELSE server_queue[c]) \in Seq(Requests)
                          /\ (IF c \in C THEN <<>> ELSE buffer[c]) \in Seq(Requests)
  BY EmptySeq DEF TypeOK
<1>3. server_queue' \in [Requests -> Seq(Requests)]
  BY <1>1, <1>2
<1>4. buffer' \in [Requests -> Seq(Requests)]
  BY <1>1, <1>2
<1>5. process' \in [Requests -> {"none", "serving", "finished", "exited", "leaked"}]
  BY <1>1 DEF TypeOK
<1> QED BY <1>1, <1>3, <1>4, <1>5

(* A registered connection is registered for one session only: to remove   *)
(* the connections of some sessions is to close them and to forget them    *)
(* wherever they are registered.                                           *)
LEMMA RemoveEffect ==
  ASSUME TypeOK, RegisteredIsOpen, NEW S \in SUBSET Sessions, Remove(S)
  PROVE  /\ Closing(Registered(S))
         /\ \A c \in Registered(S) : At(c, "done")
         /\ \A s \in S : PIBT_CONNECTIONS[s] \in Registered(S) \cup {None}
         /\ \A s \in S : PIBT_CONNECTIONS'[s] = None
<1> USE Constants
<1>1. \A c \in Registered(S) : \E s \in S : c = PIBT_CONNECTIONS[s] /\ c # None
  BY DEF Registered
<1>2. Registered(S) \subseteq socket_open /\ \A c \in Registered(S) : At(c, "done")
  BY <1>1 DEF RegisteredIsOpen
<1>3. \A s \in Sessions : PIBT_CONNECTIONS[s] \in Registered(S) => s \in S
  BY <1>1 DEF RegisteredIsOpen
<1>4. \A s \in S : PIBT_CONNECTIONS[s] \in Registered(S) \cup {None}
  BY DEF Registered
<1>5. PIBT_CONNECTIONS' = [s \in Sessions |->
                             IF s \in S THEN None ELSE PIBT_CONNECTIONS[s]]
  BY DEF Remove
<1>6. \A s \in Sessions :
        PIBT_CONNECTIONS'[s] = IF PIBT_CONNECTIONS[s] \in Registered(S) THEN None
                               ELSE PIBT_CONNECTIONS[s]
  BY <1>3, <1>4, <1>5
<1>7. PIBT_CONNECTIONS' \in [Sessions -> Requests \cup {None}]
  BY <1>5 DEF TypeOK
<1>8. Close(Registered(S))
  BY DEF Remove
<1> QED BY <1>2, <1>4, <1>5, <1>6, <1>7, <1>8, CloseEffect DEF Closing

LEMMA ClosingNothing ==
  ASSUME TypeOK,
         UNCHANGED <<PIBT_CONNECTIONS, process, socket_open, server_queue, buffer>>
  PROVE  Closing({})
BY DEF TypeOK, Closing

-----------------------------------------------------------------------------
(* The shapes of steps.                                                    *)

(* Request r ends; a failed one closes the connection it used, if it is    *)
(* still there and its client waits for its answers.                       *)
Ends(r, C) ==
  /\ r \in Received /\ Goes(r, "done") /\ ~At(r, "awaiting")
  /\ Closing(C) /\ \A c \in C : c = r \/ At(c, "done")
  /\ At(r, "failed") /\ Connection(r) \in socket_open
       /\ Session(r) \notin overlapped => Connection(r) \in C
  /\ handler[r].kind = "hello" => r \in C \/ process[r] = "none"
  /\ UNCHANGED <<lock, overlapped>>

(* Request h arrives: a hello removes the connection of the session,       *)
(* another one uses it.                                                    *)
Arriving(h, C) ==
  /\ h \in Handlers /\ h.answer = None
  /\ Len(handler) < MaxRequests /\ handler' = Append(handler, h)
  /\ Closing(C) /\ \A c \in C : At(c, "done")
  /\ PIBT_CONNECTIONS'[h.session] = h.connection
  /\ IF h.kind = "hello" THEN h.at = "connecting" /\ h.connection = None
     ELSE h.at = IF h.connection = None THEN "done" ELSE "exchanging"
  /\ overlapped' = overlapped \cup {x \in {h.session} : Waiting(x)}
  /\ UNCHANGED lock

LEMMA EndsOfRequests ==
  ASSUME RelayInv, UNCHANGED overlapped, NEW r \in Requests,
         \/ ConnectFails(r) \/ HelloFailed(r)
         \/ StepDone(r) \/ StepFailed(r) \/ ShutdownDone(r)
  PROVE  \E C : Ends(r, C)
<1> USE DEF RelayInv
<1>1. CASE ConnectFails(r)
  <2>1. Closing({})
    BY <1>1, ClosingNothing DEF ConnectFails, connections
  <2>2. process[r] = "none"
    BY <1>1 DEF ConnectFails, ConnectionsAreOfHellos
  <2>3. Ends(r, {})
    BY <1>1, <2>1, <2>2 DEF ConnectFails, Ends, At, connections
  <2> QED BY <2>3
<1>2. CASE HelloFailed(r)
  <2>1. /\ r \in Received /\ handler[r].at = "failed" /\ handler[r].kind = "hello"
        /\ Close({r}) /\ UNCHANGED <<PIBT_CONNECTIONS, lock>>
        /\ Goes(r, "done")
    BY <1>2 DEF HelloFailed, At
  <2>2. r \in socket_open /\ Connection(r) = r
    BY <2>1 DEF ConnectionsAreOfHellos, Active, At
  <2>3. \A s \in Sessions : PIBT_CONNECTIONS[s] # r
    BY <2>1, Constants DEF RegisteredIsOpen, At
  <2>4. PIBT_CONNECTIONS \in [Sessions -> Requests \cup {None}]
    BY DEF TypeOK
  <2>5. Closing({r})
    BY <2>1, <2>2, <2>3, <2>4, CloseEffect DEF Closing
  <2>6. Ends(r, {r})
    BY <2>1, <2>2, <2>5 DEF Ends, At
  <2> QED BY <2>6
<1>3. CASE StepDone(r)
  <2>1. Closing({})
    BY <1>3, ClosingNothing DEF StepDone, connections
  <2>2. Ends(r, {})
    BY <1>3, <2>1 DEF StepDone, Ends, At, connections
  <2> QED BY <2>2
<1>4. CASE StepFailed(r) \/ ShutdownDone(r)
  <2> DEFINE C == Registered({Session(r)})
  <2>1. /\ r \in Received /\ handler[r].at \in {"answered", "failed"}
        /\ handler[r].kind # "hello"
        /\ Remove({Session(r)}) /\ Goes(r, "done") /\ UNCHANGED lock
    BY <1>4 DEF StepFailed, ShutdownDone, At
  <2>2. Session(r) \in Sessions
    BY <2>1, ReceivedRequests DEF Handlers, Session
  <2>3. /\ Closing(C) /\ \A c \in C : At(c, "done")
        /\ PIBT_CONNECTIONS[Session(r)] \in C \cup {None}
    BY <2>1, <2>2, RemoveEffect
  <2>4. Session(r) \notin overlapped /\ Connection(r) \in socket_open
          => PIBT_CONNECTIONS[Session(r)] = Connection(r)
    BY <2>1 DEF OneAtATime, Active
  <2>5. socket_open \subseteq Requests
    BY DEF TypeOK
  <2>6. Session(r) \notin overlapped /\ Connection(r) \in socket_open
          => Connection(r) \in C
    BY <2>3, <2>4, <2>5, Constants
  <2>7. Ends(r, C)
    BY <2>1, <2>3, <2>6 DEF Ends, At
  <2> QED BY <2>7
<1> QED BY <1>1, <1>2, <1>3, <1>4

LEMMA ArrivalsOfRequests ==
  ASSUME RelayInv, NEW s \in Sessions, Start(s),
         overlapped' = overlapped \cup {x \in {s} : Waiting(x)}
  PROVE  \E h, C : Arriving(h, C)
<1> USE DEF RelayInv
<1>1. CASE HelloStart(s)
  <2>1. PICK expired \in SUBSET Idle :
          /\ Arrives("hello", s, None, "connecting")
          /\ Remove(expired \cup {s})
          /\ UNCHANGED lock
    BY <1>1 DEF HelloStart
  <2> DEFINE C == Registered(expired \cup {s})
             h == [kind |-> "hello", session |-> s, connection |-> None,
                   at |-> "connecting", answer |-> None]
  <2>2. expired \cup {s} \in SUBSET Sessions
    BY DEF Idle
  <2>3. /\ Closing(C) /\ \A c \in C : At(c, "done")
        /\ PIBT_CONNECTIONS'[s] = None
    BY <2>1, <2>2, RemoveEffect
  <2>4. h \in Handlers /\ Len(handler) < MaxRequests /\ handler' = Append(handler, h)
    BY <2>1 DEF Arrives, Handlers
  <2>5. Arriving(h, C)
    BY <2>1, <2>3, <2>4 DEF Arriving
  <2> QED BY <2>5
<1>2. ASSUME NEW kind \in {"step", "shutdown"}, StepStart(kind, s)
      PROVE  \E h, C : Arriving(h, C)
  <2> DEFINE c == PIBT_CONNECTIONS[s]
             h == [kind |-> kind, session |-> s, connection |-> c,
                   at |-> IF c = None THEN "done" ELSE "exchanging",
                   answer |-> None]
  <2>1. Closing({}) /\ UNCHANGED <<PIBT_CONNECTIONS, lock>>
    BY <1>2, ClosingNothing DEF StepStart, connections
  <2>2. h \in Handlers
    BY DEF TypeOK, Handlers
  <2>3. Len(handler) < MaxRequests /\ handler' = Append(handler, h)
    BY <1>2 DEF StepStart, Arrives
  <2>4. Arriving(h, {})
    BY <2>1, <2>2, <2>3 DEF Arriving
  <2> QED BY <2>4
<1> QED BY <1>1, <1>2 DEF Start

(* Connections of idle sessions are pruned.                                *)
Pruning(C) == /\ Closing(C) /\ \A c \in C : At(c, "done")
              /\ UNCHANGED <<handler, lock, overlapped>>

(* The steps of another shape.                                             *)
Other(r) == /\ \/ Connect(r) \/ ConnectLeaks(r) \/ HelloDone(r)
               \/ Send(r) \/ Receive(r) \/ ExchangeFails(r)
            /\ UNCHANGED overlapped
Serving(c) == (Serve(c) \/ ServerDies(c)) /\ UNCHANGED overlapped

LEMMA StepShapes ==
  ASSUME RelayInv, Next
  PROVE  \/ \E r, C : Ends(r, C)
         \/ \E h, C : Arriving(h, C)
         \/ \E C : Pruning(C)
         \/ \E r \in Requests : Other(r) \/ Serving(r)
<1>1. CASE \E s \in Sessions : /\ Start(s)
                               /\ overlapped' = overlapped \cup {x \in {s} : Waiting(x)}
  BY <1>1, ArrivalsOfRequests
<1>2. CASE Health /\ UNCHANGED overlapped
  <2>1. PICK expired \in SUBSET Idle : Remove(expired) /\ UNCHANGED <<handler, lock>>
    BY <1>2 DEF Health
  <2>2. expired \in SUBSET Sessions
    BY DEF Idle
  <2>3. Pruning(Registered(expired))
    BY <1>2, <2>1, <2>2, RemoveEffect DEF RelayInv, Pruning
  <2> QED BY <2>3
<1>3. ASSUME NEW r \in Requests, Progress(r), UNCHANGED overlapped
      PROVE  Other(r) \/ \E C : Ends(r, C)
  BY <1>3, EndsOfRequests DEF Progress, Other
<1>4. ASSUME NEW c \in Requests, Serve(c) \/ ServerDies(c), UNCHANGED overlapped
      PROVE  Serving(c)
  BY <1>4 DEF Serving
<1> QED BY <1>1, <1>2, <1>3, <1>4 DEF Next, Internal

(* What connecting and receiving do to the handlers.                       *)
LEMMA ConnectEffect ==
  ASSUME TypeOK, NEW r \in Requests, Connect(r)
  PROVE  /\ r \in Received /\ handler' \in Seq(Handlers) /\ Received' = Received
         /\ \A q \in Received :
              /\ handler'[q].at = IF q = r THEN "exchanging" ELSE handler[q].at
              /\ handler'[q].kind = handler[q].kind
              /\ handler'[q].session = handler[q].session
              /\ handler'[q].connection = IF q = r THEN r ELSE handler[q].connection
              /\ handler'[q].answer = handler[q].answer
<1> DEFINE h == [handler[r] EXCEPT !.at = "exchanging", !.connection = r]
<1>1. handler \in Seq(Handlers) /\ r \in Received
  BY DEF TypeOK, Connect, At
<1>2. h \in Handlers
  BY <1>1, ReceivedRequests DEF Handlers
<1>3. handler' = [handler EXCEPT ![r] = h]
  BY DEF Connect
<1>4. handler' \in Seq(Handlers) /\ Received' = Received
  BY <1>1, <1>2, <1>3, ExceptSeq DEF Received
<1>5. \A q \in Received : handler'[q] = IF q = r THEN h ELSE handler[q]
  BY <1>1, <1>3 DEF Received
<1>7. /\ h.at = "exchanging" /\ h.kind = handler[r].kind
      /\ h.session = handler[r].session /\ h.connection = r
      /\ h.answer = handler[r].answer
  BY <1>1, ReceivedRequests DEF Handlers
<1> HIDE DEF h
<1> QED BY <1>1, <1>7, <1>2, <1>4, <1>5

LEMMA ReceiveEffect ==
  ASSUME TypeOK, ConnectionsAreOfHellos, NEW r \in Requests, Receive(r)
  PROVE  /\ r \in Received /\ handler' \in Seq(Handlers) /\ Received' = Received
         /\ Connection(r) \in Requests
         /\ \A q \in Received :
              /\ handler'[q].at = IF q = r THEN "answered" ELSE handler[q].at
              /\ handler'[q].kind = handler[q].kind
              /\ handler'[q].session = handler[q].session
              /\ handler'[q].connection = handler[q].connection
              /\ handler'[q].answer = IF q = r THEN Head(buffer[Connection(r)])
                                      ELSE handler[q].answer
<1> DEFINE a == Head(buffer[Connection(r)])
           h == [handler[r] EXCEPT !.at = "answered", !.answer = a]
<1>1. handler \in Seq(Handlers) /\ r \in Received /\ Connection(r) \in Requests
  BY ReceivedRequests DEF TypeOK, Receive, At, ConnectionsAreOfHellos, Active
<1>2. a \in Requests
  BY <1>1, HeadTailProperties DEF TypeOK, Receive
<1>3. h \in Handlers
  BY <1>1, <1>2, ReceivedRequests DEF Handlers
<1>4. handler' = [handler EXCEPT ![r] = h]
  BY DEF Receive
<1>5. handler' \in Seq(Handlers) /\ Received' = Received
  BY <1>1, <1>3, <1>4, ExceptSeq DEF Received
<1>6. \A q \in Received : handler'[q] = IF q = r THEN h ELSE handler[q]
  BY <1>1, <1>4 DEF Received
<1>7. /\ h.at = "answered" /\ h.kind = handler[r].kind
      /\ h.session = handler[r].session /\ h.connection = handler[r].connection
      /\ h.answer = a
  BY <1>1, ReceivedRequests DEF Handlers
<1> HIDE DEF h
<1> QED BY <1>1, <1>7, <1>3, <1>5, <1>6

-----------------------------------------------------------------------------
(* Types.                                                                  *)

LEMMA TypeInit == Init => TypeOK
BY Constants, EmptySeq DEF Init, TypeOK, Received

LEMMA ArrivingEffect ==
  ASSUME TypeOK, NEW h, NEW C, Arriving(h, C)
  PROVE  LET n == Len(handler) + 1 IN
         /\ handler' \in Seq(Handlers)
         /\ n \in Requests /\ n \notin Received /\ Received' = Received \cup {n}
         /\ handler'[n] = h
         /\ \A q \in Received : handler'[q] = handler[q]
BY ArrivesEffect DEF Arriving

(* What a request uses: its connection, if it has one, is a connection.    *)
LEMMA UsesConnection ==
  ASSUME TypeOK, ConnectionsAreOfHellos, NEW r \in Received,
         handler[r].at \in {"exchanging", "awaiting", "answered", "failed"}
  PROVE  Connection(r) \in Requests
BY ReceivedRequests DEF ConnectionsAreOfHellos, Active, At, Handlers

LEMMA TypeStep ==
  ASSUME RelayInv, Next
  PROVE  TypeOK'
<1> USE DEF RelayInv
<1>1. ASSUME NEW r, NEW C, Ends(r, C) PROVE TypeOK'
  <2>1. handler' \in Seq(Handlers) /\ Received' = Received
    BY <1>1, GoesEffect DEF Ends, Points
  <2> QED BY <1>1, <2>1 DEF Ends, Closing, TypeOK
<1>2. ASSUME NEW h, NEW C, Arriving(h, C) PROVE TypeOK'
  <2>1. handler' \in Seq(Handlers) /\ Received' \subseteq Requests
    BY <1>2, ArrivingEffect DEF TypeOK
  <2>2. overlapped' \subseteq Sessions
    BY <1>2 DEF Arriving, TypeOK, Handlers
  <2> QED BY <1>2, <2>1, <2>2 DEF Arriving, Closing, TypeOK
<1>3. ASSUME NEW C, Pruning(C) PROVE TypeOK'
  BY <1>3 DEF Pruning, Closing, TypeOK, Received
<1>4. ASSUME NEW r \in Requests, Other(r) PROVE TypeOK'
  <2> USE <1>4 DEF Other
  <2>1. CASE Connect(r)
    BY <2>1, ConnectEffect DEF Connect, TypeOK
  <2>2. CASE ConnectLeaks(r)
    <3>1. handler' \in Seq(Handlers) /\ Received' = Received
      BY <2>2, GoesEffect DEF ConnectLeaks, At, Points
    <3> QED BY <2>2, <3>1 DEF ConnectLeaks, TypeOK
  <2>3. CASE HelloDone(r)
    <3>1. handler' \in Seq(Handlers) /\ Received' = Received
      BY <2>3, GoesEffect DEF HelloDone, At, Points
    <3> QED BY <2>3, <3>1 DEF HelloDone, connections, TypeOK
  <2>4. CASE Send(r)
    <3>1. r \in Received /\ handler[r].at = "exchanging"
      BY <2>4 DEF Send, At
    <3>2. Connection(r) \in Requests
      BY <3>1, UsesConnection
    <3>3. handler' \in Seq(Handlers) /\ Received' = Received
      BY <2>4, <3>1, GoesEffect DEF Send, Points
    <3>4. lock' \in [Requests -> Requests \cup {None}]
      BY <2>4, <3>2 DEF Send, TypeOK
    <3>5. server_queue' \in [Requests -> Seq(Requests)]
      <4>1. Append(server_queue[Connection(r)], r) \in Seq(Requests)
        BY <3>2, AppendProperties DEF TypeOK
      <4> QED BY <2>4, <3>2, <4>1 DEF Send, TypeOK
    <3> QED BY <2>4, <3>3, <3>4, <3>5 DEF Send, TypeOK
  <2>5. CASE Receive(r)
    <3>1. Connection(r) \in Requests /\ handler' \in Seq(Handlers) /\ Received' = Received
      BY <2>5, ReceiveEffect
    <3>2. lock' \in [Requests -> Requests \cup {None}]
      BY <2>5, <3>1 DEF Receive, TypeOK
    <3>3. buffer' \in [Requests -> Seq(Requests)]
      <4>1. Tail(buffer[Connection(r)]) \in Seq(Requests)
        BY <2>5, <3>1, HeadTailProperties DEF Receive, TypeOK
      <4> QED BY <2>5, <3>1, <4>1 DEF Receive, TypeOK
    <3> QED BY <2>5, <3>1, <3>2, <3>3 DEF Receive, TypeOK
  <2>6. CASE ExchangeFails(r)
    <3>1. r \in Received /\ handler[r].at = "awaiting"
      BY <2>6 DEF ExchangeFails, At
    <3>2. handler' \in Seq(Handlers) /\ Received' = Received
      BY <2>6, <3>1, GoesEffect DEF ExchangeFails, Points
    <3>3. lock' \in [Requests -> Requests \cup {None}]
      BY <2>6, <3>1, UsesConnection DEF ExchangeFails, TypeOK
    <3> QED BY <2>6, <3>2, <3>3 DEF ExchangeFails, TypeOK
  <2> QED BY <2>1, <2>2, <2>3, <2>4, <2>5, <2>6
<1>5. ASSUME NEW c \in Requests, Serving(c) PROVE TypeOK'
  <2> USE <1>5 DEF Serving
  <2>1. CASE Serve(c)
    <3>1. Head(server_queue[c]) \in Requests /\ Tail(server_queue[c]) \in Seq(Requests)
      BY <2>1, HeadTailProperties DEF Serve, TypeOK
    <3>2. Append(buffer[c], Head(server_queue[c])) \in Seq(Requests)
      BY <3>1, AppendProperties DEF TypeOK
    <3>3. /\ buffer' \in [Requests -> Seq(Requests)]
          /\ server_queue' \in [Requests -> Seq(Requests)]
      BY <2>1, <3>1, <3>2 DEF Serve, TypeOK
    <3>4. process' \in [Requests -> {"none", "serving", "finished", "exited", "leaked"}]
      BY <2>1 DEF Serve, TypeOK
    <3> QED BY <2>1, <3>3, <3>4 DEF Serve, TypeOK, Received
  <2>2. CASE ServerDies(c)
    BY <2>2, EmptySeq DEF ServerDies, TypeOK, Received
  <2> QED BY <2>1, <2>2
<1> QED BY <1>1, <1>2, <1>3, <1>4, <1>5, StepShapes

(* What the steps that only move a request do to the handlers.             *)
LEMMA MovesEffect ==
  ASSUME TypeOK, NEW r,
         \/ \E C : Ends(r, C)
         \/ r \in Requests /\ (ConnectLeaks(r) \/ HelloDone(r) \/ Send(r) \/ ExchangeFails(r))
  PROVE  /\ r \in Received /\ Received' = Received
         /\ \A q \in Received :
              /\ q # r => handler'[q].at = handler[q].at
              /\ handler'[q].kind = handler[q].kind
              /\ handler'[q].session = handler[q].session
              /\ handler'[q].connection = handler[q].connection
              /\ handler'[q].answer = handler[q].answer
         /\ handler'[r].at =
              IF ExchangeFails(r) THEN "failed"
              ELSE IF Send(r) THEN IF Connection(r) \in socket_open THEN "awaiting"
                                   ELSE "failed"
              ELSE "done"
<1>1. CASE \E C : Ends(r, C)
  <2>1. r \in Received /\ Goes(r, "done")
    BY <1>1 DEF Ends
  <2>2. ~ExchangeFails(r)
    BY <1>1 DEF Ends, ExchangeFails
  <2>3. ~Send(r)
    BY <2>1, GoesEffect DEF Send, Points
  <2> QED BY <2>1, <2>2, <2>3, GoesEffect DEF Points
<1>2. CASE ConnectLeaks(r) \/ HelloDone(r)
  <2>1. r \in Received /\ Goes(r, "done") /\ ~ExchangeFails(r) /\ ~Send(r)
    BY <1>2 DEF ConnectLeaks, HelloDone, ExchangeFails, Send, At
  <2> QED BY <2>1, GoesEffect DEF Points
<1>3. CASE Send(r)
  <2>1. /\ r \in Received /\ ~ExchangeFails(r)
        /\ Goes(r, IF Connection(r) \in socket_open THEN "awaiting" ELSE "failed")
    BY <1>3 DEF Send, ExchangeFails, At
  <2> QED BY <1>3, <2>1, GoesEffect DEF Points
<1>4. CASE ExchangeFails(r)
  <2>1. r \in Received /\ Goes(r, "failed")
    BY <1>4 DEF ExchangeFails, At
  <2> QED BY <1>4, <2>1, GoesEffect DEF Points
<1> QED BY <1>1, <1>2, <1>3, <1>4

-----------------------------------------------------------------------------
(* Connections are of hellos.                                              *)

LEMMA HellosInit == Init => ConnectionsAreOfHellos
BY DEF Init, ConnectionsAreOfHellos, Received

LEMMA HellosStep ==
  ASSUME RelayInv, Next
  PROVE  ConnectionsAreOfHellos'
<1> USE DEF RelayInv
<1> USE DEF ConnectionsAreOfHellos, Active, At, Session, Connection
<1>0. \A r \in Received : r \in Requests /\ handler[r] \in Handlers
  BY ReceivedRequests
<1>1. ASSUME NEW r, NEW C, Ends(r, C) PROVE ConnectionsAreOfHellos'
  <2>1. /\ r \in Received /\ Received' = Received
        /\ \A q \in Received :
             /\ handler'[q].at = IF q = r THEN "done" ELSE handler[q].at
             /\ handler'[q].kind = handler[q].kind
             /\ handler'[q].session = handler[q].session
             /\ handler'[q].connection = handler[q].connection
    BY <1>1, GoesEffect DEF Ends, Points
  <2>2. /\ socket_open' = socket_open \ C /\ C \subseteq socket_open
        /\ \A c \in C : c = r \/ handler[c].at = "done"
        /\ \A c \in Requests : process'[c] # "none" => process[c] # "none" \/ c \in C
    BY <1>1 DEF Ends, Closing
  <2>3. At(r, "connecting") => r \notin socket_open /\ process[r] = "none"
    BY <1>0
  <2> QED BY <2>1, <2>2, <2>3
<1>2. ASSUME NEW h, NEW C, Arriving(h, C) PROVE ConnectionsAreOfHellos'
  <2> DEFINE n == Len(handler) + 1
  <2>1. /\ n \in Requests /\ n \notin Received /\ Received' = Received \cup {n}
        /\ handler'[n] = h /\ \A q \in Received : handler'[q] = handler[q]
    BY <1>2, ArrivingEffect
  <2>2. /\ socket_open' = socket_open \ C /\ C \subseteq socket_open
        /\ \A c \in C : handler[c].at = "done"
        /\ \A c \in Requests : process'[c] # "none" => process[c] # "none" \/ c \in C
    BY <1>2 DEF Arriving, Closing
  <2>3. IF h.kind = "hello" THEN h.at = "connecting" /\ h.connection = None
        ELSE h.at = IF h.connection = None THEN "done" ELSE "exchanging"
    BY <1>2 DEF Arriving
  <2>4. h.connection # None => /\ h.connection \in Received
                               /\ handler[h.connection].session = h.session
    <3>1. h.session \in Sessions /\ PIBT_CONNECTIONS'[h.session] = h.connection
      BY <1>2 DEF Arriving, Handlers
    <3>2. h.connection # None => PIBT_CONNECTIONS[h.session] = h.connection
      BY <1>2, <3>1 DEF Arriving, Closing
    <3>3. socket_open \subseteq Requests
      BY DEF TypeOK
    <3> QED BY <3>1, <3>2, <3>3 DEF RegisteredIsOpen
  <2> HIDE DEF n
  <2> QED BY <1>0, <2>1, <2>2, <2>3, <2>4
<1>3. ASSUME NEW C, Pruning(C) PROVE ConnectionsAreOfHellos'
  <2>1. /\ UNCHANGED handler /\ socket_open' = socket_open \ C /\ C \subseteq socket_open
        /\ \A c \in C : handler[c].at = "done"
        /\ \A c \in Requests : process'[c] # "none" => process[c] # "none" \/ c \in C
    BY <1>3 DEF Pruning, Closing
  <2> QED BY <2>1 DEF Received
<1>4. ASSUME NEW r \in Requests, Other(r) PROVE ConnectionsAreOfHellos'
  <2>1. CASE Connect(r)
    <3>1. /\ r \in Received /\ Received' = Received
          /\ \A q \in Received :
               /\ handler'[q].at = IF q = r THEN "exchanging" ELSE handler[q].at
               /\ handler'[q].kind = handler[q].kind
               /\ handler'[q].session = handler[q].session
               /\ handler'[q].connection = IF q = r THEN r ELSE handler[q].connection
      BY <2>1, ConnectEffect
    <3>2. /\ handler[r].at = "connecting" /\ socket_open' = socket_open \cup {r}
          /\ \A c \in Requests : c # r => process'[c] = process[c]
      BY <2>1 DEF Connect, TypeOK
    <3>3. handler[r].kind = "hello" /\ r # None
      BY <3>1, <3>2, Constants
    <3>4. \A q \in Received : handler'[q].connection # None =>
             /\ handler'[q].connection \in Received
             /\ handler'[handler'[q].connection].session = handler'[q].session
             /\ handler'[q].kind = "hello" => handler'[q].connection = q
      BY <3>1, <3>3
    <3>5. \A q \in Received :
            /\ handler'[q].at = "connecting" => handler'[q].kind = "hello"
            /\ handler'[q].at \notin {"connecting", "done"}
                 => handler'[q].connection # None
            /\ handler'[q].kind = "hello" /\ handler'[q].at \notin {"connecting", "done"}
                 => q \in socket_open'
      BY <3>1, <3>2, <3>3
    <3>6. \A c \in Requests : process'[c] # "none" \/ c \in socket_open' =>
            c \in Received /\ handler'[c].kind = "hello" /\ handler'[c].at # "connecting"
      BY <3>1, <3>2, <3>3
    <3> QED BY <3>1, <3>4, <3>5, <3>6
  <2>2. CASE ConnectLeaks(r)
    <3>1. /\ r \in Received /\ Received' = Received
          /\ \A q \in Received :
               /\ handler'[q].at = IF q = r THEN "done" ELSE handler[q].at
               /\ handler'[q].kind = handler[q].kind
               /\ handler'[q].session = handler[q].session
               /\ handler'[q].connection = handler[q].connection
      BY <2>2, GoesEffect DEF ConnectLeaks, Points
    <3>2. /\ handler[r].at = "connecting" /\ UNCHANGED socket_open
          /\ \A c \in Requests : c # r => process'[c] = process[c]
      BY <2>2 DEF ConnectLeaks, TypeOK
    <3> QED BY <3>1, <3>2
  <2>3. CASE HelloDone(r) \/ Send(r) \/ ExchangeFails(r)
    <3>1. /\ r \in Received /\ Received' = Received
          /\ \A q \in Received :
               /\ q # r => handler'[q].at = handler[q].at
               /\ handler'[q].kind = handler[q].kind
               /\ handler'[q].session = handler[q].session
               /\ handler'[q].connection = handler[q].connection
          /\ handler'[r].at \in {"awaiting", "failed", "done"}
      BY <2>3, MovesEffect
    <3>2. /\ handler[r].at \in {"exchanging", "awaiting", "answered"}
          /\ UNCHANGED <<socket_open, process>>
      BY <2>3 DEF HelloDone, Send, ExchangeFails, connections
    <3> QED BY <3>1, <3>2
  <2>4. CASE Receive(r)
    <3>1. /\ r \in Received /\ Received' = Received
          /\ \A q \in Received :
               /\ handler'[q].at = IF q = r THEN "answered" ELSE handler[q].at
               /\ handler'[q].kind = handler[q].kind
               /\ handler'[q].session = handler[q].session
               /\ handler'[q].connection = handler[q].connection
      BY <2>4, ReceiveEffect
    <3>2. handler[r].at = "awaiting" /\ UNCHANGED <<socket_open, process>>
      BY <2>4 DEF Receive
    <3> QED BY <3>1, <3>2
  <2> QED BY <1>4, <2>1, <2>2, <2>3, <2>4 DEF Other
<1>5. ASSUME NEW c \in Requests, Serving(c) PROVE ConnectionsAreOfHellos'
  <2>1. /\ UNCHANGED <<handler, socket_open>>
        /\ process[c] # "none" /\ \A b \in Requests : b # c => process'[b] = process[b]
    BY <1>5 DEF Serving, Serve, ServerDies, TypeOK
  <2> QED BY <2>1 DEF Received
<1> QED BY <1>1, <1>2, <1>3, <1>4, <1>5, StepShapes

-----------------------------------------------------------------------------
(* What each step does to the requests, put in terms of the ones in        *)
(* progress.                                                               *)

Same(q) == /\ handler'[q].kind = handler[q].kind
           /\ handler'[q].session = handler[q].session

LEMMA EndsHandlers ==
  ASSUME RelayInv, NEW r, NEW C, Ends(r, C)
  PROVE  /\ r \in Received /\ Received' = Received /\ UNCHANGED overlapped
         /\ \A q \in Received :
              /\ Same(q) /\ handler'[q].connection = handler[q].connection
              /\ handler'[q].answer = handler[q].answer
              /\ handler'[q].at = IF q = r THEN "done" ELSE handler[q].at
BY GoesEffect DEF RelayInv, Ends, Points, Same

LEMMA OtherHandlers ==
  ASSUME RelayInv, NEW r \in Requests, Other(r)
  PROVE  /\ r \in Received /\ handler[r].at # "done" /\ Received' = Received
         /\ UNCHANGED overlapped
         /\ \A q \in Received :
              /\ Same(q)
              /\ q # r => /\ handler'[q].at = handler[q].at
                          /\ handler'[q].connection = handler[q].connection
                          /\ handler'[q].answer = handler[q].answer
         /\ ~Connect(r) => handler'[r].connection = handler[r].connection
         /\ ~Receive(r) => handler'[r].answer = handler[r].answer
         /\ ~ConnectLeaks(r) /\ ~HelloDone(r) => handler'[r].at # "done"
<1> USE DEF RelayInv, Other, Same
<1>1. CASE Connect(r)
  <2>1. handler[r].at = "connecting"
    BY <1>1 DEF Connect, At
  <2> QED BY <1>1, <2>1, ConnectEffect
<1>2. CASE Receive(r)
  <2>1. handler[r].at = "awaiting"
    BY <1>2 DEF Receive, At
  <2> QED BY <1>2, <2>1, ReceiveEffect
<1>3. CASE ConnectLeaks(r) \/ HelloDone(r) \/ Send(r) \/ ExchangeFails(r)
  <2>1. handler[r].at # "done"
    BY <1>3 DEF ConnectLeaks, HelloDone, Send, ExchangeFails, At
  <2> QED BY <1>3, <2>1, MovesEffect
<1> QED BY <1>1, <1>2, <1>3

-----------------------------------------------------------------------------
(* Registered connections are open.                                        *)

LEMMA ClosingKeeps ==
  ASSUME TypeOK, NEW C, Closing(C), NEW s \in Sessions, PIBT_CONNECTIONS'[s] # None
  PROVE  /\ PIBT_CONNECTIONS[s] = PIBT_CONNECTIONS'[s]
         /\ PIBT_CONNECTIONS[s] \in socket_open => PIBT_CONNECTIONS[s] \in socket_open'
BY DEF Closing

LEMMA RegisteredInit == Init => RegisteredIsOpen
BY DEF Init, RegisteredIsOpen

LEMMA RegisteredStep ==
  ASSUME RelayInv, Next
  PROVE  RegisteredIsOpen'
<1> USE DEF RelayInv
<1> USE DEF RegisteredIsOpen, At, Session, Same
<1>1. ASSUME NEW r, NEW C, Ends(r, C) PROVE RegisteredIsOpen'
  <2>1. Closing(C)
    BY <1>1 DEF Ends
  <2> QED BY <1>1, <2>1, EndsHandlers, ClosingKeeps
<1>2. ASSUME NEW h, NEW C, Arriving(h, C) PROVE RegisteredIsOpen'
  <2>1. Received' = Received \cup {Len(handler) + 1}
        /\ \A q \in Received : handler'[q] = handler[q]
    BY <1>2, ArrivingEffect
  <2>2. Closing(C)
    BY <1>2 DEF Arriving
  <2> QED BY <2>1, <2>2, ClosingKeeps
<1>3. ASSUME NEW C, Pruning(C) PROVE RegisteredIsOpen'
  <2>1. UNCHANGED handler /\ Received' = Received /\ Closing(C)
    BY <1>3 DEF Pruning, Received
  <2> QED BY <2>1, ClosingKeeps
<1>4. ASSUME NEW r \in Requests, Other(r) PROVE RegisteredIsOpen'
  <2>1. CASE HelloDone(r)
    <3>1. /\ Session(r) \in Sessions /\ r \in socket_open /\ UNCHANGED socket_open
          /\ PIBT_CONNECTIONS' = [PIBT_CONNECTIONS EXCEPT ![Session(r)] = r]
      BY <2>1, ReceivedRequests
         DEF HelloDone, Handlers, ConnectionsAreOfHellos, Active, connections
    <3>2. /\ Received' = Received /\ r \in Received /\ \A q \in Received : Same(q)
          /\ \A q \in Received : q # r => handler'[q].at = handler[q].at
          /\ handler'[r].at = "done"
      <4>1. ~Send(r) /\ ~ExchangeFails(r)
        BY <2>1 DEF HelloDone, Send, ExchangeFails
      <4> QED BY <2>1, <4>1, MovesEffect
    <3> QED BY <3>1, <3>2 DEF TypeOK
  <2>2. CASE ~HelloDone(r)
    <3>1. UNCHANGED PIBT_CONNECTIONS /\ socket_open \subseteq socket_open'
      BY <1>4, <2>2 DEF Other, Connect, ConnectLeaks, Send, Receive, ExchangeFails
    <3> QED BY <1>4, <3>1, OtherHandlers
  <2> QED BY <2>1, <2>2
<1>5. ASSUME NEW c \in Requests, Serving(c) PROVE RegisteredIsOpen'
  BY <1>5 DEF Serving, Serve, ServerDies, Received
<1> QED BY <1>1, <1>2, <1>3, <1>4, <1>5, StepShapes

-----------------------------------------------------------------------------
(* One request at a time.                                                  *)

LEMMA OneInit == Init => OneAtATime
BY DEF Init, OneAtATime, Received

LEMMA OneStep ==
  ASSUME RelayInv, Next
  PROVE  OneAtATime'
<1> USE DEF RelayInv
<1> USE DEF OneAtATime, Active, Session, Connection, Same
<1>0. \A r \in Received : r \in Requests /\ handler[r].session \in Sessions
  BY ReceivedRequests DEF Handlers
<1>1. ASSUME NEW r, NEW C, Ends(r, C) PROVE OneAtATime'
  <2>1. /\ socket_open' = socket_open \ C
        /\ \A s \in Sessions :
             PIBT_CONNECTIONS'[s] = IF PIBT_CONNECTIONS[s] \in C THEN None
                                    ELSE PIBT_CONNECTIONS[s]
    BY <1>1 DEF Ends, Closing
  <2>2. /\ Received' = Received /\ UNCHANGED overlapped
        /\ \A q \in Received :
              /\ Same(q) /\ handler'[q].connection = handler[q].connection
              /\ handler'[q].at # "done" => handler[q].at # "done"
    BY <1>1, EndsHandlers
  <2> QED BY <1>0, <2>1, <2>2
<1>2. ASSUME NEW h, NEW C, Arriving(h, C) PROVE OneAtATime'
  <2> DEFINE n == Len(handler) + 1
  <2>1. /\ n \notin Received /\ Received' = Received \cup {n}
        /\ handler'[n] = h /\ \A q \in Received : handler'[q] = handler[q]
    BY <1>2, ArrivingEffect
  <2> HIDE DEF n
  <2>2. /\ PIBT_CONNECTIONS'[h.session] = h.connection
        /\ h.kind = "hello" => h.connection = None
        /\ overlapped \subseteq overlapped'
        /\ h.session \notin overlapped' =>
             \A q \in Received : Active(q) => handler[q].session # h.session
    BY <1>2 DEF Arriving, Waiting
  <2>3. /\ socket_open' = socket_open \ C
        /\ \A s \in Sessions :
             PIBT_CONNECTIONS'[s] = IF PIBT_CONNECTIONS[s] \in C THEN None
                                    ELSE PIBT_CONNECTIONS[s]
    BY <1>2 DEF Arriving, Closing
  <2>4. ASSUME NEW r \in Received, handler[r].at # "done",
               handler[r].session \notin overlapped'
        PROVE  /\ \A q \in Received' : handler'[q].at # "done" /\
                    handler'[q].session = handler[r].session => q = r
               /\ IF handler[r].kind = "hello"
                  THEN PIBT_CONNECTIONS'[handler[r].session] = None
                  ELSE handler[r].connection \in socket_open'
                         => PIBT_CONNECTIONS'[handler[r].session] = handler[r].connection
    BY <1>0, <2>1, <2>2, <2>3, <2>4
  <2>5. ASSUME h.session \notin overlapped'
        PROVE  \A q \in Received' : handler'[q].at # "done" /\
                    handler'[q].session = h.session => q = n
    BY <2>1, <2>2, <2>5
  <2> QED BY <2>1, <2>2, <2>4, <2>5
<1>3. ASSUME NEW C, Pruning(C) PROVE OneAtATime'
  BY <1>0, <1>3 DEF Pruning, Closing, Received
<1>4. ASSUME NEW r \in Requests, Other(r) PROVE OneAtATime'
  <2>0. /\ r \in Received /\ handler[r].at # "done" /\ Received' = Received
        /\ UNCHANGED overlapped
        /\ \A q \in Received :
             /\ Same(q)
             /\ q # r => /\ handler'[q].at = handler[q].at
                         /\ handler'[q].connection = handler[q].connection
        /\ ~Connect(r) => handler'[r].connection = handler[r].connection
    BY <1>4, OtherHandlers
  <2>1. CASE Connect(r)
    <3>1. /\ UNCHANGED PIBT_CONNECTIONS /\ socket_open' = socket_open \cup {r}
          /\ handler[r].at = "connecting"
      BY <2>1 DEF Connect, At
    <3>2. handler[r].kind = "hello"
      BY <2>0, <3>1 DEF ConnectionsAreOfHellos, At
    <3>3. ASSUME NEW q \in Received, handler[q].at # "done", q # r,
                 handler[q].session \notin overlapped
          PROVE  handler[q].connection # r
      <4>1. r # None
        BY Constants
      <4>2. handler[q].connection = r => handler[r].session = handler[q].session
        BY <4>1 DEF ConnectionsAreOfHellos
      <4> QED BY <2>0, <3>3, <4>2
    <3> QED BY <2>0, <3>1, <3>2, <3>3
  <2>2. CASE HelloDone(r)
    <3>1. /\ handler'[r].at = "done"
          /\ PIBT_CONNECTIONS' = [PIBT_CONNECTIONS EXCEPT ![handler[r].session] = r]
          /\ UNCHANGED socket_open
      BY <2>2, MovesEffect DEF HelloDone, Send, ExchangeFails, At, connections
    <3>2. handler'[r].connection = handler[r].connection
      BY <2>0, <2>2 DEF HelloDone, Connect, At
    <3>3. \A s \in Sessions : s # handler[r].session
                              => PIBT_CONNECTIONS'[s] = PIBT_CONNECTIONS[s]
      BY <3>1 DEF TypeOK
    <3>4. ASSUME NEW q \in Received, handler'[q].at # "done",
                 handler[q].session \notin overlapped
          PROVE  handler[q].at # "done" /\ handler[q].session # handler[r].session
      BY <2>0, <3>1, <3>4
    <3> QED BY <1>0, <2>0, <3>1, <3>2, <3>3, <3>4
  <2>3. CASE ~Connect(r) /\ ~HelloDone(r)
    <3>1. UNCHANGED <<PIBT_CONNECTIONS, socket_open>>
      BY <1>4, <2>3 DEF Other, ConnectLeaks, Send, Receive, ExchangeFails
    <3> QED BY <2>0, <2>3, <3>1
  <2> QED BY <2>1, <2>2, <2>3
<1>5. ASSUME NEW c \in Requests, Serving(c) PROVE OneAtATime'
  <2>1. UNCHANGED <<handler, overlapped, PIBT_CONNECTIONS, socket_open>>
    BY <1>5 DEF Serving, Serve, ServerDies
  <2> QED BY <2>1 DEF Received
<1> QED BY <1>1, <1>2, <1>3, <1>4, <1>5, StepShapes

-----------------------------------------------------------------------------
(* Nothing stale is on the way.                                            *)

LEMMA NothingInit == Init => NothingStaleOnTheWay
BY DEF Init, NothingStaleOnTheWay, NothingStale

(* Whatever is on the way over the connection of a request in progress is  *)
(* that request.                                                           *)
LEMMA MineOnTheWay ==
  ASSUME RelayInv, NEW r \in Received, Active(r), Session(r) \notin overlapped,
         Connection(r) \in Requests,
         NEW x \in Received, Unanswered(Connection(r), x)
  PROVE  x = r
<1>1. Session(Connection(r)) = Session(r) /\ Session(Connection(x)) = Session(x)
  BY Constants DEF RelayInv, ConnectionsAreOfHellos, Unanswered
<1>2. Active(x) /\ Session(x) = Session(r)
  BY <1>1 DEF Active, Unanswered
<1> QED BY <1>2 DEF RelayInv, OneAtATime

LEMMA NothingStep ==
  ASSUME RelayInv, Next
  PROVE  NothingStaleOnTheWay'
<1> USE DEF RelayInv
<1> USE DEF NothingStaleOnTheWay, NothingStale, Session, Connection, Same, Unanswered,
            OnTheWay
<1>0. \A c \in socket_open : c \in Received
  BY DEF ConnectionsAreOfHellos, TypeOK
<1>1. ASSUME NEW e, NEW C, Ends(e, C) PROVE NothingStaleOnTheWay'
  <2>1. /\ socket_open' = socket_open \ C
        /\ \A c \in Requests :
             /\ server_queue'[c] = IF c \in C THEN <<>> ELSE server_queue[c]
             /\ buffer'[c] = IF c \in C THEN <<>> ELSE buffer[c]
    BY <1>1 DEF Ends, Closing
  <2>2. /\ e \in Received /\ Received' = Received /\ UNCHANGED overlapped
        /\ \A q \in Received :
             /\ Same(q) /\ handler'[q].connection = handler[q].connection
             /\ handler'[q].at = IF q = e THEN "done" ELSE handler[q].at
    BY <1>1, EndsHandlers
  <2>3. ASSUME NEW c \in Requests, c \notin C, c \in socket_open,
               Session(c) \notin overlapped,
               NEW x \in Received, Unanswered(c, x)
        PROVE  x # e
    <3>1. c # None /\ Session(x) = Session(c)
      BY <2>3, Constants DEF ConnectionsAreOfHellos
    <3> QED BY <1>1, <2>3, <3>1 DEF Ends, At
  <2>4. ASSUME NEW c \in Requests, c \notin C, c \in socket_open,
               Session(c) \notin overlapped,
               \E x \in Received : Unanswered(c, x) /\ OnTheWay(c, x)
        PROVE  \E x \in Received : Unanswered(c, x)' /\ OnTheWay(c, x)'
    BY <2>1, <2>2, <2>3, <2>4
  <2> QED BY <1>0, <2>1, <2>2, <2>4
<1>2. ASSUME NEW h, NEW C, Arriving(h, C) PROVE NothingStaleOnTheWay'
  <2>1. /\ socket_open' = socket_open \ C
        /\ \A c \in Requests :
             /\ server_queue'[c] = IF c \in C THEN <<>> ELSE server_queue[c]
             /\ buffer'[c] = IF c \in C THEN <<>> ELSE buffer[c]
        /\ overlapped \subseteq overlapped'
    BY <1>2 DEF Arriving, Closing
  <2>2. /\ Received \subseteq Received'
        /\ \A q \in Received : handler'[q] = handler[q]
    BY <1>2, ArrivingEffect
  <2> QED BY <1>0, <2>1, <2>2
<1>3. ASSUME NEW C, Pruning(C) PROVE NothingStaleOnTheWay'
  <2>1. /\ socket_open' = socket_open \ C
        /\ \A c \in Requests :
             /\ server_queue'[c] = IF c \in C THEN <<>> ELSE server_queue[c]
             /\ buffer'[c] = IF c \in C THEN <<>> ELSE buffer[c]
        /\ UNCHANGED <<handler, overlapped>>
    BY <1>3 DEF Pruning, Closing
  <2> QED BY <2>1 DEF Received
<1>4. ASSUME NEW e \in Requests, Other(e) PROVE NothingStaleOnTheWay'
  <2>0. /\ e \in Received /\ handler[e].at # "done" /\ Received' = Received
        /\ UNCHANGED overlapped
        /\ \A q \in Received :
             /\ Same(q)
             /\ q # e => /\ handler'[q].at = handler[q].at
                         /\ handler'[q].connection = handler[q].connection
        /\ ~Connect(e) => handler'[e].connection = handler[e].connection
    BY <1>4, OtherHandlers
  <2>1. CASE Connect(e) \/ ConnectLeaks(e) \/ HelloDone(e)
    <3>1. /\ handler[e].at \in {"connecting", "answered"}
          /\ UNCHANGED <<server_queue, buffer>> /\ socket_open \subseteq socket_open'
      BY <2>1 DEF Connect, ConnectLeaks, HelloDone, At, connections
    <3>2. ASSUME NEW c \in Requests, NEW x \in Received, Unanswered(c, x), OnTheWay(c, x)
          PROVE  Unanswered(c, x)' /\ OnTheWay(c, x)'
      BY <2>0, <3>1, <3>2
    <3> QED BY <1>0, <2>0, <3>1, <3>2
  <2>2. CASE Send(e)
    <3>0. PICK d \in Requests : d = handler[e].connection
      BY <2>0, <2>2, UsesConnection DEF Send, At
    <3>1. /\ handler[e].at = "exchanging" /\ UNCHANGED <<socket_open, buffer>>
          /\ server_queue' = IF d \in socket_open
                             THEN [server_queue EXCEPT ![d] = Append(@, e)]
                             ELSE server_queue
      BY <2>2, <3>0 DEF Send, At
    <3>2. handler'[e].at = IF d \in socket_open THEN "awaiting" ELSE "failed"
      <4>1. ~ExchangeFails(e)
        BY <3>1 DEF ExchangeFails, At
      <4> QED BY <2>2, <3>0, <4>1, MovesEffect
    <3>3. handler[e].connection = d /\ handler'[e].connection = d
      BY <2>0, <3>0, <3>1 DEF Connect, At
    <3>4. ASSUME NEW c \in Requests, c # d \/ d \notin socket_open,
                 NEW x \in Received, Unanswered(c, x), OnTheWay(c, x)
          PROVE  Unanswered(c, x)' /\ OnTheWay(c, x)'
      BY <2>0, <3>1, <3>3, <3>4
    <3>5. ASSUME d \in socket_open, Session(d) \notin overlapped
          PROVE  Unanswered(d, e)' /\ OnTheWay(d, e)'
      <4>1. Active(e) /\ Session(e) = Session(d)
        BY <2>0, <3>3, Constants DEF Active, ConnectionsAreOfHellos
      <4>2. \A x \in Received : ~Unanswered(d, x)
        BY <2>0, <3>1, <3>3, <3>5, <4>1, MineOnTheWay
      <4>3. server_queue[d] = <<>> /\ buffer[d] = <<>>
        BY <3>3, <3>5, <4>2
      <4>4. server_queue'[d] = <<e>> /\ buffer'[d] = <<>>
        BY <3>1, <3>3, <3>5, <4>3, OneElement DEF TypeOK
      <4> QED BY <2>0, <3>2, <3>3, <3>5, <4>4
    <3>6. \A c \in Requests : c # d \/ d \notin socket_open
                                => server_queue'[c] = server_queue[c]
      BY <3>1 DEF TypeOK
    <3>7. ASSUME NEW c \in Requests, c # d \/ d \notin socket_open
          PROVE  NothingStale(c)'
      BY <1>0, <2>0, <3>1, <3>4, <3>6, <3>7
    <3>8. d \in socket_open => NothingStale(d)'
      BY <1>0, <2>0, <3>1, <3>5
    <3> QED BY <3>7, <3>8
  <2>3. CASE Receive(e)
    <3>0. PICK d \in Requests : d = handler[e].connection
      BY <2>0, <2>3, UsesConnection DEF Receive, At
    <3>1. /\ d \in socket_open /\ buffer[d] # <<>> /\ handler[e].at = "awaiting"
          /\ UNCHANGED <<socket_open, server_queue>>
          /\ \A c \in Requests : c # d => buffer'[c] = buffer[c]
          /\ buffer'[d] = Tail(buffer[d])
      BY <2>3, <3>0 DEF Receive, At, TypeOK
    <3>2. handler[e].connection = d
      BY <3>0
    <3>3. ASSUME NEW c \in Requests, c # d,
                 NEW x \in Received, Unanswered(c, x), OnTheWay(c, x)
          PROVE  Unanswered(c, x)' /\ OnTheWay(c, x)'
      BY <2>0, <3>1, <3>2, <3>3
    <3>4. ASSUME Session(d) \notin overlapped
          PROVE  server_queue'[d] = <<>> /\ buffer'[d] = <<>>
      <4>1. PICK x \in Received : OnTheWay(d, x)
        BY <3>1, <3>4
      <4>2. server_queue[d] = <<>> /\ buffer[d] = <<x>>
        BY <3>1, <4>1
      <4> QED BY <3>1, <4>2, OneElement
    <3>5. ASSUME NEW c \in Requests, c # d PROVE NothingStale(c)'
      BY <1>0, <2>0, <3>1, <3>3, <3>5
    <3>6. NothingStale(d)'
      BY <1>0, <2>0, <3>1, <3>4
    <3> QED BY <3>5, <3>6
  <2>4. CASE ExchangeFails(e)
    <3>1. /\ handler'[e].at = "failed"
          /\ UNCHANGED <<socket_open, server_queue, buffer>>
      BY <2>4, MovesEffect DEF ExchangeFails
    <3>2. handler'[e].connection = handler[e].connection
      BY <2>0, <2>4 DEF ExchangeFails, Connect, At
    <3>3. ASSUME NEW c \in Requests, NEW x \in Received, Unanswered(c, x), OnTheWay(c, x)
          PROVE  Unanswered(c, x)' /\ OnTheWay(c, x)'
      BY <2>0, <3>1, <3>2, <3>3
    <3> QED BY <1>0, <2>0, <3>1, <3>3
  <2> QED BY <1>4, <2>1, <2>2, <2>3, <2>4 DEF Other
<1>5. ASSUME NEW d \in Requests, Serving(d) PROVE NothingStaleOnTheWay'
  <2>1. /\ UNCHANGED <<handler, socket_open, overlapped>>
        /\ \A c \in Requests : c # d => /\ server_queue'[c] = server_queue[c]
                                        /\ buffer'[c] = buffer[c]
    BY <1>5 DEF Serving, Serve, ServerDies, TypeOK
  <2>2. CASE Serve(d)
    <3>1. /\ server_queue[d] # <<>> /\ server_queue'[d] = Tail(server_queue[d])
          /\ buffer'[d] = Append(buffer[d], Head(server_queue[d]))
      BY <2>2 DEF Serve, TypeOK
    <3>2. ASSUME NEW x, OnTheWay(d, x)
          PROVE  server_queue'[d] = <<>> /\ buffer'[d] = <<x>>
      <4>1. server_queue[d] = <<x>> /\ buffer[d] = <<>>
        BY <3>1, <3>2
      <4> QED BY <3>1, <4>1, OneElement
    <3>3. ASSUME NEW c \in Requests, c # d PROVE NothingStale(c)'
      BY <2>1, <3>3 DEF Received
    <3>4. NothingStale(d)'
      BY <2>1, <3>1, <3>2 DEF Received
    <3> QED BY <3>3, <3>4
  <2>3. CASE ServerDies(d)
    <3>1. server_queue'[d] = <<>> /\ buffer'[d] = buffer[d]
      BY <2>3 DEF ServerDies, TypeOK
    <3> QED BY <2>1, <3>1 DEF Received
  <2> QED BY <1>5, <2>2, <2>3 DEF Serving
<1> QED BY <1>1, <1>2, <1>3, <1>4, <1>5, StepShapes

-----------------------------------------------------------------------------
(* The relay.                                                              *)

LEMMA Stuttering ==
  ASSUME RelayInv, UNCHANGED vars
  PROVE  RelayInv'
<1>1. UNCHANGED <<PIBT_CONNECTIONS, handler, process, socket_open, lock, server_queue,
                  buffer, overlapped>>
  BY DEF vars, connections
<1> QED
  BY <1>1 DEF RelayInv, TypeOK, ConnectionsAreOfHellos, RegisteredIsOpen, OneAtATime,
              NothingStaleOnTheWay, NothingStale, OnTheWay, Unanswered, Received,
              Active, At, Session, Connection

(* Whatever the clients send and however their requests interleave, no     *)
(* session is registered with a connection that has been closed, or with   *)
(* that of another session (_remove_pibt_connection and the handlers that  *)
(* call it); one that waits for its answers finds nothing stale on its     *)
(* connection.                                                             *)
THEOREM RelayIsInductive == Spec => []RelayInv
<1>1. Init => RelayInv
  BY TypeInit, HellosInit, RegisteredInit, OneInit, NothingInit DEF RelayInv
<1>2. RelayInv /\ [Next]_vars => RelayInv'
  <2>1. ASSUME RelayInv, Next PROVE RelayInv'
    BY <2>1, TypeStep, HellosStep, RegisteredStep, OneStep, NothingStep DEF RelayInv
  <2> QED BY <2>1, Stuttering
<1> QED BY <1>1, <1>2, PTL DEF Spec

LEMMA ProcessesStep ==
  ASSUME RelayInv, ProcessesAreKnown, Next
  PROVE  ProcessesAreKnown'
<1> USE DEF RelayInv
<1> USE DEF ProcessesAreKnown, Running, Active, Session, Same
<1>0. \A c \in Requests :
        process[c] # "none" => c \in Received /\ handler[c].kind = "hello"
  BY DEF ConnectionsAreOfHellos
<1>1. ASSUME NEW e, NEW C, Ends(e, C) PROVE ProcessesAreKnown'
  <2>1. \A c \in Requests : process'[c] = IF c \in C THEN "exited" ELSE process[c]
    BY <1>1 DEF Ends, Closing
  <2>2. \A c \in Requests : c \notin C /\ process[c] # "none" => c # e
    BY <1>0, <1>1 DEF Ends
  <2>3. \A c \in Requests : c \notin C /\ process[c] # "none" =>
          (PIBT_CONNECTIONS[handler[c].session] = c
             => PIBT_CONNECTIONS'[handler[c].session] = c)
    BY <1>0, <1>1, ReceivedRequests DEF Ends, Closing, Handlers
  <2>4. /\ Received' = Received /\ UNCHANGED overlapped
        /\ \A q \in Received :
             Same(q) /\ (q # e => handler'[q].at = handler[q].at)
    BY <1>1, EndsHandlers
  <2> QED BY <1>0, <2>1, <2>2, <2>3, <2>4
<1>2. ASSUME NEW h, NEW C, Arriving(h, C) PROVE ProcessesAreKnown'
  <2>1. \A c \in Requests : process'[c] = IF c \in C THEN "exited" ELSE process[c]
    BY <1>2 DEF Arriving, Closing
  <2>2. \A c \in Requests : c \notin C /\ process[c] # "none" =>
          (PIBT_CONNECTIONS[handler[c].session] = c
             => PIBT_CONNECTIONS'[handler[c].session] = c)
    BY <1>0, <1>2, ReceivedRequests DEF Arriving, Closing, Handlers
  <2>3. /\ Received \subseteq Received' /\ overlapped \subseteq overlapped'
        /\ \A q \in Received : handler'[q] = handler[q]
    BY <1>2, ArrivingEffect DEF Arriving
  <2> QED BY <1>0, <2>1, <2>2, <2>3
<1>3. ASSUME NEW C, Pruning(C) PROVE ProcessesAreKnown'
  <2>1. \A c \in Requests : process'[c] = IF c \in C THEN "exited" ELSE process[c]
    BY <1>3 DEF Pruning, Closing
  <2>2. \A c \in Requests : c \notin C /\ process[c] # "none" =>
          (PIBT_CONNECTIONS[handler[c].session] = c
             => PIBT_CONNECTIONS'[handler[c].session] = c)
    BY <1>0, <1>3, ReceivedRequests DEF Pruning, Closing, Handlers
  <2> QED BY <1>0, <1>3, <2>1, <2>2 DEF Pruning, Received
<1>4. ASSUME NEW e \in Requests, Other(e) PROVE ProcessesAreKnown'
  <2>0. /\ e \in Received /\ handler[e].at # "done" /\ Received' = Received
        /\ UNCHANGED overlapped
        /\ \A q \in Received :
             Same(q) /\ (q # e => handler'[q].at = handler[q].at)
        /\ ~ConnectLeaks(e) /\ ~HelloDone(e) => handler'[e].at # "done"
    BY <1>4, OtherHandlers
  <2>1. CASE Connect(e)
    <3>1. /\ UNCHANGED PIBT_CONNECTIONS /\ handler'[e].at # "done"
          /\ \A c \in Requests : c # e => process'[c] = process[c]
      BY <2>0, <2>1 DEF Connect, TypeOK, At, ConnectLeaks, HelloDone, Goes
    <3> QED BY <1>0, <2>0, <3>1
  <2>2. CASE ConnectLeaks(e)
    <3>1. /\ UNCHANGED PIBT_CONNECTIONS /\ process'[e] = "leaked"
          /\ \A c \in Requests : c # e => process'[c] = process[c]
      BY <2>2 DEF ConnectLeaks, TypeOK
    <3> QED BY <1>0, <2>0, <3>1
  <2>3. CASE HelloDone(e)
    <3>1. /\ UNCHANGED process /\ handler[e].kind = "hello"
          /\ handler[e].session \in Sessions
          /\ \A s \in Sessions : PIBT_CONNECTIONS'[s] =
               IF s = handler[e].session THEN e ELSE PIBT_CONNECTIONS[s]
      BY <2>0, <2>3, ReceivedRequests DEF HelloDone, TypeOK, connections, Handlers
    <3>2. handler[e].session \notin overlapped
            => PIBT_CONNECTIONS[handler[e].session] = None
      BY <2>0, <3>1 DEF OneAtATime
    <3>3. \A c \in Requests : process[c] # "none" => handler[c].session \in Sessions
      BY <1>0, ReceivedRequests DEF Handlers
    <3> QED BY <1>0, <2>0, <3>1, <3>2, <3>3, Constants
  <2>4. CASE ~Connect(e) /\ ~ConnectLeaks(e) /\ ~HelloDone(e)
    <3>1. UNCHANGED <<PIBT_CONNECTIONS, process>>
      BY <1>4, <2>4 DEF Other, Send, Receive, ExchangeFails
    <3> QED BY <1>0, <2>0, <2>4, <3>1
  <2> QED BY <2>1, <2>2, <2>3, <2>4
<1>5. ASSUME NEW d \in Requests, Serving(d) PROVE ProcessesAreKnown'
  <2>1. /\ UNCHANGED <<PIBT_CONNECTIONS, handler, overlapped>>
        /\ Running(d) /\ \A c \in Requests : c # d => process'[c] = process[c]
    BY <1>5 DEF Serving, Serve, ServerDies, TypeOK
  <2> QED BY <2>1 DEF Received
<1> QED BY <1>1, <1>2, <1>3, <1>4, <1>5, StepShapes

(* No server process that runs is forgotten, unless a client sends         *)
(* requests before it has its answers (the hello handler and               *)
(* _remove_pibt_connection).                                               *)
THEOREM RelayKnowsItsProcesses == Spec => []ProcessesAreKnown
<1>1. Init => ProcessesAreKnown
  BY DEF Init, ProcessesAreKnown, Running
<1>2. RelayInv /\ ProcessesAreKnown /\ [Next]_vars => ProcessesAreKnown'
  <2>1. CASE UNCHANGED vars
    BY <2>1 DEF vars, connections, ProcessesAreKnown, Running, Active, Session, Received
  <2> QED BY <2>1, ProcessesStep
<1> QED BY <1>1, <1>2, RelayIsInductive, PTL DEF Spec

LEMMA AnswerStep ==
  ASSUME RelayInv, AnswerIsMine, Next
  PROVE  AnswerIsMine'
<1> USE DEF RelayInv
<1> USE DEF AnswerIsMine, Session, Same
<1>1. ASSUME NEW e, NEW C, Ends(e, C) PROVE AnswerIsMine'
  BY <1>1, EndsHandlers
<1>2. ASSUME NEW h, NEW C, Arriving(h, C) PROVE AnswerIsMine'
  <2>1. h.answer = None /\ overlapped \subseteq overlapped'
    BY <1>2 DEF Arriving
  <2> QED BY <1>2, <2>1, ArrivingEffect
<1>3. ASSUME NEW C, Pruning(C) PROVE AnswerIsMine'
  BY <1>3 DEF Pruning, Received
<1>4. ASSUME NEW e \in Requests, Other(e) PROVE AnswerIsMine'
  <2>1. CASE Receive(e)
    <3>1. /\ e \in Received /\ handler[e].at = "awaiting" /\ Connection(e) \in socket_open
          /\ buffer[Connection(e)] # <<>>
      BY <2>1 DEF Receive, At
    <3>2. handler'[e].answer = Head(buffer[Connection(e)]) /\ Connection(e) \in Requests
      BY <2>1, ReceiveEffect
    <3>3. Session(Connection(e)) = Session(e) /\ Active(e)
      BY <3>1, <3>2, Constants DEF ConnectionsAreOfHellos, Active
    <3>4. ASSUME Session(e) \notin overlapped
          PROVE  Head(buffer[Connection(e)]) = e
      <4>1. PICK x \in Received : /\ Unanswered(Connection(e), x)
                                  /\ OnTheWay(Connection(e), x)
        BY <3>1, <3>2, <3>3, <3>4 DEF NothingStaleOnTheWay, NothingStale
      <4>2. x = e
        BY <3>1, <3>2, <3>3, <3>4, <4>1, MineOnTheWay
      <4>3. buffer[Connection(e)] = <<e>>
        BY <3>1, <4>1, <4>2 DEF OnTheWay
      <4> QED BY <4>3, OneElement
    <3> QED BY <1>4, <3>2, <3>4, OtherHandlers
  <2>2. CASE ~Receive(e)
    BY <1>4, <2>2, OtherHandlers
  <2> QED BY <2>1, <2>2
<1>5. ASSUME NEW d \in Requests, Serving(d) PROVE AnswerIsMine'
  BY <1>5 DEF Serving, Serve, ServerDies, Received
<1> QED BY <1>1, <1>2, <1>3, <1>4, <1>5, StepShapes

(* A client that waits for its answers never gets a late answer to an      *)
(* earlier request of its own (exchange and the handlers that drop the     *)
(* connection when it fails).                                              *)
THEOREM RelayAnswersAreMine == Spec => []AnswerIsMine
<1>1. Init => AnswerIsMine
  BY DEF Init, AnswerIsMine, Received
<1>2. RelayInv /\ AnswerIsMine /\ [Next]_vars => AnswerIsMine'
  <2>1. CASE UNCHANGED vars
    BY <2>1 DEF vars, AnswerIsMine, Session, Received
  <2> QED BY <2>1, AnswerStep
<1> QED BY <1>1, <1>2, RelayIsInductive, PTL DEF Spec
=============================================================================
