-------------------------------- MODULE Relay --------------------------------
(***************************************************************************)
(* The HTTP relay (src/app.py).  A hello starts a pibt_tcp_server process  *)
(* for its session and connects to it; the later requests of the session   *)
(* go over that connection.                                                *)
(*                                                                         *)
(* Requests are handled by coroutines of one event loop: what a handler    *)
(* does between two awaits is one step.  The awaited calls (connecting,    *)
(* exchange) run in threads and interleave with everything else.           *)
(*                                                                         *)
(* Requests are numbered in order of arrival.  The connection and the      *)
(* process that a hello creates bear its number.  plan_step and reset      *)
(* differ in nothing that matters here: both are a "step".  Time is not    *)
(* modelled: an exchange may time out whenever it waits, a session may     *)
(* have been idle for too long whenever none of its exchanges is running   *)
(* (one lasts 70 s at most, PIBT_SESSION_TTL_SECONDS is 300).              *)
(***************************************************************************)
EXTENDS Integers, Sequences

CONSTANTS Sessions,
          MaxRequests    \* bound: the requests of a behaviour

ASSUME RelayAssumption == MaxRequests \in Nat

Requests == 1..MaxRequests
None == 0

VARIABLES
  PIBT_CONNECTIONS,  \* the connection registered for each session, or None
  handler,           \* the requests received so far, each with its progress
  process,           \* the server process of each connection
  socket_open,       \* the connections whose socket is open
  lock,              \* the request that holds each connection's lock, or None
  server_queue,      \* requests sent over each connection, not yet answered
  buffer,            \* answers sent over it, not yet read
  overlapped         \* history: the sessions that have sent a request before
                     \* they had the answer to another one

connections == <<process, socket_open, lock, server_queue, buffer>>
vars == <<PIBT_CONNECTIONS, handler, connections, overlapped>>

Init == /\ PIBT_CONNECTIONS = [s \in Sessions |-> None]
        /\ handler = <<>>
        /\ process = [c \in Requests |-> "none"]
        /\ socket_open = {}
        /\ lock = [c \in Requests |-> None]
        /\ server_queue = [c \in Requests |-> <<>>]
        /\ buffer = [c \in Requests |-> <<>>]
        /\ overlapped = {}

Received == DOMAIN handler
At(r, point) == r \in Received /\ handler[r].at = point
Goes(r, point) == handler' = [handler EXCEPT ![r].at = point]
Session(r) == handler[r].session
Connection(r) == handler[r].connection

(* A request arrives: its handler starts, and stops at its first await.    *)
Arrives(kind, s, c, point) ==
  /\ Len(handler) < MaxRequests
  /\ handler' = Append(handler, [kind |-> kind, session |-> s,
                                 connection |-> c, at |-> point,
                                 answer |-> None])

-----------------------------------------------------------------------------
(* Connections.                                                            *)

(* close(): the socket, then the process, which is killed if need be.      *)
Close(C) ==
  /\ socket_open' = socket_open \ C
  /\ process' = [c \in Requests |-> IF c \in C THEN "exited" ELSE process[c]]
  /\ server_queue' = [c \in Requests |->
                        IF c \in C THEN <<>> ELSE server_queue[c]]
  /\ buffer' = [c \in Requests |-> IF c \in C THEN <<>> ELSE buffer[c]]

Registered(S) == {PIBT_CONNECTIONS[s] : s \in S} \ {None}

(* Slip: the connections are closed but stay registered. *)
RemoveKept(S) == Close(Registered(S)) /\ UNCHANGED PIBT_CONNECTIONS

(* _remove_pibt_connection, for each session of S: whatever connection is  *)
(* registered by now, if any.                                              *)
Remove(S) ==
  /\ Close(Registered(S))
  /\ PIBT_CONNECTIONS' = [s \in Sessions |->
                            IF s \in S THEN None ELSE PIBT_CONNECTIONS[s]]

(* The sessions that _prune_pibt_connections may find expired.             *)
Idle == {s \in Sessions : /\ PIBT_CONNECTIONS[s] # None
                          /\ lock[PIBT_CONNECTIONS[s]] = None}

-----------------------------------------------------------------------------
(* /hello                                                                  *)

HelloStart(s) ==
  \E expired \in SUBSET Idle :
    /\ Arrives("hello", s, None, "connecting")
    /\ Remove(expired \cup {s})
    /\ UNCHANGED lock

(* _connect_new_pibt_session succeeds.                                     *)
Connect(r) ==
  /\ At(r, "connecting")
  /\ handler' = [handler EXCEPT ![r].at = "exchanging", ![r].connection = r]
  /\ process' = [process EXCEPT ![r] = "serving"]
  /\ socket_open' = socket_open \cup {r}
  /\ UNCHANGED <<PIBT_CONNECTIONS, lock, server_queue, buffer>>

(* The process does not listen in time and is killed.                      *)
ConnectFails(r) ==
  /\ At(r, "connecting")
  /\ Goes(r, "done")
  /\ UNCHANGED <<PIBT_CONNECTIONS, connections>>

(* The process listens but does not accept the connection: nobody knows it *)
(* any more, and nobody stops it.                                          *)
ConnectLeaks(r) ==
  /\ At(r, "connecting")
  /\ Goes(r, "done")
  /\ process' = [process EXCEPT ![r] = "leaked"]
  /\ UNCHANGED <<PIBT_CONNECTIONS, socket_open, lock, server_queue, buffer>>

(* The server answers every hello with a hello_ack (successful or not).    *)
HelloDone(r) ==
  /\ At(r, "answered") /\ handler[r].kind = "hello"
  /\ Goes(r, "done")
  /\ PIBT_CONNECTIONS' = [PIBT_CONNECTIONS EXCEPT ![Session(r)] = r]
  /\ UNCHANGED connections

(* Slip: the connection of a failed hello is forgotten. *)
HelloFailedUnclosed(r) ==
  /\ At(r, "failed") /\ handler[r].kind = "hello"
  /\ Goes(r, "done")
  /\ UNCHANGED <<PIBT_CONNECTIONS, connections>>

HelloFailed(r) ==
  /\ At(r, "failed") /\ handler[r].kind = "hello"
  /\ Goes(r, "done")
  /\ Close({r})
  /\ UNCHANGED <<PIBT_CONNECTIONS, lock>>

-----------------------------------------------------------------------------
(* /plan-step, /reset and /shutdown                                        *)

(* Slip: a session without a connection is not told so (404). *)
StepStartUnchecked(kind, s) ==
  /\ Arrives(kind, s, PIBT_CONNECTIONS[s], "exchanging")
  /\ UNCHANGED <<PIBT_CONNECTIONS, connections>>

StepStart(kind, s) ==
  /\ LET c == PIBT_CONNECTIONS[s] IN
     Arrives(kind, s, c, IF c = None THEN "done" ELSE "exchanging")
  /\ UNCHANGED <<PIBT_CONNECTIONS, connections>>

StepDone(r) ==
  /\ At(r, "answered") /\ handler[r].kind = "step"
  /\ Goes(r, "done")
  /\ UNCHANGED <<PIBT_CONNECTIONS, connections>>

(* Slip: the connection stays in use after a failed exchange. *)
StepFailedKept(r) ==
  /\ At(r, "failed") /\ handler[r].kind = "step"
  /\ Goes(r, "done")
  /\ UNCHANGED <<PIBT_CONNECTIONS, connections>>

(* The session loses its connection: not only the one that failed.         *)
StepFailed(r) ==
  /\ At(r, "failed") /\ handler[r].kind = "step"
  /\ Goes(r, "done")
  /\ Remove({Session(r)})
  /\ UNCHANGED lock

(* The finally clause: however the exchange ended.                         *)
ShutdownDone(r) ==
  /\ At(r, "answered") \/ At(r, "failed")
  /\ handler[r].kind = "shutdown"
  /\ Goes(r, "done")
  /\ Remove({Session(r)})
  /\ UNCHANGED lock

(* /health                                                                 *)
Health == \E expired \in SUBSET Idle \ {{}} :
            Remove(expired) /\ UNCHANGED <<handler, lock>>

-----------------------------------------------------------------------------
(* exchange(), in a thread of its own.                                     *)

Send(r) ==
  LET c == Connection(r) IN
  /\ At(r, "exchanging")
  /\ lock[c] = None
  /\ IF c \in socket_open
       THEN /\ Goes(r, "awaiting")
            /\ lock' = [lock EXCEPT ![c] = r]
            /\ server_queue' = [server_queue EXCEPT ![c] = Append(@, r)]
       ELSE Goes(r, "failed") /\ UNCHANGED <<lock, server_queue>>
  /\ UNCHANGED <<PIBT_CONNECTIONS, process, socket_open, buffer>>

(* The first line that comes is the answer.                                *)
Receive(r) ==
  LET c == Connection(r) IN
  /\ At(r, "awaiting")
  /\ c \in socket_open
  /\ buffer[c] # <<>>
  /\ handler' = [handler EXCEPT ![r].at = "answered",
                                ![r].answer = Head(buffer[c])]
  /\ buffer' = [buffer EXCEPT ![c] = Tail(@)]
  /\ lock' = [lock EXCEPT ![c] = None]
  /\ UNCHANGED <<PIBT_CONNECTIONS, process, socket_open, server_queue>>

(* Slip: a failed exchange keeps the lock. *)
ExchangeFailsLocked(r) ==
  /\ At(r, "awaiting")
  /\ Goes(r, "failed")
  /\ UNCHANGED <<PIBT_CONNECTIONS, connections>>

(* It times out, or the connection is lost.  A server at work goes on.     *)
ExchangeFails(r) ==
  /\ At(r, "awaiting")
  /\ Goes(r, "failed")
  /\ lock' = [lock EXCEPT ![Connection(r)] = None]
  /\ UNCHANGED <<PIBT_CONNECTIONS, process, socket_open, server_queue, buffer>>

-----------------------------------------------------------------------------
(* The server process, as the relay sees it.                               *)

(* It answers requests in order.  After a shutdown it stays, but reads no  *)
(* more of this connection.                                                *)
Serve(c) ==
  /\ process[c] = "serving" /\ server_queue[c] # <<>>
  /\ LET r == Head(server_queue[c]) IN
     /\ buffer' = [buffer EXCEPT ![c] = Append(@, r)]
     /\ process' = [process EXCEPT ![c] =
          IF handler[r].kind = "shutdown" THEN "finished" ELSE @]
  /\ server_queue' = [server_queue EXCEPT ![c] = Tail(@)]
  /\ UNCHANGED <<PIBT_CONNECTIONS, handler, socket_open, lock>>

ServerDies(c) ==
  /\ process[c] \in {"serving", "finished"}
  /\ process' = [process EXCEPT ![c] = "exited"]
  /\ server_queue' = [server_queue EXCEPT ![c] = <<>>]
  /\ UNCHANGED <<PIBT_CONNECTIONS, handler, socket_open, lock, buffer>>

-----------------------------------------------------------------------------
Progress(r) == \/ Connect(r) \/ ConnectFails(r) \/ ConnectLeaks(r)
               \/ HelloDone(r) \/ HelloFailed(r)
               \/ StepDone(r) \/ StepFailed(r) \/ ShutdownDone(r)
               \/ Send(r) \/ Receive(r) \/ ExchangeFails(r)

Internal == \/ \E r \in Requests : Progress(r)
            \/ \E c \in Requests : Serve(c) \/ ServerDies(c)
            \/ Health

Start(s) == HelloStart(s) \/ \E kind \in {"step", "shutdown"} : StepStart(kind, s)

Active(r) == r \in Received /\ handler[r].at # "done"
Waiting(s) == \E r \in Received : Active(r) /\ Session(r) = s

Next == \/ Internal /\ UNCHANGED overlapped
        \/ \E s \in Sessions :
             /\ Start(s)
             /\ overlapped' = overlapped \cup {x \in {s} : Waiting(x)}

(* Every handler goes on: connecting, sending and receiving have timeouts. *)
Fairness == \A r \in Requests : WF_vars(Progress(r) /\ UNCHANGED overlapped)

Spec == Init /\ [][Next]_vars /\ Fairness

-----------------------------------------------------------------------------
(* Every variable has its type.                                            *)
Handlers == [kind : {"hello", "step", "shutdown"},
             session : Sessions,
             connection : Requests \cup {None},
             at : {"connecting", "exchanging", "awaiting", "answered", "failed",
                   "done"},
             answer : Requests \cup {None}]
TypeOK ==
  /\ PIBT_CONNECTIONS \in [Sessions -> Requests \cup {None}]
  /\ handler \in Seq(Handlers) /\ Received \subseteq Requests
  /\ process \in [Requests ->
                    {"none", "serving", "finished", "exited", "leaked"}]
  /\ socket_open \subseteq Requests
  /\ lock \in [Requests -> Requests \cup {None}]
  /\ server_queue \in [Requests -> Seq(Requests)]
  /\ buffer \in [Requests -> Seq(Requests)]
  /\ overlapped \subseteq Sessions

(* A connection is that of a hello of the session; that of a hello in      *)
(* progress is open.                                                       *)
ConnectionsAreOfHellos ==
  /\ \A r \in Received :
       /\ At(r, "connecting") => handler[r].kind = "hello"
       /\ Active(r) /\ ~At(r, "connecting") => Connection(r) # None
       /\ Connection(r) # None =>
            /\ Connection(r) \in Received /\ Session(Connection(r)) = Session(r)
            /\ handler[r].kind = "hello" => Connection(r) = r
       /\ handler[r].kind = "hello" /\ Active(r) /\ ~At(r, "connecting")
            => r \in socket_open
  /\ \A c \in Requests : process[c] # "none" \/ c \in socket_open =>
       c \in Received /\ handler[c].kind = "hello" /\ ~At(c, "connecting")

(* A registered connection is open, and it is registered for one session:  *)
(* nobody is sent to a connection that has been closed.                    *)
RegisteredIsOpen == \A s \in Sessions :
  PIBT_CONNECTIONS[s] # None =>
    /\ PIBT_CONNECTIONS[s] \in socket_open
    /\ Session(PIBT_CONNECTIONS[s]) = s
    /\ At(PIBT_CONNECTIONS[s], "done")

(* A client that waits for its answers has one request at a time, and that *)
(* uses the connection of the session, unless it has been closed.          *)
OneAtATime == \A r \in Received :
  Active(r) /\ Session(r) \notin overlapped =>
    /\ \A q \in Received : Active(q) /\ Session(q) = Session(r) => q = r
    /\ IF handler[r].kind = "hello" THEN PIBT_CONNECTIONS[Session(r)] = None
       ELSE Connection(r) \in socket_open
              => PIBT_CONNECTIONS[Session(r)] = Connection(r)

(* Then nothing but a request that is not answered yet, or its answer, is  *)
(* on the way over a connection; and over a closed one nothing is.         *)
OnTheWay(c, x) == \/ server_queue[c] = <<x>> /\ buffer[c] = <<>>
                  \/ server_queue[c] = <<>> /\ buffer[c] = <<x>>
Unanswered(c, x) == /\ Connection(x) = c
                    /\ handler[x].at \in {"awaiting", "failed"}
NothingStale(c) ==
  \/ server_queue[c] = <<>> /\ buffer[c] = <<>>
  \/ /\ c \in socket_open
     /\ Session(c) \notin overlapped
          => \E x \in Received : Unanswered(c, x) /\ OnTheWay(c, x)
NothingStaleOnTheWay == \A c \in Requests : NothingStale(c)

(* What all of this rests on.                                              *)
RelayInv == /\ TypeOK
            /\ ConnectionsAreOfHellos
            /\ RegisteredIsOpen
            /\ OneAtATime
            /\ NothingStaleOnTheWay

(* The relay keeps track of its processes: one that runs is registered, or *)
(* its hello is still in progress (a leaked one apart), unless its client  *)
(* sends requests before it has the answers to others.                     *)
Running(c) == process[c] \in {"serving", "finished"}
ProcessesAreKnown == \A c \in Requests :
  Running(c) /\ Session(c) \notin overlapped
    => Active(c) \/ PIBT_CONNECTIONS[Session(c)] = c

(* A client that waits for its answers gets the answer to its own request, *)
(* never a late answer to an earlier one.                                  *)
AnswerIsMine == \A r \in Received :
  Session(r) \notin overlapped => handler[r].answer \in {None, r}

(* Every request comes to an end, with or without an answer.               *)
RequestsEnd == \A r \in Requests : r \in Received ~> At(r, "done")
=============================================================================
