---------------------------- MODULE PlannerServer ----------------------------
(***************************************************************************)
(* The TCP planner server (src/src/PibtTcpServer.cpp) and its planner      *)
(* session (src/src/PlannerSession.cpp).  The main thread accepts clients; *)
(* a new one cuts off the one before, and is served by a thread of its own *)
(* once the thread of the one before has ended.  A session plans with the  *)
(* data of one of two planners, which is global: it belongs to the process *)
(* and outlives the session.                                               *)
(*                                                                         *)
(* A thread reads a request, works on it and writes an answer; the main    *)
(* thread and the clients do their steps in between.  Clients come in the  *)
(* order of their numbers; a session bears the number of the request that  *)
(* opened it.  What the planners compute is in CausalPibt and Epibt.       *)
(***************************************************************************)
EXTENDS Integers, Sequences, SequencesExt

CONSTANTS MaxClients,     \* bound: the clients of a behaviour
          MaxRequests     \* bound: the requests of a behaviour

ASSUME PlannerServerAssumption == MaxClients \in Nat /\ MaxRequests \in Nat

Clients == 1..MaxClients
None == 0
Modes == {"default", "epibt"}

(* A hello may fail: no map, a map that does not fit its size, no agents.  *)
(* A plan_step may ask for what cannot be planned: a free cell for a goal  *)
(* that cannot be reached ("lost_step"; so is one without agents).         *)
PlanKinds == {"plan_step", "lost_step"}
Kinds == {"hello", "bad_hello", "reset", "shutdown", "unknown"} \cup PlanKinds
Requests == [kind : Kinds, mode : Modes, number : 1..MaxRequests]
NoRequest == [kind |-> "none", mode |-> "default", number |-> None]
NoSession == [number |-> None, mode |-> "default"]

VARIABLES
  server,        \* "running"; after an exception no one catches "terminated",
                 \* after an exit of the planner "exited"
  main,          \* the main thread: accepting, or waiting to join the thread
  current,       \* the client of the last thread started, or None
  accepted,      \* the client accepted and not yet served, or None
  backlog,       \* the clients that wait to be accepted
  socket,        \* the socket of each client
  inbox,         \* what each client has sent and the server has not read
  sent,          \* how many requests there have been
  thread,        \* the thread of each client
  request,       \* the request that it works on
  session,       \* its session: local to the thread
  answer,        \* the session that gave the answer about to be written
  globals,       \* the session whose data each planner holds, or None
  promised,      \* history: the session that the answers told each client of
  cut_off        \* history: clients that left, or were cut off, while waiting
                 \* for an answer other than reset_ack or shutdown_ack

clients == <<backlog, socket, inbox, sent>>
threads == <<thread, request, session, answer>>
vars == <<server, main, current, accepted, clients, threads, globals,
          promised, cut_off>>

NoGlobals == [m \in Modes |-> None]

Init == /\ server = "running" /\ main = "accept"
        /\ current = None /\ accepted = None
        /\ backlog = <<>> /\ sent = 0
        /\ socket = [c \in Clients |-> "none"]
        /\ inbox = [c \in Clients |-> <<>>]
        /\ thread = [c \in Clients |-> "none"]
        /\ request = [c \in Clients |-> NoRequest]
        /\ session = [c \in Clients |-> NoSession]
        /\ answer = [c \in Clients |-> None]
        /\ globals = NoGlobals
        /\ promised = [c \in Clients |-> None]
        /\ cut_off = {}

(* The client waits for an answer that the server insists on writing.      *)
Waits(c) == \E r \in ToSet(inbox[c]) \cup {request[c]} :
              r.kind \in Kinds \ {"reset", "shutdown"}

-----------------------------------------------------------------------------
(* Clients.                                                                *)

Connect(c) ==
  /\ socket[c] = "none" /\ \A b \in 1..c-1 : socket[b] # "none"
  /\ socket' = [socket EXCEPT ![c] = "open"]
  /\ backlog' = Append(backlog, c)
  /\ UNCHANGED <<server, main, current, accepted, inbox, sent, threads,
                 globals, promised, cut_off>>

Send(c) ==
  /\ socket[c] = "open" /\ sent < MaxRequests
  /\ sent' = sent + 1
  /\ \E r \in Requests :
       /\ r.number = sent + 1
       /\ r.kind # "hello" => r.mode = "default"
       /\ inbox' = [inbox EXCEPT ![c] = Append(@, r)]
  /\ UNCHANGED <<server, main, current, accepted, backlog, socket, threads,
                 globals, promised, cut_off>>

Leave(c) ==
  /\ socket[c] = "open"
  /\ socket' = [socket EXCEPT ![c] = "left"]
  /\ cut_off' = IF Waits(c) THEN cut_off \cup {c} ELSE cut_off
  /\ UNCHANGED <<server, main, current, accepted, backlog, inbox, sent, threads,
                 globals, promised>>

-----------------------------------------------------------------------------
(* The main thread (Run).                                                  *)

(* Slip: the socket of the client before stays open. *)
AcceptOnly ==
  /\ main = "accept" /\ backlog # <<>>
  /\ accepted' = Head(backlog) /\ backlog' = Tail(backlog)
  /\ main' = "join"
  /\ UNCHANGED <<server, current, socket, inbox, sent, threads, globals,
                 promised, cut_off>>

(* A client is accepted, and the socket of the one before is closed.       *)
Accept ==
  /\ main = "accept" /\ backlog # <<>>
  /\ accepted' = Head(backlog) /\ backlog' = Tail(backlog)
  /\ main' = "join"
  /\ IF current = None THEN UNCHANGED <<socket, cut_off>>
     ELSE /\ socket' = [socket EXCEPT ![current] = "closed"]
          /\ cut_off' = IF Waits(current) THEN cut_off \cup {current} ELSE cut_off
  /\ UNCHANGED <<server, current, inbox, sent, threads, globals, promised>>

(* Slip: the thread before is not waited for. *)
StartUnjoined ==
  /\ main = "join" /\ main' = "accept"
  /\ current' = accepted /\ accepted' = None
  /\ thread' = [thread EXCEPT ![accepted] = "reading"]
  /\ UNCHANGED <<server, clients, request, session, answer, globals, promised,
                 cut_off>>

(* The thread of the client before has ended; the next one is started.     *)
Start ==
  /\ main = "join" /\ main' = "accept"
  /\ current # None => thread[current] = "ended"
  /\ current' = accepted /\ accepted' = None
  /\ thread' = [thread EXCEPT ![accepted] = "reading"]
  /\ UNCHANGED <<server, clients, request, session, answer, globals, promised,
                 cut_off>>

-----------------------------------------------------------------------------
(* The thread of a client (HandleClient).                                  *)

Goes(c, to) == thread' = [thread EXCEPT ![c] = to]

(* A request that came in before the socket was closed may still be read.  *)
Read(c) ==
  /\ thread[c] = "reading" /\ inbox[c] # <<>>
  /\ request' = [request EXCEPT ![c] = Head(inbox[c])]
  /\ inbox' = [inbox EXCEPT ![c] = Tail(@)]
  /\ Goes(c, "working")
  /\ UNCHANGED <<server, main, current, accepted, backlog, socket, sent, session,
                 answer, globals, promised, cut_off>>

(* The connection is closed, and what was still unread is lost.  The       *)
(* session is destroyed; the planners keep its data.                       *)
ReadFails(c) ==
  /\ thread[c] = "reading" /\ socket[c] # "open"
  /\ Goes(c, "ended")
  /\ session' = [session EXCEPT ![c] = NoSession]
  /\ UNCHANGED <<server, main, current, accepted, clients, request, answer,
                 globals, promised, cut_off>>

(* ResetAllSessionState, and perhaps a new session.                        *)
ResetAllSessionState(c, new) ==
  /\ session' = [session EXCEPT ![c] = new]
  /\ globals' = NoGlobals

HelloBegin(c) ==
  /\ thread[c] = "working" /\ request[c].kind \in {"hello", "bad_hello"}
  /\ ResetAllSessionState(c, [number |-> request[c].number, mode |-> request[c].mode])
  /\ Goes(c, "planning")
  /\ UNCHANGED <<server, main, current, accepted, clients, request, answer,
                 promised, cut_off>>

(* Initialize: the planner of the session is initialized for it.           *)
HelloEnd(c) ==
  /\ thread[c] = "planning" /\ request[c].kind = "hello"
  /\ globals' = [globals EXCEPT ![session[c].mode] = session[c].number]
  /\ answer' = [answer EXCEPT ![c] = session[c].number]
  /\ Goes(c, "writing")
  /\ UNCHANGED <<server, main, current, accepted, clients, request, session,
                 promised, cut_off>>

HelloFails(c) ==
  /\ thread[c] = "planning" /\ request[c].kind = "bad_hello"
  /\ ResetAllSessionState(c, NoSession)
  /\ answer' = [answer EXCEPT ![c] = None]
  /\ Goes(c, "writing")
  /\ UNCHANGED <<server, main, current, accepted, clients, request,
                 promised, cut_off>>

(* A plan_step is refused without a session.                               *)
PlanBegin(c) ==
  /\ thread[c] = "working" /\ request[c].kind \in PlanKinds
  /\ IF session[c] = NoSession
       THEN Goes(c, "writing") /\ answer' = [answer EXCEPT ![c] = None]
       ELSE Goes(c, "planning") /\ UNCHANGED answer
  /\ UNCHANGED <<server, main, current, accepted, clients, request, session,
                 globals, promised, cut_off>>

(* Plan returns: actions, in time or late, or an error.                    *)
PlanEnd(c) ==
  /\ thread[c] = "planning" /\ request[c].kind \in PlanKinds
  /\ answer' = [answer EXCEPT ![c] = session[c].number]
  /\ Goes(c, "writing")
  /\ UNCHANGED <<server, main, current, accepted, clients, request, session,
                 globals, promised, cut_off>>

(* The default planner meets the goal that cannot be reached before its    *)
(* deadline, and ends the process.  EPIBT copes with such goals.           *)
AsksForTheLost(c) == request[c].kind = "lost_step" /\ session[c].mode = "default"

PlanExits(c) ==
  /\ thread[c] = "planning" /\ AsksForTheLost(c)
  /\ server' = "exited"
  /\ UNCHANGED <<main, current, accepted, clients, threads, globals, promised,
                 cut_off>>

(* Slip: the planners are reset, the session is not. *)
ResetPlannersOnly(c) ==
  /\ thread[c] = "working" /\ request[c].kind = "reset"
  /\ globals' = NoGlobals
  /\ answer' = [answer EXCEPT ![c] = None]
  /\ Goes(c, "writing")
  /\ UNCHANGED <<server, main, current, accepted, clients, request, session,
                 promised, cut_off>>

Reset(c) ==
  /\ thread[c] = "working" /\ request[c].kind = "reset"
  /\ ResetAllSessionState(c, NoSession)
  /\ answer' = [answer EXCEPT ![c] = None]
  /\ Goes(c, "writing")
  /\ UNCHANGED <<server, main, current, accepted, clients, request,
                 promised, cut_off>>

(* A shutdown is answered first; so is a request of an unknown type.       *)
Plain(c) ==
  /\ thread[c] = "working" /\ request[c].kind \in {"shutdown", "unknown"}
  /\ Goes(c, "writing")
  /\ UNCHANGED <<server, main, current, accepted, clients, request, session,
                 answer, globals, promised, cut_off>>

(* Slip: a shutdown leaves the session to the ended thread. *)
ProceedUnreset(c) ==
  /\ request' = [request EXCEPT ![c] = NoRequest]
  /\ Goes(c, IF request[c].kind = "shutdown" THEN "ended" ELSE "reading")
  /\ UNCHANGED <<session, globals>>

(* What the thread does once the answer is written, or need not be: after  *)
(* a shutdown the session is reset and the thread ends.                    *)
Proceed(c) ==
  /\ request' = [request EXCEPT ![c] = NoRequest]
  /\ IF request[c].kind = "shutdown"
       THEN Goes(c, "ended") /\ ResetAllSessionState(c, NoSession)
       ELSE Goes(c, "reading") /\ UNCHANGED <<session, globals>>

(* The answer is written; what was sent to a client that has left is lost. *)
Write(c) ==
  /\ thread[c] = "writing" /\ socket[c] # "closed"
  /\ Proceed(c)
  /\ promised' = [promised EXCEPT ![c] =
       IF request[c].kind \in {"hello", "bad_hello", "reset"} THEN answer[c] ELSE @]
  /\ UNCHANGED <<server, main, current, accepted, clients, answer, cut_off>>

(* Slip: nobody catches the exception. *)
GuardedNever(c) == FALSE

Guarded(c) == request[c].kind \in {"reset", "shutdown"}

(* It cannot be written: the exception is caught, or ends the process.     *)
WriteFails(c) ==
  /\ thread[c] = "writing" /\ socket[c] # "open"
  /\ IF Guarded(c) THEN Proceed(c) /\ UNCHANGED server
     ELSE server' = "terminated" /\ UNCHANGED <<thread, request, session, globals>>
  /\ UNCHANGED <<main, current, accepted, clients, answer, promised, cut_off>>

Handle(c) == \/ Read(c) \/ ReadFails(c)
             \/ HelloBegin(c) \/ HelloEnd(c) \/ HelloFails(c)
             \/ PlanBegin(c) \/ PlanEnd(c) \/ PlanExits(c)
             \/ Reset(c) \/ Plain(c)
             \/ Write(c) \/ WriteFails(c)

Next == /\ server = "running"
        /\ \/ Accept \/ Start
           \/ \E c \in Clients : Connect(c) \/ Send(c) \/ Leave(c) \/ Handle(c)

(* Threads run, and planners come to an end: EPIBT and the default planner *)
(* look at the clock.  Nothing is assumed of clients.                      *)
Fairness == /\ WF_vars(server = "running" /\ (Accept \/ Start))
            /\ \A c \in Clients : WF_vars(server = "running" /\ Handle(c))

Spec == Init /\ [][Next]_vars /\ Fairness
-----------------------------------------------------------------------------
(* Every variable has its type; a thread has a request while it works on   *)
(* it, and an ended one has no session any more.                           *)
TypeOK ==
  LET Session == [number : 0..MaxRequests, mode : Modes] IN
  /\ server \in {"running", "terminated", "exited"} /\ main \in {"accept", "join"}
  /\ {current, accepted} \subseteq Clients \cup {None}
  /\ backlog \in Seq(Clients)
  /\ socket \in [Clients -> {"none", "open", "left", "closed"}]
  /\ inbox \in [Clients -> Seq(Requests)] /\ sent \in 0..MaxRequests
  /\ thread \in [Clients -> {"none", "reading", "working", "planning",
                             "writing", "ended"}]
  /\ request \in [Clients -> Requests \cup {NoRequest}]
  /\ session \in [Clients -> Session]
  /\ answer \in [Clients -> 0..MaxRequests]
  /\ globals \in [Modes -> 0..MaxRequests]
  /\ promised \in [Clients -> 0..MaxRequests]
  /\ cut_off \subseteq Clients
  /\ main = "join" <=> accepted # None
  /\ \A c \in Clients :
       /\ thread[c] \in {"working", "planning", "writing"} <=> request[c] # NoRequest
       /\ thread[c] \in {"none", "ended"} => session[c] = NoSession

Busy(c) == thread[c] \notin {"none", "ended"}

(* A plan is made with the data of the session that asks for it, though    *)
(* the data is global and clients overtake each other: never with those of *)
(* a session that is gone, nor while another thread works on them.         *)
PlansOnItsOwnData == \A c \in Clients :
  thread[c] = "planning" =>
    /\ request[c].kind \in PlanKinds => globals[session[c].mode] = session[c].number
    /\ \A b \in Clients : Busy(b) => b = c

(* A plan_step is answered by the session of the last hello_ack, or        *)
(* refused if that, or a reset_ack since, told the client it has none.     *)
AnswersFollowTheHello == \A c \in Clients :
  thread[c] = "writing" /\ request[c].kind \in PlanKinds /\ socket[c] = "open"
    => answer[c] = promised[c]

(* One client after the other: a client is waiting, accepted, or has a     *)
(* thread; only the thread of the last one may be at work.                 *)
ClientsInTurn ==
  /\ \A c \in Clients : /\ Busy(c) => c = current
                        /\ socket[c] = "none" => thread[c] = "none"
  /\ \A i \in 1..Len(backlog) : /\ thread[backlog[i]] = "none"
                                /\ socket[backlog[i]] # "none"
                                /\ backlog[i] # accepted
  /\ \A i, j \in 1..Len(backlog) : backlog[i] = backlog[j] => i = j
  /\ accepted # None => thread[accepted] = "none" /\ socket[accepted] # "none"

(* Once it is initialized, a session has the data of its planner to        *)
(* itself.                                                                 *)
Initializing(c) == /\ thread[c] = "planning"
                   /\ request[c].kind \in {"hello", "bad_hello"}
SessionsHaveTheirData == \A c \in Clients :
  /\ Busy(c) /\ ~Initializing(c) /\ session[c] # NoSession
       => globals[session[c].mode] = session[c].number
  /\ thread[c] = "planning" /\ ~Initializing(c)
       => request[c].kind \in PlanKinds /\ session[c] # NoSession

(* What a client that is there has been told is its session, but for the   *)
(* answer that is about to tell it.                                        *)
Tells(c) == request[c].kind \in {"hello", "bad_hello", "reset"}
ClientsKnowTheirSession == \A c \in Clients :
  socket[c] \in {"none", "open"} /\ thread[c] # "ended" =>
    /\ ~Initializing(c) /\ ~(thread[c] = "writing" /\ Tells(c))
         => promised[c] = session[c].number
    /\ thread[c] = "writing" /\ (Tells(c) \/ request[c].kind \in PlanKinds)
         => answer[c] = session[c].number

(* Whoever is gone and still has an answer coming was cut off.             *)
GoneWaitersAreCutOff == \A c \in Clients :
  socket[c] \in {"left", "closed"} /\ Waits(c) => c \in cut_off

(* What all of this rests on.                                              *)
ServerInv == /\ TypeOK
             /\ ClientsInTurn
             /\ SessionsHaveTheirData
             /\ ClientsKnowTheirSession
             /\ AnswersFollowTheHello
             /\ GoneWaitersAreCutOff

(* A client that sends reset or shutdown and goes away without reading the *)
(* answer does not end the server (the comments at the two guarded         *)
(* writes).  What may end it is a client that goes away while it waits for *)
(* another answer, or one that asks the default planner for a goal that    *)
(* cannot be reached.                                                      *)
FireAndForgetIsSafe ==
  /\ server = "terminated" => cut_off # {}
  /\ server = "exited" => \E c \in Clients : Busy(c) /\ AsksForTheLost(c)

(* A client that has connected is served in the end, even if the one       *)
(* before it says nothing.                                                 *)
EveryClientIsServed == \A c \in Clients :
  socket[c] # "none" ~> (thread[c] # "none" \/ server # "running")
==============================================================================
