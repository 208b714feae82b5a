------------------------- MODULE PlannerServerProofs -------------------------
(***************************************************************************)
(* Proofs about the planner server, for any number of clients and of       *)
(* requests.                                                               *)
(***************************************************************************)
EXTENDS PlannerServer, SequenceTheorems, TLAPS

LEMMA Constants ==
  /\ None \notin Clients
  /\ NoRequest \notin Requests
  /\ None \in 0..MaxRequests
  /\ NoSession \in [number : 0..MaxRequests, mode : Modes]
  /\ \A r \in Requests : r.number \in 0..MaxRequests /\ r.mode \in Modes
BY PlannerServerAssumption
DEF Clients, None, NoRequest, Requests, Kinds, PlanKinds, NoSession, Modes

(* Sequences of distinct elements, without their first one or with a new   *)
(* last one.                                                               *)
LEMMA TailElements ==
  ASSUME NEW S, NEW q \in Seq(S), q # <<>>
  PROVE  /\ Head(q) = q[1] /\ Head(q) \in S /\ Tail(q) \in Seq(S)
         /\ 1 \in 1..Len(q)
         /\ \A i \in 1..Len(Tail(q)) : i + 1 \in 1..Len(q) /\ Tail(q)[i] = q[i+1]
BY HeadTailProperties

LEMMA AppendElements ==
  ASSUME NEW S, NEW q \in Seq(S), NEW x \in S
  PROVE  /\ Append(q, x) \in Seq(S)
         /\ Len(Append(q, x)) = Len(q) + 1
         /\ \A i \in 1..Len(q)+1 :
              Append(q, x)[i] = IF i = Len(q) + 1 THEN x ELSE q[i]
BY AppendProperties

-----------------------------------------------------------------------------
(* Types.                                                                  *)

LEMMA TypeInit == Init => TypeOK
BY Constants, PlannerServerAssumption DEF Init, TypeOK, NoGlobals, Modes

LEMMA TypeStep ==
  ASSUME TypeOK, ClientsInTurn, Next
  PROVE  TypeOK'
<1> USE PlannerServerAssumption, Constants
<1>1. CASE Accept
  <2>1. Head(backlog) \in Clients /\ Tail(backlog) \in Seq(Clients)
    BY <1>1, TailElements DEF Accept, TypeOK
  <2>2. /\ socket' \in [Clients -> {"none", "open", "left", "closed"}]
        /\ cut_off' \subseteq Clients
    <3>1. CASE current = None
      BY <1>1, <3>1 DEF Accept, TypeOK
    <3>2. CASE current \in Clients
      <4>1. /\ socket' = [socket EXCEPT ![current] = "closed"]
            /\ cut_off' \subseteq cut_off \cup {current}
        BY <1>1, <3>2 DEF Accept
      <4>2. /\ socket \in [Clients -> {"none", "open", "left", "closed"}]
            /\ cut_off \subseteq Clients
        BY DEF TypeOK
      <4> QED BY <3>2, <4>1, <4>2
    <3> QED BY <3>1, <3>2 DEF TypeOK
  <2> QED BY <1>1, <2>1, <2>2 DEF Accept, TypeOK, threads
<1>2. CASE Start
  BY <1>2 DEF Start, TypeOK, ClientsInTurn, clients
<1>3. ASSUME NEW c \in Clients, Connect(c) PROVE TypeOK'
  BY <1>3, AppendElements DEF Connect, TypeOK, threads
<1>4. ASSUME NEW c \in Clients, Send(c) PROVE TypeOK'
  <2>1. inbox' \in [Clients -> Seq(Requests)]
    BY <1>4, AppendElements DEF Send, TypeOK
  <2>2. sent' \in 0..MaxRequests
    BY <1>4 DEF Send, TypeOK
  <2>3. UNCHANGED <<server, main, current, accepted, backlog, socket, thread,
                    request, session, answer, globals, promised, cut_off>>
    BY <1>4 DEF Send, threads
  <2> QED BY <2>1, <2>2, <2>3 DEF TypeOK
<1>5. ASSUME NEW c \in Clients, Leave(c) PROVE TypeOK'
  BY <1>5 DEF Leave, TypeOK, threads
<1>6. ASSUME NEW c \in Clients, Read(c) PROVE TypeOK'
  <2>1. Head(inbox[c]) \in Requests /\ Tail(inbox[c]) \in Seq(Requests)
    BY <1>6, TailElements DEF Read, TypeOK
  <2> QED BY <1>6, <2>1 DEF Read, Goes, TypeOK
<1>7. ASSUME NEW c \in Clients, ReadFails(c) PROVE TypeOK'
  BY <1>7 DEF ReadFails, Goes, TypeOK, clients
<1>8. ASSUME NEW c \in Clients, HelloBegin(c) PROVE TypeOK'
  <2>1. request[c] \in Requests
    BY <1>8 DEF HelloBegin, TypeOK
  <2>2. [number |-> request[c].number, mode |-> request[c].mode]
          \in [number : 0..MaxRequests, mode : Modes]
    BY <2>1
  <2> QED BY <1>8, <2>2 DEF HelloBegin, ResetAllSessionState, NoGlobals, Goes, TypeOK,
             clients
<1>9. ASSUME NEW c \in Clients, HelloEnd(c) PROVE TypeOK'
  <2>1. session[c].mode \in Modes /\ session[c].number \in 0..MaxRequests
    BY DEF TypeOK
  <2> QED BY <1>9, <2>1 DEF HelloEnd, Goes, TypeOK, clients
<1>10. ASSUME NEW c \in Clients, HelloFails(c) PROVE TypeOK'
  BY <1>10 DEF HelloFails, ResetAllSessionState, NoGlobals, Goes, TypeOK, clients
<1>11. ASSUME NEW c \in Clients, PlanBegin(c) PROVE TypeOK'
  <2>1. CASE session[c] = NoSession
    BY <1>11, <2>1 DEF PlanBegin, Goes, TypeOK, clients
  <2>2. CASE session[c] # NoSession
    BY <1>11, <2>2 DEF PlanBegin, Goes, TypeOK, clients
  <2> QED BY <2>1, <2>2
<1>12. ASSUME NEW c \in Clients, PlanEnd(c) PROVE TypeOK'
  <2>1. session[c].number \in 0..MaxRequests
    BY DEF TypeOK
  <2> QED BY <1>12, <2>1 DEF PlanEnd, Goes, TypeOK, clients
<1>18. ASSUME NEW c \in Clients, PlanExits(c) PROVE TypeOK'
  BY <1>18 DEF PlanExits, TypeOK, clients, threads
<1>13. ASSUME NEW c \in Clients, Reset(c) PROVE TypeOK'
  BY <1>13 DEF Reset, ResetAllSessionState, NoGlobals, Goes, TypeOK, clients
<1>14. ASSUME NEW c \in Clients, Plain(c) PROVE TypeOK'
  BY <1>14 DEF Plain, Goes, TypeOK, clients
<1>15. ASSUME NEW c \in Clients, thread[c] = "writing", Proceed(c),
              UNCHANGED <<main, current, accepted, clients, answer, cut_off>>,
              server' \in {"running", "terminated", "exited"},
              promised' \in [Clients -> 0..MaxRequests]
       PROVE  TypeOK'
  <2>1. CASE request[c].kind = "shutdown"
    <3>1. /\ session' = [session EXCEPT ![c] = NoSession]
          /\ globals' = [m \in Modes |-> None]
          /\ request' = [request EXCEPT ![c] = NoRequest]
          /\ thread' = [thread EXCEPT ![c] = "ended"]
      BY <1>15, <2>1 DEF Proceed, ResetAllSessionState, NoGlobals, Goes
    <3> QED BY <1>15, <3>1 DEF TypeOK, clients
  <2>2. CASE request[c].kind # "shutdown"
    BY <1>15, <2>2 DEF Proceed, Goes, TypeOK, clients
  <2> QED BY <2>1, <2>2
<1>16. ASSUME NEW c \in Clients, Write(c) PROVE TypeOK'
  BY <1>15, <1>16 DEF Write, TypeOK
<1>17. ASSUME NEW c \in Clients, WriteFails(c) PROVE TypeOK'
  <2>1. CASE Guarded(c)
    BY <1>15, <1>17, <2>1 DEF WriteFails, TypeOK
  <2>2. CASE ~Guarded(c)
    BY <1>17, <2>2 DEF WriteFails, TypeOK, clients
  <2> QED BY <2>1, <2>2
<1> QED
  BY <1>1, <1>2, <1>3, <1>4, <1>5, <1>6, <1>7, <1>8, <1>9, <1>10, <1>11, <1>12,
     <1>13, <1>14, <1>16, <1>17, <1>18 DEF Next, Handle

-----------------------------------------------------------------------------
(* A step of a client's thread is that of a busy client, and leaves the    *)
(* other clients, the main thread and the sockets alone.                   *)
LEMMA HandleFrame ==
  ASSUME TypeOK, NEW c \in Clients, Handle(c)
  PROVE  /\ Busy(c) /\ thread'[c] # "none"
         /\ UNCHANGED <<main, current, accepted, backlog, socket, sent, cut_off>>
         /\ \A b \in Clients \ {c} :
              /\ thread'[b] = thread[b] /\ request'[b] = request[b]
              /\ session'[b] = session[b] /\ answer'[b] = answer[b]
              /\ promised'[b] = promised[b] /\ inbox'[b] = inbox[b]
<1> USE DEF TypeOK, Busy, Goes, ResetAllSessionState, clients
<1>1. CASE Read(c)
  BY <1>1 DEF Read
<1>2. CASE ReadFails(c)
  BY <1>2 DEF ReadFails
<1>3. CASE HelloBegin(c)
  BY <1>3 DEF HelloBegin
<1>4. CASE HelloEnd(c)
  BY <1>4 DEF HelloEnd
<1>5. CASE HelloFails(c)
  BY <1>5 DEF HelloFails
<1>6. CASE PlanBegin(c)
  BY <1>6 DEF PlanBegin
<1>7. CASE PlanEnd(c)
  BY <1>7 DEF PlanEnd
<1>8. CASE Reset(c)
  BY <1>8 DEF Reset
<1>9. CASE Plain(c)
  BY <1>9 DEF Plain
<1>10. CASE Write(c)
  BY <1>10 DEF Write, Proceed
<1>11. CASE WriteFails(c)
  BY <1>11 DEF WriteFails, Proceed
<1>12. CASE PlanExits(c)
  BY <1>12 DEF PlanExits, threads
<1> QED
  BY <1>1, <1>2, <1>3, <1>4, <1>5, <1>6, <1>7, <1>8, <1>9, <1>10, <1>11, <1>12
     DEF Handle

-----------------------------------------------------------------------------
(* One client after the other.                                             *)

LEMMA TurnInit == Init => ClientsInTurn
BY DEF Init, ClientsInTurn, Busy

LEMMA TurnFrame ==
  ASSUME TypeOK, ClientsInTurn,
         UNCHANGED <<backlog, accepted, current>>,
         \A b \in Clients : /\ Busy(b)' => Busy(b)
                            /\ thread'[b] = "none" <=> thread[b] = "none"
                            /\ socket'[b] = "none" <=> socket[b] = "none"
  PROVE  ClientsInTurn'
<1>1. \A i \in 1..Len(backlog) : backlog[i] \in Clients
  BY DEF TypeOK
<1>2. accepted # None => accepted \in Clients
  BY DEF TypeOK
<1> QED BY <1>1, <1>2 DEF ClientsInTurn

LEMMA TurnStep ==
  ASSUME TypeOK, ClientsInTurn, Next
  PROVE  ClientsInTurn'
<1> USE Constants
<1>1. CASE Accept
  <2>1. /\ accepted' = backlog[1] /\ backlog' \in Seq(Clients)
        /\ 1 \in 1..Len(backlog)
        /\ \A i \in 1..Len(backlog') :
             i + 1 \in 1..Len(backlog) /\ backlog'[i] = backlog[i+1]
    BY <1>1, TailElements DEF Accept, TypeOK
  <2>2. \A i \in 1..Len(backlog) : backlog[i] \in Clients
    BY DEF TypeOK
  <2>3. \A b \in Clients : socket'[b] = "none" => socket[b] = "none"
    <3>1. CASE current = None
      BY <1>1, <3>1 DEF Accept
    <3>2. CASE current # None
      BY <1>1, <3>2 DEF Accept, TypeOK
    <3> QED BY <3>1, <3>2
  <2>4. UNCHANGED <<thread, current>>
    BY <1>1 DEF Accept, threads
  <2>5. \A i \in 1..Len(backlog') : i \in Nat /\ i + 1 # 1
    OBVIOUS
  <2>6. \A i \in 1..Len(backlog') :
          /\ thread'[backlog'[i]] = "none" /\ socket'[backlog'[i]] # "none"
          /\ backlog'[i] # accepted'
    <3> TAKE i \in 1..Len(backlog')
    <3>1. backlog[i+1] # backlog[1] /\ backlog[i+1] \in Clients
      BY <2>1, <2>2, <2>5 DEF ClientsInTurn
    <3>2. thread[backlog[i+1]] = "none" /\ socket[backlog[i+1]] # "none"
      BY <2>1 DEF ClientsInTurn
    <3> QED BY <2>1, <2>3, <2>4, <3>1, <3>2
  <2>7. ASSUME NEW i \in 1..Len(backlog'), NEW j \in 1..Len(backlog'),
               backlog'[i] = backlog'[j]
        PROVE  i = j
    <3>1. i + 1 = j + 1
      BY <2>1, <2>7 DEF ClientsInTurn
    <3> QED BY <3>1
  <2>8. thread'[accepted'] = "none" /\ socket'[accepted'] # "none"
    BY <2>1, <2>2, <2>3, <2>4 DEF ClientsInTurn
  <2>9. \A c \in Clients : /\ Busy(c)' => c = current'
                           /\ socket'[c] = "none" => thread'[c] = "none"
    BY <2>3, <2>4 DEF ClientsInTurn, Busy
  <2> QED BY <2>6, <2>7, <2>8, <2>9 DEF ClientsInTurn
<1>2. CASE Start
  <2>1. /\ accepted \in Clients /\ accepted' = None /\ current' = accepted
        /\ UNCHANGED <<backlog, socket>>
    BY <1>2 DEF Start, TypeOK, clients
  <2>2. \A b \in Clients : thread'[b] = IF b = accepted THEN "reading" ELSE thread[b]
    BY <1>2, <2>1 DEF Start, TypeOK
  <2>3. \A b \in Clients : ~Busy(b)
    BY <1>2 DEF Start, ClientsInTurn, Busy
  <2>4. \A i \in 1..Len(backlog) : backlog[i] \in Clients /\ backlog[i] # None
    <3>1. \A i \in 1..Len(backlog) : backlog[i] \in Clients
      BY DEF TypeOK
    <3> QED BY <3>1
  <2>5. \A i \in 1..Len(backlog) : thread'[backlog[i]] = "none"
    BY <2>2, <2>4 DEF ClientsInTurn
  <2>6. \A c \in Clients : /\ Busy(c)' => c = current'
                           /\ socket'[c] = "none" => thread'[c] = "none"
    BY <2>1, <2>2, <2>3 DEF ClientsInTurn, Busy
  <2> QED BY <2>1, <2>4, <2>5, <2>6 DEF ClientsInTurn
<1>3. ASSUME NEW c \in Clients, Connect(c) PROVE ClientsInTurn'
  <2>1. /\ backlog \in Seq(Clients) /\ backlog' = Append(backlog, c)
        /\ socket[c] = "none" /\ socket' = [socket EXCEPT ![c] = "open"]
        /\ UNCHANGED <<thread, current, accepted>>
    BY <1>3 DEF Connect, TypeOK, threads
  <2>2. /\ Len(backlog') = Len(backlog) + 1 /\ Len(backlog) \in Nat
        /\ \A i \in 1..Len(backlog)+1 :
             backlog'[i] = IF i = Len(backlog) + 1 THEN c ELSE backlog[i]
    BY <2>1, AppendElements
  <2>3. \A i \in 1..Len(backlog) : backlog[i] # c /\ backlog[i] \in Clients
    <3>1. \A i \in 1..Len(backlog) : backlog[i] \in Clients
      BY <2>1
    <3>2. \A i \in 1..Len(backlog) : socket[backlog[i]] # "none"
      BY DEF ClientsInTurn
    <3> QED BY <2>1, <3>1, <3>2
  <2>4. thread[c] = "none" /\ accepted # c /\ (accepted # None => accepted \in Clients)
    BY <2>1 DEF ClientsInTurn, TypeOK
  <2>5. \A b \in Clients : socket'[b] = IF b = c THEN "open" ELSE socket[b]
    BY <2>1 DEF TypeOK
  <2>6. \A b \in Clients : /\ Busy(b)' => b = current'
                           /\ socket'[b] = "none" => thread'[b] = "none"
    BY <2>1, <2>5 DEF ClientsInTurn, Busy
  <2>7. \A i \in 1..Len(backlog') : /\ thread'[backlog'[i]] = "none"
                                   /\ socket'[backlog'[i]] # "none"
                                   /\ backlog'[i] # accepted'
    <3> TAKE i \in 1..Len(backlog')
    <3>1. CASE i = Len(backlog) + 1
      BY <2>1, <2>2, <2>4, <2>5, <3>1
    <3>2. CASE i \in 1..Len(backlog)
      <4>1. backlog'[i] = backlog[i]
        BY <2>2, <3>2
      <4> QED BY <2>1, <2>3, <2>5, <3>2, <4>1 DEF ClientsInTurn
    <3> QED BY <2>2, <3>1, <3>2
  <2>8. \A i, j \in 1..Len(backlog') : backlog'[i] = backlog'[j] => i = j
    BY <2>2, <2>3 DEF ClientsInTurn
  <2>9. accepted' # None => thread'[accepted'] = "none" /\ socket'[accepted'] # "none"
    BY <2>1, <2>4, <2>5 DEF ClientsInTurn
  <2> QED BY <2>6, <2>7, <2>8, <2>9 DEF ClientsInTurn
<1>4. ASSUME NEW c \in Clients, Send(c) PROVE ClientsInTurn'
  <2>1. UNCHANGED <<backlog, accepted, current, thread, socket>>
    BY <1>4 DEF Send, threads
  <2> QED BY <2>1, TurnFrame DEF Busy
<1>5. ASSUME NEW c \in Clients, Leave(c) PROVE ClientsInTurn'
  <2>1. UNCHANGED <<backlog, accepted, current, thread>>
    BY <1>5 DEF Leave, threads
  <2>2. \A b \in Clients : socket'[b] = "none" <=> socket[b] = "none"
    BY <1>5 DEF Leave, TypeOK
  <2> QED BY <2>1, <2>2, TurnFrame DEF Busy
<1>6. ASSUME NEW c \in Clients, Handle(c) PROVE ClientsInTurn'
  <2>1. /\ UNCHANGED <<backlog, accepted, current, socket>>
        /\ Busy(c) /\ thread'[c] # "none"
        /\ \A b \in Clients \ {c} : thread'[b] = thread[b]
    BY <1>6, HandleFrame
  <2>2. \A b \in Clients : /\ Busy(b)' => Busy(b)
                           /\ thread'[b] = "none" <=> thread[b] = "none"
    BY <2>1 DEF Busy
  <2> QED BY <2>1, <2>2, TurnFrame
<1> QED BY <1>1, <1>2, <1>3, <1>4, <1>5, <1>6 DEF Next
-----------------------------------------------------------------------------
(* The steps that leave the planners and what the threads hold alone, and  *)
(* what Start does to them.                                                *)

LEMMA OtherFrame ==
  ASSUME TypeOK, Accept \/ (\E c \in Clients : Connect(c) \/ Send(c) \/ Leave(c))
  PROVE  /\ UNCHANGED <<server, threads, globals, promised>>
         /\ \A b \in Clients : socket'[b] \in {"none", "open"}
                                 => socket[b] \in {"none", "open"}
<1>1. CASE Accept
  <2>1. CASE current = None
    BY <1>1, <2>1 DEF Accept
  <2>2. CASE current # None
    BY <1>1, <2>2 DEF Accept, TypeOK
  <2> QED BY <2>1, <2>2
<1>2. ASSUME NEW c \in Clients, Connect(c)
      PROVE  /\ UNCHANGED <<server, threads, globals, promised>>
             /\ \A b \in Clients : socket'[b] \in {"none", "open"}
                                     => socket[b] \in {"none", "open"}
  BY <1>2 DEF Connect, TypeOK
<1>3. ASSUME NEW c \in Clients, Send(c)
      PROVE  UNCHANGED <<server, threads, globals, promised, socket>>
  BY <1>3 DEF Send
<1>4. ASSUME NEW c \in Clients, Leave(c)
      PROVE  /\ UNCHANGED <<server, threads, globals, promised>>
             /\ \A b \in Clients : socket'[b] \in {"none", "open"}
                                     => socket[b] \in {"none", "open"}
  BY <1>4 DEF Leave, TypeOK
<1> QED BY <1>1, <1>2, <1>3, <1>4

LEMMA StartFrame ==
  ASSUME TypeOK, ClientsInTurn, Start
  PROVE  /\ accepted \in Clients /\ thread[accepted] = "none"
         /\ UNCHANGED <<server, clients, request, session, answer, globals,
                        promised, cut_off>>
         /\ \A b \in Clients :
              thread'[b] = IF b = accepted THEN "reading" ELSE thread[b]
<1>1. accepted \in Clients /\ accepted # None
  BY DEF Start, TypeOK
<1> QED BY <1>1 DEF Start, TypeOK, ClientsInTurn

-----------------------------------------------------------------------------
(* Sessions have their data.                                               *)

LEMMA DataInit == Init => SessionsHaveTheirData
BY DEF Init, SessionsHaveTheirData, Busy

LEMMA DataOfThread ==
  ASSUME TypeOK, SessionsHaveTheirData, NEW c \in Clients, Handle(c)
  PROVE  /\ Busy(c)' /\ ~Initializing(c)' /\ session'[c] # NoSession
              => globals'[session'[c].mode] = session'[c].number
         /\ thread'[c] = "planning" /\ ~Initializing(c)'
              => request'[c].kind \in PlanKinds /\ session'[c] # NoSession
<1> USE DEF TypeOK, SessionsHaveTheirData, Busy, Initializing, Goes, PlanKinds
<1>1. CASE Read(c)
  BY <1>1 DEF Read
<1>2. CASE ReadFails(c)
  BY <1>2 DEF ReadFails
<1>3. CASE HelloBegin(c)
  BY <1>3 DEF HelloBegin
<1>4. CASE HelloEnd(c)
  BY <1>4 DEF HelloEnd
<1>5. CASE HelloFails(c)
  BY <1>5 DEF HelloFails, ResetAllSessionState
<1>6. CASE PlanBegin(c)
  BY <1>6 DEF PlanBegin
<1>7. CASE PlanEnd(c)
  BY <1>7 DEF PlanEnd
<1>8. CASE Reset(c)
  BY <1>8 DEF Reset, ResetAllSessionState
<1>9. CASE Plain(c)
  BY <1>9 DEF Plain
<1>10. ASSUME thread[c] = "writing", Proceed(c)
       PROVE  /\ thread'[c] \in {"reading", "ended"}
              /\ thread'[c] = "reading" => UNCHANGED <<session, globals>>
  BY <1>10 DEF Proceed
<1>11. CASE Write(c)
  BY <1>10, <1>11 DEF Write
<1>12. CASE WriteFails(c)
  <2>1. CASE Guarded(c)
    BY <1>10, <1>12, <2>1 DEF WriteFails
  <2>2. CASE ~Guarded(c)
    BY <1>12, <2>2 DEF WriteFails
  <2> QED BY <2>1, <2>2
<1>13. CASE PlanExits(c)
  BY <1>13 DEF PlanExits, threads
<1> QED
  BY <1>1, <1>2, <1>3, <1>4, <1>5, <1>6, <1>7, <1>8, <1>9, <1>11, <1>12, <1>13
     DEF Handle

LEMMA DataStep ==
  ASSUME TypeOK, ClientsInTurn, SessionsHaveTheirData, Next
  PROVE  SessionsHaveTheirData'
<1>1. CASE Accept \/ (\E c \in Clients : Connect(c) \/ Send(c) \/ Leave(c))
  <2>1. UNCHANGED <<thread, request, session, globals>>
    BY <1>1, OtherFrame DEF threads
  <2> QED BY <2>1 DEF SessionsHaveTheirData, Busy, Initializing
<1>2. CASE Start
  <2>1. /\ accepted \in Clients /\ thread[accepted] = "none"
        /\ UNCHANGED <<request, session, globals>>
        /\ \A b \in Clients :
             thread'[b] = IF b = accepted THEN "reading" ELSE thread[b]
    BY <1>2, StartFrame
  <2>2. session'[accepted] = NoSession
    BY <2>1 DEF TypeOK
  <2> QED BY <2>1, <2>2 DEF SessionsHaveTheirData, Busy, Initializing
<1>3. ASSUME NEW c \in Clients, Handle(c) PROVE SessionsHaveTheirData'
  <2>1. \A b \in Clients \ {c} : ~Busy(b)'
    BY <1>3, HandleFrame DEF ClientsInTurn, Busy
  <2>2. \A b \in Clients \ {c} : thread'[b] # "planning"
    BY <2>1 DEF Busy
  <2> QED BY <1>3, <2>1, <2>2, DataOfThread DEF SessionsHaveTheirData
<1> QED BY <1>1, <1>2, <1>3 DEF Next

-----------------------------------------------------------------------------
(* Clients know their session.                                             *)

LEMMA KnowInit == Init => ClientsKnowTheirSession
BY DEF Init, ClientsKnowTheirSession, Initializing, NoSession

LEMMA KnowOfThread ==
  ASSUME TypeOK, ClientsInTurn, SessionsHaveTheirData,
         ClientsKnowTheirSession, NEW c \in Clients, Handle(c),
         socket'[c] \in {"none", "open"}, thread'[c] # "ended"
  PROVE  /\ ~Initializing(c)' /\ ~(thread'[c] = "writing" /\ Tells(c)')
              => promised'[c] = session'[c].number
         /\ thread'[c] = "writing" /\ (Tells(c)' \/ request'[c].kind \in PlanKinds)
              => answer'[c] = session'[c].number
<1> USE DEF TypeOK, ClientsKnowTheirSession, Initializing, Tells, Goes, PlanKinds
<1>0. socket[c] \in {"none", "open"} /\ thread[c] # "ended"
  BY HandleFrame DEF Busy
<1>1. CASE Read(c)
  BY <1>0, <1>1 DEF Read
<1>2. CASE ReadFails(c)
  BY <1>2 DEF ReadFails
<1>3. CASE HelloBegin(c)
  BY <1>3 DEF HelloBegin
<1>4. CASE HelloEnd(c)
  BY <1>4 DEF HelloEnd
<1>5. CASE HelloFails(c)
  BY <1>5 DEF HelloFails, ResetAllSessionState, NoSession
<1>6. CASE PlanBegin(c)
  BY <1>0, <1>6 DEF PlanBegin, NoSession
<1>7. CASE PlanEnd(c)
  BY <1>0, <1>7 DEF PlanEnd
<1>8. CASE Reset(c)
  BY <1>8 DEF Reset, ResetAllSessionState, NoSession
<1>9. CASE Plain(c)
  BY <1>0, <1>9 DEF Plain
<1>10. ASSUME thread[c] = "writing", Proceed(c)
       PROVE  /\ thread'[c] = "reading"
              /\ UNCHANGED session
  BY <1>10 DEF Proceed
<1>11. CASE Write(c)
  <2>1. /\ thread'[c] = "reading" /\ UNCHANGED session
        /\ promised'[c] = IF Tells(c) THEN answer[c] ELSE promised[c]
    BY <1>0, <1>10, <1>11 DEF Write
  <2>2. promised'[c] = session[c].number
    BY <1>0, <1>11, <2>1 DEF Write
  <2> QED BY <2>1, <2>2
<1>12. ~WriteFails(c)
  BY <1>0 DEF WriteFails, ClientsInTurn
<1>13. CASE PlanExits(c)
  BY <1>0, <1>13 DEF PlanExits, threads
<1> QED
  BY <1>1, <1>2, <1>3, <1>4, <1>5, <1>6, <1>7, <1>8, <1>9, <1>11, <1>12, <1>13
     DEF Handle

LEMMA KnowStep ==
  ASSUME TypeOK, ClientsInTurn, SessionsHaveTheirData, ClientsKnowTheirSession, Next
  PROVE  ClientsKnowTheirSession'
<1>1. CASE Accept \/ (\E c \in Clients : Connect(c) \/ Send(c) \/ Leave(c))
  <2>1. /\ UNCHANGED <<thread, request, session, answer, promised>>
        /\ \A b \in Clients : socket'[b] \in {"none", "open"}
                                => socket[b] \in {"none", "open"}
    BY <1>1, OtherFrame DEF threads
  <2> QED BY <2>1 DEF ClientsKnowTheirSession, Initializing, Tells
<1>2. CASE Start
  <2>1. /\ accepted \in Clients /\ thread[accepted] = "none"
        /\ UNCHANGED <<socket, request, session, answer, promised>>
        /\ \A b \in Clients :
             thread'[b] = IF b = accepted THEN "reading" ELSE thread[b]
    BY <1>2, StartFrame DEF clients
  <2> QED BY <2>1 DEF ClientsKnowTheirSession, Initializing, Tells
<1>3. ASSUME NEW c \in Clients, Handle(c) PROVE ClientsKnowTheirSession'
  <2>1. /\ UNCHANGED socket
        /\ \A b \in Clients \ {c} :
             /\ thread'[b] = thread[b] /\ request'[b] = request[b]
             /\ session'[b] = session[b] /\ answer'[b] = answer[b]
             /\ promised'[b] = promised[b]
    BY <1>3, HandleFrame
  <2> QED BY <1>3, <2>1, KnowOfThread
          DEF ClientsKnowTheirSession, Initializing, Tells
<1> QED BY <1>1, <1>2, <1>3 DEF Next
-----------------------------------------------------------------------------
(* Who is gone and still waits for an answer was cut off.                  *)

(* No step of a thread gives its client something more to wait for.        *)
LEMMA WaitsFrame ==
  ASSUME TypeOK, NEW c \in Clients, Handle(c)
  PROVE  Waits(c)' => Waits(c)
<1>1. CASE Read(c)
  <2>1. /\ inbox[c] \in Seq(Requests) /\ inbox[c] # <<>>
        /\ request'[c] = Head(inbox[c]) /\ inbox'[c] = Tail(inbox[c])
    BY <1>1 DEF Read, TypeOK
  <2>2. ToSet(inbox'[c]) \subseteq ToSet(inbox[c]) /\ request'[c] \in ToSet(inbox[c])
    BY <2>1, TailElements DEF ToSet
  <2> QED BY <2>2 DEF Waits
<1>2. CASE ~Read(c)
  <2>1. UNCHANGED inbox
    BY <1>2 DEF Handle, ReadFails, HelloBegin, HelloEnd, HelloFails, PlanBegin,
                PlanEnd, PlanExits, Reset, Plain, Write, WriteFails, clients, threads
  <2>2. request'[c] \in {request[c], NoRequest}
    BY <1>2 DEF Handle, ReadFails, HelloBegin, HelloEnd, HelloFails, PlanBegin,
                PlanEnd, PlanExits, Reset, Plain, Write, WriteFails, Proceed, TypeOK,
                threads
  <2>3. NoRequest.kind \notin Kinds
    BY DEF NoRequest, Kinds, PlanKinds
  <2> QED BY <2>1, <2>2, <2>3 DEF Waits
<1> QED BY <1>1, <1>2

LEMMA GoneInit == Init => GoneWaitersAreCutOff
BY DEF Init, GoneWaitersAreCutOff

LEMMA GoneStep ==
  ASSUME TypeOK, GoneWaitersAreCutOff, Next
  PROVE  GoneWaitersAreCutOff'
<1> USE DEF GoneWaitersAreCutOff
<1>1. CASE Accept
  <2>1. \A b \in Clients : Waits(b)' <=> Waits(b)
    BY <1>1 DEF Accept, Waits, threads
  <2>2. CASE current = None
    BY <1>1, <2>1, <2>2 DEF Accept
  <2>3. CASE current # None
    BY <1>1, <2>1, <2>3 DEF Accept, TypeOK
  <2> QED BY <2>2, <2>3
<1>2. CASE Start
  BY <1>2 DEF Start, Waits, clients
<1>3. ASSUME NEW c \in Clients, Connect(c) PROVE GoneWaitersAreCutOff'
  BY <1>3 DEF Connect, Waits, threads, TypeOK
<1>4. ASSUME NEW c \in Clients, Send(c) PROVE GoneWaitersAreCutOff'
  <2>1. /\ socket[c] = "open" /\ UNCHANGED <<socket, request, cut_off>>
        /\ \A b \in Clients \ {c} : inbox'[b] = inbox[b]
    BY <1>4 DEF Send, threads, TypeOK
  <2> QED BY <2>1 DEF Waits
<1>5. ASSUME NEW c \in Clients, Leave(c) PROVE GoneWaitersAreCutOff'
  <2>1. \A b \in Clients : Waits(b)' <=> Waits(b)
    BY <1>5 DEF Leave, Waits, threads
  <2> QED BY <1>5, <2>1 DEF Leave, TypeOK
<1>6. ASSUME NEW c \in Clients, Handle(c) PROVE GoneWaitersAreCutOff'
  <2>1. /\ UNCHANGED <<socket, cut_off>>
        /\ \A b \in Clients \ {c} : request'[b] = request[b] /\ inbox'[b] = inbox[b]
    BY <1>6, HandleFrame
  <2>2. \A b \in Clients : Waits(b)' => Waits(b)
    BY <1>6, <2>1, WaitsFrame DEF Waits
  <2> QED BY <2>1, <2>2
<1> QED BY <1>1, <1>2, <1>3, <1>4, <1>5, <1>6 DEF Next

-----------------------------------------------------------------------------
(* The server.                                                             *)

LEMMA HelloFollowed == ClientsKnowTheirSession => AnswersFollowTheHello
BY DEF ClientsKnowTheirSession, AnswersFollowTheHello, Initializing, Tells, PlanKinds

LEMMA Stuttering ==
  ASSUME ServerInv, UNCHANGED vars
  PROVE  ServerInv'
<1>1. UNCHANGED <<server, main, current, accepted, backlog, socket, inbox, sent,
                  thread, request, session, answer, globals, promised, cut_off>>
  BY DEF vars, clients, threads
<1> QED
  BY <1>1 DEF ServerInv, TypeOK, ClientsInTurn, SessionsHaveTheirData,
              ClientsKnowTheirSession, AnswersFollowTheHello, GoneWaitersAreCutOff,
              Busy, Initializing, Tells, Waits

(* Clients are served one after the other, a session keeps the data of its *)
(* planner to itself until it is gone, and a client is answered by the     *)
(* session that it was told of (HandleClient, ResetAllSessionState): for   *)
(* any number of clients, whatever they send and whenever they leave.      *)
THEOREM ServerIsInductive == Spec => []ServerInv
<1>1. Init => ServerInv
  BY TypeInit, TurnInit, DataInit, KnowInit, HelloFollowed, GoneInit DEF ServerInv
<1>2. ServerInv /\ [Next]_vars => ServerInv'
  <2>1. ASSUME ServerInv, Next PROVE ServerInv'
    <3>1. TypeOK' /\ ClientsInTurn'
      BY <2>1, TypeStep, TurnStep DEF ServerInv
    <3>2. SessionsHaveTheirData'
      BY <2>1, DataStep DEF ServerInv
    <3>3. ClientsKnowTheirSession'
      BY <2>1, KnowStep DEF ServerInv
    <3>4. AnswersFollowTheHello'
      BY <3>3, HelloFollowed, PTL
    <3>5. GoneWaitersAreCutOff'
      BY <2>1, GoneStep DEF ServerInv
    <3> QED BY <3>1, <3>2, <3>3, <3>4, <3>5 DEF ServerInv
  <2> QED BY <2>1, Stuttering
<1> QED BY <1>1, <1>2, PTL DEF Spec

(* No plan is made with the data of another session, or while another      *)
(* thread works on them (the globals of the planners, which the session    *)
(* resets and initializes).                                                *)
THEOREM ServerPlansOnItsOwnData == Spec => []PlansOnItsOwnData
<1>1. ServerInv => PlansOnItsOwnData
  BY DEF ServerInv, ClientsInTurn, SessionsHaveTheirData, PlansOnItsOwnData, Busy,
         Initializing, PlanKinds
<1> QED BY <1>1, ServerIsInductive, PTL

LEMMA UnwrittenAnswer ==
  ASSUME ServerInv, NEW c \in Clients, WriteFails(c), ~Guarded(c)
  PROVE  c \in cut_off
<1>1. request[c] \in Requests /\ request[c].kind \in Kinds \ {"reset", "shutdown"}
  BY DEF ServerInv, TypeOK, WriteFails, Guarded, Requests
<1>2. socket[c] \in {"left", "closed"}
  BY DEF ServerInv, TypeOK, ClientsInTurn, WriteFails
<1> QED BY <1>1, <1>2 DEF ServerInv, GoneWaitersAreCutOff, Waits

(* Only two kinds of clients can end the server: one that goes away while  *)
(* it waits for an answer other than reset_ack or shutdown_ack (the two    *)
(* guarded writes of HandleClient), and one whose thread is at work for it *)
(* on a goal that the default planner cannot reach (exit in search.cpp).   *)
THEOREM ServerFireAndForget == Spec => []FireAndForgetIsSafe
<1>1. Init => FireAndForgetIsSafe
  BY DEF Init, FireAndForgetIsSafe
<1>2. ASSUME ServerInv, FireAndForgetIsSafe, [Next]_vars
      PROVE  FireAndForgetIsSafe'
  <2>1. CASE server' = "running"
    BY <2>1 DEF FireAndForgetIsSafe
  <2>2. CASE UNCHANGED vars
    BY <1>2, <2>2 DEF vars, threads, FireAndForgetIsSafe, Busy, AsksForTheLost
  <2>3. CASE Next /\ server' # "running"
    <3>1. \E c \in Clients : (WriteFails(c) /\ ~Guarded(c)) \/ PlanExits(c)
      BY <2>3 DEF Next, Accept, Start, Connect, Send, Leave, Handle, Read, ReadFails,
                  HelloBegin, HelloEnd, HelloFails, PlanBegin, PlanEnd, Reset, Plain,
                  Write, WriteFails
    <3>2. ASSUME NEW c \in Clients, WriteFails(c), ~Guarded(c)
          PROVE  FireAndForgetIsSafe'
      <4>1. c \in cut_off /\ cut_off' = cut_off /\ server' = "terminated"
        BY <1>2, <3>2, UnwrittenAnswer DEF WriteFails
      <4> QED BY <4>1 DEF FireAndForgetIsSafe
    <3>3. ASSUME NEW c \in Clients, PlanExits(c) PROVE FireAndForgetIsSafe'
      BY <3>3 DEF PlanExits, FireAndForgetIsSafe, Busy, AsksForTheLost, threads
    <3> QED BY <3>1, <3>2, <3>3
  <2> QED BY <1>2, <2>1, <2>2, <2>3
<1> QED BY <1>1, <1>2, ServerIsInductive, PTL DEF Spec
=============================================================================
