--------------------------- MODULE ConnectProofs ---------------------------
(***************************************************************************)
(* The start of the system, for any number of users and of places: only    *)
(* the clients accepted get in, and threads start when all are there.      *)
(***************************************************************************)
EXTENDS Connect, SequenceTheorems, TLAPS

\* Waiting: a client in the backlog has opened its connection, is there once,
\* and has not been accepted.
Waiting ==
  /\ \A i \in DOMAIN backlog :
       /\ at[backlog[i]] \notin {"off", "window", "dialog"}
       /\ backlog[i] \notin Taken \cup {accepting}
  /\ \A i, j \in DOMAIN backlog : backlog[i] = backlog[j] => i = j

\* Entering: the client being accepted has opened its connection; it is new, and
\* there is one exactly while its header is awaited.
Entering ==
  /\ main = "header" => accepting # Null
  /\ accepting # Null =>
       main \in {"header", "exited"} /\ at[accepting] \notin {"off", "window", "dialog"}
  /\ accepting \notin Taken

\* Headers: who has sent one, who has been sent one, and what that shows.
Headers ==
  /\ greeted = Taken \cup ({accepting} \ {Null})
  /\ Taken \subseteq announced
  /\ \A u \in announced : at[u] \notin {"off", "window", "socket", "dialog"}
  /\ \A u \in Users : at[u] \in {"connected", "loop"} => u \in greeted

\* Places: the accept loop's count, and the second loop only after the first.
Places ==
  /\ \A i, j \in DOMAIN clients : clients[i] = clients[j] => i = j
  /\ main \in {"down", "accept", "header"} => Len(clients) < MAXCLIENTS /\ started = 0
  /\ main = "start" => started < MAXCLIENTS
  /\ main \in {"start", "run", "closed"} \/ started > 0 => Full
  /\ accepting # Null => Len(clients) < MAXCLIENTS
  /\ Len(clients) <= MAXCLIENTS

ConnectInv == ConnectTypeOK /\ Waiting /\ Entering /\ Headers /\ Places

LEMMA InitConnect == ConnectInit => ConnectInv
<1> SUFFICES ASSUME ConnectInit PROVE ConnectInv
  OBVIOUS
<1> USE MaxClientsAssumption, BufferAssumption, UsersAssumption DEF ConnectInit
<1>1. ConnectTypeOK
  BY DEF ConnectTypeOK, MainAt, ClientAt
<1>2. Taken = {}
  BY DEF Taken
<1> QED
  BY <1>1, <1>2 DEF ConnectInv, Waiting, Entering, Headers, Places

-----------------------------------------------------------------------------
\* The backlog and the list of clients as sequences.
LEMMA AtTheHead ==
  ASSUME NEW s \in Seq(Users), s # <<>>
  PROVE  /\ Head(s) \in Users /\ Tail(s) \in Seq(Users)
         /\ 1 \in DOMAIN s /\ Head(s) = s[1]
         /\ \A i \in DOMAIN Tail(s) :
              i \in Nat /\ i >= 1 /\ i + 1 \in DOMAIN s /\ Tail(s)[i] = s[i + 1]
<1>1. /\ Tail(s) \in Seq(Users) /\ Len(Tail(s)) = Len(s) - 1
      /\ \A i \in 1 .. Len(s) - 1 : Tail(s)[i] = s[i + 1]
      /\ Len(s) \in Nat /\ Len(s) >= 1
  OBVIOUS
<1>2. DOMAIN Tail(s) = 1 .. Len(s) - 1 /\ DOMAIN s = 1 .. Len(s)
  BY <1>1
<1> QED
  BY <1>1, <1>2

LEMMA AtTheEnd ==
  ASSUME NEW s \in Seq(Users), NEW u \in Users
  PROVE  /\ Append(s, u) \in Seq(Users)
         /\ Len(Append(s, u)) = Len(s) + 1
         /\ \A i \in DOMAIN Append(s, u) :
              \/ i \in DOMAIN s /\ Append(s, u)[i] = s[i]
              \/ i = Len(s) + 1 /\ Append(s, u)[i] = u
         /\ \A i \in DOMAIN s : i \in DOMAIN Append(s, u) /\ Append(s, u)[i] = s[i]
         /\ Len(s) + 1 \in DOMAIN Append(s, u) /\ Append(s, u)[Len(s) + 1] = u
<1>1. /\ Append(s, u) \in Seq(Users) /\ Len(Append(s, u)) = Len(s) + 1
      /\ \A i \in 1 .. Len(s) : Append(s, u)[i] = s[i]
      /\ Append(s, u)[Len(s) + 1] = u
      /\ Len(s) \in Nat
  OBVIOUS
<1>2. DOMAIN Append(s, u) = 1 .. Len(s) + 1 /\ DOMAIN s = 1 .. Len(s)
  BY <1>1
<1> QED
  BY <1>1, <1>2

-----------------------------------------------------------------------------
LEMMA ConnectTypeStep == ConnectInv /\ [ConnectNext]_connectVars => ConnectTypeOK'
<1> SUFFICES ASSUME ConnectTypeOK, Places, [ConnectNext]_connectVars PROVE ConnectTypeOK'
  BY DEF ConnectInv
<1> USE MaxClientsAssumption, BufferAssumption, UsersAssumption DEF ConnectTypeOK
<1>1. CASE UNCHANGED connectVars
  BY <1>1 DEF connectVars, serverVars, windowVars
<1>2. CASE Listen
  BY <1>2 DEF Listen, windowVars, MainAt
<1>3. CASE Accept
  <2>1. Head(backlog) \in Users /\ Tail(backlog) \in Seq(Users)
    BY <1>3, AtTheHead DEF Accept
  <2> QED
    BY <1>3, <2>1 DEF Accept, windowVars, MainAt
<1>4. CASE ReadHeader
  <2>1. Append(clients, accepting) \in Seq(Users)
    BY <1>4, AtTheEnd DEF ReadHeader
  <2> QED
    BY <1>4, <2>1 DEF ReadHeader, windowVars, MainAt
<1>5. CASE HandshakeFails \/ ServerStops \/ CollectSocket
  BY <1>5 DEF HandshakeFails, ServerStops, CollectSocket, windowVars, MainAt
<1>6. CASE StartThread
  BY <1>6 DEF StartThread, Places, windowVars, MainAt
<1>7. ASSUME NEW u \in Users, Connect(u) PROVE ConnectTypeOK'
  <2>1. Append(backlog, u) \in Seq(Users)
    BY <1>7, AtTheEnd
  <2> QED
    BY <1>7, <2>1 DEF Connect, Go, windowVars, ClientAt
<1>8. ASSUME NEW u \in Users, Type(u) PROVE ConnectTypeOK'
  <2>1. Append(box[u], Len(typed[u])) \in Seq(Nat) /\ Append(typed[u], Len(typed[u])) \in Seq(Nat)
    OBVIOUS
  <2> QED
    BY <1>8, <2>1 DEF Type, serverVars
<1>9. ASSUME NEW u \in Users, Submit(u) PROVE ConnectTypeOK'
  <2>1. submitted[u] \o box[u] \in Seq(Nat) /\ <<>> \in Seq(Nat)
    OBVIOUS
  <2>2. places[u] < length => places[u] + 1 \in 0 .. length
    OBVIOUS
  <2>3. CASE UNCHANGED <<box, submitted, places>>
    BY <1>9, <2>3 DEF Submit, serverVars
  <2>4. CASE ~UNCHANGED <<box, submitted, places>>
    <3>1. /\ places' = [places EXCEPT ![u] = @ + 1] /\ places[u] < length
          /\ submitted' = [submitted EXCEPT ![u] = @ \o box[u]]
          /\ box' = [box EXCEPT ![u] = <<>>]
          /\ UNCHANGED <<serverVars, at, announced, typed>>
      BY <1>9, <2>4 DEF Submit
    <3>2. places' \in [Users -> 0 .. length]
      BY <2>2, <3>1
    <3>3. submitted' \in [Users -> Seq(Nat)] /\ box' \in [Users -> Seq(Nat)]
      BY <2>1, <3>1
    <3> QED
      BY <3>1, <3>2, <3>3 DEF serverVars
  <2> QED
    BY <2>3, <2>4
<1>10. ASSUME NEW u \in Users, SendHeader(u) PROVE ConnectTypeOK'
  BY <1>10 DEF SendHeader, Go, serverVars, windowVars, ClientAt
<1>11. ASSUME NEW u \in Users,
              \/ Refused(u) \/ ReceiveHeader(u) \/ HeaderLost(u) \/ SetInput(u)
              \/ LeaveLoop(u) \/ Open(u) \/ CloseWindow(u) \/ Dismiss(u)
       PROVE  ConnectTypeOK'
  BY <1>11 DEF Refused, ReceiveHeader, HeaderLost, SetInput, LeaveLoop, Open, CloseWindow,
               Dismiss, Go, serverVars, windowVars, ClientAt
<1> QED
  BY <1>1, <1>2, <1>3, <1>4, <1>5, <1>6, <1>7, <1>8, <1>9, <1>10, <1>11
     DEF ConnectNext, ServerMain, ClientMain, UserAct

-----------------------------------------------------------------------------
Early == {"off", "window", "dialog"}

\* Steps that concern one client only, and of those the server knows nothing.
LEMMA ClientMoves ==
  ASSUME ConnectInv, UNCHANGED serverVars,
         \A u \in Users : at[u] \notin Early => at'[u] \notin Early,
         announced \subseteq announced',
         \A u \in announced' : at'[u] \notin Early \cup {"socket"},
         \A u \in Users : at'[u] \in {"connected", "loop"} => u \in greeted
  PROVE  Waiting' /\ Entering' /\ Headers' /\ Places'
<1>1. Taken' = Taken /\ backlog \in Seq(Users) /\ accepting \in Users \cup {Null}
  BY DEF Taken, serverVars, ConnectInv, ConnectTypeOK
<1>2. \A i \in DOMAIN backlog : backlog[i] \in Users
  BY <1>1
<1>3. Waiting'
  BY <1>1, <1>2 DEF ConnectInv, Waiting, serverVars, Early
<1>4. Entering'
  BY <1>1, UsersAssumption DEF ConnectInv, Entering, serverVars, Early
<1>5. Headers'
  BY <1>1 DEF ConnectInv, Headers, serverVars, Early
<1>6. Places'
  BY DEF ConnectInv, Places, serverVars, Full
<1> QED
  BY <1>3, <1>4, <1>5, <1>6

LEMMA ClientStepConnect ==
  ASSUME ConnectInv, NEW u \in Users,
         \/ ClientMain(u) /\ ~Connect(u)
         \/ LeaveLoop(u)
         \/ UserAct(u)
  PROVE  Waiting' /\ Entering' /\ Headers' /\ Places'
<1> USE DEF Go, serverVars
<1>1. at \in [Users -> ClientAt] /\ Headers
  BY DEF ConnectInv, ConnectTypeOK
<1>2. announced \subseteq Users
  BY DEF ConnectInv, ConnectTypeOK
<1>3. UNCHANGED serverVars
  BY DEF ClientMain, Refused, SendHeader, ReceiveHeader, HeaderLost, SetInput, LeaveLoop,
         UserAct, Open, CloseWindow, Dismiss, Type, Submit
<1>4. \A v \in Users : at[v] \notin Early => at'[v] \notin Early
  BY <1>1 DEF ClientMain, Refused, SendHeader, ReceiveHeader, HeaderLost, SetInput,
              LeaveLoop, UserAct, Open, CloseWindow, Dismiss, Type, Submit, Early
<1>5. announced \subseteq announced'
  BY DEF ClientMain, Refused, SendHeader, ReceiveHeader, HeaderLost, SetInput, LeaveLoop,
         UserAct, Open, CloseWindow, Dismiss, Type, Submit
<1>6. \A v \in announced' : at'[v] \notin Early \cup {"socket"}
  BY <1>1, <1>2 DEF Headers, ClientMain, Refused, SendHeader, ReceiveHeader, HeaderLost,
              SetInput, LeaveLoop, UserAct, Open, CloseWindow, Dismiss, Type, Submit, Early
<1>7. \A v \in Users : at'[v] \in {"connected", "loop"} => v \in greeted
  BY <1>1 DEF Headers, ClientMain, Refused, SendHeader, ReceiveHeader, HeaderLost,
              SetInput, LeaveLoop, UserAct, Open, CloseWindow, Dismiss, Type, Submit
<1> QED
  BY <1>3, <1>4, <1>5, <1>6, <1>7, ClientMoves

\* A new connection joins the backlog.
LEMMA ConnectStep ==
  ASSUME ConnectInv, NEW u \in Users, Connect(u)
  PROVE  Waiting' /\ Entering' /\ Headers' /\ Places'
<1>1. /\ at[u] = "window" /\ at' = [at EXCEPT ![u] = "socket"]
      /\ backlog' = Append(backlog, u) /\ backlog \in Seq(Users)
      /\ UNCHANGED <<main, accepting, clients, started, greeted, announced>>
      /\ Taken' = Taken /\ at \in [Users -> ClientAt] /\ accepting \in Users \cup {Null}
  BY DEF Connect, Go, ConnectInv, ConnectTypeOK, Taken
<1>2. \A v \in Users : v # u => at'[v] = at[v]
  BY <1>1
<1>3. at'[u] = "socket"
  BY <1>1
<1>4. u \notin greeted /\ u \notin announced /\ u # accepting
  <2>1. \A v \in Taken : v \in announced
    BY DEF ConnectInv, Headers
  <2>2. u \notin announced /\ u # accepting
    BY <1>1, UsersAssumption DEF ConnectInv, Headers, Entering
  <2> QED
    BY <2>1, <2>2 DEF ConnectInv, Headers
<1>5. \A i \in DOMAIN backlog : backlog[i] \in Users /\ backlog[i] # u
  BY <1>1 DEF ConnectInv, Waiting
<1>6. Waiting'
  <2>1. u \notin Taken
    BY <1>4 DEF ConnectInv, Headers
  <2>2. \A i \in DOMAIN backlog' :
          \/ i \in DOMAIN backlog /\ backlog'[i] = backlog[i]
          \/ i = Len(backlog) + 1 /\ backlog'[i] = u
    BY <1>1, AtTheEnd
  <2> QED
    BY <1>1, <1>2, <1>3, <1>4, <1>5, <2>1, <2>2 DEF ConnectInv, Waiting
<1>7. Entering'
  BY <1>1, <1>2, <1>4, UsersAssumption DEF ConnectInv, Entering
<1>8. Headers'
  <2>1. announced \subseteq Users
    BY DEF ConnectInv, ConnectTypeOK
  <2>2. \A v \in announced' : at'[v] \notin {"off", "window", "socket", "dialog"}
    BY <1>1, <1>2, <1>4, <2>1 DEF ConnectInv, Headers
  <2>3. \A v \in Users : at'[v] \in {"connected", "loop"} => v \in greeted
    BY <1>2, <1>3 DEF ConnectInv, Headers
  <2> QED
    BY <1>1, <2>2, <2>3 DEF ConnectInv, Headers
<1>9. Places'
  BY <1>1 DEF ConnectInv, Places, Full
<1> QED
  BY <1>6, <1>7, <1>8, <1>9

\* The server takes the first of them,
LEMMA AcceptStep ==
  ASSUME ConnectInv, Accept
  PROVE  Waiting' /\ Entering' /\ Headers' /\ Places'
<1>1. /\ main = "accept" /\ backlog # <<>> /\ backlog \in Seq(Users)
      /\ accepting' = Head(backlog) /\ backlog' = Tail(backlog)
      /\ greeted' = greeted \cup {Head(backlog)} /\ main' = "header"
      /\ UNCHANGED <<clients, started, at, announced>> /\ Taken' = Taken
  BY DEF Accept, ConnectInv, ConnectTypeOK, Taken
<1>2. accepting = Null
  BY <1>1 DEF ConnectInv, Entering
<1> DEFINE u == Head(backlog)
<1>3. /\ u \in Users /\ 1 \in DOMAIN backlog /\ u = backlog[1]
      /\ \A i \in DOMAIN backlog' :
           i \in Nat /\ i >= 1 /\ i + 1 \in DOMAIN backlog /\ backlog'[i] = backlog[i + 1]
  BY <1>1, AtTheHead
<1> HIDE DEF u
<1>4. u \notin Taken /\ at[u] \notin {"off", "window", "dialog"} /\ u # Null
  BY <1>3, UsersAssumption DEF ConnectInv, Waiting
<1>5. Waiting'
  <2>1. \A i \in DOMAIN backlog' : backlog'[i] # u
    BY <1>3 DEF ConnectInv, Waiting
  <2>2. \A i, j \in DOMAIN backlog' : backlog'[i] = backlog'[j] => i = j
    BY <1>3 DEF ConnectInv, Waiting
  <2>3. \A i \in DOMAIN backlog' :
          /\ at'[backlog'[i]] \notin {"off", "window", "dialog"}
          /\ backlog'[i] \notin Taken'
    BY <1>1, <1>3 DEF ConnectInv, Waiting
  <2> QED
    BY <1>1, <2>1, <2>2, <2>3 DEF Waiting, u
<1>6. Entering'
  BY <1>1, <1>4 DEF Entering, u
<1>7. Headers'
  <2>1. greeted = Taken /\ greeted' = Taken \cup {u}
    BY <1>1, <1>2 DEF ConnectInv, Headers, u
  <2> QED
    BY <1>1, <1>4, <2>1 DEF ConnectInv, Headers, u
<1>8. Places'
  BY <1>1 DEF ConnectInv, Places, Full
<1> QED
  BY <1>5, <1>6, <1>7, <1>8

\* and adds it to its list when the header has come in.
LEMMA ReadHeaderStep ==
  ASSUME ConnectInv, ReadHeader
  PROVE  Waiting' /\ Entering' /\ Headers' /\ Places'
<1>1. /\ main = "header" /\ accepting \in announced /\ accepting \in Users
      /\ clients' = Append(clients, accepting) /\ clients \in Seq(Users)
      /\ accepting' = Null /\ accepting # Null
      /\ main' = IF Len(clients') < MAXCLIENTS THEN "accept" ELSE "start"
      /\ UNCHANGED <<backlog, started, greeted, at, announced>>
  BY UsersAssumption DEF ReadHeader, ConnectInv, ConnectTypeOK
<1>2. /\ Len(clients') = Len(clients) + 1
      /\ \A i \in DOMAIN clients' :
           \/ i \in DOMAIN clients /\ clients'[i] = clients[i]
           \/ i = Len(clients) + 1 /\ clients'[i] = accepting
      /\ \A i \in DOMAIN clients : i \in DOMAIN clients' /\ clients'[i] = clients[i]
      /\ Len(clients) + 1 \in DOMAIN clients' /\ clients'[Len(clients) + 1] = accepting
  BY <1>1, AtTheEnd
<1>3. Taken' = Taken \cup {accepting}
  BY <1>2 DEF Taken
<1>4. Null \notin Taken /\ accepting \notin Taken
  <2>1. \A i \in DOMAIN clients : clients[i] \in Users
    BY <1>1
  <2> QED
    BY <2>1, UsersAssumption DEF Taken, ConnectInv, Entering
<1>5. Waiting'
  <2>1. \A i \in DOMAIN backlog : backlog[i] # Null
    BY UsersAssumption DEF ConnectInv, ConnectTypeOK
  <2> QED
    BY <1>1, <1>3, <2>1 DEF ConnectInv, Waiting
<1>6. Entering'
  BY <1>1, <1>3, <1>4 DEF Entering
<1>7. Headers'
  BY <1>1, <1>3 DEF ConnectInv, Headers
<1>8. Places'
  <2>1. \A i \in DOMAIN clients : clients[i] # accepting
    BY <1>4 DEF Taken
  <2>2. \A i, j \in DOMAIN clients' : clients'[i] = clients'[j] => i = j
    BY <1>2, <2>1 DEF ConnectInv, Places
  <2>3. Len(clients) < MAXCLIENTS /\ started = 0 /\ Len(clients) \in Nat
    BY <1>1 DEF ConnectInv, Places
  <2>4. MAXCLIENTS > 0 /\ MAXCLIENTS \in Nat
    BY MaxClientsAssumption
  <2> QED
    BY <1>1, <1>2, <2>2, <2>3, <2>4 DEF Places, Full
<1> QED
  BY <1>5, <1>6, <1>7, <1>8

\* The server's other steps change nothing but main and started.
LEMMA MainStep ==
  ASSUME ConnectInv,
         Listen \/ HandshakeFails \/ StartThread \/ ServerStops \/ CollectSocket
  PROVE  Waiting' /\ Entering' /\ Headers' /\ Places'
<1> USE DEF Listen, HandshakeFails, StartThread, ServerStops, CollectSocket
<1>1. UNCHANGED <<backlog, accepting, clients, greeted, at, announced>> /\ Taken' = Taken
  BY DEF Taken
<1>2. Waiting' /\ Headers'
  BY <1>1 DEF ConnectInv, Waiting, Headers
<1>3. Entering'
  BY <1>1 DEF ConnectInv, Entering
<1>4. Places'
  <2>1. started \in Nat /\ MAXCLIENTS \in Nat /\ MAXCLIENTS > 0
    BY MaxClientsAssumption DEF ConnectInv, ConnectTypeOK
  <2>2. Places
    BY DEF ConnectInv
  <2>3. CASE Listen \/ HandshakeFails
    BY <1>1, <2>1, <2>2, <2>3 DEF Places, Full
  <2>4. CASE StartThread \/ ServerStops \/ CollectSocket
    BY <1>1, <2>1, <2>2, <2>4 DEF Places, Full
  <2> QED
    BY <2>3, <2>4
<1> QED
  BY <1>2, <1>3, <1>4

LEMMA ConnectInductive == ConnectInv /\ [ConnectNext]_connectVars => ConnectInv'
<1> SUFFICES ASSUME ConnectInv, [ConnectNext]_connectVars
             PROVE  Waiting' /\ Entering' /\ Headers' /\ Places'
  BY ConnectTypeStep DEF ConnectInv
<1>1. CASE UNCHANGED connectVars
  BY <1>1 DEF ConnectInv, Waiting, Entering, Headers, Places, Taken, Full, connectVars,
              serverVars
<1>2. CASE ConnectNext
  BY <1>2, MainStep, AcceptStep, ReadHeaderStep, ConnectStep, ClientStepConnect
     DEF ConnectNext, ServerMain, ClientMain
<1> QED
  BY <1>1, <1>2

LEMMA ConnectInvariant == ConnectSpec => []ConnectInv
BY InitConnect, ConnectInductive, PTL DEF ConnectSpec

-----------------------------------------------------------------------------
\* Every variable keeps its type, for any number of users and places.
THEOREM ConnectTypeCorrect == ConnectSpec => []ConnectTypeOK
BY ConnectInvariant, PTL DEF ConnectInv

\* Nobody but the MAXCLIENTS clients that the server accepts gets past connect.
THEOREM OnlyAccepted == ConnectSpec => []Admitted
<1>1. ConnectInv => Admitted
  <2> SUFFICES ASSUME ConnectInv PROVE Admitted
    OBVIOUS
  <2>1. \A u \in Users : at[u] \in {"connected", "loop"} => u \in Taken \cup {accepting}
    BY DEF ConnectInv, Headers
  <2>2. Len(clients) + (IF accepting = Null THEN 0 ELSE 1) <= MAXCLIENTS
    BY MaxClientsAssumption DEF ConnectInv, ConnectTypeOK, Places
  <2> QED
    BY <2>1, <2>2 DEF Admitted, ConnectInv, Places
<1> QED
  BY <1>1, ConnectInvariant, PTL

\* The threads start only when every one of them has a client that has been
\* through the whole handshake.
THEOREM ReadyWhenStarted == ConnectSpec => []ThreadsReady
<1>1. ConnectInv => ThreadsReady
  BY DEF ConnectInv, Headers, Places, ThreadsReady
<1> QED
  BY <1>1, ConnectInvariant, PTL

LEMMA AppendToSecond ==
  ASSUME NEW S, NEW s \in Seq(S), NEW t \in Seq(S), NEW n \in S
  PROVE  s \o Append(t, n) = Append(s \o t, n)
<1>1. <<n>> \in Seq(S) /\ s \o t \in Seq(S)
  OBVIOUS
<1>2. Append(t, n) = t \o <<n>>
  BY AppendIsConcat
<1>3. Append(s \o t, n) = (s \o t) \o <<n>>
  BY <1>1, AppendIsConcat
<1>4. (s \o t) \o <<n>> = s \o (t \o <<n>>)
  BY <1>1, ConcatAssociative
<1> QED
  BY <1>2, <1>3, <1>4

\* No text is lost or duplicated between the keyboard and the input buffer.
THEOREM TextIsKept == ConnectSpec => []TextKept
<1>1. ConnectInit => TextKept
  <2>1. <<>> \o <<>> = <<>>
    OBVIOUS
  <2> QED
    BY <2>1 DEF ConnectInit, TextKept
<1>2. ConnectTypeOK /\ TextKept /\ [ConnectNext]_connectVars => TextKept'
  <2> SUFFICES ASSUME ConnectTypeOK, TextKept, [ConnectNext]_connectVars PROVE TextKept'
    OBVIOUS
  <2>1. ASSUME NEW u \in Users, Type(u) PROVE TextKept'
    <3> DEFINE n == Len(typed[u])
    <3>1. /\ box' = [box EXCEPT ![u] = Append(@, n)]
          /\ typed' = [typed EXCEPT ![u] = Append(@, n)]
          /\ submitted' = submitted
      BY <2>1 DEF Type
    <3>2. /\ submitted[u] \in Seq(Nat) /\ box[u] \in Seq(Nat) /\ typed[u] \in Seq(Nat)
          /\ n \in Nat
      BY DEF ConnectTypeOK
    <3> HIDE DEF n
    <3>3. submitted[u] \o Append(box[u], n) = Append(submitted[u] \o box[u], n)
      <4>1. \A s, t \in Seq(Nat) : \A x \in Nat : s \o Append(t, x) = Append(s \o t, x)
        BY AppendToSecond
      <4> QED
        BY <3>2, <4>1
    <3> QED
      BY <3>1, <3>3 DEF TextKept, ConnectTypeOK
  <2>2. ASSUME NEW u \in Users, Submit(u) PROVE TextKept'
    <3>1. typed' = typed
      BY <2>2 DEF Submit
    <3>2. submitted[u] \in Seq(Nat) /\ box[u] \in Seq(Nat)
      BY DEF ConnectTypeOK
    <3>3. (submitted[u] \o box[u]) \o <<>> = submitted[u] \o box[u]
      BY <3>2
    <3> QED
      BY <2>2, <3>1, <3>3 DEF Submit, TextKept, ConnectTypeOK
  <2>3. CASE UNCHANGED windowVars
    BY <2>3 DEF windowVars, TextKept
  <2> QED
    BY <2>1, <2>2, <2>3
       DEF ConnectNext, ServerMain, ClientMain, UserAct, connectVars, Listen, Accept,
           ReadHeader, HandshakeFails, StartThread, ServerStops, CollectSocket, Connect,
           Refused, SendHeader, ReceiveHeader, HeaderLost, SetInput, LeaveLoop, Open,
           CloseWindow, Dismiss
<1> QED
  BY <1>1, <1>2, ConnectTypeCorrect, PTL DEF ConnectSpec
=============================================================================
