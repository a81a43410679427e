------------------------------ MODULE Connect ------------------------------
(***************************************************************************)
(* How the system starts: Server.main accepts MAXCLIENTS clients, one      *)
(* after the other and each with an exchange of stream headers, and starts *)
(* their threads; Client.main opens the window, connects, and hands the    *)
(* loop to the window as the input for what its user submits.  What the    *)
(* threads and loops do afterwards is the subject of DiningSystem.         *)
(***************************************************************************)
EXTENDS Naturals, Sequences

CONSTANTS Users,       \* all who may start a client
          MAXCLIENTS,  \* how many of them the server accepts
          length,      \* the size of a client's input buffer
          Typists,     \* bound: users who type anything,
          MaxTexts,    \*        and how many texts each of them types
          Null         \* Java's null

ASSUME MaxClientsAssumption == MAXCLIENTS \in Nat \ {0}
ASSUME BufferAssumption == length \in Nat /\ MaxTexts \in Nat
ASSUME UsersAssumption == Null \notin Users /\ Typists \subseteq Users

VARIABLES main,       \* where Server.main is
          backlog,    \* connections the listening socket holds
          accepting,  \* the client of the connection being set up, or Null
          clients,    \* the list of clients of Server.main
          started,    \* how many threads it has started
          greeted,    \* the clients sent a stream header by the server
          at,         \* where a user's Client.main is
          announced,  \* the clients that have sent theirs
          box,        \* the texts in a client's submission box
          submitted,  \* the texts that have got into its input buffer
          places,     \* StrBuffer.writePosition
          typed       \* history: the texts its user has typed

serverVars == <<main, backlog, accepting, clients, started, greeted>>
windowVars == <<box, submitted, places, typed>>
connectVars == <<serverVars, at, announced, windowVars>>

\* run: the main thread has ended, the threads go on; closed: so has the socket.
MainAt == {"down", "accept", "header", "start", "run", "closed", "exited"}
\* connected: between connect and setInput; loop: in DiningLoop.run.
ClientAt == {"off", "window", "socket", "header", "connected", "loop", "dialog", "gone"}

ConnectTypeOK ==
  /\ main \in MainAt
  /\ backlog \in Seq(Users)
  /\ accepting \in Users \cup {Null}
  /\ clients \in Seq(Users)
  /\ started \in 0 .. MAXCLIENTS
  /\ greeted \subseteq Users
  /\ at \in [Users -> ClientAt]
  /\ announced \subseteq Users
  /\ box \in [Users -> Seq(Nat)]
  /\ submitted \in [Users -> Seq(Nat)]
  /\ places \in [Users -> 0 .. length]
  /\ typed \in [Users -> Seq(Nat)]

ConnectInit ==
  /\ main = "down"
  /\ backlog = <<>>
  /\ accepting = Null
  /\ clients = <<>>
  /\ started = 0
  /\ greeted = {}
  /\ at = [u \in Users |-> "off"]
  /\ announced = {}
  /\ box = [u \in Users |-> <<>>]
  /\ submitted = [u \in Users |-> <<>>]
  /\ places = [u \in Users |-> 0]
  /\ typed = [u \in Users |-> <<>>]

-----------------------------------------------------------------------------
(* Server.main *)

(* The constructor of ServerConnection; the port may be taken. *)
Listen ==
  /\ main = "down"
  /\ main' \in {"accept", "exited"}
  /\ UNCHANGED <<backlog, accepting, clients, started, greeted, at, announced, windowVars>>

(* accept, and the header of the connection's output stream *)
Accept ==
  /\ main = "accept"
  /\ backlog # <<>>
  /\ accepting' = Head(backlog)
  /\ backlog' = Tail(backlog)
  /\ greeted' = greeted \cup {Head(backlog)}
  /\ main' = "header"
  /\ UNCHANGED <<clients, started, at, announced, windowVars>>

(* Mutants: the loop goes round once too often; it starts threads as it    *)
(* goes.                                                                   *)
ReadHeaderOffByOne ==
  /\ main = "header"
  /\ accepting \in announced
  /\ clients' = Append(clients, accepting)
  /\ accepting' = Null
  /\ main' = IF Len(clients) < MAXCLIENTS THEN "accept" ELSE "start"
  /\ UNCHANGED <<backlog, started, greeted, at, announced, windowVars>>

ReadHeaderAndStart ==
  /\ main = "header"
  /\ accepting \in announced
  /\ clients' = Append(clients, accepting)
  /\ accepting' = Null
  /\ started' = started + 1
  /\ main' = IF Len(clients') < MAXCLIENTS THEN "accept" ELSE "run"
  /\ UNCHANGED <<backlog, greeted, at, announced, windowVars>>

(* The client's header has come in: clients.add. *)
ReadHeader ==
  /\ main = "header"
  /\ accepting \in announced
  /\ clients' = Append(clients, accepting)
  /\ accepting' = Null
  /\ main' = IF Len(clients') < MAXCLIENTS THEN "accept" ELSE "start"
  /\ UNCHANGED <<backlog, started, greeted, at, announced, windowVars>>

(* Mutant: the handler leaves the stream null and goes on waiting. *)
HandshakeHangs ==
  /\ main = "header"
  /\ at[accepting] = "gone"
  /\ UNCHANGED connectVars

(* The client has gone, with or without a header that could still be read: *)
(* the handler ends the server for everybody.                              *)
HandshakeFails ==
  /\ main = "header"
  /\ at[accepting] = "gone"
  /\ main' = "exited"
  /\ UNCHANGED <<backlog, accepting, clients, started, greeted, at, announced, windowVars>>

(* Mutant: one thread too many. *)
StartThreadOffByOne ==
  /\ main = "start"
  /\ started' = started + 1
  /\ main' = IF started < MAXCLIENTS THEN "start" ELSE "run"
  /\ UNCHANGED <<backlog, accepting, clients, greeted, at, announced, windowVars>>

StartThread ==
  /\ main = "start"
  /\ started' = started + 1
  /\ main' = IF started' < MAXCLIENTS THEN "start" ELSE "run"
  /\ UNCHANGED <<backlog, accepting, clients, greeted, at, announced, windowVars>>

ServerMain == Listen \/ Accept \/ ReadHeader \/ HandshakeFails \/ StartThread

HasThread(u) == \E i \in 1 .. started : clients[i] = u

(* A thread that has lost its client exits (LoseClient of ServerThread). *)
ServerStops ==
  /\ main \in {"start", "run", "closed"}
  /\ \E u \in Users : HasThread(u) /\ at[u] = "gone"
  /\ main' = "exited"
  /\ UNCHANGED <<backlog, accepting, clients, started, greeted, at, announced, windowVars>>

(* When main has returned nothing refers to the listening socket any more: *)
(* a garbage collection may close it, and with it what is in the backlog.  *)
CollectSocket ==
  /\ main = "run"
  /\ main' = "closed"
  /\ UNCHANGED <<backlog, accepting, clients, started, greeted, at, announced, windowVars>>

-----------------------------------------------------------------------------
(* Client.main *)
Go(u, from, to) == at[u] = from /\ at' = [at EXCEPT ![u] = to]

(* GuiManager: the window is there before the connection. *)
Open(u) ==
  /\ Go(u, "off", "window")
  /\ UNCHANGED <<serverVars, announced, windowVars>>

(* new Socket: it takes a listening server, not one that has called accept. *)
Listening == main \in {"accept", "header", "start", "run"}

Connect(u) ==
  /\ Listening
  /\ Go(u, "window", "socket")
  /\ backlog' = Append(backlog, u)
  /\ UNCHANGED <<main, accepting, clients, started, greeted, announced, windowVars>>

(* ConnectException: the error is displayed, then shown in a dialog. *)
Refused(u) ==
  /\ ~Listening
  /\ Go(u, "window", "dialog")
  /\ UNCHANGED <<serverVars, announced, windowVars>>

SendHeader(u) ==
  /\ Go(u, "socket", "header")
  /\ announced' = announced \cup {u}
  /\ UNCHANGED <<serverVars, windowVars>>

ReceiveHeader(u) ==
  /\ u \in greeted
  /\ Go(u, "header", "connected")
  /\ UNCHANGED <<serverVars, announced, windowVars>>

(* The connection is closed from the other side: an IOException in connect, *)
(* which exits.                                                            *)
Taken == {clients[i] : i \in DOMAIN clients}

HeaderLost(u) ==
  /\ main = "exited" \/ (main = "closed" /\ u \notin Taken)
  /\ Go(u, "socket", "gone") \/ Go(u, "header", "gone")
  /\ UNCHANGED <<serverVars, announced, windowVars>>

(* guiManager.setInput(loop), and loop.run() *)
SetInput(u) ==
  /\ Go(u, "connected", "loop")
  /\ UNCHANGED <<serverVars, announced, windowVars>>

ClientMain(u) ==
  \/ Connect(u) \/ Refused(u) \/ SendHeader(u) \/ ReceiveHeader(u) \/ HeaderLost(u)
  \/ SetInput(u)

(* run returns only after its client's thread has sent it something. *)
LeaveLoop(u) ==
  /\ HasThread(u)
  /\ Go(u, "loop", "gone")
  /\ UNCHANGED <<serverVars, announced, windowVars>>

-----------------------------------------------------------------------------
(* The window.  The dialog is modal. *)
Usable(u) == at[u] \in {"window", "socket", "header", "connected", "loop"}

CloseWindow(u) ==
  /\ Usable(u)
  /\ at' = [at EXCEPT ![u] = "gone"]
  /\ UNCHANGED <<serverVars, announced, windowVars>>

Dismiss(u) ==
  /\ Go(u, "dialog", "gone")
  /\ UNCHANGED <<serverVars, announced, windowVars>>

Type(u) ==
  /\ u \in Typists
  /\ Usable(u)
  /\ Len(typed[u]) < MaxTexts
  /\ box' = [box EXCEPT ![u] = Append(@, Len(typed[u]))]
  /\ typed' = [typed EXCEPT ![u] = Append(@, Len(typed[u]))]
  /\ UNCHANGED <<serverVars, at, announced, submitted, places>>

(* Mutant: actionPerformed clears the box first. *)
SubmitClearsFirst(u) ==
  /\ u \in Typists
  /\ Usable(u)
  /\ box' = [box EXCEPT ![u] = <<>>]
  /\ \/ UNCHANGED <<submitted, places>>
     \/ /\ at[u] = "loop"
        /\ places[u] < length
        /\ submitted' = [submitted EXCEPT ![u] = @ \o box[u]]
        /\ places' = [places EXCEPT ![u] = @ + 1]
  /\ UNCHANGED <<serverVars, at, announced, typed>>

(* actionPerformed.  With submitInput still null, or not yet seen by the   *)
(* event thread, and with the buffer full an exception leaves everything   *)
(* as it was; otherwise the text takes a place and the box is cleared.     *)
Submit(u) ==
  /\ u \in Typists
  /\ Usable(u)
  /\ \/ UNCHANGED <<box, submitted, places>>
     \/ /\ at[u] = "loop"
        /\ places[u] < length
        /\ submitted' = [submitted EXCEPT ![u] = @ \o box[u]]
        /\ places' = [places EXCEPT ![u] = @ + 1]
        /\ box' = [box EXCEPT ![u] = <<>>]
  /\ UNCHANGED <<serverVars, at, announced, typed>>

UserAct(u) == Open(u) \/ CloseWindow(u) \/ Dismiss(u) \/ Type(u) \/ Submit(u)

ConnectNext ==
  \/ ServerMain \/ ServerStops \/ CollectSocket
  \/ \E u \in Users : ClientMain(u) \/ LeaveLoop(u) \/ UserAct(u)

ConnectSpec == ConnectInit /\ [][ConnectNext]_connectVars

(* The main threads keep running; users do what they like, and whether a   *)
(* thread or a loop ends is the subject of DiningSystem.                   *)
ConnectFairSpec ==
  /\ ConnectSpec
  /\ WF_connectVars(ServerMain)
  /\ \A u \in Users : WF_connectVars(ClientMain(u))

-----------------------------------------------------------------------------
Full == Len(clients) = MAXCLIENTS

\* Admitted: only clients the server has accepted, or is just accepting, get
\* past the handshake, no client is accepted twice, and there are never more
\* than MAXCLIENTS of them, although the socket connects everybody (Server.main
\* against ClientConnection.connect).
Admitted ==
  /\ \A u \in Users : at[u] \in {"connected", "loop"} => u \in Taken \cup {accepting}
  /\ \A i, j \in DOMAIN clients : clients[i] = clients[j] => i = j
  /\ Len(clients) + (IF accepting = Null THEN 0 ELSE 1) <= MAXCLIENTS

\* ThreadsReady: when the first thread starts, all clients are there and both
\* headers of every connection have been sent: what the initial state of
\* DiningSystem takes for granted.
ThreadsReady ==
  started > 0 =>
    /\ Full
    /\ Taken \subseteq announced \cap greeted
    /\ \A u \in Taken : at[u] \notin {"off", "window", "socket", "dialog"}

\* TextKept: nothing a user types is lost or duplicated on its way to the input
\* buffer, be it submitted before there is anybody to take it or after the
\* buffer is full: it stays in the box (actionPerformed against setInput and
\* StrBuffer.add).
TextKept == \A u \in Users : submitted[u] \o box[u] = typed[u]

\* EveryoneServed: a client that has opened a connection comes through the
\* handshake or ends, whatever the clients before it do, unless all places have
\* been taken by others: then it waits as long as the server runs.
EveryoneServed ==
  \A u \in Users :
    at[u] = "socket" ~> \/ at[u] \in {"connected", "gone"}
                        \/ Full /\ main # "exited" /\ u \notin Taken
=============================================================================
