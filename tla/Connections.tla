---------------------------- MODULE Connections -----------------------------
(***************************************************************************)
(* The TCP connections: for every client an object stream from the server  *)
(* (written through the server's ClientSocketInfo, read through the        *)
(* client's ClientConnection) and one towards it.  Streams are FIFO and    *)
(* lossless while both processes live.  A process that exits closes its    *)
(* sockets: what it wrote can still be read unless it left input unread,   *)
(* in which case the peer may see the connection reset instead.            *)
(***************************************************************************)
EXTENDS Protocol

VARIABLES s2c,         \* s2c[c]: objects sent to client c, not yet read
          c2s,         \* c2s[c]: messages client c sent, not yet read
          clientOpen,  \* clientOpen[c]: client c's process has its socket open
          serverUp     \* the server process is running

connVars == <<s2c, c2s, clientOpen, serverUp>>

ConnTypeOK ==
  /\ s2c \in [Clients -> Seq(ServerObject)]
  /\ c2s \in [Clients -> Seq(Message)]
  /\ clientOpen \in [Clients -> BOOLEAN]
  /\ serverUp \in BOOLEAN

ConnInit ==
  /\ s2c = [c \in Clients |-> <<>>]
  /\ c2s = [c \in Clients |-> <<>>]
  /\ clientOpen = [c \in Clients |-> TRUE]
  /\ serverUp = TRUE

(* ClientSocketInfo.send, in its three overloads. *)
SendToClient(c, o) == s2c' = [s2c EXCEPT ![c] = Append(@, o)]

(* ClientSocketInfo.receiveMessage: blocks until a message is there. *)
CanReceiveFrom(c)  == c2s[c] # <<>>
MessageFrom(c)     == Head(c2s[c])
ReceiveFrom(c)     == c2s' = [c2s EXCEPT ![c] = Tail(@)]

(* ClientConnection.send. *)
SendToServer(c, m) == c2s' = [c2s EXCEPT ![c] = Append(@, m)]

(* ClientConnection's receive methods: block until an object is there. *)
CanReceive(c) == s2c[c] # <<>>
NextObject(c) == Head(s2c[c])
Receive(c)    == s2c' = [s2c EXCEPT ![c] = Tail(@)]

(* A read of a connection whose other end has gone fails once the stream   *)
(* is drained (EOFException), or at once if the other end left input       *)
(* unread when it closed (the connection is reset).                        *)
ReadFromClientFails(c) == ~clientOpen[c] /\ (c2s[c] = <<>> \/ s2c[c] # <<>>)
ReadFromServerFails(c) == ~serverUp /\ (s2c[c] = <<>> \/ c2s[c] # <<>>)
=============================================================================
