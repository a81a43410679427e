------------------------------ MODULE Protocol ------------------------------
(***************************************************************************)
(* The vocabulary of the dining-cryptographers message broadcast: who the  *)
(* clients are, and the objects that travel between them and the server.   *)
(*                                                                         *)
(* Data is abstract.  A KeySet is named by the generation of keys it       *)
(* belongs to and by its index in that generation; a client's enciphered   *)
(* output is named by its sender and by the KeySet it was enciphered with. *)
(* The texts of the control messages are those of CommunicationProtocol.   *)
(***************************************************************************)
EXTENDS Naturals, Sequences

CONSTANTS N,    \* MAXCLIENTS, the number of clients the server waits for
          Null  \* Java's null

ASSUME NAssumption == N \in Nat \ {0}

Clients == 0 .. N - 1

\* A KeySet object: entry idx of the gen-th array that generateKeySets built.
KeySet == [gen : Nat, idx : Clients]

\* The control texts, and OUTPUT for any other text a client sends when it is
\* asked for its output.
ACK         == "OK"
START_ROUND == "STARTROUND"
CLIENT_EXIT == "KILL"
SHUTDOWN    == "END"
OUTPUT      == "OUTPUT"

\* A Message on its way from a client to the server.
Message == [text : {ACK, CLIENT_EXIT, OUTPUT}, from : Clients,
            keys : KeySet \cup {Null}]

\* The list a server thread sends as the result of a round.
Results == Seq(Message \cup {Null})

\* The objects a server thread writes; class is what the reader's cast tests.
ServerObject ==
  [class : {"KeySet"}, keys : KeySet \cup {Null}]
    \cup [class : {"Message"}, text : {START_ROUND, SHUTDOWN}]
    \cup [class : {"ArrayList"}, list : Results]
    \cup [class : {"Garbled"}]

KeySetObject(k)  == [class |-> "KeySet", keys |-> k]
MessageObject(t) == [class |-> "Message", text |-> t]
ResultsObject(r) == [class |-> "ArrayList", list |-> r]

\* What two threads leave in a stream that they write at the same time.
Garbled == [class |-> "Garbled"]

ClientMessage(c, t, k) == [text |-> t, from |-> c, keys |-> k]

ASSUME NullAssumption == Null \notin KeySet /\ Null \notin Message
                           /\ Null \notin Clients
=============================================================================
