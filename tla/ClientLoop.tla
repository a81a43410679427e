----------------------------- MODULE ClientLoop -----------------------------
(***************************************************************************)
(* The client's main thread, at the level of the protocol: DiningLoop.run  *)
(* (the loop Client.main starts) or SimpleLoop.run, as Loop says.  What a  *)
(* client puts into its output and displays is abstract here.              *)
(***************************************************************************)
EXTENDS Connections

CONSTANTS Loop,   \* which loop class the clients run
          Mortal  \* clients whose user may close the window, or submit more
                  \* messages than the input buffer can ever hold

ASSUME LoopAssumption == Loop \in {"DiningLoop", "SimpleLoop"} /\ Mortal \subseteq Clients

VARIABLES cpc,    \* what the main thread waits for
          ckeys   \* the keyset of the round

clientVars == <<cpc, ckeys>>

\* gone: the process has exited; dead: an uncaught exception has ended the main
\* thread, but the window keeps the process and its socket alive.
Running == {"keys", "start", "results"}
ClientPC == Running \cup {"gone", "dead"}

ClientTypeOK ==
  /\ cpc \in [Clients -> ClientPC]
  /\ ckeys \in [Clients -> KeySet \cup {Null}]

ClientInit ==
  /\ cpc = [c \in Clients |-> "keys"]
  /\ ckeys = [c \in Clients |-> Null]

Become(c, s) == cpc' = [cpc EXCEPT ![c] = s]

(* Leaving run() by break, or System.exit: the connection is closed. *)
Leave(c) == Become(c, "gone") /\ clientOpen' = [clientOpen EXCEPT ![c] = FALSE]

Reads(c, class) == CanReceive(c) /\ NextObject(c).class = class

-----------------------------------------------------------------------------
(* Mutant: the keys are not acknowledged. *)
ReceiveKeySetSilently(c) ==
  /\ cpc[c] = "keys"
  /\ Reads(c, "KeySet")
  /\ Receive(c)
  /\ ckeys' = [ckeys EXCEPT ![c] = NextObject(c).keys]
  /\ Become(c, "start")
  /\ UNCHANGED <<c2s, clientOpen, serverUp>>

(* getKeySet(): receive, then acknowledge; a null keyset ends the loop. *)
ReceiveKeySet(c) ==
  /\ cpc[c] = "keys"
  /\ Reads(c, "KeySet")
  /\ Receive(c)
  /\ SendToServer(c, ClientMessage(c, ACK, Null))
  /\ ckeys' = [ckeys EXCEPT ![c] = NextObject(c).keys]
  /\ IF NextObject(c).keys = Null
     THEN Leave(c)
     ELSE Become(c, "start") /\ UNCHANGED clientOpen
  /\ UNCHANGED serverUp

(* START_ROUND: transmit one output.  SimpleLoop sends what the user typed *)
(* as it is, so that the text can be CLIENT_EXIT.                          *)
OutputTexts == IF Loop = "SimpleLoop" THEN {OUTPUT, CLIENT_EXIT} ELSE {OUTPUT}

Transmit(c) ==
  /\ cpc[c] = "start"
  /\ Reads(c, "Message")
  /\ NextObject(c).text = START_ROUND
  /\ Receive(c)
  /\ \E t \in OutputTexts : SendToServer(c, ClientMessage(c, t, ckeys[c]))
  /\ Become(c, "results")
  /\ UNCHANGED <<clientOpen, serverUp, ckeys>>

(* StrBuffer.next runs past the end of its array: an uncaught exception.   *)
InputExhausted(c) ==
  /\ c \in Mortal
  /\ cpc[c] = "start"
  /\ Reads(c, "Message")
  /\ NextObject(c).text = START_ROUND
  /\ Receive(c)
  /\ Become(c, "dead")
  /\ UNCHANGED <<c2s, clientOpen, serverUp, ckeys>>

(* SHUTDOWN, or anything else that is not START_ROUND: break. *)
ReceiveShutdown(c) ==
  /\ cpc[c] = "start"
  /\ Reads(c, "Message")
  /\ NextObject(c).text # START_ROUND
  /\ Receive(c)
  /\ Leave(c)
  /\ UNCHANGED <<c2s, serverUp, ckeys>>

-----------------------------------------------------------------------------
(* The round's results.  DiningLoop exits on an empty list, acknowledges,  *)
(* and then reads the messages; SimpleLoop reads them first.  Reading a    *)
(* null entry is an uncaught NullPointerException.                         *)
HasNull(list) == \E i \in DOMAIN list : list[i] = Null

ReceiveResults(c) ==
  /\ cpc[c] = "results"
  /\ Reads(c, "ArrayList")
  /\ NextObject(c).list # <<>> \/ Loop = "SimpleLoop"
  /\ Receive(c)
  /\ IF HasNull(NextObject(c).list)
     THEN Become(c, "dead") ELSE Become(c, "keys")
  /\ IF HasNull(NextObject(c).list) /\ Loop = "SimpleLoop"
     THEN UNCHANGED c2s ELSE SendToServer(c, ClientMessage(c, ACK, Null))
  /\ UNCHANGED <<clientOpen, serverUp, ckeys>>

EmptyResults(c) ==
  /\ Loop = "DiningLoop"
  /\ cpc[c] = "results"
  /\ Reads(c, "ArrayList")
  /\ NextObject(c).list = <<>>
  /\ Receive(c)
  /\ Leave(c)
  /\ UNCHANGED <<c2s, serverUp, ckeys>>

(* The cast of readObject()'s result fails: ClassCastException, which no   *)
(* handler of the loop catches.                                            *)
ExpectedClass(c) == CASE cpc[c] = "keys"    -> "KeySet"
                      [] cpc[c] = "start"   -> "Message"
                      [] cpc[c] = "results" -> "ArrayList"

CastFails(c) ==
  /\ cpc[c] \in Running
  /\ CanReceive(c)
  /\ NextObject(c).class # ExpectedClass(c)
  /\ Receive(c)
  /\ Become(c, "dead")
  /\ UNCHANGED <<c2s, clientOpen, serverUp, ckeys>>

(* StreamCorruptedException and its kind are IOExceptions, which the loop  *)
(* catches: it starts over, and reads the same again.  What a garbled      *)
(* stream makes readObject() throw besides those is a case of CastFails.   *)
ReadGarbled(c) ==
  /\ cpc[c] \in Running
  /\ Reads(c, "Garbled")
  /\ Become(c, "keys")
  /\ UNCHANGED <<connVars, ckeys>>

-----------------------------------------------------------------------------
(* The server has exited.  A failed read or write is caught inside the     *)
(* loop, which then starts over; once the stream is drained every read     *)
(* fails.  Answers: the client would write after reading the next object.  *)
ReadFails(c) ==
  /\ cpc[c] \in Running
  /\ ReadFromServerFails(c)
  /\ s2c' = [s2c EXCEPT ![c] = <<>>]
  /\ Become(c, "keys")
  /\ UNCHANGED <<c2s, clientOpen, serverUp, ckeys>>

Answers(c) ==
  \/ cpc[c] = "keys" /\ Reads(c, "KeySet")
  \/ cpc[c] = "start" /\ Reads(c, "Message") /\ NextObject(c).text = START_ROUND
  \/ /\ cpc[c] = "results"
     /\ Reads(c, "ArrayList")
     /\ IF Loop = "DiningLoop" THEN NextObject(c).list # <<>>
                               ELSE ~HasNull(NextObject(c).list)

WriteFails(c) ==
  /\ ~serverUp
  /\ Answers(c)
  /\ Receive(c)
  /\ Become(c, "keys")
  /\ UNCHANGED <<c2s, clientOpen, serverUp, ckeys>>

(* windowClosing: System.exit, whatever the main thread is doing. *)
CloseWindow(c) ==
  /\ c \in Mortal
  /\ cpc[c] # "gone"
  /\ Leave(c)
  /\ UNCHANGED <<s2c, c2s, serverUp, ckeys>>

-----------------------------------------------------------------------------
ClientStep(c) ==
  \/ ReceiveKeySet(c) \/ Transmit(c) \/ ReceiveShutdown(c)
  \/ ReceiveResults(c) \/ EmptyResults(c) \/ CastFails(c)
  \/ ReadGarbled(c) \/ ReadFails(c) \/ WriteFails(c)
=============================================================================
