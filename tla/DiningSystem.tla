---------------------------- MODULE DiningSystem ----------------------------
(***************************************************************************)
(* The running system: N server threads over one SharedServerInfo, and N   *)
(* clients, each joined to its own thread by a connection.  The initial    *)
(* state is the one Server.main reaches after it has accepted N clients    *)
(* and started all threads.                                                *)
(***************************************************************************)
EXTENDS ServerThread, ClientLoop

vars == <<connVars, sharedVars, threadVars, clientVars>>

Init == ConnInit /\ SharedInit /\ ThreadInit /\ ClientInit

Next ==
  \/ /\ \E t \in Clients : ThreadStep(t) \/ WakeSpuriously(t)
     /\ UNCHANGED clientVars
  \/ /\ \E c \in Clients : ClientStep(c) \/ InputExhausted(c) \/ CloseWindow(c)
     /\ UNCHANGED <<sharedVars, threadVars>>

Spec == Init /\ [][Next]_vars

(* Every thread of the server and the main thread of every client keep     *)
(* running; no user has to close a window, and wait() has to be notified.  *)
Fairness ==
  /\ \A t \in Clients : WF_vars(ThreadStep(t) /\ UNCHANGED clientVars)
  /\ \A c \in Clients : WF_vars(ClientStep(c) /\ UNCHANGED <<sharedVars, threadVars>>)

FairSpec == Spec /\ Fairness

TypeOK == ConnTypeOK /\ SharedTypeOK /\ ThreadTypeOK /\ ClientTypeOK

-----------------------------------------------------------------------------
(* The protocol of one connection.                                         *)

ShuttingDown == \E t \in Clients : notified[t] > 0

\* CastSafe: as long as no SHUTDOWN is sent, and so as long as every stream has
\* one writer, the next object on the stream to a
\* running client is what the client's next readObject() casts it to, and
\* the Message that follows the KeySet is START_ROUND (DiningLoop.run against
\* sendKeys, sendStartRound and sendResults).
CastSafe ==
  ~ShuttingDown =>
    \A c \in Clients : cpc[c] \in Running /\ CanReceive(c) =>
      /\ NextObject(c).class = ExpectedClass(c)
      /\ cpc[c] = "start" => NextObject(c).text = START_ROUND

\* AckSafe: a thread never takes a client's output for the acknowledgement
\* it waits for, nor an acknowledgement for the output, so that neither
\* "Failed to send" exit of ServerThread is ever taken.
AckSafe ==
  \A t \in Clients : CanReceiveFrom(t) =>
    /\ pc[t] \in {"keysAck", "resultsAck"} => MessageFrom(t).text = ACK
    /\ pc[t] = "output" => MessageFrom(t).text # ACK

-----------------------------------------------------------------------------
(* Why the two hold: the inductive invariant about a connection.  At most  *)
(* one object or message is under way, and where it is follows from the    *)
(* statement the thread has reached, until SHUTDOWN is sent; a client that *)
(* finds SHUTDOWN first reads nothing more.                                *)

\* The thread has neither sent its client anything it has not acknowledged,
\* nor got its output for the round.
Between == Startup \cup {"getKeySet", "sendKeys", "sent", "sentWait", "clearing"}
\* It has the client's output, and the client waits for the results.
Busy == {"addOutput", "adding", "collect", "collectWait", "sizing", "copying", "shutdown"}

\* SHUTDOWN, or what is left of it when another thread wrote to the stream, too.
Shutdown(o) ==
  o.class = "Garbled" \/ (o.class = "Message" /\ o.text = SHUTDOWN)

\* What a thread finds on the stream from its client.
RepliesOK(c) ==
  /\ pc[c] \notin {"keysAck", "output", "resultsAck"} => c2s[c] = <<>>
  /\ c2s[c] # <<>> =>
       /\ Len(c2s[c]) = 1
       /\ pc[c] = "output" <=> MessageFrom(c).text # ACK

\* The client has read everything: what it waits for and what it has sent.
QuietOK(c) ==
  /\ pc[c] \in Between => cpc[c] = "keys"
  /\ pc[c] = "keysAck" => cpc[c] = "start" /\ c2s[c] # <<>>
  /\ pc[c] = "startRound" => cpc[c] = "start"
  /\ pc[c] = "output" => cpc[c] = "results" /\ c2s[c] # <<>>
  /\ pc[c] \in Busy => cpc[c] = "results"
  /\ pc[c] = "resultsAck" => cpc[c] = "keys" /\ c2s[c] # <<>>

\* The object the client reads next is the one it waits for, and the thread
\* waits for the reply.
AwaitedOK(c) ==
  /\ c2s[c] = <<>>
  /\ \/ /\ cpc[c] = "keys" /\ pc[c] = "keysAck"
        /\ NextObject(c).class = "KeySet"
     \/ /\ cpc[c] = "start" /\ pc[c] = "output"
        /\ NextObject(c).class = "Message" /\ NextObject(c).text = START_ROUND
     \/ /\ cpc[c] = "results" /\ pc[c] = "resultsAck"
        /\ NextObject(c).class = "ArrayList"
  /\ Len(s2c[c]) > 1 => Shutdown(s2c[c][2])

ConversationOK(c) ==
  cpc[c] \in Running =>
    \/ s2c[c] = <<>> /\ (serverUp => QuietOK(c))
    \/ s2c[c] # <<>> /\ Shutdown(NextObject(c))
    \/ s2c[c] # <<>> /\ AwaitedOK(c)

NoEarlyShutdown(c) ==
  \A i \in DOMAIN s2c[c] : Shutdown(s2c[c][i]) => ShuttingDown

\* SessionInv: every connection is in one of the situations the protocol
\* allows; it implies CastSafe and AckSafe.
ConnectionOK(c) == RepliesOK(c) /\ ConversationOK(c) /\ NoEarlyShutdown(c)
SessionInv == \A c \in Clients : ConnectionOK(c)

-----------------------------------------------------------------------------
(* The keys and the round.                                                 *)

UsedKeys == {currentRoundMessages[i].keys :
               i \in {j \in DOMAIN currentRoundMessages :
                        currentRoundMessages[j] # Null}}

\* OneTime: a keyset enciphers at most one output.  Two outputs collected by
\* the server never share a keyset, the output a thread is about to add uses
\* one that no collected output used, and so does a client about to transmit
\* (getKeySet hands out every entry once, also when rounds get mixed).
OneTime ==
  /\ \A i, j \in DOMAIN currentRoundMessages :
       i # j /\ currentRoundMessages[i] # Null /\ currentRoundMessages[j] # Null
         => currentRoundMessages[i].keys # currentRoundMessages[j].keys
  /\ \A t \in Clients : pc[t] = "addOutput" => output[t].keys \notin UsedKeys
  /\ \A c \in Clients : cpc[c] = "start" => ckeys[c] \notin UsedKeys
  /\ \A c, d \in Clients : c # d /\ ckeys[c] # Null => ckeys[c] # ckeys[d]

\* GenerationExclusive: the unsynchronized generateKeySets calls that the
\* threads make when they start are all over before getKeySet regenerates
\* the keys, thanks to the first barrier.
GenerationExclusive == KeysExhausted => \A t \in Clients : pc[t] \notin Startup

-----------------------------------------------------------------------------
(* What a round is for.                                                    *)

\* WholeRound: the list holds the outputs of one round: one for every entry
\* of one generation of keys, which is what makes the keys cancel.
WholeRound(list) ==
  /\ Len(list) = N
  /\ \A i \in DOMAIN list : list[i] # Null
  /\ \E g \in {list[i].keys.gen : i \in DOMAIN list} :
       {list[i].keys : i \in DOMAIN list} = [gen : {g}, idx : Clients]

\* ResultsWhole: results on their way to a client are those of a whole round
\* (the two barriers of ServerThread.run).
ResultsWhole ==
  \A c \in Clients : CanReceive(c) =>
    \A i \in DOMAIN s2c[c] :
      s2c[c][i].class = "ArrayList" => WholeRound(s2c[c][i].list)

\* RoundsEnd: once a thread waits for its client's output, it comes to the end
\* of the round: both barriers let it through, as long as all clients and all
\* other threads go on (up to the bound on the number of rounds).
AllRunning == serverUp /\ \A c \in Clients : pc[c] # "dead" /\ cpc[c] \in Running
RoundsEnd ==
  \A t \in Clients :
    pc[t] = "output" ~> (pc[t] = "getKeySet" \/ AtBound \/ ~AllRunning)

-----------------------------------------------------------------------------
(* The end of the system.                                                  *)

\* KillStopsServer: once a client has sent CLIENT_EXIT the server stops,
\* wherever the other threads and clients are, unless the thread that has to
\* tell them dies of writing to a stream together with another one.
KillStopsServer ==
  \A c \in Clients :
    (\E i \in DOMAIN c2s[c] : c2s[c][i].text = CLIENT_EXIT)
      ~> (~serverUp \/ pc[c] = "dead")

\* GoneStopsServer: when a client has disconnected, the thread that serves it
\* stops the server (the EOFException handler of ServerThread.run), unless it
\* has died or waits at a barrier out of which nobody ever wakes it, or the
\* bound on the number of rounds ends the behaviour first.
Waits(t) == pc[t] \in {"collectWait", "sentWait"} /\ t \in waitSet
GoneStopsServer ==
  \A c \in Clients :
    ~clientOpen[c] ~> (~serverUp \/ AtBound \/ pc[c] = "dead" \/ []Waits(c))

\* ShutdownUnderstood: a client that receives SHUTDOWN breaks out of its loop
\* and disconnects, whatever it was waiting for.
TakesShutdown(c) ==
  /\ cpc[c] \in Running
  /\ CanReceive(c)
  /\ NextObject(c) = MessageObject(SHUTDOWN)
  /\ Receive(c)
  /\ cpc'[c] # cpc[c]
ShutdownUnderstood ==
  [][\A c \in Clients : TakesShutdown(c) /\ serverUp' => ~clientOpen'[c]]_vars
=============================================================================
