------------------------- MODULE DiningSystemProofs -------------------------
(***************************************************************************)
(* Theorems about DiningSystem for every number of clients, both loop      *)
(* classes, with and without crashing clients and spurious wakeups.        *)
(***************************************************************************)
EXTENDS DiningSystem, SequenceTheorems, TLAPS

LEMMA InitTypeOK == Init => TypeOK
<1> SUFFICES ASSUME Init PROVE TypeOK
  OBVIOUS
<1> USE NAssumption DEF Init
<1>1. ConnTypeOK
  BY DEF ConnInit, ConnTypeOK
<1>2. SharedTypeOK
  BY DEF SharedInit, SharedTypeOK, Results
<1>3. ThreadTypeOK
  BY DEF ThreadInit, ThreadTypeOK, Startup, ThreadPC
<1>4. ClientTypeOK
  BY DEF ClientInit, ClientTypeOK, Running, ClientPC
<1> QED
  BY <1>1, <1>2, <1>3, <1>4 DEF TypeOK

-----------------------------------------------------------------------------
\* The operators that touch the connections respect their types.

LEMMA ServerObjects ==
  /\ \A k \in KeySet \cup {Null} : KeySetObject(k) \in ServerObject
  /\ \A x \in {START_ROUND, SHUTDOWN} : MessageObject(x) \in ServerObject
  /\ \A r \in Results : ResultsObject(r) \in ServerObject
  /\ Garbled \in ServerObject
  BY DEF KeySetObject, MessageObject, ResultsObject, Garbled, ServerObject

LEMMA SendType ==
  ASSUME s2c \in [Clients -> Seq(ServerObject)], NEW c \in Clients,
         NEW o \in ServerObject, SendToClient(c, o)
  PROVE  s2c' \in [Clients -> Seq(ServerObject)]
<1>1. Append(s2c[c], o) \in Seq(ServerObject)
  OBVIOUS
<1> QED
  BY <1>1 DEF SendToClient

LEMMA ReceiveFromType ==
  ASSUME c2s \in [Clients -> Seq(Message)], NEW c \in Clients,
         CanReceiveFrom(c), ReceiveFrom(c)
  PROVE  c2s' \in [Clients -> Seq(Message)] /\ MessageFrom(c) \in Message
<1>1. c2s[c] \in Seq(Message) /\ c2s[c] # <<>>
  BY DEF CanReceiveFrom
<1>2. Tail(c2s[c]) \in Seq(Message) /\ Head(c2s[c]) \in Message
  BY <1>1
<1> QED
  BY <1>2 DEF ReceiveFrom, MessageFrom

LEMMA SendToServerType ==
  ASSUME c2s \in [Clients -> Seq(Message)], NEW c \in Clients,
         NEW m \in Message, SendToServer(c, m)
  PROVE  c2s' \in [Clients -> Seq(Message)]
<1>1. Append(c2s[c], m) \in Seq(Message)
  OBVIOUS
<1> QED
  BY <1>1 DEF SendToServer

LEMMA ReceiveType ==
  ASSUME s2c \in [Clients -> Seq(ServerObject)], NEW c \in Clients,
         CanReceive(c), Receive(c)
  PROVE  s2c' \in [Clients -> Seq(ServerObject)] /\ NextObject(c) \in ServerObject
<1>1. s2c[c] \in Seq(ServerObject) /\ s2c[c] # <<>>
  BY DEF CanReceive
<1>2. Tail(s2c[c]) \in Seq(ServerObject) /\ Head(s2c[c]) \in ServerObject
  BY <1>1
<1> QED
  BY <1>2 DEF Receive, NextObject

\* Storing an element in a sequence, or beyond its end, leaves a sequence.
LEMMA StoreType ==
  ASSUME NEW S, NEW s \in Seq(S), NEW n \in Nat, NEW e \in S
  PROVE  [s EXCEPT ![n] = e] \in Seq(S)
<1>1. s \in [1 .. Len(s) -> S]
  OBVIOUS
<1>2. [s EXCEPT ![n] = e] \in [1 .. Len(s) -> S]
  BY <1>1
<1> QED
  BY <1>2

LEMMA SameTypes ==
  /\ ConnTypeOK /\ UNCHANGED connVars => ConnTypeOK'
  /\ SharedTypeOK /\ UNCHANGED sharedVars => SharedTypeOK'
  /\ ThreadTypeOK /\ UNCHANGED threadVars => ThreadTypeOK'
  /\ ClientTypeOK /\ UNCHANGED clientVars => ClientTypeOK'
  BY DEF ConnTypeOK, SharedTypeOK, ThreadTypeOK, ClientTypeOK, connVars, sharedVars,
         threadVars, clientVars

-----------------------------------------------------------------------------
\* What a step of a thread writes is of the right type.
LEMMA ThreadTypeStep ==
  ASSUME TypeOK, NEW t \in Clients, ThreadStep(t) \/ WakeSpuriously(t), UNCHANGED clientVars
  PROVE  TypeOK'
<1> USE SameTypes DEF TypeOK
<1>1. ClientTypeOK'
  OBVIOUS
<1> USE <1>1
<1> USE DEF At, Goto, Step
<1> DEFINE NextPC == pc' \in [Clients -> ThreadPC]
<1>2. \A l \in ThreadPC : Goto(t, l) => NextPC
  BY DEF ThreadTypeOK
<1>3. \A l \in {"generating", "getKeySet", "sendKeys", "keysAck", "startRound", "output",
                "shutdown", "addOutput", "adding", "collect", "collectWait", "sizing",
                "copying", "resultsAck", "sent", "sentWait", "clearing", "dead"} :
        l \in ThreadPC
  BY DEF ThreadPC, Startup
<1> HIDE DEF NextPC
<1>4. CASE GenerateBegin(t)
  <2>1. NextPC
    BY <1>2, <1>3, <1>4 DEF GenerateBegin
  <2> QED
    BY <1>4, <2>1 DEF GenerateBegin, ThreadTypeOK, NextPC
<1>5. CASE GenerateEnd(t)
  <2>1. NextPC
    BY <1>2, <1>3, <1>5 DEF GenerateEnd
  <2> QED
    BY <1>5, <2>1 DEF GenerateEnd, ThreadTypeOK, NextPC
<1>6. CASE GenerateFails(t)
  <2>1. NextPC
    BY <1>2, <1>3, <1>6 DEF GenerateFails
  <2> QED
    BY <1>6, <2>1 DEF GenerateFails, ThreadTypeOK, NextPC
<1>7. CASE GetKeySet(t)
  <2>1. NextPC
    BY <1>2, <1>3, <1>7 DEF GetKeySet
  <2>2. /\ NextKeySet \in KeySet
        /\ NextKeySet.gen \in Nat
        /\ NextKeySet.idx + 1 \in 0 .. N
    BY NAssumption DEF NextKeySet, KeySet, KeysExhausted, SharedTypeOK, Clients
  <2>3. SharedTypeOK'
    BY <1>7, <2>2 DEF GetKeySet, getKeySet, SharedTypeOK
  <2>4. keySet' \in [Clients -> KeySet \cup {Null}]
    BY <1>7, <2>2 DEF GetKeySet, ThreadTypeOK
  <2> QED
    BY <1>7, <2>1, <2>3, <2>4 DEF GetKeySet, ThreadTypeOK, NextPC
<1>8. CASE SendKeys(t)
  <2>1. NextPC
    BY <1>2, <1>3, <1>8 DEF SendKeys
  <2>2. keySet[t] \in KeySet \cup {Null}
    BY DEF ThreadTypeOK
  <2>3. ConnTypeOK'
    BY <1>8, <2>2, ServerObjects, SendType DEF SendKeys, ConnTypeOK
  <2> QED
    BY <1>8, <2>1, <2>3 DEF SendKeys, ThreadTypeOK, NextPC
<1>9. CASE ReceiveKeysAck(t)
  <2>1. pc' \in [Clients -> ThreadPC]
    BY <1>2, <1>3, <1>9 DEF ReceiveKeysAck, NextPC, ThreadTypeOK
  <2>2. c2s' \in [Clients -> Seq(Message)]
    BY <1>9, ReceiveFromType DEF ReceiveKeysAck, ConnTypeOK
  <2>3. ConnTypeOK'
    BY <1>9, <2>2 DEF ReceiveKeysAck, ConnTypeOK
  <2> QED
    BY <1>9, <2>1, <2>3 DEF ReceiveKeysAck, ThreadTypeOK
<1>23. CASE SendStartRound(t)
  <2>1. NextPC
    BY <1>2, <1>3, <1>23 DEF SendStartRound
  <2>2. ConnTypeOK'
    BY <1>23, ServerObjects, SendType DEF SendStartRound, ConnTypeOK
  <2> QED
    BY <1>23, <2>1, <2>2 DEF SendStartRound, ThreadTypeOK, NextPC
<1>10. CASE ReceiveOutput(t)
  <2>1. NextPC
    BY <1>2, <1>3, <1>10 DEF ReceiveOutput
  <2>2. c2s' \in [Clients -> Seq(Message)] /\ MessageFrom(t) \in Message
    BY <1>10, ReceiveFromType DEF ReceiveOutput, ConnTypeOK
  <2>3. ConnTypeOK'
    BY <1>10, <2>2 DEF ReceiveOutput, ConnTypeOK
  <2>4. output' \in [Clients -> Message \cup {Null}]
    BY <1>10, <2>2 DEF ReceiveOutput, ThreadTypeOK
  <2> QED
    BY <1>10, <2>1, <2>3, <2>4 DEF ReceiveOutput, ThreadTypeOK, NextPC
<1>11. CASE AddOutputBegin(t)
  <2>1. NextPC
    BY <1>2, <1>3, <1>11 DEF AddOutputBegin
  <2>2. SharedTypeOK'
    BY <1>11 DEF AddOutputBegin, addOutputBegin, SharedTypeOK, Results
  <2> QED
    BY <1>11, <2>1, <2>2 DEF AddOutputBegin, ThreadTypeOK, NextPC
<1>12. CASE AddOutputEnd(t)
  <2>1. NextPC
    BY <1>2, <1>3, <1>12 DEF AddOutputEnd
  <2>2. output[t] \in Message \cup {Null} /\ output' \in [Clients -> Message \cup {Null}]
    BY <1>12 DEF AddOutputEnd, ThreadTypeOK
  <2>3. currentRoundMessages \in Seq(Message \cup {Null})
    BY DEF SharedTypeOK, Results
  <2>4. [currentRoundMessages EXCEPT ![Len(currentRoundMessages)] = output[t]]
          \in Seq(Message \cup {Null})
    BY <2>2, <2>3, StoreType
  <2>5. SharedTypeOK'
    BY <1>12, <2>4 DEF AddOutputEnd, addOutputEnd, SharedTypeOK, Results
  <2> QED
    BY <1>12, <2>1, <2>2, <2>5 DEF AddOutputEnd, ThreadTypeOK, NextPC
<1>13. CASE Collect(t)
  <2>1. NextPC
    BY <1>2, <1>3, <1>13 DEF Collect
  <2>2. SharedTypeOK'
    BY <1>13 DEF Collect, Wait, notifyAll, SharedTypeOK
  <2> QED
    BY <1>13, <2>1, <2>2 DEF Collect, ThreadTypeOK, NextPC
<1>14. CASE Resume(t)
  <2>1. NextPC
    BY <1>2, <1>3, <1>14 DEF Resume
  <2> QED
    BY <1>14, <2>1 DEF Resume, ThreadTypeOK, NextPC
<1>15. CASE WakeSpuriously(t)
  <2>1. SharedTypeOK'
    BY <1>15 DEF WakeSpuriously, SharedTypeOK
  <2> QED
    BY <1>15, <2>1 DEF WakeSpuriously
<1>16. CASE ReadSize(t)
  <2>1. NextPC
    BY <1>2, <1>3, <1>16 DEF ReadSize
  <2>2. Len(currentRoundMessages) \in Nat
    BY DEF SharedTypeOK, Results
  <2> QED
    BY <1>16, <2>1, <2>2 DEF ReadSize, ThreadTypeOK, NextPC
<1>17. CASE SendResults(t)
  <2>1. NextPC
    BY <1>2, <1>3, <1>17 DEF SendResults
  <2>2. PICK S \in Nulled : SendToClient(t, ResultsObject(CopyOf(size[t], S)))
    BY <1>17 DEF SendResults
  <2>3. size[t] \in Nat /\ currentRoundMessages \in Seq(Message \cup {Null})
    BY DEF ThreadTypeOK, SharedTypeOK, Results
  <2>4. CopyOf(size[t], S) \in Seq(Message \cup {Null})
    BY <2>3 DEF CopyOf
  <2>5. ConnTypeOK'
    BY <1>17, <2>2, <2>4, ServerObjects, SendType DEF SendResults, ConnTypeOK, Results
  <2> QED
    BY <1>17, <2>1, <2>5 DEF SendResults, ThreadTypeOK, NextPC
<1>18. CASE ReceiveResultsAck(t)
  <2>1. pc' \in [Clients -> ThreadPC]
    BY <1>2, <1>3, <1>18 DEF ReceiveResultsAck, NextPC, ThreadTypeOK
  <2>2. c2s' \in [Clients -> Seq(Message)]
    BY <1>18, ReceiveFromType DEF ReceiveResultsAck, ConnTypeOK
  <2>3. ConnTypeOK'
    BY <1>18, <2>2 DEF ReceiveResultsAck, ConnTypeOK
  <2> QED
    BY <1>18, <2>1, <2>3 DEF ReceiveResultsAck, ThreadTypeOK
<1>19. CASE Sent(t)
  <2>1. NextPC
    BY <1>2, <1>3, <1>19 DEF Sent
  <2>2. SharedTypeOK'
    BY <1>19 DEF Sent, Wait, SharedTypeOK
  <2> QED
    BY <1>19, <2>1, <2>2 DEF Sent, ThreadTypeOK, NextPC
<1>20. CASE ResetRound(t)
  <2>1. NextPC
    BY <1>2, <1>3, <1>20 DEF ResetRound
  <2>2. SharedTypeOK'
    BY <1>20 DEF ResetRound, notifyAll, SharedTypeOK, Results
  <2> QED
    BY <1>20, <2>1, <2>2 DEF ResetRound, ThreadTypeOK, NextPC
<1>21. CASE SendShutdown(t)
  <2>1. notified[t] \in Clients
    BY <1>21, NAssumption DEF SendShutdown, ThreadTypeOK, Clients
  <2>2. notified' \in [Clients -> 0 .. N]
    BY <1>21, NAssumption DEF SendShutdown, ThreadTypeOK
  <2>3. ConnTypeOK'
    BY <1>21, <2>1, ServerObjects, SendType DEF SendShutdown, ConnTypeOK
  <2> QED
    BY <1>21, <2>2, <2>3 DEF SendShutdown, ThreadTypeOK
<1>24. CASE WritesCollide(t)
  <2>1. notified[t] \in Clients
    BY <1>24, NAssumption DEF WritesCollide, ThreadTypeOK, Clients
  <2>2. notified' \in [Clients -> 0 .. N]
    BY <1>24, NAssumption DEF WritesCollide, ThreadTypeOK
  <2>3. ConnTypeOK'
    BY <1>24, <2>1, ServerObjects, SendType DEF WritesCollide, ConnTypeOK
  <2>4. pc' \in [Clients -> ThreadPC]
    BY <1>3, <1>24 DEF WritesCollide, ThreadTypeOK
  <2> QED
    BY <1>24, <2>2, <2>3, <2>4 DEF WritesCollide, ThreadTypeOK
<1>22. CASE ExitServer(t) \/ LoseClient(t)
  <2>1. ConnTypeOK'
    BY <1>22 DEF ExitServer, LoseClient, ConnTypeOK
  <2> QED
    BY <1>22, <2>1 DEF ExitServer, LoseClient
<1> QED
  BY <1>4, <1>5, <1>6, <1>7, <1>8, <1>9, <1>10, <1>11, <1>12, <1>13, <1>14, <1>15, <1>16,
     <1>17, <1>18, <1>19, <1>20, <1>21, <1>22, <1>23, <1>24 DEF ThreadStep

\* What a client writes, and what leaving does, is of the right type.
LEMMA ClientTypeStep ==
  ASSUME TypeOK, NEW c \in Clients, ClientStep(c) \/ InputExhausted(c) \/ CloseWindow(c),
         UNCHANGED <<sharedVars, threadVars>>
  PROVE  TypeOK'
<1> USE SameTypes DEF TypeOK
<1>1. SharedTypeOK' /\ ThreadTypeOK'
  OBVIOUS
<1>2. \A s \in ClientPC : Become(c, s) => cpc' \in [Clients -> ClientPC]
  BY DEF Become, ClientTypeOK
<1>3. /\ \A s \in {"keys", "start", "results", "gone", "dead"} : s \in ClientPC
      /\ Leave(c) => /\ cpc' \in [Clients -> ClientPC]
                     /\ clientOpen' \in [Clients -> BOOLEAN]
  BY <1>2 DEF ClientPC, Running, Leave, ConnTypeOK
<1>4. \A x \in {ACK, CLIENT_EXIT, OUTPUT}, k \in KeySet \cup {Null} :
        ClientMessage(c, x, k) \in Message
  BY DEF ClientMessage, Message
<1>5. CanReceive(c) /\ Receive(c) => s2c' \in [Clients -> Seq(ServerObject)]
  BY ReceiveType DEF ConnTypeOK
<1>6. \A x \in {ACK, CLIENT_EXIT, OUTPUT}, k \in KeySet \cup {Null} :
        SendToServer(c, ClientMessage(c, x, k)) => c2s' \in [Clients -> Seq(Message)]
  BY <1>4, SendToServerType DEF ConnTypeOK
<1>7. CASE ReceiveKeySet(c)
  <2>1. NextObject(c) \in ServerObject /\ NextObject(c).class = "KeySet"
    BY <1>7, ReceiveType DEF ReceiveKeySet, Reads, ConnTypeOK
  <2>2. NextObject(c).keys \in KeySet \cup {Null}
    BY <2>1 DEF ServerObject
  <2>3. s2c' \in [Clients -> Seq(ServerObject)] /\ c2s' \in [Clients -> Seq(Message)]
    BY <1>5, <1>6, <1>7 DEF ReceiveKeySet, Reads
  <2>4. /\ cpc' \in [Clients -> ClientPC]
        /\ clientOpen' \in [Clients -> BOOLEAN]
    BY <1>2, <1>3, <1>7 DEF ReceiveKeySet, ConnTypeOK
  <2> QED
    BY <1>1, <1>7, <2>2, <2>3, <2>4 DEF ReceiveKeySet, ConnTypeOK, ClientTypeOK
<1>8. CASE Transmit(c)
  <2>1. ckeys[c] \in KeySet \cup {Null}
    BY DEF ClientTypeOK
  <2>2. s2c' \in [Clients -> Seq(ServerObject)] /\ c2s' \in [Clients -> Seq(Message)]
    BY <1>5, <1>6, <1>8, <2>1 DEF Transmit, Reads, OutputTexts
  <2>3. cpc' \in [Clients -> ClientPC]
    BY <1>2, <1>3, <1>8 DEF Transmit
  <2> QED
    BY <1>1, <1>8, <2>2, <2>3 DEF Transmit, ConnTypeOK, ClientTypeOK
<1>9. CASE ReceiveResults(c)
  <2>1. s2c' \in [Clients -> Seq(ServerObject)]
    BY <1>5, <1>9 DEF ReceiveResults, Reads
  <2>2. c2s' \in [Clients -> Seq(Message)]
    BY <1>6, <1>9 DEF ReceiveResults, ConnTypeOK
  <2>3. cpc' \in [Clients -> ClientPC]
    BY <1>2, <1>3, <1>9 DEF ReceiveResults
  <2> QED
    BY <1>1, <1>9, <2>1, <2>2, <2>3 DEF ReceiveResults, ConnTypeOK, ClientTypeOK
<1>10. CASE ReceiveShutdown(c) \/ EmptyResults(c)
  <2>1. s2c' \in [Clients -> Seq(ServerObject)]
    BY <1>5, <1>10 DEF ReceiveShutdown, EmptyResults, Reads
  <2> QED
    BY <1>1, <1>3, <1>10, <2>1
       DEF ReceiveShutdown, EmptyResults, ConnTypeOK, ClientTypeOK
<1>11. CASE CastFails(c) \/ WriteFails(c) \/ InputExhausted(c)
  <2>1. s2c' \in [Clients -> Seq(ServerObject)]
    BY <1>5, <1>11 DEF CastFails, WriteFails, InputExhausted, Answers, Reads
  <2>2. cpc' \in [Clients -> ClientPC]
    BY <1>2, <1>3, <1>11 DEF CastFails, WriteFails, InputExhausted
  <2> QED
    BY <1>1, <1>11, <2>1, <2>2
       DEF CastFails, WriteFails, InputExhausted, ConnTypeOK, ClientTypeOK
<1>12. CASE ReadFails(c)
  <2>1. cpc' \in [Clients -> ClientPC]
    BY <1>2, <1>3, <1>12 DEF ReadFails
  <2>2. <<>> \in Seq(ServerObject)
    OBVIOUS
  <2>3. s2c' \in [Clients -> Seq(ServerObject)]
    BY <1>12, <2>2 DEF ReadFails, ConnTypeOK
  <2> QED
    BY <1>1, <1>12, <2>1, <2>3 DEF ReadFails, ConnTypeOK, ClientTypeOK
<1>14. CASE ReadGarbled(c)
  BY <1>1, <1>2, <1>3, <1>14 DEF ReadGarbled, ClientTypeOK
<1>13. CASE CloseWindow(c)
  BY <1>1, <1>3, <1>13 DEF CloseWindow, ConnTypeOK, ClientTypeOK
<1> QED
  BY <1>7, <1>8, <1>9, <1>10, <1>11, <1>12, <1>13, <1>14 DEF ClientStep

\* Every variable keeps its type: in particular every message, keyset and list
\* of results is a well-formed one, whichever race the threads run.
THEOREM TypeCorrect == Spec => []TypeOK
<1>1. TypeOK /\ [Next]_vars => TypeOK'
  <2> SUFFICES ASSUME TypeOK, [Next]_vars PROVE TypeOK'
    OBVIOUS
  <2>1. CASE UNCHANGED vars
    BY <2>1, SameTypes DEF vars, TypeOK
  <2> QED
    BY <2>1, ThreadTypeStep, ClientTypeStep DEF Next
<1> QED
  BY <1>1, InitTypeOK, PTL DEF Spec

-----------------------------------------------------------------------------
(* The conversation of a client and its thread: SessionInv is an invariant, *)
(* whatever happens on the other connections, at the barriers, to the       *)
(* server and to the client.                                                *)

LEMMA InitSession == Init => SessionInv
<1> SUFFICES ASSUME Init, NEW c \in Clients PROVE ConnectionOK(c)
  BY DEF SessionInv
<1>1. /\ s2c[c] = <<>> /\ c2s[c] = <<>> /\ pc[c] = "generate" /\ cpc[c] = "keys"
  BY DEF Init, ConnInit, ThreadInit, ClientInit
<1>2. RepliesOK(c)
  BY <1>1 DEF RepliesOK
<1>3. ConversationOK(c)
  BY <1>1 DEF ConversationOK, QuietOK, Busy
<1>4. NoEarlyShutdown(c)
  BY <1>1 DEF NoEarlyShutdown
<1> QED
  BY <1>2, <1>3, <1>4 DEF ConnectionOK

\* A connection stays in order when its thread goes from a statement to another
\* of the same kind, and nothing is sent or read.
LEMMA Unmoved ==
  ASSUME NEW c \in Clients, ConnectionOK(c),
         s2c'[c] = s2c[c], c2s'[c] = c2s[c], cpc'[c] = cpc[c],
         serverUp' => serverUp, ShuttingDown => ShuttingDown',
         \/ pc'[c] = pc[c]
         \/ pc[c] \in Between /\ pc'[c] \in Between
         \/ pc[c] \in Busy /\ pc'[c] \in Busy
         \/ pc[c] \in Between \cup Busy \cup {"startRound"} /\ pc'[c] = "dead"
  PROVE  ConnectionOK(c)'
<1> USE DEF ConnectionOK
<1>1. RepliesOK(c)'
  BY DEF RepliesOK, MessageFrom, Between, Busy, Startup
<1>2. NoEarlyShutdown(c)'
  BY DEF NoEarlyShutdown
<1>3. ConversationOK(c)'
  BY DEF ConversationOK, QuietOK, AwaitedOK, NextObject, Between, Busy, Startup
<1> QED
  BY <1>1, <1>2, <1>3

\* Facts about streams, in the terms of the invariant.
LEMMA Sending ==
  ASSUME NEW S, NEW s \in Seq(S), NEW o \in S
  PROVE  /\ Append(s, o) # <<>>
         /\ s = <<>> => Len(Append(s, o)) = 1 /\ Head(Append(s, o)) = o
         /\ s # <<>> => Head(Append(s, o)) = Head(s)
         /\ \A i \in DOMAIN Append(s, o) :
              Append(s, o)[i] = o \/ (i \in DOMAIN s /\ Append(s, o)[i] = s[i])
         /\ Len(s) = 1 => Append(s, o)[2] = o
         /\ Len(s) > 1 => Append(s, o)[2] = s[2]
<1> DEFINE a == Append(s, o)
<1>1. /\ a \in Seq(S) /\ Len(a) = Len(s) + 1
      /\ \A i \in 1 .. Len(s) : a[i] = s[i]
      /\ a[Len(s) + 1] = o
  OBVIOUS
<1>2. a # <<>> /\ Head(a) = a[1]
  BY <1>1
<1>3. s # <<>> => Len(s) >= 1 /\ Head(s) = s[1]
  OBVIOUS
<1>4. DOMAIN a = 1 .. Len(a) /\ DOMAIN s = 1 .. Len(s) /\ Len(s) \in Nat
  BY <1>1
<1>5. s = <<>> => Len(a) = 1 /\ Head(a) = o
  BY <1>1, <1>2
<1> HIDE DEF a
<1>6. s # <<>> => Head(a) = Head(s)
  BY <1>1, <1>2, <1>3, <1>4
<1>7. \A i \in DOMAIN a : a[i] = o \/ (i \in DOMAIN s /\ a[i] = s[i])
  BY <1>1, <1>4
<1>8. (Len(s) = 1 => a[2] = o) /\ (Len(s) > 1 => a[2] = s[2])
  BY <1>1, <1>4
<1> QED
  BY <1>2, <1>5, <1>6, <1>7, <1>8 DEF a

LEMMA Reading ==
  ASSUME NEW S, NEW s \in Seq(S), s # <<>>
  PROVE  /\ Len(s) = 1 \/ Len(s) > 1
         /\ Len(s) = 1 => Tail(s) = <<>>
         /\ Len(s) > 1 => Tail(s) # <<>> /\ Head(Tail(s)) = s[2]
         /\ \A i \in DOMAIN Tail(s) : i + 1 \in DOMAIN s /\ Tail(s)[i] = s[i + 1]
<1>1. /\ Tail(s) \in Seq(S) /\ Len(Tail(s)) = Len(s) - 1
      /\ \A i \in 1 .. Len(s) - 1 : Tail(s)[i] = s[i + 1]
      /\ Len(s) \in Nat /\ Len(s) >= 1
  OBVIOUS
<1>2. Len(s) = 1 => Tail(s) = <<>>
  <2>1. \A q \in Seq(S) : q # <<>> => Len(q) \in Nat \ {0}
    BY EmptySeq
  <2>2. Tail(s) # <<>> => Len(Tail(s)) \in Nat \ {0}
    BY <1>1, <2>1, Zenon
  <2>3. Len(s) = 1 => Len(Tail(s)) = 0
    BY <1>1
  <2> QED
    BY <2>2, <2>3
<1>3. Len(s) > 1 => Tail(s) # <<>> /\ Head(Tail(s)) = Tail(s)[1]
  BY <1>1
<1>4. DOMAIN Tail(s) = 1 .. Len(s) - 1 /\ DOMAIN s = 1 .. Len(s)
  BY <1>1
<1>5. Len(s) > 1 => Tail(s)[1] = s[2]
  BY <1>1
<1>6. \A i \in DOMAIN Tail(s) : i + 1 \in DOMAIN s /\ Tail(s)[i] = s[i + 1]
  BY <1>1, <1>4
<1> QED
  BY <1>1, <1>2, <1>3, <1>5, <1>6

-----------------------------------------------------------------------------
\* A step of another client's thread that writes nothing to c leaves c's
\* connection in order; SHUTDOWN and colliding writes have lemmas of their own.
LEMMA OtherThread ==
  ASSUME TypeOK, SessionInv, NEW t \in Clients, ThreadStep(t) \/ WakeSpuriously(t),
         ~WritesCollide(t), UNCHANGED clientVars, NEW c \in Clients, c # t,
         s2c'[c] = s2c[c]
  PROVE  ConnectionOK(c)'
<1>1. pc'[c] = pc[c] /\ c2s'[c] = c2s[c] /\ (serverUp' => serverUp)
  BY DEF TypeOK, ConnTypeOK, ThreadTypeOK, ThreadStep, GenerateBegin, GenerateEnd,
         GenerateFails, GetKeySet, SendKeys,
         ReceiveKeysAck, SendStartRound, ReceiveOutput, AddOutputBegin,
         AddOutputEnd, Collect, Resume, WakeSpuriously, ReadSize, SendResults,
         ReceiveResultsAck, Sent, ResetRound, SendShutdown, ExitServer, LoseClient,
         ReceiveFrom, connVars, threadVars, At, Goto, Step
<1>2. ShuttingDown => ShuttingDown'
  BY DEF ShuttingDown, TypeOK, ThreadTypeOK, ThreadStep, GenerateBegin, GenerateEnd,
         GenerateFails, GetKeySet, SendKeys,
         ReceiveKeysAck, SendStartRound, ReceiveOutput, AddOutputBegin,
         AddOutputEnd, Collect, Resume, WakeSpuriously, ReadSize, SendResults,
         ReceiveResultsAck, Sent, ResetRound, SendShutdown, ExitServer, LoseClient,
         threadVars
<1> QED
  BY <1>1, <1>2, Unmoved DEF SessionInv, clientVars

-----------------------------------------------------------------------------
\* The client, unless it is to find SHUTDOWN first, has read everything and is
\* at the given point of its loop.
Ready(c, l) ==
  cpc[c] \in Running =>
    \/ s2c[c] = <<>> /\ cpc[c] = l
    \/ s2c[c] # <<>> /\ Shutdown(NextObject(c))

\* The thread's own connection, when it sends something.

\* The stream after sending o, for the thread of c.
LEMMA Sent2c ==
  ASSUME TypeOK, NEW c \in Clients, NEW o \in ServerObject, SendToClient(c, o)
  PROVE  /\ s2c'[c] # <<>>
         /\ s2c[c] = <<>> => Len(s2c'[c]) = 1 /\ NextObject(c)' = o
         /\ s2c[c] # <<>> => NextObject(c)' = NextObject(c)
         /\ \A i \in DOMAIN s2c'[c] :
              s2c'[c][i] = o \/ (i \in DOMAIN s2c[c] /\ s2c'[c][i] = s2c[c][i])
         /\ Len(s2c[c]) = 1 => s2c'[c][2] = o
         /\ Len(s2c[c]) > 1 => s2c'[c][2] = s2c[c][2]
<1>1. s2c[c] \in Seq(ServerObject) /\ s2c'[c] = Append(s2c[c], o)
  BY DEF TypeOK, ConnTypeOK, SendToClient
<1> QED
  BY <1>1, Sending DEF NextObject

LEMMA NoShutdownSent ==
  ASSUME TypeOK, NEW c \in Clients, NoEarlyShutdown(c), NEW o \in ServerObject,
         SendToClient(c, o), ~Shutdown(o), UNCHANGED notified
  PROVE  NoEarlyShutdown(c)'
<1>1. ShuttingDown' = ShuttingDown
  BY DEF ShuttingDown
<1> QED
  BY <1>1, Sent2c DEF NoEarlyShutdown, Shutdown

LEMMA ObjectKinds ==
  /\ \A k : KeySetObject(k).class = "KeySet" /\ ~Shutdown(KeySetObject(k))
  /\ \A r : ResultsObject(r).class = "ArrayList" /\ ~Shutdown(ResultsObject(r))
  /\ MessageObject(START_ROUND).class = "Message"
  /\ MessageObject(START_ROUND).text = START_ROUND
  /\ ~Shutdown(MessageObject(START_ROUND))
  /\ Shutdown(MessageObject(SHUTDOWN)) /\ Shutdown(Garbled)
  BY DEF KeySetObject, ResultsObject, MessageObject, Garbled, Shutdown, START_ROUND,
         SHUTDOWN

LEMMA SendKeysStep ==
  ASSUME TypeOK, NEW t \in Clients, ConnectionOK(t), SendKeys(t), UNCHANGED clientVars
  PROVE  ConnectionOK(t)'
<1> DEFINE o == KeySetObject(keySet[t])
<1>1. /\ o \in ServerObject /\ o.class = "KeySet" /\ ~Shutdown(o)
      /\ SendToClient(t, o)
  BY ServerObjects, ObjectKinds DEF TypeOK, ThreadTypeOK, SendKeys
<1>2. /\ pc[t] = "sendKeys" /\ pc'[t] = "keysAck" /\ serverUp
      /\ c2s'[t] = c2s[t] /\ cpc'[t] = cpc[t] /\ UNCHANGED notified
  BY DEF SendKeys, Step, At, Goto, TypeOK, ThreadTypeOK, clientVars
<1> HIDE DEF o
<1>3. c2s[t] = <<>>
  BY <1>2 DEF ConnectionOK, RepliesOK
<1>4. RepliesOK(t)'
  BY <1>2, <1>3 DEF RepliesOK
<1>5. NoEarlyShutdown(t)'
  BY <1>1, <1>2, NoShutdownSent DEF ConnectionOK
<1>6. Ready(t, "keys")
  BY <1>2 DEF Ready, ConnectionOK, ConversationOK, QuietOK, AwaitedOK, Between
<1>7. ConversationOK(t)'
  BY <1>1, <1>2, <1>3, <1>6, Sent2c DEF Ready, ConversationOK, AwaitedOK
<1> QED
  BY <1>4, <1>5, <1>7 DEF ConnectionOK

LEMMA SendStartRoundStep ==
  ASSUME TypeOK, NEW t \in Clients, ConnectionOK(t), SendStartRound(t),
         UNCHANGED clientVars
  PROVE  ConnectionOK(t)'
<1> DEFINE o == MessageObject(START_ROUND)
<1>1. /\ pc[t] = "startRound" /\ pc'[t] = "output" /\ serverUp
      /\ c2s'[t] = c2s[t] /\ cpc'[t] = cpc[t] /\ UNCHANGED notified
      /\ SendToClient(t, o)
  BY DEF SendStartRound, Step, At, Goto, TypeOK, ThreadTypeOK, clientVars
<1>2. /\ o \in ServerObject /\ o.class = "Message" /\ o.text = START_ROUND
      /\ ~Shutdown(o)
  BY ServerObjects, ObjectKinds
<1> HIDE DEF o
<1>3. c2s[t] = <<>>
  BY <1>1 DEF ConnectionOK, RepliesOK
<1>4. RepliesOK(t)'
  BY <1>1, <1>3 DEF RepliesOK
<1>5. NoEarlyShutdown(t)'
  BY <1>1, <1>2, NoShutdownSent DEF ConnectionOK
<1>6. Ready(t, "start")
  BY <1>1 DEF Ready, ConnectionOK, ConversationOK, QuietOK, AwaitedOK
<1>7. ConversationOK(t)'
  <2>1. CASE cpc[t] \notin Running
    BY <1>1, <2>1 DEF ConversationOK
  <2>2. CASE s2c[t] = <<>> /\ cpc[t] = "start"
    <3>1. s2c'[t] # <<>> /\ Len(s2c'[t]) = 1 /\ NextObject(t)' = o
      BY <1>1, <1>2, <2>2, Sent2c
    <3>2. cpc'[t] = "start" /\ pc'[t] = "output"
      BY <1>1, <2>2
    <3>3. NextObject(t)'.class = "Message" /\ NextObject(t)'.text = START_ROUND
      BY <1>2, <3>1
    <3>4. AwaitedOK(t)'
      BY <1>1, <1>3, <3>1, <3>2, <3>3 DEF AwaitedOK
    <3> QED
      BY <3>1, <3>4 DEF ConversationOK
  <2>3. CASE s2c[t] # <<>> /\ Shutdown(NextObject(t))
    <3>1. s2c'[t] # <<>> /\ NextObject(t)' = NextObject(t)
      BY <1>1, <1>2, <2>3, Sent2c
    <3> QED
      BY <2>3, <3>1 DEF ConversationOK, Shutdown
  <2> QED
    BY <1>6, <2>1, <2>2, <2>3 DEF Ready
<1> QED
  BY <1>4, <1>5, <1>7 DEF ConnectionOK

LEMMA SendResultsStep ==
  ASSUME TypeOK, NEW t \in Clients, ConnectionOK(t), SendResults(t), UNCHANGED clientVars,
         TypeOK'
  PROVE  ConnectionOK(t)'
<1>1. PICK S \in Nulled : SendToClient(t, ResultsObject(CopyOf(size[t], S)))
  BY DEF SendResults
<1> DEFINE o == ResultsObject(CopyOf(size[t], S))
<1>2. o \in ServerObject
  <2>1. size[t] \in Nat /\ currentRoundMessages \in Seq(Message \cup {Null})
    BY DEF TypeOK, ThreadTypeOK, SharedTypeOK, Results
  <2>2. CopyOf(size[t], S) \in Seq(Message \cup {Null})
    BY <2>1 DEF CopyOf
  <2> QED
    BY <2>2, ServerObjects DEF Results
<1>3. o.class = "ArrayList" /\ ~Shutdown(o) /\ SendToClient(t, o)
  BY <1>1, ObjectKinds
<1>4. /\ pc[t] = "copying" /\ pc'[t] = "resultsAck" /\ serverUp
      /\ c2s'[t] = c2s[t] /\ cpc'[t] = cpc[t] /\ UNCHANGED notified
  BY DEF SendResults, Step, At, Goto, TypeOK, ThreadTypeOK, clientVars
<1> HIDE DEF o
<1>5. c2s[t] = <<>>
  BY <1>4 DEF ConnectionOK, RepliesOK
<1>6. RepliesOK(t)'
  BY <1>4, <1>5 DEF RepliesOK
<1>7. NoEarlyShutdown(t)'
  BY <1>2, <1>3, <1>4, NoShutdownSent DEF ConnectionOK
<1>8. Ready(t, "results")
  BY <1>4 DEF Ready, ConnectionOK, ConversationOK, QuietOK, AwaitedOK, Busy
<1>9. ConversationOK(t)'
  BY <1>2, <1>3, <1>4, <1>5, <1>8, Sent2c DEF Ready, ConversationOK, AwaitedOK
<1> QED
  BY <1>6, <1>7, <1>9 DEF ConnectionOK

-----------------------------------------------------------------------------
\* The thread's own connection, when it receives something.

LEMMA ReceiveOutputStep ==
  ASSUME TypeOK, NEW t \in Clients, ConnectionOK(t), ReceiveOutput(t), UNCHANGED clientVars
  PROVE  ConnectionOK(t)'
<1>1. /\ pc[t] = "output" /\ c2s[t] \in Seq(Message) /\ c2s[t] # <<>>
      /\ pc'[t] \in {"shutdown", "addOutput"}
      /\ c2s'[t] = Tail(c2s[t]) /\ cpc'[t] = cpc[t] /\ s2c'[t] = s2c[t]
      /\ UNCHANGED <<notified, serverUp>> /\ serverUp
  BY DEF ReceiveOutput, At, Goto, CanReceiveFrom, ReceiveFrom, TypeOK, ConnTypeOK,
         ThreadTypeOK, clientVars
<1>2. c2s'[t] = <<>>
  BY <1>1, Reading DEF ConnectionOK, RepliesOK
<1>3. RepliesOK(t)'
  BY <1>1, <1>2 DEF RepliesOK
<1>4. NoEarlyShutdown(t)'
  BY <1>1 DEF ConnectionOK, NoEarlyShutdown, ShuttingDown
<1>5. Ready(t, "results")
  BY <1>1 DEF Ready, ConnectionOK, ConversationOK, QuietOK, AwaitedOK
<1>6. ConversationOK(t)'
  BY <1>1, <1>5 DEF Ready, ConversationOK, QuietOK, NextObject, Between, Startup
<1> QED
  BY <1>3, <1>4, <1>6 DEF ConnectionOK

LEMMA ReceiveKeysAckStep ==
  ASSUME TypeOK, NEW t \in Clients, ConnectionOK(t), ReceiveKeysAck(t),
         UNCHANGED clientVars
  PROVE  ConnectionOK(t)'
<1>1. /\ pc[t] = "keysAck" /\ c2s[t] \in Seq(Message) /\ c2s[t] # <<>>
      /\ c2s'[t] = Tail(c2s[t]) /\ cpc'[t] = cpc[t] /\ s2c'[t] = s2c[t]
      /\ serverUp /\ UNCHANGED notified
  BY DEF ReceiveKeysAck, At, CanReceiveFrom, ReceiveFrom, TypeOK, ConnTypeOK, clientVars
<1>2. Len(c2s[t]) = 1 /\ MessageFrom(t).text = ACK
  BY <1>1 DEF ConnectionOK, RepliesOK
<1>3. pc'[t] = "startRound" /\ UNCHANGED serverUp
  BY <1>2 DEF ReceiveKeysAck, Goto, TypeOK, ThreadTypeOK
<1>4. c2s'[t] = <<>>
  BY <1>1, <1>2, Reading
<1>5. RepliesOK(t)'
  BY <1>3, <1>4 DEF RepliesOK
<1>6. NoEarlyShutdown(t)'
  BY <1>1 DEF ConnectionOK, NoEarlyShutdown, ShuttingDown
<1>7. Ready(t, "start")
  BY <1>1 DEF Ready, ConnectionOK, ConversationOK, QuietOK, AwaitedOK
<1>8. ConversationOK(t)'
  BY <1>1, <1>3, <1>7 DEF Ready, ConversationOK, QuietOK, NextObject, Between, Busy, Startup
<1> QED
  BY <1>5, <1>6, <1>8 DEF ConnectionOK

LEMMA ReceiveResultsAckStep ==
  ASSUME TypeOK, NEW t \in Clients, ConnectionOK(t), ReceiveResultsAck(t),
         UNCHANGED clientVars
  PROVE  ConnectionOK(t)'
<1>1. /\ pc[t] = "resultsAck" /\ c2s[t] \in Seq(Message) /\ c2s[t] # <<>>
      /\ c2s'[t] = Tail(c2s[t]) /\ cpc'[t] = cpc[t] /\ s2c'[t] = s2c[t]
      /\ serverUp /\ UNCHANGED notified
  BY DEF ReceiveResultsAck, At, CanReceiveFrom, ReceiveFrom, TypeOK, ConnTypeOK, clientVars
<1>2. Len(c2s[t]) = 1 /\ MessageFrom(t).text = ACK
  BY <1>1 DEF ConnectionOK, RepliesOK
<1>3. pc'[t] = "sent" /\ UNCHANGED serverUp
  BY <1>2 DEF ReceiveResultsAck, Goto, TypeOK, ThreadTypeOK
<1>4. c2s'[t] = <<>>
  BY <1>1, <1>2, Reading
<1>5. RepliesOK(t)'
  BY <1>3, <1>4 DEF RepliesOK
<1>6. NoEarlyShutdown(t)'
  BY <1>1 DEF ConnectionOK, NoEarlyShutdown, ShuttingDown
<1>7. Ready(t, "keys")
  BY <1>1 DEF Ready, ConnectionOK, ConversationOK, QuietOK, AwaitedOK
<1>8. ConversationOK(t)'
  BY <1>1, <1>3, <1>7 DEF Ready, ConversationOK, QuietOK, NextObject, Busy
<1> QED
  BY <1>5, <1>6, <1>8 DEF ConnectionOK

-----------------------------------------------------------------------------
\* SHUTDOWN, or what a collision makes of it, can come to any client at any time.
LEMMA LastObject ==
  ASSUME TypeOK, NEW c \in Clients, ConnectionOK(c),
         NEW o \in ServerObject, Shutdown(o), SendToClient(c, o), ShuttingDown',
         c2s'[c] = c2s[c], cpc'[c] = cpc[c],
         \/ pc'[c] = pc[c]
         \/ pc[c] \in Between \cup Busy \cup {"startRound"} /\ pc'[c] = "dead"
  PROVE  ConnectionOK(c)'
<1>1. RepliesOK(c)'
  BY DEF ConnectionOK, RepliesOK, MessageFrom, Between, Busy, Startup
<1>2. NoEarlyShutdown(c)'
  BY DEF NoEarlyShutdown
<1>3. CASE cpc[c] \notin Running
  BY <1>1, <1>2, <1>3 DEF ConnectionOK, ConversationOK
<1>4. CASE s2c[c] = <<>>
  <2>1. s2c'[c] # <<>> /\ NextObject(c)' = o
    BY <1>4, Sent2c
  <2>2. ConversationOK(c)'
    BY <2>1 DEF ConversationOK, Shutdown
  <2> QED
    BY <1>1, <1>2, <2>2 DEF ConnectionOK
<1>5. CASE s2c[c] # <<>> /\ Shutdown(NextObject(c))
  <2>1. s2c'[c] # <<>> /\ NextObject(c)' = NextObject(c)
    BY <1>5, Sent2c
  <2>2. ConversationOK(c)'
    BY <1>5, <2>1 DEF ConversationOK, Shutdown
  <2> QED
    BY <1>1, <1>2, <2>2 DEF ConnectionOK
<1>6. CASE s2c[c] # <<>> /\ AwaitedOK(c)
  <2>1. /\ s2c'[c] # <<>> /\ NextObject(c)' = NextObject(c)
        /\ Len(s2c[c]) = 1 => s2c'[c][2] = o
        /\ Len(s2c[c]) > 1 => s2c'[c][2] = s2c[c][2]
    BY <1>6, Sent2c
  <2>2. Len(s2c[c]) = 1 \/ Len(s2c[c]) > 1
    BY <1>6, Reading DEF TypeOK, ConnTypeOK
  <2>3. Shutdown(s2c'[c][2])
    BY <1>6, <2>1, <2>2 DEF AwaitedOK
  <2>4. pc'[c] = pc[c]
    BY <1>6 DEF AwaitedOK, Between, Busy, Startup
  <2>5. AwaitedOK(c)'
    BY <1>6, <2>1, <2>3, <2>4 DEF AwaitedOK, Shutdown
  <2>6. ConversationOK(c)'
    BY <2>1, <2>5 DEF ConversationOK
  <2> QED
    BY <1>1, <1>2, <2>6 DEF ConnectionOK
<1> QED
  BY <1>3, <1>4, <1>5, <1>6 DEF ConnectionOK, ConversationOK

LEMMA SendShutdownStep ==
  ASSUME TypeOK, NEW t \in Clients, SendShutdown(t) \/ WritesCollide(t),
         UNCHANGED clientVars, NEW c \in Clients, ConnectionOK(c)
  PROVE  ConnectionOK(c)'
<1>1. PICK o \in {MessageObject(SHUTDOWN), Garbled} : SendToClient(notified[t], o)
  BY DEF SendShutdown, WritesCollide
<1>2. o \in ServerObject /\ Shutdown(o)
  BY ServerObjects, ObjectKinds
<1>3. /\ c2s' = c2s /\ cpc'[c] = cpc[c] /\ (serverUp' => serverUp)
      /\ notified[t] \in Clients /\ notified'[t] = notified[t] + 1
  <2>1. serverUp /\ c2s' = c2s /\ cpc' = cpc /\ notified[t] < N
        /\ notified' = [notified EXCEPT ![t] = @ + 1]
    BY DEF SendShutdown, WritesCollide, At, clientVars
  <2>2. notified \in [Clients -> 0 .. N]
    BY DEF TypeOK, ThreadTypeOK
  <2> QED
    BY <2>1, <2>2, NAssumption DEF Clients
<1>4. ShuttingDown'
  <2>1. notified'[t] > 0
    BY <1>3 DEF Clients
  <2> QED
    BY <2>1 DEF ShuttingDown
<1>5. \/ pc'[c] = pc[c]
      \/ pc[c] \in Between \cup Busy \cup {"startRound"} /\ pc'[c] = "dead"
  <2>1. CASE SendShutdown(t)
    BY <2>1 DEF SendShutdown
  <2>2. CASE WritesCollide(t)
    <3>1. PICK u \in Clients \ {t} :
            /\ Writing(u, notified[t])
            /\ \E broken \in SUBSET {t, u} :
                 pc' = [x \in Clients |-> IF x \in broken THEN "dead" ELSE pc[x]]
      BY <2>2 DEF WritesCollide
    <3>2. \A x \in {t, u} : pc[x] \in {"sendKeys", "startRound", "copying", "shutdown"}
      BY <2>2, <3>1 DEF WritesCollide, Writing, At
    <3> QED
      BY <3>1, <3>2 DEF Between, Busy
  <2> QED
    BY <2>1, <2>2
<1>6. CASE c # notified[t]
  <2>1. s2c'[c] = s2c[c]
    BY <1>1, <1>3, <1>6 DEF SendToClient, TypeOK, ConnTypeOK
  <2> QED
    BY <1>3, <1>4, <1>5, <2>1, Unmoved
<1>7. CASE c = notified[t]
  BY <1>1, <1>2, <1>3, <1>4, <1>5, <1>7, LastObject
<1> QED
  BY <1>6, <1>7

\* The steps of a thread that neither send nor receive.
LEMMA QuietStep ==
  ASSUME TypeOK, NEW t \in Clients, ConnectionOK(t), UNCHANGED clientVars,
         \/ GenerateBegin(t) \/ GenerateEnd(t) \/ GenerateFails(t) \/ GetKeySet(t)
         \/ AddOutputBegin(t) \/ AddOutputEnd(t) \/ Collect(t) \/ Resume(t)
         \/ ReadSize(t) \/ Sent(t) \/ ResetRound(t) \/ ExitServer(t) \/ LoseClient(t)
         \/ WakeSpuriously(t)
  PROVE  ConnectionOK(t)'
<1>1. /\ s2c' = s2c /\ c2s' = c2s /\ cpc' = cpc /\ notified' = notified
      /\ serverUp' => serverUp
  BY DEF GenerateBegin, GenerateEnd, GenerateFails, GetKeySet, AddOutputBegin,
         AddOutputEnd, Collect, Resume, ReadSize, Sent, ResetRound, ExitServer, LoseClient,
         WakeSpuriously, connVars, threadVars, clientVars
<1>2. ShuttingDown => ShuttingDown'
  BY <1>1 DEF ShuttingDown
<1>3. \/ pc'[t] = pc[t]
      \/ pc[t] \in Between /\ pc'[t] \in Between
      \/ pc[t] \in Busy /\ pc'[t] \in Busy
      \/ pc[t] \in Between /\ pc'[t] = "dead"
  BY DEF GenerateBegin, GenerateEnd, GenerateFails, GetKeySet, AddOutputBegin,
         AddOutputEnd, Collect, Resume, ReadSize, Sent, ResetRound, ExitServer, LoseClient,
         WakeSpuriously, threadVars, At, Goto, Step, TypeOK, ThreadTypeOK, Between, Busy,
         Startup
<1> QED
  BY <1>1, <1>2, <1>3, Unmoved

LEMMA ThreadSessionStep ==
  ASSUME TypeOK, TypeOK', SessionInv, NEW t \in Clients,
         ThreadStep(t) \/ WakeSpuriously(t), UNCHANGED clientVars
  PROVE  SessionInv'
<1> SUFFICES ASSUME NEW c \in Clients PROVE ConnectionOK(c)'
  BY DEF SessionInv
<1>1. ConnectionOK(t) /\ ConnectionOK(c)
  BY DEF SessionInv
<1>2. CASE SendShutdown(t) \/ WritesCollide(t)
  BY <1>1, <1>2, SendShutdownStep
<1>3. CASE c = t /\ ~SendShutdown(t) /\ ~WritesCollide(t)
  BY <1>1, <1>3, QuietStep, SendKeysStep, SendStartRoundStep, SendResultsStep,
     ReceiveKeysAckStep, ReceiveOutputStep, ReceiveResultsAckStep DEF ThreadStep
<1>4. CASE c # t /\ ~SendShutdown(t) /\ ~WritesCollide(t)
  <2>1. s2c'[c] = s2c[c]
    BY <1>4 DEF TypeOK, ConnTypeOK, ThreadStep, GenerateBegin, GenerateEnd,
         GenerateFails, GetKeySet, SendKeys,
         ReceiveKeysAck, SendStartRound, ReceiveOutput, AddOutputBegin,
         AddOutputEnd, Collect, Resume, WakeSpuriously, ReadSize, SendResults,
         ReceiveResultsAck, Sent, ResetRound, ExitServer, LoseClient, SendToClient, connVars
  <2> QED
    BY <1>4, <2>1, OtherThread
<1> QED
  BY <1>2, <1>3, <1>4

-----------------------------------------------------------------------------
\* A step of a client.

NothingElse(c) == s2c[c] = <<>> \/ (s2c[c] # <<>> /\ Shutdown(NextObject(c)))

\* After reading the object it waited for, a client has read everything, or
\* finds SHUTDOWN next.
LEMMA AfterReading ==
  ASSUME TypeOK, NEW c \in Clients, s2c[c] # <<>>, Receive(c)
  PROVE  /\ AwaitedOK(c) => NothingElse(c)'
         /\ NoEarlyShutdown(c) /\ UNCHANGED notified => NoEarlyShutdown(c)'
<1>1. s2c[c] \in Seq(ServerObject) /\ s2c'[c] = Tail(s2c[c])
  BY DEF TypeOK, ConnTypeOK, Receive
<1>2. Len(s2c[c]) = 1 => s2c'[c] = <<>>
  BY <1>1, Reading
<1>3. Len(s2c[c]) > 1 => s2c'[c] # <<>> /\ NextObject(c)' = s2c[c][2]
  BY <1>1, Reading DEF NextObject
<1>4. Len(s2c[c]) = 1 \/ Len(s2c[c]) > 1
  BY <1>1, Reading
<1>5. AwaitedOK(c) => NothingElse(c)'
  BY <1>2, <1>3, <1>4 DEF AwaitedOK, Shutdown, NothingElse
<1>6. \A i \in DOMAIN s2c'[c] : i + 1 \in DOMAIN s2c[c] /\ s2c'[c][i] = s2c[c][i + 1]
  BY <1>1, Reading
<1>7. NoEarlyShutdown(c) /\ UNCHANGED notified => NoEarlyShutdown(c)'
  BY <1>6 DEF NoEarlyShutdown, ShuttingDown, Shutdown
<1> QED
  BY <1>5, <1>7

LEMMA AfterReply ==
  ASSUME TypeOK, NEW c \in Clients, c2s[c] = <<>>, NEW m \in Message, SendToServer(c, m)
  PROVE  c2s'[c] # <<>> /\ Len(c2s'[c]) = 1 /\ MessageFrom(c)' = m
<1>1. c2s[c] \in Seq(Message) /\ c2s'[c] = Append(c2s[c], m)
  BY DEF TypeOK, ConnTypeOK, SendToServer
<1> QED
  BY <1>1, Sending DEF MessageFrom

\* A running client that can take an object other than SHUTDOWN awaits it.
LEMMA NextIsAwaited ==
  ASSUME NEW c \in Clients, ConnectionOK(c), cpc[c] \in Running, s2c[c] # <<>>,
         ~Shutdown(NextObject(c))
  PROVE  AwaitedOK(c)
  BY DEF ConnectionOK, ConversationOK

\* The client sends its reply and goes on to l, or stops.
LEMMA ReplyStep ==
  ASSUME TypeOK, NEW c \in Clients, ConnectionOK(c), s2c[c] # <<>>, AwaitedOK(c), Receive(c),
         NEW m \in Message, SendToServer(c, m), m.text # ACK <=> pc[c] = "output",
         UNCHANGED <<serverUp, pc, notified>>,
         \/ cpc'[c] \notin Running
         \/ cpc[c] = "keys" /\ cpc'[c] = "start"
         \/ cpc[c] = "start" /\ cpc'[c] = "results"
         \/ cpc[c] = "results" /\ cpc'[c] = "keys"
  PROVE  ConnectionOK(c)'
<1>1. c2s'[c] # <<>> /\ Len(c2s'[c]) = 1 /\ MessageFrom(c)' = m
  BY AfterReply DEF AwaitedOK
<1>2. RepliesOK(c)'
  BY <1>1 DEF RepliesOK, AwaitedOK
<1>3. NoEarlyShutdown(c)'
  BY AfterReading DEF ConnectionOK
<1>4. cpc'[c] \in Running => QuietOK(c)'
  BY <1>1 DEF AwaitedOK, QuietOK, Between, Busy, Startup, Running
<1>5. ConversationOK(c)'
  BY <1>4, AfterReading DEF ConversationOK, NothingElse
<1> QED
  BY <1>2, <1>3, <1>5 DEF ConnectionOK

\* The client stops, or is left with what comes after SHUTDOWN or after the end
\* of the server.
LEMMA StopStep ==
  ASSUME TypeOK, NEW c \in Clients, ConnectionOK(c), UNCHANGED <<c2s, serverUp, pc, notified>>,
         \/ s2c'[c] = s2c[c]
         \/ s2c[c] # <<>> /\ Receive(c)
         \/ s2c'[c] = <<>>,
         \/ cpc'[c] \notin Running
         \/ ~serverUp /\ s2c'[c] = <<>>
         \/ s2c'[c] # <<>> /\ Shutdown(NextObject(c))'
  PROVE  ConnectionOK(c)'
<1>1. RepliesOK(c)'
  BY DEF ConnectionOK, RepliesOK, MessageFrom
<1>2. NoEarlyShutdown(c)'
  <2>1. CASE s2c'[c] = s2c[c] \/ s2c'[c] = <<>>
    BY <2>1 DEF ConnectionOK, NoEarlyShutdown, ShuttingDown
  <2>2. CASE s2c[c] # <<>> /\ Receive(c)
    BY <2>2, AfterReading DEF ConnectionOK
  <2> QED
    BY <2>1, <2>2
<1>3. ConversationOK(c)'
  BY DEF ConversationOK
<1> QED
  BY <1>1, <1>2, <1>3 DEF ConnectionOK

\* The connection of the client that takes the step.
LEMMA OwnClientStep ==
  ASSUME TypeOK, NEW c \in Clients, ConnectionOK(c),
         ClientStep(c) \/ InputExhausted(c) \/ CloseWindow(c),
         UNCHANGED <<sharedVars, threadVars>>
  PROVE  ConnectionOK(c)'
<1>1. pc' = pc /\ notified' = notified
  BY DEF threadVars
<1>2. /\ \A l \in ClientPC : Become(c, l) => cpc'[c] = l
      /\ Leave(c) => cpc'[c] = "gone"
      /\ \A l : Become(c, l) => cpc'[c] = l
  BY DEF Become, Leave, TypeOK, ClientTypeOK, ClientPC
<1>3. "gone" \notin Running /\ "dead" \notin Running
  BY DEF Running
<1>4. \A x \in {ACK, CLIENT_EXIT, OUTPUT}, k \in KeySet \cup {Null} :
        ClientMessage(c, x, k) \in Message /\ ClientMessage(c, x, k).text = x
  BY DEF ClientMessage, Message
<1>5. CASE ReceiveKeySet(c)
  <2>1. /\ cpc[c] = "keys" /\ s2c[c] # <<>> /\ NextObject(c).class = "KeySet"
        /\ Receive(c) /\ SendToServer(c, ClientMessage(c, ACK, Null))
        /\ UNCHANGED serverUp /\ cpc'[c] \in {"gone", "start"}
    BY <1>2, <1>5 DEF ReceiveKeySet, Reads, CanReceive
  <2>2. AwaitedOK(c)
    BY <2>1, NextIsAwaited DEF Running, Shutdown
  <2>3. pc[c] # "output"
    BY <2>1, <2>2 DEF AwaitedOK
  <2> QED
    BY <1>1, <1>3, <1>4, <2>1, <2>2, <2>3, ReplyStep
<1>6. CASE Transmit(c)
  <2>1. PICK x \in OutputTexts : SendToServer(c, ClientMessage(c, x, ckeys[c]))
    BY <1>6 DEF Transmit
  <2>2. /\ cpc[c] = "start" /\ s2c[c] # <<>> /\ NextObject(c).class = "Message"
        /\ NextObject(c).text = START_ROUND
        /\ Receive(c) /\ UNCHANGED serverUp /\ cpc'[c] = "results"
    BY <1>2, <1>6 DEF Transmit, Reads, CanReceive
  <2>3. AwaitedOK(c)
    BY <2>2, NextIsAwaited DEF Running, Shutdown, START_ROUND, SHUTDOWN
  <2>4. pc[c] = "output"
    BY <2>2, <2>3 DEF AwaitedOK
  <2>5. x \in {ACK, CLIENT_EXIT, OUTPUT} /\ x # ACK
    BY DEF OutputTexts, ACK, CLIENT_EXIT, OUTPUT
  <2>6. ckeys[c] \in KeySet \cup {Null}
    BY DEF TypeOK, ClientTypeOK
  <2>7. /\ ClientMessage(c, x, ckeys[c]) \in Message
        /\ ClientMessage(c, x, ckeys[c]).text # ACK
    BY <1>4, <2>5, <2>6
  <2> QED
    BY <1>1, <2>1, <2>2, <2>3, <2>4, <2>7, ReplyStep
<1>7. CASE ReceiveResults(c) /\ c2s' # c2s
  <2>1. /\ cpc[c] = "results" /\ s2c[c] # <<>> /\ NextObject(c).class = "ArrayList"
        /\ Receive(c) /\ SendToServer(c, ClientMessage(c, ACK, Null))
        /\ UNCHANGED serverUp /\ cpc'[c] \in {"dead", "keys"}
    BY <1>2, <1>7 DEF ReceiveResults, Reads, CanReceive
  <2>2. AwaitedOK(c)
    BY <2>1, NextIsAwaited DEF Running, Shutdown
  <2>3. pc[c] # "output"
    BY <2>1, <2>2 DEF AwaitedOK
  <2> QED
    BY <1>1, <1>3, <1>4, <2>1, <2>2, <2>3, ReplyStep
<1>8. CASE ReceiveResults(c) /\ c2s' = c2s
  <2>1. c2s'[c] # c2s[c] \/ HasNull(NextObject(c).list)
    <3>1. ASSUME SendToServer(c, ClientMessage(c, ACK, Null)) PROVE c2s'[c] # c2s[c]
      <4>1. /\ c2s[c] \in Seq(Message) /\ ClientMessage(c, ACK, Null) \in Message
            /\ c2s'[c] = Append(c2s[c], ClientMessage(c, ACK, Null))
        BY <1>4, <3>1 DEF SendToServer, TypeOK, ConnTypeOK
      <4>2. Len(c2s'[c]) = Len(c2s[c]) + 1 /\ Len(c2s[c]) \in Nat
        BY <4>1
      <4> QED
        BY <4>2
    <3> QED
      BY <1>8, <3>1 DEF ReceiveResults
  <2>2. cpc'[c] = "dead"
    BY <1>2, <1>8, <2>1 DEF ReceiveResults
  <2> QED
    BY <1>1, <1>3, <1>8, <2>2, StopStep DEF ReceiveResults, Reads, CanReceive
<1>9. CASE ReceiveShutdown(c) \/ EmptyResults(c) \/ CastFails(c) \/ InputExhausted(c)
  <2>1. cpc'[c] \in {"gone", "dead"}
    BY <1>2, <1>9 DEF ReceiveShutdown, EmptyResults, CastFails, InputExhausted
  <2>2. s2c[c] # <<>> /\ Receive(c) /\ UNCHANGED <<c2s, serverUp>>
    BY <1>9 DEF ReceiveShutdown, EmptyResults, CastFails, InputExhausted, Reads, CanReceive
  <2> QED
    BY <1>1, <1>3, <2>1, <2>2, StopStep
<1>10. CASE ReadFails(c)
  <2>1. s2c'[c] = <<>> /\ UNCHANGED <<c2s, serverUp>> /\ ~serverUp
    BY <1>10 DEF ReadFails, ReadFromServerFails, TypeOK, ConnTypeOK
  <2> QED
    BY <1>1, <2>1, StopStep
<1>11. CASE WriteFails(c)
  <2>1. /\ cpc[c] \in Running /\ s2c[c] # <<>> /\ ~Shutdown(NextObject(c))
        /\ Receive(c) /\ UNCHANGED <<c2s, serverUp>> /\ ~serverUp
    BY <1>11 DEF WriteFails, Answers, Reads, CanReceive, Running, Shutdown, START_ROUND,
                 SHUTDOWN
  <2>2. NothingElse(c)'
    BY <2>1, NextIsAwaited, AfterReading
  <2> QED
    BY <1>1, <2>1, <2>2, StopStep DEF NothingElse
<1>13. CASE ReadGarbled(c)
  <2>1. /\ UNCHANGED <<s2c, c2s, serverUp>>
        /\ s2c[c] # <<>> /\ Shutdown(NextObject(c))
    BY <1>13 DEF ReadGarbled, connVars, Reads, CanReceive, Shutdown
  <2>2. s2c'[c] # <<>> /\ Shutdown(NextObject(c))'
    BY <2>1 DEF NextObject
  <2> QED
    BY <1>1, <2>1, <2>2, StopStep
<1>12. CASE CloseWindow(c)
  <2>1. cpc'[c] = "gone" /\ UNCHANGED <<s2c, c2s, serverUp>>
    BY <1>2, <1>12 DEF CloseWindow
  <2> QED
    BY <1>1, <1>3, <2>1, StopStep
<1> QED
  BY <1>5, <1>6, <1>7, <1>8, <1>9, <1>10, <1>11, <1>12, <1>13 DEF ClientStep

LEMMA ClientSessionStep ==
  ASSUME TypeOK, SessionInv, NEW c \in Clients,
         ClientStep(c) \/ InputExhausted(c) \/ CloseWindow(c),
         UNCHANGED <<sharedVars, threadVars>>
  PROVE  SessionInv'
<1> SUFFICES ASSUME NEW d \in Clients PROVE ConnectionOK(d)'
  BY DEF SessionInv
<1>1. ConnectionOK(c) /\ ConnectionOK(d)
  BY DEF SessionInv
<1>2. CASE d = c
  BY <1>1, <1>2, OwnClientStep
<1>3. CASE d # c
  <2>1. s2c'[d] = s2c[d] /\ c2s'[d] = c2s[d] /\ cpc'[d] = cpc[d] /\ serverUp' = serverUp
    BY <1>3 DEF TypeOK, ConnTypeOK, ClientTypeOK, ClientStep, ReceiveKeySet, Transmit,
         ReceiveShutdown, ReceiveResults, EmptyResults, CastFails, ReadGarbled, ReadFails,
         WriteFails, InputExhausted, CloseWindow, connVars, Receive, SendToServer, Become, Leave
  <2>2. pc' = pc /\ (ShuttingDown => ShuttingDown')
    BY DEF threadVars, ShuttingDown
  <2> QED
    BY <1>1, <2>1, <2>2, Unmoved
<1> QED
  BY <1>2, <1>3

-----------------------------------------------------------------------------
\* Every connection is always in one of the situations of the protocol.
THEOREM SessionCorrect == Spec => []SessionInv
<1>1. TypeOK /\ TypeOK' /\ SessionInv /\ [Next]_vars => SessionInv'
  <2> SUFFICES ASSUME TypeOK, TypeOK', SessionInv, [Next]_vars PROVE SessionInv'
    OBVIOUS
  <2>1. CASE UNCHANGED vars
    <3>1. \A c \in Clients : ConnectionOK(c)'
      BY <2>1, Unmoved
         DEF vars, connVars, threadVars, clientVars, SessionInv, ShuttingDown
    <3> QED
      BY <3>1 DEF SessionInv
  <2> QED
    BY <2>1, ThreadSessionStep, ClientSessionStep DEF Next
<1> QED
  BY <1>1, InitSession, TypeCorrect, PTL DEF Spec

\* No cast of an object a client reads ever fails, and no other Message than
\* START_ROUND comes where it is awaited, until SHUTDOWN is sent.
THEOREM CastsSucceed == Spec => []CastSafe
<1>1. TypeOK /\ SessionInv => CastSafe
  <2> SUFFICES ASSUME TypeOK, SessionInv, ~ShuttingDown, NEW c \in Clients,
                      cpc[c] \in Running, CanReceive(c)
               PROVE  /\ NextObject(c).class = ExpectedClass(c)
                      /\ cpc[c] = "start" => NextObject(c).text = START_ROUND
    BY DEF CastSafe
  <2>1. ConnectionOK(c) /\ s2c[c] # <<>> /\ s2c[c] \in Seq(ServerObject)
    BY DEF SessionInv, CanReceive, TypeOK, ConnTypeOK
  <2>2. 1 \in DOMAIN s2c[c] /\ NextObject(c) = s2c[c][1]
    BY <2>1 DEF NextObject
  <2>3. ~Shutdown(NextObject(c))
    BY <2>1, <2>2 DEF ConnectionOK, NoEarlyShutdown
  <2>4. AwaitedOK(c)
    BY <2>1, <2>3, NextIsAwaited
  <2> QED
    BY <2>4 DEF AwaitedOK, ExpectedClass
<1> QED
  BY <1>1, SessionCorrect, TypeCorrect, PTL

\* The server never takes an acknowledgement for an output or an output for an
\* acknowledgement.
THEOREM RepliesInOrder == Spec => []AckSafe
<1>1. SessionInv => AckSafe
  BY DEF SessionInv, ConnectionOK, RepliesOK, AckSafe, CanReceiveFrom
<1> QED
  BY <1>1, SessionCorrect, PTL
=============================================================================
