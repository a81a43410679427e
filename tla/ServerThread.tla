---------------------------- MODULE ServerThread ----------------------------
(***************************************************************************)
(* The server's threads: ServerThread.run for each of the N clients.  The  *)
(* program counter of a thread names the next statement it executes; reads *)
(* that block are guards.  An IOException (EOFException included) in any   *)
(* thread ends the whole server process.                                   *)
(***************************************************************************)
EXTENDS Connections, SharedServerInfo

CONSTANTS MaxGenerations,    \* bound: generateKeySets calls made by getKeySet
          SpuriousWakeups    \* whether wait() may return without a notify

ASSUME BoundAssumption == MaxGenerations \in Nat /\ SpuriousWakeups \in BOOLEAN

VARIABLES pc,        \* next statement of the thread
          keySet,    \* the keyset it last obtained for its client
          output,    \* the client's output for the round
          size,      \* list size read by the ArrayList copy in sendResults
          notified   \* clients it has sent SHUTDOWN to

threadVars == <<pc, keySet, output, size, notified>>

Startup == {"generate", "generating"}
ThreadPC == Startup \cup
  {"getKeySet", "sendKeys", "keysAck", "startRound", "output", "addOutput", "adding",
   "collect", "collectWait", "sizing", "copying", "resultsAck", "sent",
   "sentWait", "clearing", "shutdown", "dead"}

ThreadTypeOK ==
  /\ pc \in [Clients -> ThreadPC]
  /\ keySet \in [Clients -> KeySet \cup {Null}]
  /\ output \in [Clients -> Message \cup {Null}]
  /\ size \in [Clients -> Nat]
  /\ notified \in [Clients -> 0 .. N]

ThreadInit ==
  /\ pc = [t \in Clients |-> "generate"]
  /\ keySet = [t \in Clients |-> Null]
  /\ output = [t \in Clients |-> Null]
  /\ size = [t \in Clients |-> 0]
  /\ notified = [t \in Clients |-> 0]

At(t, l) == serverUp /\ pc[t] = l
Goto(t, l) == pc' = [pc EXCEPT ![t] = l]
Step(t, from, to) == At(t, from) /\ Goto(t, to)

-----------------------------------------------------------------------------
(* The initial, unsynchronized generateKeySets.  Which keys the entries    *)
(* hold is the subject of module KeyGeneration; here a thread between      *)
(* begin and end may have left null entries in the shared array.           *)
OtherGenerating(t) == \E u \in Clients \ {t} : pc[u] = "generating"

GenerateBegin(t) ==
  /\ Step(t, "generate", "generating")
  /\ UNCHANGED <<connVars, sharedVars, keySet, output, size, notified>>

GenerateEnd(t) ==
  /\ Step(t, "generating", "getKeySet")
  /\ UNCHANGED <<connVars, sharedVars, keySet, output, size, notified>>

(* keysets[i].addKey on an entry another thread has just reset to null, or *)
(* writing a KeySet while another thread adds keys to its HashSet: neither *)
(* exception is caught, and the thread ends alone.                         *)
GenerateFails(t) ==
  /\ \/ At(t, "generating")
     \/ At(t, "getKeySet") /\ MonitorFree /\ KeysExhausted
     \/ At(t, "sendKeys") /\ keySet[t] # Null
  /\ OtherGenerating(t)
  /\ Goto(t, "dead")
  /\ UNCHANGED <<connVars, sharedVars, keySet, output, size, notified>>

-----------------------------------------------------------------------------
(* sendKeys, sendStartRound and the client's output *)
AtBound == KeysExhausted /\ generation = MaxGenerations

GetKeySet(t) ==
  /\ Step(t, "getKeySet", "sendKeys")
  /\ ~AtBound
  /\ getKeySet
  /\ \E k \in {NextKeySet} \cup (IF OtherGenerating(t) THEN {Null} ELSE {}) :
       keySet' = [keySet EXCEPT ![t] = k]
  /\ UNCHANGED <<connVars, output, size, notified>>

(* Mutants: START_ROUND is sent ahead of the keys; the round starts without *)
(* waiting for the acknowledgement of the keys.                             *)
SendKeysLast(t) ==
  /\ Step(t, "sendKeys", "keysAck")
  /\ s2c' = [s2c EXCEPT ![t] = @ \o <<MessageObject(START_ROUND), KeySetObject(keySet[t])>>]
  /\ UNCHANGED <<c2s, clientOpen, serverUp, sharedVars, keySet, output, size,
                 notified>>

SendKeysUnacknowledged(t) ==
  /\ Step(t, "sendKeys", "output")
  /\ s2c' = [s2c EXCEPT ![t] = @ \o <<KeySetObject(keySet[t]), MessageObject(START_ROUND)>>]
  /\ UNCHANGED <<c2s, clientOpen, serverUp, sharedVars, keySet, output, size,
                 notified>>

SendKeys(t) ==
  /\ Step(t, "sendKeys", "keysAck")
  /\ SendToClient(t, KeySetObject(keySet[t]))
  /\ UNCHANGED <<c2s, clientOpen, serverUp, sharedVars, keySet, output, size,
                 notified>>

(* The reply must be ACK, else System.exit. *)
ReceiveKeysAck(t) ==
  /\ At(t, "keysAck")
  /\ CanReceiveFrom(t)
  /\ ReceiveFrom(t)
  /\ IF MessageFrom(t).text = ACK
     THEN Goto(t, "startRound") /\ UNCHANGED serverUp
     ELSE serverUp' = FALSE /\ UNCHANGED pc
  /\ UNCHANGED <<s2c, clientOpen, sharedVars, keySet, output, size, notified>>

SendStartRound(t) ==
  /\ Step(t, "startRound", "output")
  /\ SendToClient(t, MessageObject(START_ROUND))
  /\ UNCHANGED <<c2s, clientOpen, serverUp, sharedVars, keySet, output, size,
                 notified>>

(* Mutant: CLIENT_EXIT is treated as any other output. *)
ReceiveAnyOutput(t) ==
  /\ Step(t, "output", "addOutput")
  /\ CanReceiveFrom(t)
  /\ ReceiveFrom(t)
  /\ output' = [output EXCEPT ![t] = MessageFrom(t)]
  /\ UNCHANGED <<s2c, clientOpen, serverUp, sharedVars, keySet, size, notified>>

ReceiveOutput(t) ==
  /\ At(t, "output")
  /\ CanReceiveFrom(t)
  /\ ReceiveFrom(t)
  /\ output' = [output EXCEPT ![t] = MessageFrom(t)]
  /\ Goto(t, IF MessageFrom(t).text = CLIENT_EXIT THEN "shutdown" ELSE "addOutput")
  /\ UNCHANGED <<s2c, clientOpen, serverUp, sharedVars, keySet, size, notified>>

AddOutputBegin(t) ==
  /\ Step(t, "addOutput", "adding")
  /\ addOutputBegin(t)
  /\ UNCHANGED <<connVars, keySet, output, size, notified>>

AddOutputEnd(t) ==
  /\ Step(t, "adding", "collect")
  /\ addOutputEnd(t, output[t])
  /\ output' = [output EXCEPT ![t] = Null]
  /\ UNCHANGED <<connVars, keySet, size, notified>>

-----------------------------------------------------------------------------
(* First barrier: wait until all clients have sent their output back. *)
AllCollected == Len(currentRoundMessages) >= N

Collect(t) ==
  /\ At(t, "collect")
  /\ MonitorFree
  /\ \/ /\ ~AllCollected
        /\ Wait(t)
        /\ Goto(t, "collectWait")
     \/ /\ AllCollected
        /\ notifyAll
        /\ Goto(t, "sizing")
  /\ UNCHANGED <<connVars, currentRoundMessages, noSent, keysDistributed,
                 generation, monitor, keySet, output, size, notified>>

(* A thread no longer in the wait set leaves wait() once it has the        *)
(* monitor again; neither wait() is in a loop that re-tests its condition. *)
Resume(t) ==
  /\ t \notin waitSet
  /\ MonitorFree
  /\ \/ Step(t, "collectWait", "sizing")
     \/ Step(t, "sentWait", "getKeySet")
  /\ UNCHANGED <<connVars, sharedVars, keySet, output, size, notified>>

(* The Java monitor allows wait() to return with no notify. *)
WakeSpuriously(t) ==
  /\ SpuriousWakeups
  /\ serverUp
  /\ t \in waitSet
  /\ waitSet' = waitSet \ {t}
  /\ UNCHANGED <<connVars, threadVars, currentRoundMessages, noSent,
                 keysDistributed, generation, monitor>>

-----------------------------------------------------------------------------
(* sendResults: the ArrayList copy reads the size, then the elements, both *)
(* without the monitor.  The elements it finds null are the one an add has *)
(* still to store, any of those a clear in progress is setting to null,    *)
(* and those beyond the end of a list that has shrunk.                     *)
ReadSize(t) ==
  /\ Step(t, "sizing", "copying")
  /\ size' = [size EXCEPT ![t] = Len(currentRoundMessages)]
  /\ UNCHANGED <<connVars, sharedVars, keySet, output, notified>>

CopyOf(n, nulled) ==
  [i \in 1 .. n |-> IF i \in DOMAIN currentRoundMessages \ nulled
                    THEN currentRoundMessages[i] ELSE Null]
Nulled == IF \E u \in Clients : pc[u] = "clearing"
          THEN SUBSET DOMAIN currentRoundMessages ELSE {{}}

SendResults(t) ==
  /\ Step(t, "copying", "resultsAck")
  /\ \E S \in Nulled : SendToClient(t, ResultsObject(CopyOf(size[t], S)))
  /\ size' = [size EXCEPT ![t] = 0]
  /\ UNCHANGED <<c2s, clientOpen, serverUp, sharedVars, keySet, output, notified>>

ReceiveResultsAck(t) ==
  /\ At(t, "resultsAck")
  /\ CanReceiveFrom(t)
  /\ ReceiveFrom(t)
  /\ IF MessageFrom(t).text = ACK
     THEN Goto(t, "sent") /\ UNCHANGED serverUp
     ELSE serverUp' = FALSE /\ UNCHANGED pc
  /\ UNCHANGED <<s2c, clientOpen, sharedVars, keySet, output, size, notified>>

-----------------------------------------------------------------------------
(* Mutant: the last thread waits, too. *)
SentOffByOne(t) ==
  /\ Step(t, "sent", "sentWait")
  /\ MonitorFree
  /\ noSent' = noSent + 1
  /\ noSent + 1 <= N
  /\ Wait(t)
  /\ UNCHANGED <<connVars, currentRoundMessages, keysDistributed, generation, monitor,
                 keySet, output, size, notified>>

(* Second barrier: wait until all clients have been sent the results; the  *)
(* last one resets the list and the count and wakes everybody.             *)
Sent(t) ==
  /\ At(t, "sent")
  /\ MonitorFree
  /\ noSent' = noSent + 1
  /\ \/ /\ noSent + 1 < N
        /\ Wait(t)
        /\ Goto(t, "sentWait")
        /\ UNCHANGED monitor
     \/ /\ noSent + 1 >= N
        /\ monitor' = t
        /\ Goto(t, "clearing")
        /\ UNCHANGED waitSet
  /\ UNCHANGED <<connVars, currentRoundMessages, keysDistributed, generation,
                 keySet, output, size, notified>>

(* Mutant: resetRoundMessages is missing. *)
ResetRoundKeepsMessages(t) ==
  /\ Step(t, "clearing", "getKeySet")
  /\ monitor' = Null
  /\ noSent' = 0
  /\ notifyAll
  /\ UNCHANGED <<connVars, currentRoundMessages, keysDistributed, generation, keySet,
                 output, size, notified>>

ResetRound(t) ==
  /\ Step(t, "clearing", "getKeySet")
  /\ monitor' = Null
  /\ currentRoundMessages' = <<>>
  /\ noSent' = 0
  /\ notifyAll
  /\ UNCHANGED <<connVars, keysDistributed, generation, keySet, output, size,
                 notified>>

-----------------------------------------------------------------------------
(* A client sent CLIENT_EXIT: SHUTDOWN goes to every client in turn, from  *)
(* this thread; then the server process exits.                             *)
SendShutdown(t) ==
  /\ At(t, "shutdown")
  /\ notified[t] < N
  /\ SendToClient(notified[t], MessageObject(SHUTDOWN))
  /\ notified' = [notified EXCEPT ![t] = @ + 1]
  /\ UNCHANGED <<c2s, clientOpen, serverUp, sharedVars, pc, keySet, output, size>>

(* ObjectOutputStream is not made for two threads.  When this thread writes *)
(* to a stream while another thread does, nobody can read what comes out,  *)
(* nor anything after it.  Either writer may get an exception: run catches *)
(* an IOException and exits; any other ends the thread, and the process    *)
(* when it was the last one.                                               *)
Writing(u, c) ==
  \/ u = c /\ pc[u] \in {"sendKeys", "startRound", "copying"}
  \/ pc[u] = "shutdown" /\ notified[u] = c

WritesCollide(t) ==
  /\ At(t, "shutdown")
  /\ notified[t] < N
  /\ \E u \in Clients \ {t} :
       /\ Writing(u, notified[t])
       /\ \E broken \in SUBSET {t, u} :
            pc' = [x \in Clients |-> IF x \in broken THEN "dead" ELSE pc[x]]
  /\ SendToClient(notified[t], Garbled)
  /\ serverUp' \in IF \A x \in Clients : pc'[x] = "dead" THEN {FALSE} ELSE BOOLEAN
  /\ notified' = [notified EXCEPT ![t] = @ + 1]
  /\ UNCHANGED <<c2s, clientOpen, sharedVars, keySet, output, size>>

ExitServer(t) ==
  /\ At(t, "shutdown")
  /\ notified[t] = N
  /\ serverUp' = FALSE
  /\ UNCHANGED <<s2c, c2s, clientOpen, sharedVars, threadVars>>

(* Mutant: the exception is caught at the read, which is tried again. *)
RetryRead(t) ==
  /\ serverUp
  /\ \/ pc[t] \in {"sendKeys", "startRound", "copying"} /\ ~clientOpen[t]
     \/ pc[t] = "shutdown" /\ notified[t] < N /\ ~clientOpen[notified[t]]
  /\ serverUp' = FALSE
  /\ UNCHANGED <<s2c, c2s, clientOpen, sharedVars, threadVars>>

(* A read or a write of a connection whose client has gone throws: EOF and *)
(* IOException handlers both call System.exit.                             *)
LoseClient(t) ==
  /\ serverUp
  /\ \/ pc[t] \in {"keysAck", "output", "resultsAck"} /\ ReadFromClientFails(t)
     \/ pc[t] \in {"sendKeys", "startRound", "copying"} /\ ~clientOpen[t]
     \/ pc[t] = "shutdown" /\ notified[t] < N /\ ~clientOpen[notified[t]]
  /\ serverUp' = FALSE
  /\ UNCHANGED <<s2c, c2s, clientOpen, sharedVars, threadVars>>

-----------------------------------------------------------------------------
ThreadStep(t) ==
  \/ GenerateBegin(t) \/ GenerateEnd(t) \/ GenerateFails(t)
  \/ GetKeySet(t) \/ SendKeys(t) \/ ReceiveKeysAck(t) \/ SendStartRound(t)
  \/ ReceiveOutput(t)
  \/ AddOutputBegin(t) \/ AddOutputEnd(t) \/ Collect(t) \/ Resume(t)
  \/ ReadSize(t) \/ SendResults(t) \/ ReceiveResultsAck(t)
  \/ Sent(t) \/ ResetRound(t)
  \/ SendShutdown(t) \/ WritesCollide(t) \/ ExitServer(t) \/ LoseClient(t)
=============================================================================
