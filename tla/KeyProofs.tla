----------------------------- MODULE KeyProofs -----------------------------
(***************************************************************************)
(* Every keyset enciphers at most one output, for every number of clients, *)
(* with mixed rounds, collisions of writers and spurious wake-ups.         *)
(***************************************************************************)
EXTENDS DiningSystemProofs, Counting

\* Dealt: a keyset getKeySet has handed out.
Dealt(k) ==
  /\ k \in KeySet
  /\ k.gen < generation \/ (k.gen = generation /\ k.idx < keysDistributed)

\* Outputs, and the keysets, of client c in the list; all that c has now.
FromClient(c) == {i \in DOMAIN currentRoundMessages :
                    currentRoundMessages[i] # Null /\ currentRoundMessages[i].from = c}
Added(c) == {currentRoundMessages[i].keys : i \in FromClient(c)}
Held(c) == {keySet[c], ckeys[c]} \cup Added(c)

\* The keyset of the round goes from the thread to its client, ...
OnTheWay(c) ==
  \A i \in DOMAIN s2c[c] : s2c[c][i].class = "KeySet" =>
    /\ s2c[c][i].keys = keySet[c]
    /\ pc[c] = "keysAck" /\ c2s[c] = <<>>
    /\ \A j \in DOMAIN s2c[c] : s2c[c][j].class = "KeySet" => i = j

\* ... is used there, ...
WithClient(c) ==
  cpc[c] = "start" =>
    /\ ckeys[c] = keySet[c] /\ keySet[c] # Null
    /\ pc[c] \in {"keysAck", "startRound", "output", "dead"}
    /\ pc[c] = "output" => c2s[c] = <<>>

\* ... and comes back with the output, which the thread adds to the list.
InOutput(c, m) == m # Null /\ m.keys = keySet[c] /\ m.from = c /\ keySet[c] # Null
ComesBack(c) ==
  /\ pc[c] = "output" /\ c2s[c] # <<>> => InOutput(c, MessageFrom(c))
  /\ pc[c] \in {"addOutput", "adding"} => InOutput(c, output[c])

Passed(c) == OnTheWay(c) /\ WithClient(c) /\ ComesBack(c)

\* Fresh: until its output is in the list, no output of the list was made with it.
Fresh(c) ==
  \/ pc[c] \in {"sendKeys", "keysAck", "startRound", "output", "addOutput", "adding"}
  \/ cpc[c] = "start"
  => keySet[c] \notin Added(c)

\* Apart: what two clients have, they got in two calls of getKeySet.
Apart == \A c, d \in Clients : c # d => Held(c) \cap Held(d) \subseteq {Null}
AllDealt == \A c \in Clients : \A k \in Held(c) : k = Null \/ Dealt(k)

Entries ==
  /\ \A i \in DOMAIN currentRoundMessages :
       currentRoundMessages[i] # Null => currentRoundMessages[i].keys # Null
  /\ \A i, j \in DOMAIN currentRoundMessages :
       i # j /\ currentRoundMessages[i] # Null /\ currentRoundMessages[j] # Null
         => currentRoundMessages[i].keys # currentRoundMessages[j].keys

KeyInv == (\A c \in Clients : Passed(c) /\ Fresh(c)) /\ Apart /\ AllDealt /\ Entries

LEMMA InitKeys == Init => KeyInv
<1> SUFFICES ASSUME Init PROVE KeyInv
  OBVIOUS
<1>1. /\ currentRoundMessages = <<>>
      /\ \A c \in Clients : /\ s2c[c] = <<>> /\ pc[c] = "generate" /\ cpc[c] = "keys"
                            /\ keySet[c] = Null /\ ckeys[c] = Null
  BY DEF Init, ConnInit, SharedInit, ThreadInit, ClientInit
<1>2. \A c \in Clients : Added(c) = {}
  BY <1>1 DEF Added, FromClient
<1>3. \A c \in Clients : Passed(c) /\ Fresh(c)
  BY <1>1 DEF Passed, OnTheWay, WithClient, ComesBack, Fresh
<1>4. \A c \in Clients : Held(c) = {Null}
  BY <1>1, <1>2 DEF Held
<1>5. Apart /\ AllDealt
  BY <1>4 DEF Apart, AllDealt
<1>6. Entries
  BY <1>1 DEF Entries
<1> QED
  BY <1>3, <1>5, <1>6 DEF KeyInv

-----------------------------------------------------------------------------
\* What leaves the parts of the invariant alone.

\* The program counters at which a thread has no keyset under way.
Loose == Startup \cup
  {"getKeySet", "collect", "collectWait", "sizing", "copying", "resultsAck", "sent",
   "sentWait", "clearing", "shutdown", "dead"}

LEMMA PassedStays ==
  ASSUME NEW c \in Clients, Passed(c), Fresh(c),
         \A i \in DOMAIN s2c'[c] : s2c'[c][i].class = "KeySet" =>
           i \in DOMAIN s2c[c] /\ s2c'[c][i] = s2c[c][i],
         cpc'[c] = cpc[c], ckeys'[c] = ckeys[c], keySet'[c] = keySet[c],
         c2s'[c] = c2s[c] \/ pc'[c] \in Loose,
         output'[c] = output[c] \/ pc'[c] \in Loose,
         Added(c)' \subseteq Added(c),
         \/ pc'[c] = pc[c]
         \/ pc[c] \in (Loose \cup {"sendKeys"}) \ {"dead"} /\ pc'[c] \in Loose
         \/ pc[c] = "startRound" /\ pc'[c] = "dead"
  PROVE  Passed(c)' /\ Fresh(c)'
<1> USE DEF Passed
<1>1. OnTheWay(c)'
  BY DEF OnTheWay, Loose, Startup
<1>2. WithClient(c)'
  BY DEF WithClient, Loose, Startup
<1>3. ComesBack(c)'
  BY DEF ComesBack, InOutput, MessageFrom, Loose, Startup
<1>4. Fresh(c)'
  BY DEF Fresh, WithClient, Loose, Startup
<1> QED
  BY <1>1, <1>2, <1>3, <1>4

LEMMA HoldingsStay ==
  ASSUME Apart, AllDealt, UNCHANGED <<generation, keysDistributed>>,
         \A c \in Clients : Held(c)' \subseteq Held(c)
  PROVE  Apart' /\ AllDealt'
<1>1. Apart'
  BY DEF Apart
<1>2. \A k : Dealt(k)' <=> Dealt(k)
  BY DEF Dealt
<1>3. AllDealt'
  BY <1>2 DEF AllDealt
<1> QED
  BY <1>1, <1>3

LEMMA ListStays ==
  ASSUME UNCHANGED currentRoundMessages
  PROVE  /\ \A c \in Clients : Added(c)' = Added(c)
         /\ Entries => Entries'
<1>1. \A c \in Clients : Added(c)' = Added(c)
  BY DEF Added, FromClient
<1>2. Entries => Entries'
  BY DEF Entries
<1> QED
  BY <1>1, <1>2

-----------------------------------------------------------------------------
\* The steps that move the keyset of the round, for the thread's own client.

\* A keyset that no output was made with is distinct from those of all outputs.
LEMMA UnusedKeySet ==
  ASSUME TypeOK, Apart, NEW t \in Clients, keySet[t] # Null, keySet[t] \notin Added(t),
         NEW i \in DOMAIN currentRoundMessages, currentRoundMessages[i] # Null
  PROVE  currentRoundMessages[i].keys # keySet[t]
<1>1. currentRoundMessages[i] \in Message
  BY DEF TypeOK, SharedTypeOK, Results
<1> DEFINE d == currentRoundMessages[i].from
<1>2. d \in Clients /\ currentRoundMessages[i].keys \in Added(d)
  BY <1>1 DEF Message, Added, FromClient
<1>3. currentRoundMessages[i].keys \in Held(d) /\ keySet[t] \in Held(t)
  BY <1>2 DEF Held
<1> QED
  BY <1>2, <1>3 DEF Apart

LEMMA NextIsFresh ==
  ASSUME TypeOK, AllDealt
  PROVE  /\ NextKeySet \in KeySet /\ NextKeySet # Null /\ ~Dealt(NextKeySet)
         /\ getKeySet => \A k : Dealt(k) \/ k = NextKeySet => Dealt(k)'
         /\ \A c \in Clients : NextKeySet \notin Held(c)
<1>1. generation \in Nat /\ keysDistributed \in 0 .. N
  BY DEF TypeOK, SharedTypeOK
<1>2. NextKeySet \in KeySet
  BY <1>1, NAssumption DEF NextKeySet, KeysExhausted, KeySet, Clients
<1>3. NextKeySet # Null
  BY <1>2, NullAssumption
<1>4. ~Dealt(NextKeySet)
  BY <1>1 DEF NextKeySet, KeysExhausted, Dealt
<1>5. ASSUME getKeySet, NEW k, k = NextKeySet PROVE Dealt(k)'
  BY <1>1, <1>2, <1>5, NAssumption DEF getKeySet, NextKeySet, KeysExhausted, Dealt
<1>6. ASSUME getKeySet, NEW k, Dealt(k) PROVE Dealt(k)'
  BY <1>1, <1>6, NAssumption DEF getKeySet, NextKeySet, KeysExhausted, Dealt, KeySet, Clients
<1>7. \A c \in Clients : NextKeySet \notin Held(c)
  BY <1>3, <1>4 DEF AllDealt
<1> QED
  BY <1>2, <1>3, <1>4, <1>5, <1>6, <1>7

LEMMA GetKeySetKeys ==
  ASSUME TypeOK, KeyInv, NEW t \in Clients, GetKeySet(t), UNCHANGED clientVars
  PROVE  Passed(t)' /\ Fresh(t)' /\ Apart' /\ AllDealt'
<1> USE DEF KeyInv
<1>1. PICK k \in {NextKeySet, Null} : keySet' = [keySet EXCEPT ![t] = k]
  BY DEF GetKeySet
<1>2. /\ keySet'[t] = k /\ \A c \in Clients : c # t => keySet'[c] = keySet[c]
      /\ pc[t] = "getKeySet" /\ pc'[t] = "sendKeys" /\ getKeySet
      /\ UNCHANGED <<s2c, c2s, cpc, ckeys, currentRoundMessages>>
  BY <1>1 DEF GetKeySet, getKeySet, Step, At, Goto, TypeOK, ThreadTypeOK, connVars, clientVars
<1>3. \A c \in Clients : Added(c)' = Added(c)
  BY <1>2, ListStays
<1>4. Passed(t)'
  BY <1>2 DEF Passed, OnTheWay, WithClient, ComesBack
<1>5. Null \notin Added(t)
  BY DEF Entries, Added, FromClient
<1>6. k \notin Added(t)
  BY <1>5, NextIsFresh DEF Held
<1>7. Fresh(t)'
  BY <1>2, <1>3, <1>6 DEF Fresh
<1>8. Held(t)' \subseteq Held(t) \cup {k} /\ \A c \in Clients : c # t => Held(c)' = Held(c)
  BY <1>2, <1>3 DEF Held
<1>9. Apart'
  BY <1>8, NextIsFresh DEF Apart
<1>10. AllDealt'
  <2>1. k = Null \/ Dealt(k)'
    BY <1>2, NextIsFresh
  <2>2. \A j : Dealt(j) => Dealt(j)'
    BY <1>2, NextIsFresh
  <2> QED
    BY <1>8, <2>1, <2>2 DEF AllDealt
<1> QED
  BY <1>4, <1>7, <1>9, <1>10

LEMMA SendKeysKeys ==
  ASSUME TypeOK, KeyInv, NEW t \in Clients, ConnectionOK(t), SendKeys(t), UNCHANGED clientVars
  PROVE  Passed(t)' /\ Fresh(t)'
<1> DEFINE o == KeySetObject(keySet[t])
<1>1. /\ pc[t] = "sendKeys" /\ pc'[t] = "keysAck" /\ SendToClient(t, o)
      /\ UNCHANGED <<c2s, cpc, ckeys, keySet, output, currentRoundMessages>>
  BY DEF SendKeys, Step, At, Goto, TypeOK, ThreadTypeOK, clientVars, sharedVars
<1>2. o \in ServerObject /\ o.keys = keySet[t]
  BY ServerObjects DEF TypeOK, ThreadTypeOK, KeySetObject
<1> HIDE DEF o
<1>3. Passed(t) /\ Fresh(t) /\ Added(t)' = Added(t)
  BY <1>1, ListStays DEF KeyInv
<1>4. c2s'[t] = <<>>
  BY <1>1 DEF ConnectionOK, RepliesOK
<1>5. \A i \in DOMAIN s2c[t] : s2c[t][i].class # "KeySet"
  BY <1>1, <1>3 DEF Passed, OnTheWay
<1>6. OnTheWay(t)'
  <2>1. /\ s2c[t] \in Seq(ServerObject) /\ s2c'[t] = Append(s2c[t], o)
    BY <1>1 DEF SendToClient, TypeOK, ConnTypeOK
  <2>2. /\ DOMAIN s2c'[t] = 1 .. Len(s2c[t]) + 1 /\ Len(s2c[t]) \in Nat
        /\ \A i \in 1 .. Len(s2c[t]) : i \in DOMAIN s2c[t] /\ s2c'[t][i] = s2c[t][i]
        /\ s2c'[t][Len(s2c[t]) + 1] = o
    BY <1>2, <2>1
  <2>3. \A i \in DOMAIN s2c'[t] : s2c'[t][i].class = "KeySet" => i = Len(s2c[t]) + 1
    BY <1>5, <2>2
  <2> QED
    BY <1>1, <1>2, <1>4, <2>2, <2>3 DEF OnTheWay
<1>7. WithClient(t)' /\ ComesBack(t)'
  BY <1>1, <1>3 DEF Passed, WithClient, ComesBack
<1>8. Fresh(t)'
  BY <1>1, <1>3 DEF Fresh
<1> QED
  BY <1>6, <1>7, <1>8 DEF Passed

LEMMA RoundKeys ==
  ASSUME TypeOK, KeyInv, NEW t \in Clients, ConnectionOK(t), UNCHANGED clientVars,
         ReceiveKeysAck(t) \/ SendStartRound(t) \/ ReceiveOutput(t)
  PROVE  Passed(t)' /\ Fresh(t)'
<1>1. UNCHANGED <<cpc, ckeys, keySet, currentRoundMessages>>
  BY DEF ReceiveKeysAck, SendStartRound, ReceiveOutput, clientVars, sharedVars
<1>2. Passed(t) /\ Fresh(t) /\ Added(t)' = Added(t)
  BY <1>1, ListStays DEF KeyInv
<1>3. CASE ReceiveKeysAck(t)
  <2>1. /\ pc[t] = "keysAck" /\ pc'[t] \in {"keysAck", "startRound"} /\ c2s[t] # <<>>
        /\ UNCHANGED <<s2c, output>>
    BY <1>3 DEF ReceiveKeysAck, At, Goto, CanReceiveFrom, TypeOK, ThreadTypeOK
  <2>2. OnTheWay(t)'
    BY <1>1, <1>2, <2>1 DEF Passed, OnTheWay
  <2>3. WithClient(t)' /\ ComesBack(t)' /\ Fresh(t)'
    BY <1>1, <1>2, <2>1 DEF Passed, WithClient, ComesBack, Fresh
  <2> QED
    BY <2>2, <2>3 DEF Passed
<1>4. CASE SendStartRound(t)
  <2> DEFINE o == MessageObject(START_ROUND)
  <2>1. /\ pc[t] = "startRound" /\ pc'[t] = "output" /\ SendToClient(t, o)
        /\ UNCHANGED <<c2s, output>>
    BY <1>4 DEF SendStartRound, Step, At, Goto, TypeOK, ThreadTypeOK
  <2>2. o \in ServerObject /\ o.class # "KeySet"
    BY ServerObjects, ObjectKinds
  <2> HIDE DEF o
  <2>3. c2s[t] = <<>>
    BY <2>1 DEF ConnectionOK, RepliesOK
  <2>4. OnTheWay(t)'
    BY <1>2, <2>1, <2>2, Sent2c DEF Passed, OnTheWay
  <2>5. WithClient(t)' /\ ComesBack(t)' /\ Fresh(t)'
    BY <1>1, <1>2, <2>1, <2>3 DEF Passed, WithClient, ComesBack, Fresh
  <2> QED
    BY <2>4, <2>5 DEF Passed
<1>5. CASE ReceiveOutput(t)
  <2>1. /\ pc[t] = "output" /\ pc'[t] \in {"shutdown", "addOutput"} /\ c2s[t] # <<>>
        /\ output'[t] = MessageFrom(t) /\ UNCHANGED s2c
    BY <1>5 DEF ReceiveOutput, At, Goto, CanReceiveFrom, TypeOK, ThreadTypeOK
  <2>2. OnTheWay(t)'
    BY <1>2, <2>1 DEF Passed, OnTheWay
  <2>3. InOutput(t, MessageFrom(t)) /\ cpc[t] # "start"
    BY <1>2, <2>1 DEF Passed, WithClient, ComesBack
  <2>4. WithClient(t)' /\ ComesBack(t)' /\ Fresh(t)'
    BY <1>1, <1>2, <2>1, <2>3 DEF Passed, WithClient, ComesBack, InOutput, Fresh
  <2> QED
    BY <2>2, <2>4 DEF Passed
<1> QED
  BY <1>3, <1>4, <1>5

-----------------------------------------------------------------------------
\* The list of outputs.

LEMMA AddOutputBeginKeys ==
  ASSUME TypeOK, KeyInv, NEW t \in Clients, AddOutputBegin(t), UNCHANGED clientVars
  PROVE  /\ Passed(t)' /\ Fresh(t)' /\ Entries'
         /\ \A c \in Clients : Added(c)' \subseteq Added(c)
<1> DEFINE list == currentRoundMessages
<1>1. /\ pc[t] = "addOutput" /\ pc'[t] = "adding" /\ list' = Append(list, Null)
      /\ UNCHANGED <<s2c, c2s, cpc, ckeys, keySet, output>>
  BY DEF AddOutputBegin, addOutputBegin, Step, At, Goto, TypeOK, ThreadTypeOK, connVars,
         clientVars
<1>2. list \in Seq(Message \cup {Null})
  BY DEF TypeOK, SharedTypeOK, Results
<1>3. \A i \in DOMAIN list' : list'[i] # Null => i \in DOMAIN list /\ list'[i] = list[i]
  BY <1>1, <1>2
<1>4. \A c \in Clients : Added(c)' \subseteq Added(c)
  BY <1>3 DEF Added, FromClient
<1>5. Entries'
  BY <1>3 DEF KeyInv, Entries
<1>6. Passed(t)' /\ Fresh(t)'
  <2>1. Passed(t) /\ Fresh(t)
    BY DEF KeyInv
  <2>2. OnTheWay(t)' /\ WithClient(t)' /\ ComesBack(t)'
    BY <1>1, <2>1 DEF Passed, OnTheWay, WithClient, ComesBack, InOutput
  <2>3. Fresh(t)'
    BY <1>1, <1>4, <2>1 DEF Fresh
  <2> QED
    BY <2>2, <2>3 DEF Passed
<1> QED
  BY <1>4, <1>5, <1>6

LEMMA AddOutputEndKeys ==
  ASSUME TypeOK, KeyInv, NEW t \in Clients, AddOutputEnd(t), UNCHANGED clientVars
  PROVE  /\ Passed(t)' /\ Fresh(t)' /\ Entries'
         /\ \A c \in Clients : Added(c)' \subseteq
              IF c = t THEN Added(c) \cup {keySet[c]} ELSE Added(c)
<1> DEFINE list == currentRoundMessages
           n == Len(list)
<1>1. /\ pc[t] = "adding" /\ pc'[t] = "collect"
      /\ list' = [list EXCEPT ![n] = output[t]]
      /\ UNCHANGED <<s2c, c2s, cpc, ckeys, keySet>>
  BY DEF AddOutputEnd, addOutputEnd, Step, At, Goto, TypeOK, ThreadTypeOK, connVars,
         clientVars
<1>2. list \in Seq(Message \cup {Null})
  BY DEF TypeOK, SharedTypeOK, Results
<1>3. /\ DOMAIN list' = DOMAIN list
      /\ \A i \in DOMAIN list : list'[i] = list[i] \/ (i = n /\ list'[i] = output[t])
  BY <1>1, <1>2
<1>4. Passed(t) /\ Fresh(t) /\ InOutput(t, output[t])
  BY <1>1 DEF KeyInv, Passed, ComesBack
<1>5. \A c \in Clients : Added(c)' \subseteq
              IF c = t THEN Added(c) \cup {keySet[c]} ELSE Added(c)
  <2> SUFFICES ASSUME NEW c \in Clients, NEW i \in DOMAIN list, list'[i] # Null,
                      list'[i].from = c
               PROVE  \/ list'[i].keys \in Added(c)
                      \/ c = t /\ list'[i].keys = keySet[c]
    BY <1>3 DEF Added, FromClient
  <2> QED
    BY <1>3, <1>4 DEF Added, FromClient, InOutput
<1>6. \A i \in DOMAIN list : list[i] # Null => list[i].keys # keySet[t]
  BY <1>1, <1>4, UnusedKeySet DEF KeyInv, Fresh, InOutput
<1>7. Entries'
  <2>1. \A i \in DOMAIN list : list'[i] # Null => list'[i].keys # Null
    BY <1>3, <1>4 DEF KeyInv, Entries, InOutput
  <2>2. ASSUME NEW i \in DOMAIN list, NEW j \in DOMAIN list, i # j, list'[i] # Null,
               list'[j] # Null
        PROVE  list'[i].keys # list'[j].keys
    <3>1. \/ list'[i] = list[i] /\ list'[j] = list[j]
          \/ list'[i] = output[t] /\ list'[j] = list[j]
          \/ list'[i] = list[i] /\ list'[j] = output[t]
      BY <1>3, <2>2
    <3> QED
      BY <1>4, <1>6, <2>2, <3>1 DEF KeyInv, Entries, InOutput
  <2> QED
    BY <1>3, <2>1, <2>2 DEF Entries
<1>8. Passed(t)' /\ Fresh(t)'
  <2>1. OnTheWay(t)' /\ WithClient(t)' /\ ComesBack(t)' /\ Fresh(t)'
    BY <1>1, <1>4 DEF Passed, OnTheWay, WithClient, ComesBack, Fresh
  <2> QED
    BY <2>1 DEF Passed
<1> QED
  BY <1>5, <1>7, <1>8

-----------------------------------------------------------------------------
\* A step of a thread.

\* What the step does to the list.
LEMMA ThreadListStep ==
  ASSUME TypeOK, KeyInv, NEW t \in Clients, ThreadStep(t) \/ WakeSpuriously(t),
         UNCHANGED clientVars
  PROVE  /\ Entries'
         /\ \A c \in Clients : Added(c)' \subseteq
              IF c = t /\ AddOutputEnd(t) THEN Added(c) \cup {keySet[c]} ELSE Added(c)
<1>1. CASE AddOutputBegin(t)
  BY <1>1, AddOutputBeginKeys
<1>2. CASE AddOutputEnd(t)
  BY <1>2, AddOutputEndKeys
<1>3. CASE ResetRound(t)
  <2>1. currentRoundMessages' = <<>>
    BY <1>3 DEF ResetRound
  <2> QED
    BY <2>1 DEF Entries, Added, FromClient
<1>4. CASE ~AddOutputBegin(t) /\ ~AddOutputEnd(t) /\ ~ResetRound(t)
  <2>1. UNCHANGED currentRoundMessages
    BY <1>4 DEF ThreadStep, WakeSpuriously, GenerateBegin, GenerateEnd, GenerateFails,
         GetKeySet, getKeySet, SendKeys, ReceiveKeysAck, SendStartRound, ReceiveOutput,
         Collect, Resume, ReadSize, SendResults, ReceiveResultsAck, Sent, SendShutdown,
         WritesCollide, ExitServer, LoseClient, sharedVars
  <2> QED
    BY <2>1, ListStays DEF KeyInv
<1> QED
  BY <1>1, <1>2, <1>3, <1>4

\* What the step does to the keysets that are held.
LEMMA ThreadHoldingsStep ==
  ASSUME TypeOK, KeyInv, NEW t \in Clients, ThreadStep(t) \/ WakeSpuriously(t),
         UNCHANGED clientVars
  PROVE  Apart' /\ AllDealt'
<1>1. CASE GetKeySet(t)
  BY <1>1, GetKeySetKeys
<1>2. CASE ~GetKeySet(t)
  <2>1. UNCHANGED <<generation, keysDistributed, keySet, ckeys>>
    BY <1>2 DEF ThreadStep, WakeSpuriously, GenerateBegin, GenerateEnd, GenerateFails,
         SendKeys, ReceiveKeysAck, SendStartRound, ReceiveOutput, AddOutputBegin,
         addOutputBegin, AddOutputEnd, addOutputEnd,
         Collect, Resume, ReadSize, SendResults, ReceiveResultsAck, Sent, ResetRound,
         SendShutdown, WritesCollide, ExitServer, LoseClient, sharedVars, threadVars,
         clientVars
  <2>2. \A c \in Clients : Held(c)' \subseteq Held(c)
    BY <2>1, ThreadListStep DEF Held
  <2> QED
    BY <2>1, <2>2, HoldingsStay DEF KeyInv
<1> QED
  BY <1>1, <1>2

\* SHUTDOWN sent to another client: no stream gets a keyset.
LEMMA ShutdownKeys ==
  ASSUME TypeOK, KeyInv, NEW t \in Clients, SendShutdown(t) \/ WritesCollide(t),
         UNCHANGED clientVars, NEW c \in Clients
  PROVE  Passed(c)' /\ Fresh(c)'
<1>1. PICK o \in ServerObject : SendToClient(notified[t], o) /\ o.class # "KeySet"
  BY ServerObjects, ObjectKinds DEF SendShutdown, WritesCollide, MessageObject, Garbled
<1>2. UNCHANGED <<c2s, cpc, ckeys, keySet, output, currentRoundMessages>>
  BY DEF SendShutdown, WritesCollide, clientVars, sharedVars
<1>3. notified[t] \in Clients
  <2>1. notified[t] < N /\ notified[t] \in 0 .. N
    BY DEF SendShutdown, WritesCollide, TypeOK, ThreadTypeOK
  <2> QED
    BY <2>1, NAssumption DEF Clients
<1>4. \A i \in DOMAIN s2c'[c] : s2c'[c][i].class = "KeySet" =>
        i \in DOMAIN s2c[c] /\ s2c'[c][i] = s2c[c][i]
  <2>1. CASE c = notified[t]
    BY <1>1, <2>1, Sent2c
  <2>2. CASE c # notified[t]
    BY <1>1, <1>3, <2>2 DEF SendToClient, TypeOK, ConnTypeOK
  <2> QED
    BY <2>1, <2>2
<1>5. \/ pc'[c] = pc[c]
      \/ pc[c] \in {"sendKeys", "startRound", "copying", "shutdown"} /\ pc'[c] = "dead"
  <2>1. CASE SendShutdown(t)
    BY <2>1 DEF SendShutdown
  <2>2. CASE WritesCollide(t)
    <3>1. PICK u \in Clients \ {t} :
            /\ Writing(u, notified[t])
            /\ \E broken \in SUBSET {t, u} :
                 pc' = [x \in Clients |-> IF x \in broken THEN "dead" ELSE pc[x]]
      BY <2>2 DEF WritesCollide
    <3>2. \A x \in {t, u} : pc[x] \in {"sendKeys", "startRound", "copying", "shutdown"}
      BY <2>2, <3>1 DEF WritesCollide, Writing, At
    <3> QED
      BY <3>1, <3>2
  <2> QED
    BY <2>1, <2>2
<1>6. Added(c)' = Added(c) /\ Passed(c) /\ Fresh(c)
  BY <1>2, ListStays DEF KeyInv
<1> QED
  BY <1>2, <1>4, <1>5, <1>6, PassedStays DEF Loose

\* The steps of a thread that has no keyset under way.
LEMMA LooseKeys ==
  ASSUME TypeOK, KeyInv, NEW t \in Clients, UNCHANGED clientVars,
         \/ GenerateBegin(t) \/ GenerateEnd(t) \/ GenerateFails(t) \/ Collect(t)
         \/ Resume(t) \/ ReadSize(t) \/ SendResults(t) \/ ReceiveResultsAck(t) \/ Sent(t)
         \/ ResetRound(t) \/ ExitServer(t) \/ LoseClient(t) \/ WakeSpuriously(t),
         ~AddOutputEnd(t)
  PROVE  Passed(t)' /\ Fresh(t)'
<1>1. Added(t)' \subseteq Added(t) /\ Passed(t) /\ Fresh(t)
  BY ThreadListStep DEF KeyInv, ThreadStep
<1>2. UNCHANGED <<cpc, ckeys, keySet, output>>
  BY DEF GenerateBegin, GenerateEnd, GenerateFails, Collect, Resume, ReadSize, SendResults,
         ReceiveResultsAck, Sent, ResetRound, ExitServer, LoseClient, WakeSpuriously,
         threadVars, clientVars
<1>3. /\ \/ pc'[t] = pc[t]
         \/ pc[t] \in (Loose \cup {"sendKeys"}) \ {"dead"} /\ pc'[t] \in Loose
      /\ c2s'[t] = c2s[t] \/ pc'[t] \in Loose
  BY DEF GenerateBegin, GenerateEnd, GenerateFails, Collect, Resume, ReadSize, SendResults,
         ReceiveResultsAck, Sent, ResetRound, ExitServer, LoseClient, WakeSpuriously,
         threadVars, connVars, At, Goto, Step, TypeOK, ThreadTypeOK, Loose, Startup
<1>4. \A i \in DOMAIN s2c'[t] : s2c'[t][i].class = "KeySet" =>
        i \in DOMAIN s2c[t] /\ s2c'[t][i] = s2c[t][i]
  <2>1. CASE SendResults(t)
    <3>1. PICK S \in Nulled : SendToClient(t, ResultsObject(CopyOf(size[t], S)))
      BY <2>1 DEF SendResults
    <3>2. CopyOf(size[t], S) \in Results
      <4>1. size[t] \in Nat /\ currentRoundMessages \in Seq(Message \cup {Null})
        BY DEF TypeOK, ThreadTypeOK, SharedTypeOK, Results
      <4> QED
        BY <4>1 DEF CopyOf, Results
    <3>3. ResultsObject(CopyOf(size[t], S)) \in ServerObject
      BY <3>2, ServerObjects
    <3>4. ResultsObject(CopyOf(size[t], S)).class # "KeySet"
      BY ObjectKinds
    <3> QED
      BY <3>1, <3>3, <3>4, Sent2c
  <2>2. CASE ~SendResults(t)
    <3>1. s2c' = s2c
      BY <2>2 DEF GenerateBegin, GenerateEnd, GenerateFails, Collect, Resume, ReadSize,
           ReceiveResultsAck, Sent, ResetRound, ExitServer, LoseClient, WakeSpuriously,
           connVars
    <3> QED
      BY <3>1
  <2> QED
    BY <2>1, <2>2
<1> QED
  BY <1>1, <1>2, <1>3, <1>4, PassedStays

LEMMA ThreadKeyStep ==
  ASSUME TypeOK, SessionInv, KeyInv, NEW t \in Clients,
         ThreadStep(t) \/ WakeSpuriously(t), UNCHANGED clientVars
  PROVE  KeyInv'
<1>1. Entries' /\ Apart' /\ AllDealt'
  BY ThreadListStep, ThreadHoldingsStep
<1> SUFFICES ASSUME NEW c \in Clients PROVE Passed(c)' /\ Fresh(c)'
  BY <1>1 DEF KeyInv
<1>2. CASE SendShutdown(t) \/ WritesCollide(t)
  BY <1>2, ShutdownKeys
<1>3. CASE c = t /\ ~SendShutdown(t) /\ ~WritesCollide(t)
  <2>1. ConnectionOK(t)
    BY DEF SessionInv
  <2> QED
    BY <1>3, <2>1, GetKeySetKeys, SendKeysKeys, RoundKeys, AddOutputBeginKeys,
       AddOutputEndKeys, LooseKeys DEF ThreadStep
<1>4. CASE c # t /\ ~SendShutdown(t) /\ ~WritesCollide(t)
  <2>1. /\ s2c'[c] = s2c[c] /\ c2s'[c] = c2s[c] /\ keySet'[c] = keySet[c]
        /\ output'[c] = output[c] /\ pc'[c] = pc[c] /\ UNCHANGED <<cpc, ckeys>>
    BY <1>4 DEF TypeOK, ConnTypeOK, ThreadTypeOK, ThreadStep, WakeSpuriously, GenerateBegin,
         GenerateEnd, GenerateFails, GetKeySet, SendKeys, ReceiveKeysAck, SendStartRound,
         ReceiveOutput, AddOutputBegin, AddOutputEnd, Collect, Resume, ReadSize, SendResults,
         ReceiveResultsAck, Sent, ResetRound, ExitServer, LoseClient, SendToClient,
         ReceiveFrom, At, Goto, Step, connVars, threadVars, clientVars
  <2>2. Added(c)' \subseteq Added(c) /\ Passed(c) /\ Fresh(c)
    BY <1>4, ThreadListStep DEF KeyInv
  <2> QED
    BY <2>1, <2>2, PassedStays
<1> QED
  BY <1>2, <1>3, <1>4

-----------------------------------------------------------------------------
\* A step of a client.

\* The rest of a stream after a read, or a stream nothing was read from.
LEMMA RestOnTheWay ==
  ASSUME TypeOK, NEW c \in Clients, OnTheWay(c),
         \/ s2c'[c] = s2c[c]
         \/ s2c'[c] = <<>>
         \/ s2c[c] # <<>> /\ Receive(c),
         UNCHANGED <<keySet, pc>>, c2s'[c] = c2s[c] \/ pc[c] # "keysAck"
  PROVE  OnTheWay(c)'
<1>1. CASE s2c'[c] = s2c[c]
  BY <1>1 DEF OnTheWay
<1>2. CASE s2c'[c] = <<>>
  BY <1>2 DEF OnTheWay
<1>3. CASE s2c[c] # <<>> /\ Receive(c)
  <2>1. /\ s2c[c] \in Seq(ServerObject) /\ s2c'[c] = Tail(s2c[c])
    BY <1>3 DEF Receive, TypeOK, ConnTypeOK
  <2>2. /\ \A i \in DOMAIN s2c'[c] : i + 1 \in DOMAIN s2c[c] /\ s2c'[c][i] = s2c[c][i + 1]
        /\ \A i \in DOMAIN s2c'[c] : i \in Nat
    BY <1>3, <2>1, Reading
  <2>3. SUFFICES ASSUME NEW i \in DOMAIN s2c'[c], s2c'[c][i].class = "KeySet"
                 PROVE  /\ s2c[c][i + 1].keys = keySet[c] /\ pc[c] = "keysAck"
                        /\ c2s[c] = <<>>
                        /\ \A j \in DOMAIN s2c'[c] : s2c'[c][j].class = "KeySet" => i = j
    BY <2>2 DEF OnTheWay
  <2>4. /\ i + 1 \in DOMAIN s2c[c] /\ s2c[c][i + 1].class = "KeySet"
    BY <2>2, <2>3
  <2>5. ASSUME NEW j \in DOMAIN s2c'[c], s2c'[c][j].class = "KeySet" PROVE i = j
    <3>1. j + 1 \in DOMAIN s2c[c] /\ s2c[c][j + 1].class = "KeySet"
      BY <2>2, <2>5
    <3>2. i + 1 = j + 1
      BY <2>4, <3>1 DEF OnTheWay
    <3> QED
      BY <2>2, <3>2
  <2> QED
    BY <2>4, <2>5 DEF OnTheWay
<1> QED
  BY <1>1, <1>2, <1>3

\* The client stops, or is past the round, or goes back to wait for keys.
LEMMA PastKeys ==
  ASSUME TypeOK, NEW c \in Clients, Passed(c), Fresh(c),
         \/ s2c'[c] = s2c[c]
         \/ s2c'[c] = <<>>
         \/ s2c[c] # <<>> /\ Receive(c),
         c2s'[c] = c2s[c] \/ pc[c] \notin {"keysAck", "output"},
         UNCHANGED <<sharedVars, threadVars>>, cpc'[c] # "start"
  PROVE  Passed(c)' /\ Fresh(c)'
<1>1. UNCHANGED <<keySet, pc, output, currentRoundMessages>>
  BY DEF sharedVars, threadVars
<1>2. Added(c)' = Added(c)
  BY <1>1, ListStays
<1>3. OnTheWay(c)'
  BY <1>1, RestOnTheWay DEF Passed
<1>4. WithClient(c)' /\ ComesBack(c)' /\ Fresh(c)'
  BY <1>1, <1>2 DEF Passed, WithClient, ComesBack, InOutput, MessageFrom, Fresh
<1> QED
  BY <1>3, <1>4 DEF Passed

LEMMA ReceiveKeySetKeys ==
  ASSUME TypeOK, KeyInv, NEW c \in Clients, ReceiveKeySet(c),
         UNCHANGED <<sharedVars, threadVars>>
  PROVE  Passed(c)' /\ Fresh(c)' /\ ckeys'[c] = keySet[c]
<1>1. UNCHANGED <<keySet, pc, output, currentRoundMessages>>
  BY DEF sharedVars, threadVars
<1>2. Added(c)' = Added(c) /\ Passed(c) /\ Fresh(c)
  BY <1>1, ListStays DEF KeyInv
<1>3. /\ s2c[c] \in Seq(ServerObject) /\ s2c[c] # <<>> /\ s2c'[c] = Tail(s2c[c])
      /\ NextObject(c).class = "KeySet" /\ ckeys'[c] = NextObject(c).keys
      /\ cpc'[c] = IF NextObject(c).keys = Null THEN "gone" ELSE "start"
  BY DEF ReceiveKeySet, Reads, CanReceive, Receive, Become, Leave, TypeOK, ConnTypeOK,
         ClientTypeOK
<1>4. 1 \in DOMAIN s2c[c] /\ NextObject(c) = s2c[c][1]
  BY <1>3 DEF NextObject
<1>5. /\ ckeys'[c] = keySet[c] /\ pc[c] = "keysAck"
      /\ \A i \in DOMAIN s2c[c] : s2c[c][i].class = "KeySet" => i = 1
  BY <1>2, <1>3, <1>4 DEF Passed, OnTheWay
<1>6. OnTheWay(c)'
  <2>1. \A i \in DOMAIN s2c'[c] : i + 1 \in DOMAIN s2c[c] /\ s2c'[c][i] = s2c[c][i + 1]
    BY <1>3, Reading
  <2>2. \A i \in DOMAIN s2c'[c] : i \in Nat /\ i # 0
    BY <1>3
  <2>3. \A i \in DOMAIN s2c'[c] : s2c'[c][i].class # "KeySet"
    BY <1>5, <2>1, <2>2
  <2> QED
    BY <2>3 DEF OnTheWay
<1>7. WithClient(c)' /\ ComesBack(c)' /\ Fresh(c)'
  BY <1>1, <1>2, <1>3, <1>4, <1>5 DEF Passed, OnTheWay, WithClient, ComesBack, Fresh
<1> QED
  BY <1>5, <1>6, <1>7 DEF Passed

LEMMA TransmitKeys ==
  ASSUME TypeOK, KeyInv, NEW c \in Clients, ConnectionOK(c), Transmit(c),
         UNCHANGED <<sharedVars, threadVars>>
  PROVE  Passed(c)' /\ Fresh(c)'
<1>1. UNCHANGED <<keySet, pc, output, currentRoundMessages>>
  BY DEF sharedVars, threadVars
<1>2. Added(c)' = Added(c) /\ Passed(c) /\ Fresh(c)
  BY <1>1, ListStays DEF KeyInv
<1>3. PICK x \in OutputTexts : SendToServer(c, ClientMessage(c, x, ckeys[c]))
  BY DEF Transmit
<1>4. /\ cpc[c] = "start" /\ s2c[c] # <<>> /\ NextObject(c).class = "Message"
      /\ NextObject(c).text = START_ROUND /\ Receive(c) /\ cpc'[c] = "results"
  BY DEF Transmit, Reads, CanReceive, Become, TypeOK, ClientTypeOK
<1>5. pc[c] = "output" /\ c2s[c] = <<>>
  BY <1>4, NextIsAwaited DEF AwaitedOK, Running, Shutdown, START_ROUND, SHUTDOWN
<1>6. ckeys[c] = keySet[c] /\ keySet[c] # Null
  BY <1>2, <1>4 DEF Passed, WithClient
<1> DEFINE m == ClientMessage(c, x, ckeys[c])
<1>7. m \in Message /\ m.keys = ckeys[c] /\ m.from = c
  BY DEF ClientMessage, Message, OutputTexts, TypeOK, ClientTypeOK
<1>8. m # Null
  BY <1>7, NullAssumption
<1> HIDE DEF m
<1>9. MessageFrom(c)' = m
  BY <1>3, <1>5, <1>7, AfterReply DEF m
<1>10. OnTheWay(c)'
  BY <1>1, <1>2, <1>4, <1>5, RestOnTheWay DEF Passed
<1>11. WithClient(c)' /\ ComesBack(c)' /\ Fresh(c)'
  BY <1>1, <1>2, <1>4, <1>5, <1>6, <1>7, <1>8, <1>9
     DEF WithClient, ComesBack, InOutput, Fresh
<1> QED
  BY <1>10, <1>11 DEF Passed

LEMMA ClientKeyStep ==
  ASSUME TypeOK, SessionInv, KeyInv, NEW c \in Clients,
         ClientStep(c) \/ InputExhausted(c) \/ CloseWindow(c),
         UNCHANGED <<sharedVars, threadVars>>
  PROVE  KeyInv'
<1>1. UNCHANGED <<keySet, pc, output, currentRoundMessages, generation, keysDistributed>>
  BY DEF sharedVars, threadVars
<1>2. /\ ConnectionOK(c) /\ Passed(c) /\ Fresh(c)
      /\ Entries' /\ \A d \in Clients : Added(d)' = Added(d)
  BY <1>1, ListStays DEF SessionInv, KeyInv
<1>3. Passed(c)' /\ Fresh(c)'
  <2>1. CASE ReceiveKeySet(c) \/ Transmit(c)
    BY <1>2, <2>1, ReceiveKeySetKeys, TransmitKeys
  <2>2. CASE ReceiveResults(c)
    <3>1. /\ cpc[c] = "results" /\ s2c[c] # <<>> /\ NextObject(c).class = "ArrayList"
          /\ Receive(c) /\ cpc'[c] \in {"dead", "keys"}
      BY <2>2 DEF ReceiveResults, Reads, CanReceive, Become, TypeOK, ClientTypeOK
    <3>2. pc[c] = "resultsAck"
      BY <1>2, <3>1, NextIsAwaited DEF AwaitedOK, Running, Shutdown
    <3> QED
      BY <1>2, <3>1, <3>2, PastKeys
  <2>3. CASE \/ ReceiveShutdown(c) \/ EmptyResults(c) \/ CastFails(c) \/ ReadGarbled(c)
             \/ ReadFails(c) \/ WriteFails(c) \/ InputExhausted(c) \/ CloseWindow(c)
    <3>1. c2s' = c2s /\ cpc'[c] # "start"
      BY <2>3 DEF ReceiveShutdown, EmptyResults, CastFails, ReadGarbled, ReadFails,
           WriteFails, InputExhausted, CloseWindow, Become, Leave, connVars, TypeOK,
           ClientTypeOK
    <3>2. \/ s2c'[c] = s2c[c]
          \/ s2c'[c] = <<>>
          \/ s2c[c] # <<>> /\ Receive(c)
      BY <2>3 DEF ReceiveShutdown, EmptyResults, CastFails, ReadGarbled, ReadFails,
           WriteFails, Answers, InputExhausted, CloseWindow, Reads, CanReceive, connVars,
           TypeOK, ConnTypeOK
    <3> QED
      BY <1>2, <3>1, <3>2, PastKeys
  <2> QED
    BY <2>1, <2>2, <2>3 DEF ClientStep
<1>4. ckeys'[c] \in {ckeys[c], keySet[c]} /\ \A d \in Clients : d # c => ckeys'[d] = ckeys[d]
  <2>1. CASE ReceiveKeySet(c)
    BY <2>1, ReceiveKeySetKeys DEF ReceiveKeySet, TypeOK, ClientTypeOK
  <2>2. CASE ~ReceiveKeySet(c)
    BY <2>2 DEF ClientStep, Transmit, ReceiveResults, ReceiveShutdown, EmptyResults,
         CastFails, ReadGarbled, ReadFails, WriteFails, InputExhausted, CloseWindow
  <2> QED
    BY <2>1, <2>2
<1>5. Apart' /\ AllDealt'
  <2>1. \A d \in Clients : Held(d)' \subseteq Held(d)
    BY <1>1, <1>2, <1>4 DEF Held
  <2> QED
    BY <1>1, <2>1, HoldingsStay DEF KeyInv
<1>6. ASSUME NEW d \in Clients, d # c PROVE Passed(d)' /\ Fresh(d)'
  <2>1. s2c'[d] = s2c[d] /\ c2s'[d] = c2s[d] /\ cpc'[d] = cpc[d]
    BY <1>6 DEF TypeOK, ConnTypeOK, ClientTypeOK, ClientStep, ReceiveKeySet, Transmit,
         ReceiveShutdown, ReceiveResults, EmptyResults, CastFails, ReadGarbled, ReadFails,
         WriteFails, InputExhausted, CloseWindow, connVars, Receive, SendToServer, Become,
         Leave
  <2>2. Passed(d) /\ Fresh(d) /\ ckeys'[d] = ckeys[d] /\ Added(d)' = Added(d)
    BY <1>2, <1>4, <1>6 DEF KeyInv
  <2> QED
    BY <1>1, <2>1, <2>2, PassedStays
<1> QED
  BY <1>2, <1>3, <1>5, <1>6 DEF KeyInv

-----------------------------------------------------------------------------
LEMMA KeysInvariant == Spec => []KeyInv
<1>1. TypeOK /\ SessionInv /\ KeyInv /\ [Next]_vars => KeyInv'
  <2> SUFFICES ASSUME TypeOK, SessionInv, KeyInv, [Next]_vars PROVE KeyInv'
    OBVIOUS
  <2>1. CASE UNCHANGED vars
    <3>1. UNCHANGED <<s2c, c2s, cpc, ckeys, keySet, output, pc, currentRoundMessages,
                      generation, keysDistributed>>
      BY <2>1 DEF vars, connVars, sharedVars, threadVars, clientVars
    <3>2. Entries' /\ \A c \in Clients : Added(c)' = Added(c)
      BY <3>1, ListStays DEF KeyInv
    <3>3. Apart' /\ AllDealt'
      BY <3>1, <3>2, HoldingsStay DEF KeyInv, Held
    <3>4. \A c \in Clients : Passed(c)' /\ Fresh(c)'
      BY <3>1, <3>2, PassedStays DEF KeyInv
    <3> QED
      BY <3>2, <3>3, <3>4 DEF KeyInv
  <2> QED
    BY <2>1, ThreadKeyStep, ClientKeyStep DEF Next
<1> QED
  BY <1>1, InitKeys, TypeCorrect, SessionCorrect, PTL DEF Spec

\* Wherever threads and clients are, no keyset ever enciphers two outputs.
THEOREM KeysUsedOnce == Spec => []OneTime
<1>1. TypeOK /\ KeyInv => OneTime
  <2> SUFFICES ASSUME TypeOK, KeyInv PROVE OneTime
    OBVIOUS
  <2>1. ASSUME NEW c \in Clients, keySet[c] # Null, keySet[c] \notin Added(c)
        PROVE  keySet[c] \notin UsedKeys
    BY <2>1, UnusedKeySet DEF KeyInv, UsedKeys
  <2>2. \A c \in Clients : pc[c] = "addOutput" => output[c].keys \notin UsedKeys
    BY <2>1 DEF KeyInv, Passed, ComesBack, InOutput, Fresh
  <2>3. \A c \in Clients : cpc[c] = "start" => ckeys[c] \notin UsedKeys
    BY <2>1 DEF KeyInv, Passed, WithClient, Fresh
  <2>4. \A c, d \in Clients : c # d /\ ckeys[c] # Null => ckeys[c] # ckeys[d]
    BY DEF KeyInv, Apart, Held
  <2> QED
    BY <2>2, <2>3, <2>4 DEF OneTime, KeyInv, Entries
<1> QED
  BY <1>1, KeysInvariant, TypeCorrect, PTL

-----------------------------------------------------------------------------
(* With the one client of Server.MAXCLIENTS the results are whole.  The    *)
(* thread that collects the outputs is the one that sends and clears them, *)
(* so that it alone says what is in the list.                              *)
OneList ==
  \A t \in Clients :
    /\ pc[t] \in Startup \cup {"getKeySet", "sendKeys", "keysAck", "startRound", "output",
                               "addOutput", "shutdown"} => currentRoundMessages = <<>>
    /\ pc[t] = "adding" => Len(currentRoundMessages) = 1
    /\ pc[t] \in {"collect", "sizing", "copying", "resultsAck", "sent", "clearing"}
         => WholeRound(currentRoundMessages)
    /\ pc[t] = "copying" => size[t] = 1
    /\ pc[t] \notin {"collectWait", "sentWait"}

\* Every list on a stream is whole.
WholeOn(stream) ==
  \A i \in DOMAIN stream : stream[i].class = "ArrayList" => WholeRound(stream[i].list)

OneRound == OneList /\ \A c \in Clients : WholeOn(s2c[c])

LEMMA OneClient ==
  ASSUME N = 1
  PROVE  Clients = {0} /\ Clients \ {0} = {}
BY DEF Clients

\* One output, with keys of its own, is a whole round for one client.
LEMMA OneOutput ==
  ASSUME N = 1, NEW m \in Message, m.keys # Null,
         NEW list, Len(list) = 1, DOMAIN list = {1}, list[1] = m
  PROVE  WholeRound(list)
<1>1. Clients = {0}
  BY OneClient
<1>2. m.keys \in [gen : Nat, idx : {0}]
  BY <1>1 DEF Message, KeySet
<1>3. m.keys = [gen |-> m.keys.gen, idx |-> 0]
  BY <1>2
<1>4. {m.keys} = [gen : {m.keys.gen}, idx : Clients]
  <2>1. ASSUME NEW k \in [gen : {m.keys.gen}, idx : {0}] PROVE k = m.keys
    BY <1>3, <2>1
  <2>2. m.keys \in [gen : {m.keys.gen}, idx : {0}]
    BY <1>3
  <2> QED
    BY <1>1, <2>1, <2>2
<1>5. {list[i].keys.gen : i \in DOMAIN list} = {m.keys.gen}
      /\ {list[i].keys : i \in DOMAIN list} = {m.keys}
  OBVIOUS
<1>6. m # Null
  BY NullAssumption
<1> QED
  BY <1>4, <1>5, <1>6 DEF WholeRound

LEMMA InitOneRound == Init => OneRound
<1> SUFFICES ASSUME Init PROVE OneRound
  OBVIOUS
<1>1. /\ \A c \in Clients : s2c[c] = <<>> /\ pc[c] = "generate"
      /\ currentRoundMessages = <<>>
  BY DEF Init, ConnInit, SharedInit, ThreadInit
<1>2. OneList
  BY <1>1 DEF OneList
<1>3. \A c \in Clients : WholeOn(s2c[c])
  BY <1>1 DEF WholeOn
<1> QED
  BY <1>2, <1>3 DEF OneRound

\* What a step of the one thread does to the list.
LEMMA OneListStep ==
  ASSUME N = 1, TypeOK, KeyInv, OneList, NEW t \in Clients,
         ThreadStep(t) \/ WakeSpuriously(t)
  PROVE  OneList'
<1> DEFINE list == currentRoundMessages
<1>1. /\ pc \in [Clients -> ThreadPC] /\ size \in [Clients -> Nat] /\ noSent \in Nat
      /\ list \in Seq(Message \cup {Null}) /\ output \in [Clients -> Message \cup {Null}]
  BY DEF TypeOK, ThreadTypeOK, SharedTypeOK, Results
<1>2. Clients = {t} /\ Clients \ {t} = {}
  BY OneClient
<1>3. WholeRound(list) => AllCollected /\ Len(list) = 1
  BY DEF WholeRound, AllCollected
<1>4. CASE AddOutputBegin(t)
  <2>1. /\ pc[t] = "addOutput" /\ pc' = [pc EXCEPT ![t] = "adding"]
        /\ list' = Append(list, Null)
    BY <1>4 DEF AddOutputBegin, addOutputBegin, Step, At, Goto
  <2>2. list = <<>>
    BY <2>1 DEF OneList
  <2>3. pc'[t] = "adding" /\ Len(list') = 1
    BY <1>1, <2>1, <2>2
  <2> QED
    BY <1>2, <2>3 DEF OneList, Startup
<1>5. CASE AddOutputEnd(t)
  <2>1. /\ pc[t] = "adding" /\ pc' = [pc EXCEPT ![t] = "collect"]
        /\ list' = [list EXCEPT ![Len(list)] = output[t]]
    BY <1>5 DEF AddOutputEnd, addOutputEnd, Step, At, Goto
  <2>2. Len(list) = 1
    BY <2>1 DEF OneList
  <2>3. output[t] \in Message /\ output[t].keys # Null
    BY <1>1, <2>1 DEF KeyInv, Passed, ComesBack, InOutput
  <2>4. pc'[t] = "collect" /\ Len(list') = 1 /\ DOMAIN list' = {1} /\ list'[1] = output[t]
    BY <1>1, <2>1, <2>2
  <2>5. WholeRound(list')
    BY <2>3, <2>4, OneOutput
  <2> QED
    BY <1>2, <2>4, <2>5 DEF OneList, Startup
<1>6. CASE ResetRound(t)
  <2>1. pc'[t] = "getKeySet" /\ list' = <<>>
    BY <1>1, <1>6 DEF ResetRound, Step, Goto
  <2> QED
    BY <1>2, <2>1 DEF OneList, Startup
<1>7. CASE ReadSize(t)
  <2>1. /\ pc[t] = "sizing" /\ pc'[t] = "copying" /\ UNCHANGED list /\ size'[t] = Len(list)
    BY <1>1, <1>7 DEF ReadSize, Step, At, Goto, sharedVars
  <2>2. WholeRound(list) /\ size'[t] = 1
    BY <1>3, <2>1 DEF OneList
  <2> QED
    BY <1>2, <2>1, <2>2 DEF OneList, Startup
<1>8. CASE Collect(t) \/ Sent(t)
  <2>1. WholeRound(list) /\ UNCHANGED list
    BY <1>8 DEF Collect, Sent, At, OneList
  <2>2. pc'[t] \in {"sizing", "clearing"}
    BY <1>1, <1>3, <1>8, <2>1 DEF Collect, Sent, Goto
  <2> QED
    BY <1>2, <2>1, <2>2 DEF OneList, Startup
<1>9. CASE \/ GenerateBegin(t) \/ GenerateEnd(t) \/ GenerateFails(t) \/ GetKeySet(t)
           \/ SendKeys(t) \/ ReceiveKeysAck(t) \/ SendStartRound(t) \/ ReceiveOutput(t)
           \/ Resume(t) \/ SendResults(t) \/ ReceiveResultsAck(t) \/ SendShutdown(t)
           \/ WritesCollide(t) \/ ExitServer(t) \/ LoseClient(t) \/ WakeSpuriously(t)
  <2>1. UNCHANGED list
    BY <1>9 DEF GenerateBegin, GenerateEnd, GenerateFails, GetKeySet, getKeySet, SendKeys,
         ReceiveKeysAck, SendStartRound, ReceiveOutput, Resume, SendResults,
         ReceiveResultsAck, SendShutdown, WritesCollide, ExitServer, LoseClient,
         WakeSpuriously, sharedVars
  <2> DEFINE Before == Startup \cup {"getKeySet", "sendKeys", "keysAck", "startRound",
                         "output", "addOutput", "shutdown"}
             After == {"collect", "sizing", "resultsAck", "sent", "clearing"}
  <2>2. \/ pc'[t] = pc[t] /\ size'[t] = size[t]
        \/ pc[t] \in Before /\ pc'[t] \in Before \cup {"dead"}
        \/ pc[t] \in After \cup {"copying"} /\ pc'[t] \in After \cup {"dead"}
    BY <1>1, <1>2, <1>9 DEF GenerateBegin, GenerateEnd, GenerateFails, GetKeySet, SendKeys,
         ReceiveKeysAck, SendStartRound, ReceiveOutput, Resume, SendResults,
         ReceiveResultsAck, SendShutdown, WritesCollide, ExitServer, LoseClient,
         WakeSpuriously, threadVars, At, Goto, Step, OneList, Startup
  <2> QED
    BY <1>2, <2>1, <2>2 DEF OneList, Startup
<1> QED
  BY <1>4, <1>5, <1>6, <1>7, <1>8, <1>9 DEF ThreadStep

\* What a step of the one thread puts on the stream to its client.
LEMMA OneStreamStep ==
  ASSUME N = 1, TypeOK, OneList, NEW t \in Clients, ThreadStep(t) \/ WakeSpuriously(t),
         NEW c \in Clients, WholeOn(s2c[c])
  PROVE  WholeOn(s2c'[c])
<1>1. Clients = {t} /\ c = t /\ Clients = {0}
  BY OneClient
<1>2. CASE s2c' = s2c
  BY <1>2
<1>3. CASE SendResults(t)
  <2>1. /\ WholeRound(currentRoundMessages) /\ size[t] = 1 /\ pc[t] = "copying"
    BY <1>3 DEF SendResults, Step, At, OneList
  <2>2. Nulled = {{}}
    BY <1>1, <2>1 DEF Nulled
  <2>3. SendToClient(t, ResultsObject(CopyOf(1, {})))
    BY <1>3, <2>1, <2>2 DEF SendResults
  <2>4. /\ currentRoundMessages \in Seq(Message \cup {Null}) /\ Len(currentRoundMessages) = 1
    BY <2>1 DEF TypeOK, SharedTypeOK, Results, WholeRound
  <2>5. CopyOf(1, {}) = currentRoundMessages
    BY <2>4 DEF CopyOf
  <2>6. ResultsObject(currentRoundMessages) \in ServerObject
    BY <2>4, ServerObjects DEF Results
  <2>7. \A i \in DOMAIN s2c'[t] :
          \/ s2c'[t][i] = ResultsObject(currentRoundMessages)
          \/ i \in DOMAIN s2c[t] /\ s2c'[t][i] = s2c[t][i]
    BY <2>3, <2>5, <2>6, Sent2c
  <2>8. ResultsObject(currentRoundMessages).list = currentRoundMessages
    BY DEF ResultsObject
  <2> QED
    BY <1>1, <2>1, <2>7, <2>8 DEF WholeOn
<1>4. CASE SendKeys(t) \/ SendStartRound(t) \/ SendShutdown(t)
  <2>1. PICK o \in ServerObject : SendToClient(t, o) /\ o.class # "ArrayList"
    <3>1. SendShutdown(t) => notified[t] = 0
      BY DEF SendShutdown, TypeOK, ThreadTypeOK
    <3>2. keySet[t] \in KeySet \cup {Null}
      BY DEF TypeOK, ThreadTypeOK
    <3> QED
      BY <1>1, <1>4, <3>1, <3>2, ServerObjects, ObjectKinds
         DEF SendKeys, SendStartRound, SendShutdown, KeySetObject, MessageObject
  <2> QED
    BY <1>1, <2>1, Sent2c DEF WholeOn
<1> QED
  BY <1>1, <1>2, <1>3, <1>4 DEF ThreadStep, WakeSpuriously, GenerateBegin, GenerateEnd,
     GenerateFails, GetKeySet, ReceiveKeysAck, ReceiveOutput, AddOutputBegin, AddOutputEnd,
     Collect, Resume, ReadSize, ReceiveResultsAck, Sent, ResetRound, WritesCollide,
     ExitServer, LoseClient, connVars

\* A client only takes what is on its stream.
LEMMA OneClientStep ==
  ASSUME TypeOK, NEW c \in Clients, ClientStep(c) \/ InputExhausted(c) \/ CloseWindow(c),
         NEW d \in Clients, WholeOn(s2c[d])
  PROVE  WholeOn(s2c'[d])
<1>1. s2c \in [Clients -> Seq(ServerObject)]
  BY DEF TypeOK, ConnTypeOK
<1>2. \/ s2c'[d] = s2c[d]
      \/ s2c'[d] = <<>>
      \/ s2c[d] # <<>> /\ s2c'[d] = Tail(s2c[d])
  BY <1>1 DEF ClientStep, ReceiveKeySet, Transmit, ReceiveShutdown, ReceiveResults,
     EmptyResults, CastFails, ReadGarbled, ReadFails, WriteFails, Answers, InputExhausted,
     CloseWindow, Reads, CanReceive, Receive, connVars
<1>3. CASE s2c[d] # <<>> /\ s2c'[d] = Tail(s2c[d])
  <2>1. \A i \in DOMAIN Tail(s2c[d]) : i + 1 \in DOMAIN s2c[d] /\ Tail(s2c[d])[i] = s2c[d][i + 1]
    BY <1>1, <1>3, Reading
  <2> QED
    BY <1>3, <2>1 DEF WholeOn
<1>4. CASE s2c'[d] = <<>>
  BY <1>4 DEF WholeOn
<1> QED
  BY <1>2, <1>3, <1>4

\* With one client, every list of results that is sent is a whole round.
THEOREM WholeWithOneClient ==
  ASSUME N = 1
  PROVE  Spec => []ResultsWhole
<1>1. TypeOK /\ KeyInv /\ OneRound /\ [Next]_vars => OneRound'
  <2> SUFFICES ASSUME TypeOK, KeyInv, OneRound, [Next]_vars PROVE OneRound'
    OBVIOUS
  <2>1. CASE UNCHANGED vars
    <3>1. UNCHANGED <<s2c, pc, size, currentRoundMessages>>
      BY <2>1 DEF vars, connVars, sharedVars, threadVars
    <3> QED
      BY <3>1 DEF OneRound, OneList
  <2>2. CASE \E t \in Clients : ThreadStep(t) \/ WakeSpuriously(t)
    BY <2>2, OneListStep, OneStreamStep DEF OneRound
  <2>3. ASSUME NEW c \in Clients, ClientStep(c) \/ InputExhausted(c) \/ CloseWindow(c),
               UNCHANGED <<sharedVars, threadVars>>
        PROVE  OneRound'
    <3>1. OneList'
      <4>1. UNCHANGED <<pc, size, currentRoundMessages>>
        BY <2>3 DEF sharedVars, threadVars
      <4> QED
        BY <4>1 DEF OneRound, OneList
    <3> QED
      BY <2>3, <3>1, OneClientStep DEF OneRound
  <2> QED
    BY <2>1, <2>2, <2>3 DEF Next
<1>2. OneRound => ResultsWhole
  BY DEF OneRound, WholeOn, ResultsWhole
<1> QED
  BY <1>1, <1>2, InitOneRound, KeysInvariant, TypeCorrect, PTL DEF Spec

-----------------------------------------------------------------------------
(* The threads' unsynchronized key generation at the start is over before  *)
(* any key is generated again, as long as wait() returns only when it has  *)
(* been notified.                                                          *)

\* Served: threads that have called getKeySet, or will never do so.  Counted:
\* threads that have added their output, or will never do so.
Served  == {u \in Clients : pc[u] \notin Startup \cup {"getKeySet"}}
Counted == {u \in Clients : pc[u] \in {"adding", "collect", "collectWait", "dead"}}

\* FirstRound: while a thread still generates, no other gets past the first
\* barrier, because the list is short of that thread's output; and each of the
\* others has taken at most one keyset.
FirstPCs == Startup \cup {"getKeySet", "sendKeys", "keysAck", "startRound", "output",
                          "addOutput", "adding", "collect", "collectWait", "shutdown", "dead"}
FirstRound ==
  /\ \A u \in Clients : /\ pc[u] \in FirstPCs
                        /\ pc[u] = "collectWait" => u \in waitSet
  /\ keysDistributed <= Cardinality(Served)
  /\ Len(currentRoundMessages) <= Cardinality(Counted)

StartInv == (\E t \in Clients : pc[t] \in Startup) => FirstRound

LEMMA InitStart == Init => StartInv
<1> SUFFICES ASSUME Init PROVE FirstRound
  BY DEF StartInv
<1>1. /\ \A u \in Clients : pc[u] = "generate"
      /\ keysDistributed = 0 /\ Len(currentRoundMessages) = 0
  BY DEF Init, ThreadInit, SharedInit
<1>2. Served \subseteq Clients /\ Counted \subseteq Clients
  BY DEF Served, Counted
<1> QED
  BY <1>1, <1>2, ClientsCounted DEF FirstRound, FirstPCs, Startup

\* A thread that still generates is neither served nor counted.
LEMMA OneMissing ==
  ASSUME TypeOK, FirstRound, NEW s \in Clients, pc[s] \in Startup
  PROVE  /\ ~KeysExhausted /\ ~AllCollected
         /\ keysDistributed \in Nat /\ Len(currentRoundMessages) \in Nat
<1>1. /\ keysDistributed \in Nat /\ Len(currentRoundMessages) \in Nat
  BY NAssumption DEF TypeOK, SharedTypeOK, Results
<1>2. /\ Served \cup {s} \subseteq Clients /\ s \notin Served
      /\ Counted \cup {s} \subseteq Clients /\ s \notin Counted
  BY DEF Served, Counted, Startup
<1>3. Cardinality(Served) + 1 <= N /\ Cardinality(Counted) + 1 <= N
  BY <1>2, ClientsCounted
<1>4. Cardinality(Served) \in Nat /\ Cardinality(Counted) \in Nat
  BY <1>2, ClientsCounted
<1> QED
  BY <1>1, <1>3, <1>4, NAssumption DEF FirstRound, KeysExhausted, AllCollected

\* The steps of the first round that leave the counts alone.
LEMMA CountsStay ==
  ASSUME TypeOK, FirstRound, UNCHANGED keysDistributed,
         Len(currentRoundMessages') = Len(currentRoundMessages),
         \A u \in Clients : /\ pc'[u] \in FirstPCs
                            /\ pc'[u] = "collectWait" => u \in waitSet'
                            /\ u \in Served => u \in Served'
                            /\ u \in Counted => u \in Counted'
  PROVE  FirstRound'
<1>1. /\ Served \subseteq Served' /\ Served' \subseteq Clients
      /\ Counted \subseteq Counted' /\ Counted' \subseteq Clients
  BY DEF Served, Counted
<1>2. /\ Cardinality(Served) <= Cardinality(Served')
      /\ Cardinality(Counted) <= Cardinality(Counted')
      /\ Cardinality(Served) \in Nat /\ Cardinality(Served') \in Nat
      /\ Cardinality(Counted) \in Nat /\ Cardinality(Counted') \in Nat
  BY <1>1, ClientsCounted
<1>3. keysDistributed \in Nat /\ Len(currentRoundMessages) \in Nat
  BY NAssumption DEF TypeOK, SharedTypeOK, Results
<1> QED
  BY <1>2, <1>3 DEF FirstRound

LEMMA FirstRoundStep ==
  ASSUME TypeOK, FirstRound, NEW s \in Clients, pc[s] \in Startup, ~SpuriousWakeups,
         NEW t \in Clients, ThreadStep(t) \/ WakeSpuriously(t)
  PROVE  FirstRound'
<1>1. ~KeysExhausted /\ ~AllCollected
  BY OneMissing
<1>2. /\ \A u \in Clients : pc[u] \in FirstPCs /\ (pc[u] = "collectWait" => u \in waitSet)
      /\ pc \in [Clients -> ThreadPC] /\ currentRoundMessages \in Seq(Message \cup {Null})
      /\ keysDistributed \in Nat /\ Len(currentRoundMessages) \in Nat
  BY OneMissing DEF TypeOK, ThreadTypeOK, SharedTypeOK, Results, FirstRound
<1>3. CASE GetKeySet(t)
  <2>1. /\ pc[t] = "getKeySet" /\ pc' = [pc EXCEPT ![t] = "sendKeys"]
        /\ keysDistributed' = keysDistributed + 1
        /\ UNCHANGED <<currentRoundMessages, waitSet>>
    BY <1>1, <1>3 DEF GetKeySet, getKeySet, NextKeySet, Step, At, Goto
  <2>2. /\ Served \cup {t} \subseteq Served' /\ t \notin Served /\ Served' \subseteq Clients
        /\ Counted \subseteq Counted' /\ Counted' \subseteq Clients
    BY <1>2, <2>1 DEF Served, Counted, Startup
  <2>3. /\ Cardinality(Served) + 1 <= Cardinality(Served')
        /\ Cardinality(Counted) <= Cardinality(Counted')
        /\ Cardinality(Served) \in Nat /\ Cardinality(Served') \in Nat
        /\ Cardinality(Counted) \in Nat /\ Cardinality(Counted') \in Nat
    BY <2>2, ClientsCounted
  <2>4. \A u \in Clients : pc'[u] \in FirstPCs /\ (pc'[u] = "collectWait" => u \in waitSet')
    BY <1>2, <2>1 DEF FirstPCs
  <2> QED
    BY <1>2, <2>1, <2>3, <2>4 DEF FirstRound
<1>4. CASE AddOutputBegin(t)
  <2>1. /\ pc[t] = "addOutput" /\ pc' = [pc EXCEPT ![t] = "adding"]
        /\ currentRoundMessages' = Append(currentRoundMessages, Null)
        /\ UNCHANGED <<keysDistributed, waitSet>>
    BY <1>4 DEF AddOutputBegin, addOutputBegin, Step, At, Goto
  <2>2. /\ Counted \cup {t} \subseteq Counted' /\ t \notin Counted
        /\ Counted' \subseteq Clients
        /\ Served \subseteq Served' /\ Served' \subseteq Clients
    BY <1>2, <2>1 DEF Served, Counted, Startup
  <2>3. /\ Cardinality(Counted) + 1 <= Cardinality(Counted')
        /\ Cardinality(Served) <= Cardinality(Served')
        /\ Cardinality(Served) \in Nat /\ Cardinality(Served') \in Nat
        /\ Cardinality(Counted) \in Nat /\ Cardinality(Counted') \in Nat
    BY <2>2, ClientsCounted
  <2>4. \A u \in Clients : pc'[u] \in FirstPCs /\ (pc'[u] = "collectWait" => u \in waitSet')
    BY <1>2, <2>1 DEF FirstPCs
  <2>5. Len(currentRoundMessages') = Len(currentRoundMessages) + 1
    BY <1>2, <2>1
  <2> QED
    BY <1>2, <2>1, <2>3, <2>4, <2>5 DEF FirstRound
<1>5. CASE Collect(t)
  <2>1. /\ pc[t] = "collect" /\ pc' = [pc EXCEPT ![t] = "collectWait"]
        /\ waitSet' = waitSet \cup {t}
        /\ UNCHANGED <<keysDistributed, currentRoundMessages>>
    BY <1>1, <1>5 DEF Collect, Wait, At, Goto
  <2>2. \A u \in Clients : /\ pc'[u] \in FirstPCs
                           /\ pc'[u] = "collectWait" => u \in waitSet'
                           /\ u \in Served => u \in Served'
                           /\ u \in Counted => u \in Counted'
    BY <1>2, <2>1 DEF FirstPCs, Served, Counted, Startup
  <2> QED
    BY <2>1, <2>2, CountsStay
<1>6. CASE WritesCollide(t)
  <2>1. /\ \A u \in Clients : pc'[u] = pc[u] \/
             (pc[u] \in {"sendKeys", "startRound", "copying", "shutdown"} /\ pc'[u] = "dead")
        /\ UNCHANGED <<keysDistributed, currentRoundMessages, waitSet>>
    BY <1>6 DEF WritesCollide, Writing, At, sharedVars
  <2>2. \A u \in Clients : /\ pc'[u] \in FirstPCs
                           /\ pc'[u] = "collectWait" => u \in waitSet'
                           /\ u \in Served => u \in Served'
                           /\ u \in Counted => u \in Counted'
    BY <1>2, <2>1 DEF FirstPCs, Served, Counted, Startup
  <2> QED
    BY <2>1, <2>2, CountsStay
<1>7. CASE AddOutputEnd(t)
  <2>1. /\ pc[t] = "adding" /\ pc' = [pc EXCEPT ![t] = "collect"]
        /\ UNCHANGED <<keysDistributed, waitSet>>
        /\ currentRoundMessages' =
             [currentRoundMessages EXCEPT ![Len(currentRoundMessages)] = output[t]]
    BY <1>7 DEF AddOutputEnd, addOutputEnd, Step, At, Goto
  <2>2. \A u \in Clients : /\ pc'[u] \in FirstPCs
                           /\ pc'[u] = "collectWait" => u \in waitSet'
                           /\ u \in Served => u \in Served'
                           /\ u \in Counted => u \in Counted'
    BY <1>2, <2>1 DEF FirstPCs, Served, Counted, Startup
  <2>3. Len(currentRoundMessages') = Len(currentRoundMessages)
    BY <1>2, <2>1
  <2> QED
    BY <2>1, <2>2, <2>3, CountsStay
<1>8. CASE \/ GenerateBegin(t) \/ GenerateEnd(t) \/ GenerateFails(t) \/ SendKeys(t)
           \/ ReceiveKeysAck(t) \/ SendStartRound(t) \/ ReceiveOutput(t)
           \/ SendShutdown(t) \/ ExitServer(t) \/ LoseClient(t)
  <2>1. /\ pc[t] \in {"generate", "generating", "sendKeys", "keysAck", "startRound",
                      "output", "getKeySet"} \/ pc' = pc
        /\ \/ pc' = pc
           \/ pc[t] \in Startup /\ pc' = [pc EXCEPT ![t] = "generating"]
           \/ pc[t] \in Startup /\ pc' = [pc EXCEPT ![t] = "getKeySet"]
           \/ pc' = [pc EXCEPT ![t] = "dead"]
           \/ \E l \in {"keysAck", "startRound", "output", "addOutput", "shutdown"} :
                pc[t] \notin Startup \cup {"getKeySet"} /\ pc' = [pc EXCEPT ![t] = l]
        /\ UNCHANGED <<keysDistributed, currentRoundMessages, waitSet>>
    BY <1>8 DEF GenerateBegin, GenerateEnd, GenerateFails, SendKeys, ReceiveKeysAck,
         SendStartRound, ReceiveOutput, SendShutdown, ExitServer, LoseClient, At, Goto, Step,
         sharedVars, threadVars, Startup
  <2>2. \A u \in Clients : /\ pc'[u] \in FirstPCs
                           /\ pc'[u] = "collectWait" => u \in waitSet'
                           /\ u \in Served => u \in Served'
                           /\ u \in Counted => u \in Counted'
    BY <1>2, <2>1 DEF FirstPCs, Served, Counted, Startup
  <2> QED
    BY <2>1, <2>2, CountsStay
<1>9. ~(\/ Resume(t) \/ ReadSize(t) \/ SendResults(t) \/ ReceiveResultsAck(t) \/ Sent(t)
        \/ ResetRound(t) \/ WakeSpuriously(t))
  BY <1>2 DEF Resume, ReadSize, SendResults, ReceiveResultsAck, Sent, ResetRound,
       WakeSpuriously, At, Step, FirstPCs, Startup
<1> QED
  BY <1>3, <1>4, <1>5, <1>6, <1>7, <1>8, <1>9 DEF ThreadStep

\* A thread does not come back to the generation at the start.
LEMMA StartupEnds ==
  ASSUME TypeOK, NEW t \in Clients, ThreadStep(t) \/ WakeSpuriously(t),
         NEW s \in Clients, pc'[s] \in Startup
  PROVE  pc[s] \in Startup
<1>1. pc \in [Clients -> ThreadPC]
  BY DEF TypeOK, ThreadTypeOK
<1> QED
  BY <1>1 DEF Startup, ThreadStep, WakeSpuriously, GenerateBegin, GenerateEnd,
     GenerateFails, GetKeySet, SendKeys, ReceiveKeysAck, SendStartRound, ReceiveOutput,
     AddOutputBegin, AddOutputEnd, Collect, Resume, ReadSize, SendResults,
     ReceiveResultsAck, Sent, ResetRound, SendShutdown, WritesCollide, ExitServer,
     LoseClient, At, Goto, Step, threadVars

LEMMA StartStep ==
  ASSUME ~SpuriousWakeups, TypeOK, StartInv, [Next]_vars
  PROVE  StartInv'
<1> SUFFICES ASSUME NEW s \in Clients, pc'[s] \in Startup PROVE FirstRound'
  BY DEF StartInv
<1>1. CASE \E t \in Clients : ThreadStep(t) \/ WakeSpuriously(t)
  BY <1>1, StartupEnds, FirstRoundStep DEF StartInv
<1>2. CASE UNCHANGED <<sharedVars, threadVars>>
  <2>1. UNCHANGED <<pc, keysDistributed, currentRoundMessages, waitSet>>
    BY <1>2 DEF sharedVars, threadVars
  <2>2. FirstRound
    BY <2>1 DEF StartInv
  <2> QED
    BY <2>1, <2>2 DEF FirstRound, Served, Counted
<1> QED
  BY <1>1, <1>2 DEF Next, vars

-----------------------------------------------------------------------------
\* getKeySet never regenerates the keys while a thread is still generating.
THEOREM GeneratedFirst ==
  ASSUME ~SpuriousWakeups
  PROVE  Spec => []GenerationExclusive
<1>1. TypeOK /\ StartInv /\ [Next]_vars => StartInv'
  BY StartStep
<1>2. TypeOK /\ StartInv => GenerationExclusive
  BY OneMissing DEF StartInv, GenerationExclusive
<1> QED
  BY <1>1, <1>2, InitStart, TypeCorrect, PTL DEF Spec
=============================================================================
