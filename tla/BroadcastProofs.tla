-------------------------- MODULE BroadcastProofs --------------------------
(***************************************************************************)
(* The keys of a generation cancel in every round, the net is a line on    *)
(* which one speaker is heard by all, and what he submits is what every    *)
(* window shows: for every number of clients, every size of int and char,  *)
(* whatever keys are drawn and whatever is submitted.                      *)
(***************************************************************************)
EXTENDS Broadcast, DcNetProofs

-----------------------------------------------------------------------------
(* Types.                                                                  *)

LEMMA OutputsAreInts == BroadcastTypeOK => outputs \in Seq(Int) /\ outputs \in Seq(JavaInt)
<1> SUFFICES ASSUME BroadcastTypeOK PROVE outputs \in Seq(Int) /\ outputs \in Seq(JavaInt)
  OBVIOUS
<1>1. JavaInt \subseteq Int
  BY WordHalves DEF JavaInt, Half
<1>2. outputs \in Seq(JavaInt)
  BY DEF BroadcastTypeOK
<1>3. /\ Len(outputs) \in Nat /\ outputs = [i \in 1 .. Len(outputs) |-> outputs[i]]
      /\ \A i \in 1 .. Len(outputs) : outputs[i] \in Int
  BY <1>1, <1>2
<1>4. outputs \in Seq(Int)
  BY <1>3
<1> QED
  BY <1>2, <1>4

LEMMA InitTypes == BroadcastInit => BroadcastTypeOK
<1> SUFFICES ASSUME BroadcastInit PROVE BroadcastTypeOK
  OBVIOUS
<1>1. 0 \in Clients
  BY NAssumption DEF Clients
<1>2. 0 \in 0 .. N
  BY NAssumption
<1> QED
  BY <1>1, <1>2 DEF BroadcastInit, BroadcastTypeOK, Chars, Silence

LEMMA SubmitTypes ==
  ASSUME BroadcastTypeOK, NEW c \in Clients, Submit(c)
  PROVE  BroadcastTypeOK'
<1>1. PICK m \in Messages : /\ inputBuf' = [inputBuf EXCEPT ![c] = Append(inputBuf[c], m)]
                            /\ submitted' = [submitted EXCEPT ![c] = Append(submitted[c], m)]
  BY DEF Submit, Set
<1>2. inputBuf' \in [Clients -> Seq(Messages)] /\ submitted' \in [Clients -> Seq(Messages)]
  BY <1>1 DEF BroadcastTypeOK
<1>3. lost' \in [Clients -> BOOLEAN]
  BY DEF Submit, Set, BroadcastTypeOK
<1> QED
  BY <1>2, <1>3 DEF Submit, outputVars, roundVars, BroadcastTypeOK

LEMMA ReceiveKeySetTypes ==
  ASSUME BroadcastTypeOK, NEW c \in Clients, ReceiveKeySet(c)
  PROVE  BroadcastTypeOK'
<1>1. /\ phase' \in [Clients -> {"keys", "start", "results", "dead"}]
      /\ UNCHANGED <<inputVars, outputVars, outputs, said, submitted>>
  BY DEF ReceiveKeySet, Set, BroadcastTypeOK
<1>2. keys' \in [Pairs -> KeyValues]
  BY DEF ReceiveKeySet, BroadcastTypeOK
<1>3. \E e \in Clients : keysDistributed' = e + 1 /\ entry' = [entry EXCEPT ![c] = e]
  <2>1. keysDistributed \in 0 .. N /\ 0 \in Clients
    BY NAssumption DEF BroadcastTypeOK, Clients
  <2>2. keysDistributed < N => keysDistributed \in Clients
    BY <2>1, NAssumption DEF Clients
  <2> QED
    BY <2>1, <2>2 DEF ReceiveKeySet, Set
<1>4. keysDistributed' \in 0 .. N
  BY <1>3, NAssumption DEF Clients
<1>5. entry' \in [Clients -> Clients]
  BY <1>3 DEF BroadcastTypeOK
<1> QED
  BY <1>1, <1>2, <1>4, <1>5 DEF inputVars, outputVars, BroadcastTypeOK

LEMMA AtHandType ==
  ASSUME BroadcastTypeOK, NEW c \in Clients
  PROVE  /\ AtHand(c) \in Messages \cup {Null}
         /\ TakeAtHand(c) => inputBuf' \in [Clients -> Seq(Messages)]
<1>1. inputBuf[c] \in Seq(Messages)
  BY DEF BroadcastTypeOK
<1>2. inputBuf[c] # <<>> => Head(inputBuf[c]) \in Messages /\ Tail(inputBuf[c]) \in Seq(Messages)
  BY <1>1
<1> QED
  BY <1>2 DEF AtHand, TakeAtHand, Takes, Set, BroadcastTypeOK

LEMMA TransmitTypes ==
  ASSUME BroadcastTypeOK, NEW c \in Clients, NEW ch \in Chars \cup {Silence}, Transmit(c, ch)
  PROVE  /\ phase' \in [Clients -> {"keys", "start", "results", "dead"}]
         /\ outputs' \in Seq(JavaInt)
         /\ said' \in [Clients -> Chars \cup {Silence, Null}]
<1>1. transmit(ch, keys, KeySetOf(entry[c])) \in JavaInt
  BY TransmitType DEF BroadcastTypeOK
<1>2. outputs' \in Seq(JavaInt)
  BY <1>1, OutputsAreInts DEF Transmit
<1> QED
  BY <1>2 DEF Transmit, Set, BroadcastTypeOK

LEMMA TransmitStepTypes ==
  ASSUME BroadcastTypeOK, NEW c \in Clients,
         TransmitNothing(c) \/ TransmitChar(c) \/ TransmitEnd(c)
  PROVE  /\ BroadcastTypeOK'
         /\ \E ch \in Chars \cup {Silence} : Transmit(c, ch)
<1>1. PICK ch \in Chars \cup {Silence} : Transmit(c, ch)
  <2>1. CASE TransmitNothing(c) \/ TransmitEnd(c)
    BY <2>1 DEF TransmitNothing, TransmitEnd
  <2>2. CASE TransmitChar(c)
    <3>1. AtHand(c) \in Seq(Chars) /\ currentMessageIndex[c] \in Nat
          /\ currentMessageIndex[c] < Len(AtHand(c))
      BY <2>2, AtHandType, MessagesAssumption DEF TransmitChar, BroadcastTypeOK
    <3>2. currentMessageIndex[c] + 1 \in 1 .. Len(AtHand(c))
      BY <3>1
    <3>3. AtHand(c)[currentMessageIndex[c] + 1] \in Chars
      BY <3>1, <3>2
    <3> DEFINE x == AtHand(c)[currentMessageIndex[c] + 1]
    <3>4. x \in Chars \cup {Silence} /\ Transmit(c, x)
      BY <2>2, <3>3 DEF TransmitChar
    <3>5. PICK ch : ch = x
      OBVIOUS
    <3> HIDE DEF x
    <3>6. ch \in Chars \cup {Silence} /\ Transmit(c, ch)
      BY <3>4, <3>5 DEF Transmit, Set
    <3> QED
      BY <3>6
  <2> QED
    BY <2>1, <2>2
<1>2. /\ inputBuf' \in [Clients -> Seq(Messages)]
      /\ currentMessage' \in [Clients -> Messages \cup {Null}]
      /\ currentMessageIndex' \in [Clients -> Nat]
      /\ UNCHANGED lost
  <2>1. CASE TransmitNothing(c)
    BY <2>1 DEF TransmitNothing, inputVars, BroadcastTypeOK
  <2>2. CASE TransmitChar(c)
    <3>1. TakeAtHand(c) /\ AtHand(c) # Null
          /\ currentMessage' = [currentMessage EXCEPT ![c] = AtHand(c)]
          /\ currentMessageIndex' = [currentMessageIndex EXCEPT ![c] = currentMessageIndex[c] + 1]
      BY <2>2 DEF TransmitChar, Set
    <3>2. UNCHANGED lost
      BY <3>1 DEF TakeAtHand
    <3> QED
      BY <3>1, <3>2, AtHandType DEF BroadcastTypeOK
  <2>3. CASE TransmitEnd(c)
    BY <2>3, AtHandType DEF TransmitEnd, TakeAtHand, Set, BroadcastTypeOK
  <2> QED
    BY <2>1, <2>2, <2>3
<1>3. /\ phase' \in [Clients -> {"keys", "start", "results", "dead"}]
      /\ outputs' \in Seq(JavaInt)
      /\ said' \in [Clients -> Chars \cup {Silence, Null}]
  BY <1>1, TransmitTypes
<1>4. UNCHANGED <<inMessageFlag, display, r, keysDistributed, keys, entry, submitted>>
  BY <1>1 DEF Transmit, outputVars
<1> QED
  BY <1>1, <1>2, <1>3, <1>4 DEF BroadcastTypeOK

LEMMA NextFailsTypes ==
  ASSUME BroadcastTypeOK, NEW c \in Clients, NextFails(c)
  PROVE  BroadcastTypeOK'
BY DEF NextFails, Set, inputVars, outputVars, BroadcastTypeOK

LEMMA ReceiveResultsTypes ==
  ASSUME BroadcastTypeOK, NEW c \in Clients, ReceiveResults(c)
  PROVE  BroadcastTypeOK'
<1>1. collate(outputs) \in Chars \cup {Silence}
  BY OutputsAreInts, CollateType
<1>2. r' \in [Clients -> Chars \cup {Silence}]
  BY <1>1 DEF ReceiveResults, Set, BroadcastTypeOK
<1>3. /\ display' \in [Clients -> Seq(Chars \cup {Newline})]
      /\ inMessageFlag' \in [Clients -> BOOLEAN]
  <2>1. \A x \in Chars \cup {Newline} :
          Append(display[c], x) \in Seq(Chars \cup {Newline})
    BY DEF BroadcastTypeOK
  <2>2. Display(c, collate(outputs))
    BY DEF ReceiveResults
  <2>3. \/ \E x \in Chars \cup {Newline} : display' = [display EXCEPT ![c] = Append(display[c], x)]
        \/ display' = display
    BY <1>1, <2>2 DEF Display, Set
  <2>4. inMessageFlag' \in [Clients -> BOOLEAN]
    BY <2>2 DEF Display, Set, BroadcastTypeOK
  <2>5. display \in [Clients -> Seq(Chars \cup {Newline})]
    BY DEF BroadcastTypeOK
  <2> QED
    BY <2>1, <2>3, <2>4, <2>5
<1>4. /\ outputs' \in Seq(JavaInt)
      /\ said' \in [Clients -> Chars \cup {Silence, Null}]
  <2>1. /\ outputs \in Seq(JavaInt) /\ <<>> \in Seq(JavaInt)
        /\ said \in [Clients -> Chars \cup {Silence, Null}]
    BY OutputsAreInts DEF BroadcastTypeOK
  <2>2. \/ UNCHANGED <<outputs, said>>
        \/ outputs' = <<>> /\ said' = [d \in Clients |-> Null]
    BY DEF ReceiveResults
  <2> QED
    BY <2>1, <2>2
<1>5. /\ phase' \in [Clients -> {"keys", "start", "results", "dead"}]
      /\ UNCHANGED <<inputVars, keysDistributed, keys, entry, submitted>>
  BY DEF ReceiveResults, Set, BroadcastTypeOK
<1> QED
  BY <1>2, <1>3, <1>4, <1>5 DEF BroadcastTypeOK, inputVars

LEMMA TypesStay ==
  ASSUME BroadcastTypeOK, [BroadcastNext]_broadcastVars
  PROVE  BroadcastTypeOK'
<1>1. CASE UNCHANGED broadcastVars
  BY <1>1 DEF broadcastVars, inputVars, outputVars, roundVars, BroadcastTypeOK
<1>2. CASE BroadcastNext
  BY <1>2, SubmitTypes, ReceiveKeySetTypes, TransmitStepTypes, NextFailsTypes, ReceiveResultsTypes
     DEF BroadcastNext, LoopStep
<1> QED
  BY <1>1, <1>2

\* Types are kept: in particular an output is an int, and what comes out of
\* collate is a char, whatever the clients said together.
THEOREM BroadcastTypeCorrect == BroadcastSpec => []BroadcastTypeOK
  BY InitTypes, TypesStay, PTL DEF BroadcastSpec

-----------------------------------------------------------------------------
(* Where the clients are in a round.                                       *)

\* Spoken: their output is in.  Engaged: they have a keyset of this round.
Spoken  == {c \in Clients : said[c] # Null}
Engaged == {c \in Clients : phase[c] # "keys" \/ said[c] # Null}

\* In a round every keyset handed out belongs to one engaged client, the
\* outputs are those of the clients that have spoken, and nobody has heard
\* the results, and gone on to ask for keys, before all have spoken.
RoundInv ==
  /\ \A c \in Clients : /\ phase[c] = "results" => said[c] # Null
                        /\ phase[c] \in {"start", "dead"} => said[c] = Null
                        /\ phase[c] = "keys" /\ said[c] # Null => Spoken = Clients
  /\ (\A c \in Clients : phase[c] = "keys") => Engaged = {}
  /\ Len(outputs) = Cardinality(Spoken)
  /\ Engaged = {} => keysDistributed \in {0, N}
  /\ Engaged # {} => /\ keysDistributed = Cardinality(Engaged)
                     /\ {entry[c] : c \in Engaged} = 0 .. keysDistributed - 1
  /\ \A c, d \in Engaged : c # d => entry[c] # entry[d]

LEMMA InitRound == BroadcastInit => RoundInv
<1> SUFFICES ASSUME BroadcastInit PROVE RoundInv
  OBVIOUS
<1>1. Spoken = {} /\ Engaged = {} /\ Len(outputs) = 0
  BY DEF BroadcastInit, Spoken, Engaged
<1>2. Cardinality({}) = 0
  BY FS_EmptySet
<1>3. \A c \in Clients : phase[c] = "keys" /\ said[c] = Null
  BY DEF BroadcastInit
<1> QED
  BY <1>1, <1>2, <1>3 DEF BroadcastInit, RoundInv

\* Once all have spoken all keysets are out, and conversely all have spoken
\* when there are N outputs.
LEMMA AllSpoken ==
  ASSUME BroadcastTypeOK, RoundInv
  PROVE  /\ Spoken = Clients => Engaged = Clients /\ keysDistributed = N
                                /\ {entry[c] : c \in Clients} = Clients
         /\ Len(outputs) = N => Spoken = Clients
<1>1. Spoken \subseteq Engaged /\ Engaged \subseteq Clients
  BY DEF Spoken, Engaged
<1>2. Cardinality(Clients) = N /\ Clients # {}
  BY ClientsCounted, NAssumption DEF Clients
<1>3. Spoken = Clients => Engaged = Clients /\ keysDistributed = N
                          /\ {entry[c] : c \in Clients} = Clients
  BY <1>1, <1>2 DEF RoundInv, Clients
<1>4. ASSUME Len(outputs) = N, Spoken # Clients PROVE FALSE
  <2>1. PICK t \in Clients : t \notin Spoken
    BY <1>1, <1>4
  <2>2. Cardinality(Spoken) + 1 <= Cardinality(Clients)
    BY <1>1, <2>1, ClientsCounted
  <2>3. Cardinality(Spoken) = N
    BY <1>4 DEF RoundInv
  <2> QED
    BY <1>2, <2>2, <2>3, NAssumption
<1> QED
  BY <1>3, <1>4

\* A client that asks for keys before all are out has none yet.
LEMMA NotYetEngaged ==
  ASSUME BroadcastTypeOK, RoundInv, NEW c \in Clients, ReceiveKeySet(c)
  PROVE  c \notin Engaged /\ c \notin Spoken
<1>1. phase[c] = "keys"
  BY DEF ReceiveKeySet
<1>2. ASSUME said[c] # Null PROVE FALSE
  <2>1. Spoken = Clients
    BY <1>1, <1>2 DEF RoundInv
  <2>2. keysDistributed = N /\ Engaged = Clients
    BY <2>1, AllSpoken
  <2>3. \E d \in Clients : phase[d] # "keys"
    BY <1>2, <2>2 DEF RoundInv
  <2> QED
    BY <2>2, <2>3, NAssumption DEF ReceiveKeySet
<1> QED
  BY <1>1, <1>2 DEF Engaged, Spoken

LEMMA ReceiveKeySetRound ==
  ASSUME BroadcastTypeOK, RoundInv, NEW c \in Clients, ReceiveKeySet(c)
  PROVE  RoundInv'
<1>1. /\ c \notin Engaged /\ said[c] = Null
      /\ phase \in [Clients -> {"keys", "start", "results", "dead"}]
      /\ entry \in [Clients -> Clients] /\ keysDistributed \in 0 .. N
  BY NotYetEngaged DEF Spoken, BroadcastTypeOK
<1>2. /\ phase' = [phase EXCEPT ![c] = "start"]
      /\ UNCHANGED <<outputs, said>>
  BY DEF ReceiveKeySet, Set
<1>3. Spoken' = Spoken /\ Engaged' = Engaged \cup {c}
  BY <1>1, <1>2 DEF Spoken, Engaged
<1>4. IsFiniteSet(Engaged) /\ Cardinality(Engaged) \in Nat
  BY KeySetsFinite, FS_Subset, FS_CardinalityType DEF Engaged
<1>5. Cardinality(Engaged') = Cardinality(Engaged) + 1
  BY <1>1, <1>3, <1>4, FS_AddElement
<1>6. /\ keysDistributed' = Cardinality(Engaged')
      /\ {entry'[d] : d \in Engaged'} = 0 .. keysDistributed' - 1
      /\ \A d, e \in Engaged' : d # e => entry'[d] # entry'[e]
  <2>1. CASE Engaged = {}
    <3>1. entry' = [entry EXCEPT ![c] = 0] /\ keysDistributed' = 1
      <4>1. keysDistributed \in {0, N}
        BY <2>1 DEF RoundInv
      <4> QED
        BY <4>1, NAssumption DEF ReceiveKeySet, Set
    <3>2. Cardinality(Engaged) = 0 /\ Engaged' = {c} /\ entry'[c] = 0
      BY <1>1, <1>3, <2>1, <3>1, FS_EmptySet
    <3> QED
      BY <1>5, <3>1, <3>2
  <2>2. CASE Engaged # {}
    <3>1. /\ keysDistributed = Cardinality(Engaged)
          /\ {entry[d] : d \in Engaged} = 0 .. keysDistributed - 1
          /\ \A d, e \in Engaged : d # e => entry[d] # entry[e]
      BY <2>2 DEF RoundInv
    <3>2. ~ \A d \in Clients : phase[d] = "keys"
      BY <2>2 DEF RoundInv
    <3>3. entry' = [entry EXCEPT ![c] = keysDistributed] /\ keysDistributed' = keysDistributed + 1
      BY <3>2 DEF ReceiveKeySet, Set
    <3>4. \A d \in Engaged : entry'[d] = entry[d] /\ entry[d] # keysDistributed
      <4>1. \A d \in Engaged : entry[d] \in 0 .. keysDistributed - 1
        BY <3>1
      <4>2. \A d \in Engaged : d # c
        BY <1>1
      <4> QED
        BY <1>1, <3>3, <4>1, <4>2
    <3>5. entry'[c] = keysDistributed
      BY <1>1, <3>3
    <3>6. {entry'[d] : d \in Engaged'} = {entry[d] : d \in Engaged} \cup {keysDistributed}
      BY <1>3, <3>4, <3>5
    <3>7. {entry'[d] : d \in Engaged'} = 0 .. keysDistributed' - 1
      <4>1. keysDistributed \in Nat /\ keysDistributed' - 1 = keysDistributed
        BY <1>4, <3>1, <3>3
      <4>2. 0 .. keysDistributed = (0 .. keysDistributed - 1) \cup {keysDistributed}
        BY <4>1
      <4> QED
        BY <3>1, <3>6, <4>1, <4>2
    <3>8. \A d, e \in Engaged' : d # e => entry'[d] # entry'[e]
      BY <1>3, <3>1, <3>4, <3>5
    <3> QED
      BY <1>5, <3>1, <3>3, <3>7, <3>8
  <2> QED
    BY <2>1, <2>2
<1>7. \A d \in Clients : /\ phase'[d] = "results" => said'[d] # Null
                         /\ phase'[d] \in {"start", "dead"} => said'[d] = Null
                         /\ phase'[d] = "keys" /\ said'[d] # Null => Spoken' = Clients
  BY <1>1, <1>2, <1>3 DEF RoundInv
<1>8. phase'[c] # "keys" /\ Engaged' # {}
  BY <1>1, <1>2, <1>3
<1>9. Len(outputs') = Cardinality(Spoken')
  BY <1>2, <1>3 DEF RoundInv
<1> QED
  BY <1>6, <1>7, <1>8, <1>9 DEF RoundInv

LEMMA TransmitRound ==
  ASSUME BroadcastTypeOK, RoundInv, NEW c \in Clients, NEW ch \in Chars \cup {Silence},
         Transmit(c, ch)
  PROVE  /\ RoundInv'
         /\ c \in Engaged /\ c \notin Spoken /\ Spoken' = Spoken \cup {c}
<1>1. /\ phase \in [Clients -> {"keys", "start", "results", "dead"}]
      /\ said \in [Clients -> Chars \cup {Silence, Null}]
      /\ outputs \in Seq(JavaInt)
  BY DEF BroadcastTypeOK
<1>2. /\ phase[c] = "start" /\ phase' = [phase EXCEPT ![c] = "results"]
      /\ said' = [said EXCEPT ![c] = ch]
      /\ UNCHANGED <<keysDistributed, keys, entry>>
  BY DEF Transmit, Set
<1>3. Len(outputs') = Len(outputs) + 1
  BY <1>1 DEF Transmit
<1>4. said[c] = Null
  BY <1>2 DEF RoundInv
<1>5. ch # Null
  BY NoTextAssumption, NullAssumption, NAssumption DEF Silence, Clients
<1>6. /\ Spoken' = Spoken \cup {c} /\ c \notin Spoken
      /\ Engaged' = Engaged /\ c \in Engaged
  BY <1>1, <1>2, <1>4, <1>5 DEF Spoken, Engaged
<1>7. IsFiniteSet(Spoken) /\ Cardinality(Spoken) \in Nat
  BY KeySetsFinite, FS_Subset, FS_CardinalityType DEF Spoken
<1>8. Len(outputs') = Cardinality(Spoken')
  <2>1. Cardinality(Spoken \cup {c}) = Cardinality(Spoken) + 1
    BY <1>6, <1>7, FS_AddElement
  <2>2. Len(outputs) = Cardinality(Spoken)
    BY DEF RoundInv
  <2> QED
    BY <1>3, <1>6, <2>1, <2>2
<1>9. \A d \in Clients : /\ phase'[d] = "results" => said'[d] # Null
                         /\ phase'[d] \in {"start", "dead"} => said'[d] = Null
                         /\ phase'[d] = "keys" /\ said'[d] # Null => Spoken' = Clients
  BY <1>1, <1>2, <1>4, <1>5, <1>6 DEF RoundInv
<1>10. phase'[c] # "keys"
  BY <1>1, <1>2
<1> QED
  BY <1>2, <1>6, <1>8, <1>9, <1>10 DEF RoundInv

\* A client whose main thread has died keeps the keyset it has.
LEMMA NextFailsRound ==
  ASSUME BroadcastTypeOK, RoundInv, NEW c \in Clients, NextFails(c)
  PROVE  RoundInv'
<1>1. /\ phase[c] = "start" /\ phase' = [phase EXCEPT ![c] = "dead"]
      /\ phase \in [Clients -> {"keys", "start", "results", "dead"}]
      /\ UNCHANGED <<outputs, said, keysDistributed, entry>>
  BY DEF NextFails, Set, BroadcastTypeOK
<1>2. Spoken' = Spoken /\ Engaged' = Engaged
  BY <1>1 DEF Spoken, Engaged
<1>3. \A d \in Clients : /\ phase'[d] = "results" => said'[d] # Null
                         /\ phase'[d] \in {"start", "dead"} => said'[d] = Null
                         /\ phase'[d] = "keys" /\ said'[d] # Null => Spoken' = Clients
  BY <1>1, <1>2 DEF RoundInv
<1>4. phase'[c] # "keys"
  BY <1>1
<1> QED
  BY <1>1, <1>2, <1>3, <1>4 DEF RoundInv

LEMMA ReceiveResultsRound ==
  ASSUME BroadcastTypeOK, RoundInv, NEW c \in Clients, ReceiveResults(c)
  PROVE  RoundInv'
<1>1. /\ phase[c] = "results" /\ phase' = [phase EXCEPT ![c] = "keys"]
      /\ phase \in [Clients -> {"keys", "start", "results", "dead"}]
      /\ UNCHANGED <<keysDistributed, entry>>
  BY DEF ReceiveResults, Set, BroadcastTypeOK
<1>2. Spoken = Clients /\ Engaged = Clients /\ keysDistributed = N
  BY AllSpoken DEF ReceiveResults
<1>3. CASE \A d \in Clients \ {c} : phase[d] = "keys"
  <2>1. outputs' = <<>> /\ said' = [d \in Clients |-> Null]
    BY <1>3 DEF ReceiveResults
  <2>2. \A d \in Clients : phase'[d] = "keys" /\ said'[d] = Null
    BY <1>1, <1>3, <2>1
  <2>3. Spoken' = {} /\ Engaged' = {} /\ Len(outputs') = 0 /\ Cardinality({}) = 0
    BY <2>1, <2>2, FS_EmptySet DEF Spoken, Engaged
  <2> QED
    BY <1>1, <1>2, <2>2, <2>3 DEF RoundInv
<1>4. CASE ~ \A d \in Clients \ {c} : phase[d] = "keys"
  <2>1. UNCHANGED <<outputs, said>>
    BY <1>4 DEF ReceiveResults
  <2>2. Spoken' = Spoken /\ Engaged' = Engaged
    BY <1>1, <1>2, <2>1 DEF Spoken, Engaged
  <2>3. \A d \in Clients : /\ phase'[d] = "results" => said'[d] # Null
                           /\ phase'[d] \in {"start", "dead"} => said'[d] = Null
                           /\ phase'[d] = "keys" /\ said'[d] # Null => Spoken' = Clients
    BY <1>1, <1>2, <2>1, <2>2 DEF RoundInv
  <2>4. ~ \A d \in Clients : phase'[d] = "keys"
    BY <1>1, <1>4
  <2> QED
    BY <1>1, <2>1, <2>2, <2>3, <2>4 DEF RoundInv
<1> QED
  BY <1>3, <1>4
-----------------------------------------------------------------------------
(* The keys cancel.                                                        *)

KeySums(k) == [x \in Clients |-> sum(k, KeySetOf(x))]
Speech(w) == [c \in {d \in Clients : w[d] # Null} |-> Encoded(w[c])]

\* KeysCancel without the size of int: the outputs that are in, and the sums of
\* the keysets no output has used, are the same int as what has been said.
Cancel == Cong(Total(outputs) + SumOf(KeySums(keys), Clients \ Used),
               SumOf(Speech(said), Spoken))

LEMMA SumTypes ==
  ASSUME BroadcastTypeOK
  PROVE  /\ Ints(KeySums(keys), Clients)
         /\ IsFiniteSet(Clients \ Used) /\ SumOf(KeySums(keys), Clients \ Used) \in Int
         /\ IsFiniteSet(Spoken) /\ Ints(Speech(said), Spoken)
         /\ SumOf(Speech(said), Spoken) \in 0 .. 2 * N * MAX_CHAR
         /\ Total(outputs) \in Int
<1>1. keys \in [Pairs -> KeyValues]
  BY DEF BroadcastTypeOK
<1>2. Ints(KeySums(keys), Clients)
  BY <1>1, KeySetSum DEF Ints, KeySums
<1>3. IsFiniteSet(Clients \ Used) /\ SumOf(KeySums(keys), Clients \ Used) \in Int
  <2>1. Clients \ Used \in SUBSET Clients
    OBVIOUS
  <2> QED
    BY <1>2, <2>1, KeySetsFinite, PartsSum
<1>4. Spoken \subseteq Clients /\ IsFiniteSet(Spoken)
  BY KeySetsFinite, FS_Subset DEF Spoken
<1>5. \A c \in Spoken : Speech(said)[c] \in 0 .. 2 * MAX_CHAR
  <2>1. \A c \in Spoken : Encoded(said[c]) \in 0 .. 2 * MAX_CHAR
    BY <1>1, <1>4, TransmitType DEF BroadcastTypeOK, Spoken
  <2> QED
    BY <2>1 DEF Speech, Spoken
<1>6. Ints(Speech(said), Spoken)
  BY <1>5, WordHalves DEF Ints
<1>7. SumOf(Speech(said), Spoken) \in 0 .. 2 * N * MAX_CHAR
  <2> DEFINE b == 2 * MAX_CHAR
             n == Cardinality(Spoken)
  <2>1. b \in Nat
    BY WordHalves
  <2>2. SumOf(Speech(said), Spoken) \in 0 .. b * n
    <3> HIDE DEF b
    <3> QED
      BY <1>4, <1>5, <2>1, SumBounded DEF b
  <2>3. n \in Nat /\ n <= N /\ N \in Nat
    BY <1>4, ClientsCounted, NAssumption
  <2> HIDE DEF b, n
  <2>4. b * n <= b * N /\ b * n \in Int
    BY <2>1, <2>3
  <2>5. b * N = 2 * N * MAX_CHAR
    BY <2>3, WordHalves DEF b
  <2> QED
    BY <2>1, <2>2, <2>3, <2>4, <2>5
<1>8. Total(outputs) \in Int
  BY OutputsAreInts, TotalSum
<1> QED
  BY <1>2, <1>3, <1>4, <1>6, <1>7, <1>8

LEMMA CancelSuffices == BroadcastTypeOK /\ Cancel => KeysCancel
<1> SUFFICES ASSUME BroadcastTypeOK, Cancel PROVE KeysCancel
  OBVIOUS
<1> DEFINE unused == SumOf(KeySums(keys), Clients \ Used)
           speech == SumOf(Speech(said), Spoken)
           left == Total(outputs) + unused
<1>1. /\ unused \in Int /\ left \in Int
      /\ speech \in 0 .. 2 * N * MAX_CHAR
  BY SumTypes
<1>2. MapThenSumSet(LAMBDA x : sum(keys, KeySetOf(x)), Clients \ Used) = unused
  <2>1. \A x \in Clients : sum(keys, KeySetOf(x)) \in Int
    BY KeySetSum DEF BroadcastTypeOK
  <2> QED
    BY <2>1, OutputsAdded DEF KeySums
<1>3. MapThenSumSet(LAMBDA c : Encoded(said[c]), {d \in Clients : said[d] # Null}) = speech
  <2>1. \A c \in Spoken : Encoded(said[c]) \in Int
    BY SumTypes DEF Ints, Speech, Spoken
  <2>2. Spoken = {d \in Clients : said[d] # Null}
    BY DEF Spoken
  <2>3. MapThenSumSet(LAMBDA c : Encoded(said[c]), Spoken)
          = SumOf([c \in Spoken |-> Encoded(said[c])], Spoken)
    BY <2>1, <2>2, SpeechAdded
  <2> QED
    BY <2>2, <2>3 DEF Speech
<1>4. Cong(left, speech)
  BY DEF Cancel
<1>5. speech \in Int /\ speech \in JavaInt
  <2> HIDE DEF speech
  <2>1. Half \in Nat /\ 2 * N * MAX_CHAR < Half /\ 2 * N * MAX_CHAR \in Int
    BY WordHalves, NAssumption
  <2> HIDE DEF Half
  <2>2. speech \in -Half .. Half - 1
    BY <1>1, <2>1
  <2> QED
    BY <1>1, <2>2 DEF JavaInt, Half
<1> HIDE DEF unused, speech, left
<1>6. Wrap(left) \in JavaInt /\ Wrap(left) \in Int /\ Cong(Wrap(left), speech)
  BY <1>1, <1>4, <1>5, Wraps, CongTransitive
<1>7. Wrap(left) = speech
  BY <1>5, <1>6, CongEqual
<1> QED
  BY <1>2, <1>3, <1>7 DEF KeysCancel, left

\* A new generation, none of whose keysets has been used.
LEMMA CancelFresh ==
  ASSUME NEW k \in [Pairs -> KeyValues], NEW w
  PROVE  Cong(Total(<<>>) + SumOf(KeySums(k), Clients), SumOf(Speech(w), {}))
<1>1. Total(<<>>) = 0
  <2>1. <<>> \in Seq(Int) /\ 0 \in Int
    OBVIOUS
  <2> QED
    BY <2>1, TotalGrows
<1>2. Cong(SumOf(KeySums(k), Clients), 0) /\ SumOf(KeySums(k), Clients) \in Int
  <2>1. Ints(KeySums(k), Clients)
    BY KeySetSum DEF Ints, KeySums
  <2> QED
    BY <2>1, KeySetsCancel, KeySetsFinite, SumUnfolds DEF KeySums
<1>3. SumOf(Speech(w), {}) = 0
  <2>1. IsFiniteSet({}) /\ Ints(Speech(w), {})
    BY FS_EmptySet DEF Ints
  <2> QED
    BY <2>1, SumUnfolds
<1>4. Total(<<>>) + SumOf(KeySums(k), Clients) = SumOf(KeySums(k), Clients)
  BY <1>1, <1>2
<1> QED
  BY <1>2, <1>3, <1>4

\* An output uses the keyset its client has got and says one character.
LEMMA TransmitCancels ==
  ASSUME BroadcastTypeOK, RoundInv, Cancel, NEW c \in Clients,
         NEW ch \in Chars \cup {Silence}, Transmit(c, ch)
  PROVE  Cancel'
<1> DEFINE e == entry[c]
           S == Clients \ Used
           f == KeySums(keys)
           t == transmit(ch, keys, KeySetOf(e))
<1>1. /\ c \in Engaged /\ c \notin Spoken /\ Spoken' = Spoken \cup {c}
      /\ \A d \in Spoken : entry[d] # e
  <2>1. /\ c \in Engaged /\ c \notin Spoken /\ Spoken' = Spoken \cup {c}
        /\ Spoken \subseteq Engaged
    BY TransmitRound DEF Spoken, Engaged
  <2> QED
    BY <2>1 DEF RoundInv
<1>2. /\ outputs' = Append(outputs, t)
      /\ said' = [said EXCEPT ![c] = ch] /\ UNCHANGED <<keys, entry>>
      /\ said \in [Clients -> Chars \cup {Silence, Null}]
      /\ keys \in [Pairs -> KeyValues] /\ e \in Clients
  BY DEF Transmit, Set, BroadcastTypeOK
<1>3. Used' = Used \cup {e} /\ e \notin Used /\ e \in S /\ Clients \ Used' = S \ {e}
  BY <1>1, <1>2 DEF Used, Spoken
<1>4. /\ Ints(f, Clients) /\ IsFiniteSet(S) /\ Ints(f, S)
      /\ SumOf(f, S) \in Int /\ SumOf(f, S \ {e}) \in Int
      /\ IsFiniteSet(Spoken) /\ Ints(Speech(said), Spoken)
      /\ SumOf(Speech(said), Spoken) \in Int /\ Total(outputs) \in Int
  <2>1. /\ Ints(f, Clients) /\ IsFiniteSet(S)
        /\ IsFiniteSet(Spoken) /\ Ints(Speech(said), Spoken) /\ Total(outputs) \in Int
    BY SumTypes
  <2>2. SumOf(Speech(said), Spoken) \in Int
    BY <2>1, SumUnfolds
  <2>3. S \in SUBSET Clients /\ S \ {e} \in SUBSET Clients
    OBVIOUS
  <2>4. Ints(f, S) /\ SumOf(f, S) \in Int /\ SumOf(f, S \ {e}) \in Int
    BY <2>1, <2>3, KeySetsFinite, PartsSum
  <2> QED
    BY <2>1, <2>2, <2>4
<1>5. /\ Encoded(ch) \in Int /\ f[e] \in Int /\ t \in Int
      /\ Cong(t, f[e] + Encoded(ch))
  <2>1. /\ Encoded(ch) \in Int /\ sum(keys, KeySetOf(e)) \in Int /\ t \in Int
        /\ Cong(t, sum(keys, KeySetOf(e)) + Encoded(ch))
    BY <1>2, TransmitType
  <2>2. f[e] = sum(keys, KeySetOf(e))
    BY <1>2 DEF KeySums
  <2> QED
    BY <2>1, <2>2
<1>6. SumOf(f, S) = f[e] + SumOf(f, S \ {e})
  BY <1>3, <1>4, SumOfRest
<1>7. SumOf(Speech(said'), Spoken') = SumOf(Speech(said), Spoken) + Encoded(ch)
  <2> DEFINE g == Speech(said')
  <2>1. \A d \in Spoken : g[d] = Speech(said)[d]
    BY <1>1, <1>2 DEF Speech, Spoken
  <2>2. g[c] = Encoded(ch)
    BY <1>1, <1>2 DEF Speech, Spoken
  <2>3. Ints(g, Spoken)
    BY <1>4, <2>1 DEF Ints
  <2> HIDE DEF g
  <2>4. SumOf(g, Spoken) = SumOf(Speech(said), Spoken)
    BY <1>4, <2>1, SameSum
  <2>5. SumOf(g, Spoken \cup {c}) = SumOf(g, Spoken) + g[c]
    BY <1>1, <1>4, <1>5, <2>2, <2>3, SumOfMore
  <2> QED
    BY <1>1, <2>2, <2>4, <2>5 DEF g
<1>8. Total(outputs') \in Int /\ Cong(Total(outputs'), Total(outputs) + t)
  <2>1. outputs \in Seq(Int)
    BY OutputsAreInts
  <2> HIDE DEF t
  <2> QED
    BY <1>2, <1>5, <2>1, TotalGrows
<1> DEFINE T == Total(outputs)
           T1 == Total(outputs')
           rest == SumOf(f, S \ {e})
           x == Encoded(ch)
           w == SumOf(Speech(said), Spoken)
<1>9. T1 + rest \in Int /\ Cong(T1 + rest, w + x)
  <2>1. Cong(T + SumOf(f, S), w)
    BY DEF Cancel
  <2>2. T \in Int /\ T1 \in Int /\ rest \in Int /\ x \in Int /\ w \in Int /\ f[e] \in Int /\ t \in Int
    BY <1>4, <1>5, <1>8
  <2>3. SumOf(f, S) = f[e] + rest /\ Cong(T1, T + t) /\ Cong(t, f[e] + x)
    BY <1>5, <1>6, <1>8
  <2> HIDE DEF T, T1, rest, x, w, t, f, S, e
  <2> DEFINE said1 == f[e] + x
             total == T + said1
  <2>4. said1 \in Int /\ total \in Int /\ Cong(T, T) /\ Cong(rest, rest)
    BY <2>2, CongReflexive
  <2>5. Cong(T + t, total)
    <3> HIDE DEF said1
    <3> QED
      BY <2>2, <2>3, <2>4, CongSums DEF said1
  <2>6. Cong(T1, total)
    BY <2>2, <2>3, <2>5, <2>4, CongTransitive
  <2>7. Cong(T1 + rest, total + rest)
    <3> HIDE DEF total
    <3> QED
      BY <2>2, <2>6, <2>4, CongSums
  <2>8. total + rest = T + SumOf(f, S) + x /\ T + SumOf(f, S) \in Int
    BY <2>2, <2>3
  <2>9. Cong(T + SumOf(f, S) + x, w + x)
    BY <2>1, <2>2, <2>8, CongReflexive, CongSums
  <2> QED
    BY <2>2, <2>7, <2>8, <2>9, CongTransitive
<1>10. KeySums(keys') = f
  BY <1>2
<1> QED
  BY <1>3, <1>7, <1>9, <1>10 DEF Cancel

\* The inductive invariant behind KeysCancel and the line of module Channel.
BroadcastInv == BroadcastTypeOK /\ RoundInv /\ Cancel

LEMMA InitBroadcast == BroadcastInit => BroadcastInv
<1> SUFFICES ASSUME BroadcastInit PROVE BroadcastInv
  OBVIOUS
<1>1. BroadcastTypeOK /\ RoundInv
  BY InitTypes, InitRound
<1>2. outputs = <<>> /\ Spoken = {} /\ Used = {} /\ Clients \ Used = Clients
  BY DEF BroadcastInit, Spoken, Used
<1>3. keys \in [Pairs -> KeyValues]
  BY DEF BroadcastInit
<1>4. Cancel
  BY <1>2, <1>3, CancelFresh DEF Cancel
<1> QED
  BY <1>1, <1>4 DEF BroadcastInv

LEMMA ReceiveKeySetCancels ==
  ASSUME BroadcastTypeOK, RoundInv, Cancel, NEW c \in Clients, ReceiveKeySet(c)
  PROVE  Cancel'
<1>1. c \notin Spoken /\ UNCHANGED <<outputs, said>> /\ Spoken' = Spoken
  BY NotYetEngaged DEF ReceiveKeySet, Spoken
<1>2. CASE UNCHANGED keys
  <2>1. \A d \in Spoken : entry'[d] = entry[d]
    BY <1>1 DEF ReceiveKeySet, Set, Spoken, BroadcastTypeOK
  <2>2. Used' = Used
    BY <1>1, <2>1 DEF Used, Spoken
  <2> QED
    BY <1>1, <1>2, <2>2 DEF Cancel
<1>3. CASE keys' \in [Pairs -> KeyValues] /\ \A d \in Clients : phase[d] = "keys"
  <2>1. Spoken = {}
    BY <1>3 DEF RoundInv, Engaged, Spoken
  <2>2. outputs = <<>>
    <3>1. Len(outputs) = 0
      BY <2>1, FS_EmptySet DEF RoundInv
    <3> QED
      BY <3>1 DEF BroadcastTypeOK
  <2>3. outputs' = <<>> /\ Spoken' = {} /\ Used' = {} /\ Clients \ Used' = Clients
    BY <1>1, <2>1, <2>2 DEF Used, Spoken
  <2> QED
    BY <1>3, <2>3, CancelFresh DEF Cancel
<1> QED
  BY <1>2, <1>3 DEF ReceiveKeySet

LEMMA ReceiveResultsCancels ==
  ASSUME BroadcastTypeOK, Cancel, NEW c \in Clients, ReceiveResults(c)
  PROVE  Cancel'
<1>1. UNCHANGED <<keys, entry>> /\ keys \in [Pairs -> KeyValues]
  BY DEF ReceiveResults, BroadcastTypeOK
<1>2. CASE UNCHANGED <<outputs, said>>
  BY <1>1, <1>2 DEF Cancel, Used, Spoken
<1>3. CASE outputs' = <<>> /\ said' = [d \in Clients |-> Null]
  <2>1. Spoken' = {} /\ Used' = {} /\ Clients \ Used' = Clients
    BY <1>3 DEF Used, Spoken
  <2> QED
    BY <1>1, <1>3, <2>1, CancelFresh DEF Cancel
<1> QED
  BY <1>2, <1>3 DEF ReceiveResults

LEMMA BroadcastInvStep ==
  ASSUME BroadcastInv, [BroadcastNext]_broadcastVars
  PROVE  BroadcastInv'
<1> USE DEF BroadcastInv
<1>1. BroadcastTypeOK'
  BY TypesStay
<1>2. CASE UNCHANGED roundVars
  <2>1. RoundInv'
    BY <1>2 DEF RoundInv, Spoken, Engaged, roundVars
  <2>2. Cancel'
    BY <1>2 DEF Cancel, Used, Spoken, roundVars
  <2> QED
    BY <1>1, <2>1, <2>2
<1>3. ASSUME NEW c \in Clients, ReceiveKeySet(c) PROVE RoundInv' /\ Cancel'
  BY <1>3, ReceiveKeySetRound, ReceiveKeySetCancels
<1>4. ASSUME NEW c \in Clients, TransmitNothing(c) \/ TransmitChar(c) \/ TransmitEnd(c)
      PROVE  RoundInv' /\ Cancel'
  <2>1. PICK ch \in Chars \cup {Silence} : Transmit(c, ch)
    BY <1>4, TransmitStepTypes
  <2> QED
    BY <2>1, TransmitRound, TransmitCancels
<1>5. ASSUME NEW c \in Clients, ReceiveResults(c) PROVE RoundInv' /\ Cancel'
  BY <1>5, ReceiveResultsRound, ReceiveResultsCancels
<1>6. ASSUME NEW c \in Clients, NextFails(c) PROVE RoundInv' /\ Cancel'
  <2>1. UNCHANGED <<keys, entry, outputs, said>>
    BY <1>6 DEF NextFails
  <2>2. Cancel'
    BY <2>1 DEF Cancel, Used, Spoken
  <2> QED
    BY <1>6, <2>2, NextFailsRound
<1>7. (\E c \in Clients : LoopStep(c)) \/ UNCHANGED roundVars
  BY DEF BroadcastNext, Submit, broadcastVars
<1> QED
  BY <1>1, <1>2, <1>3, <1>4, <1>5, <1>6, <1>7 DEF LoopStep

LEMMA BroadcastInvariant == BroadcastSpec => []BroadcastInv
  BY InitBroadcast, BroadcastInvStep, PTL DEF BroadcastSpec

\* Whatever keys are drawn and whoever has sent his output, what is in and what
\* is still to come adds up to what has been said.
THEOREM KeysAlwaysCancel == BroadcastSpec => []KeysCancel
<1>1. BroadcastInv => KeysCancel
  BY CancelSuffices DEF BroadcastInv
<1> QED
  BY <1>1, BroadcastInvariant, PTL

-----------------------------------------------------------------------------
(* The line of module Channel.                                             *)

Heard == {c \in Clients : said[c] # Null /\ phase[c] = "keys"}
HeardBy == IF outputs = <<>> THEN {} ELSE Heard

LEMMA HeardIsHeardBy == BroadcastInv => HeardBy = Heard
<1> SUFFICES ASSUME BroadcastInv, outputs = <<>> PROVE Heard = {}
  BY DEF HeardBy
<1>1. IsFiniteSet(Spoken)
  BY KeySetsFinite, FS_Subset DEF Spoken
<1>2. Spoken = {}
  BY <1>1, FS_EmptySet DEF BroadcastInv, RoundInv
<1> QED
  BY <1>2 DEF Heard, Spoken

\* With all outputs in and all keys cancelled, their total is what was said.
LEMMA TotalIsSpeech ==
  ASSUME BroadcastInv, Spoken = Clients
  PROVE  /\ Total(outputs) = SumOf(Speech(said), Clients)
         /\ Ints(Speech(said), Clients)
         /\ \A c \in Clients : Speech(said)[c] = Encoded(said[c])
                              /\ said[c] \in Chars \cup {Silence}
<1> USE DEF BroadcastInv
<1>1. \A c \in Clients : said[c] # Null
  BY DEF Spoken
<1>2. Used = Clients /\ Clients \ Used = {}
  BY <1>1, AllSpoken DEF Used
<1>3. SumOf(KeySums(keys), {}) = 0
  BY <1>2, SumTypes, PartsSum, SumUnfolds DEF Ints
<1>4. /\ Ints(Speech(said), Clients) /\ Total(outputs) \in Int
      /\ SumOf(Speech(said), Clients) \in 0 .. 2 * N * MAX_CHAR
  BY SumTypes
<1>5. Total(outputs) \in JavaInt
  BY OutputsAreInts, TotalSum
<1> DEFINE speech == SumOf(Speech(said), Clients)
<1>6. speech \in JavaInt
  <2>1. speech \in 0 .. 2 * N * MAX_CHAR
    BY <1>4
  <2>2. Half \in Nat /\ 2 * N * MAX_CHAR < Half /\ 2 * N * MAX_CHAR \in Int
    BY WordHalves, NAssumption
  <2> HIDE DEF Half, speech
  <2>3. speech \in -Half .. Half - 1
    BY <2>1, <2>2
  <2> QED
    BY <2>3 DEF JavaInt, Half
<1>7. Total(outputs) + SumOf(KeySums(keys), Clients \ Used) = Total(outputs)
  BY <1>2, <1>3, <1>4
<1>8. Cong(Total(outputs), speech)
  BY <1>7 DEF Cancel
<1>9. Total(outputs) = speech
  BY <1>5, <1>6, <1>8, CongEqual
<1> QED
  BY <1>1, <1>4, <1>9 DEF Speech, BroadcastTypeOK

\* What collate makes of the outputs may be heard on the line.
LEMMA CollatedIsAudible ==
  ASSUME BroadcastInv, Spoken = Clients
  PROVE  collate(outputs) \in Line!Audible
<1> DEFINE f == Speech(said)
           total == Total(outputs)
<1>1. /\ total = SumOf(f, Clients) /\ Ints(f, Clients)
      /\ \A c \in Clients : f[c] = Encoded(said[c]) /\ said[c] \in Chars \cup {Silence}
  BY TotalIsSpeech
<1>2. /\ IsFiniteSet(Clients) /\ Cardinality(Clients) \in Nat
      /\ MAX_CHAR \in Nat \ {0}
  BY KeySetsFinite, FS_CardinalityType, WordHalves
<1>3. collate(outputs) = ToChar(IF total = 0 \/ total > 2 * MAX_CHAR THEN total ELSE total - MAX_CHAR)
  BY DEF collate
<1> HIDE DEF f, total
<1>4. CASE Line!Speaking = {}
  <2>1. \A c \in Clients : f[c] \in 0 .. 0
    BY <1>1, <1>4 DEF Line!Speaking, Encoded, Silence
  <2>2. SumOf(f, Clients) \in 0 .. 0 * Cardinality(Clients)
    BY <1>2, <2>1, SumBounded
  <2>3. total = 0
    BY <1>1, <1>2, <2>2
  <2>4. collate(outputs) = Silence
    BY <1>2, <1>3, <2>3, CharOfInt DEF Silence
  <2> QED
    BY <1>4, <2>4 DEF Line!Audible
<1>5. ASSUME NEW c \in Line!Speaking, Line!Speaking = {c}
      PROVE  collate(outputs) \in Line!Audible
  <2> DEFINE others == Clients \ {c}
  <2>1. c \in Clients /\ said[c] \in Chars
    BY <1>1, <1>5 DEF Line!Speaking
  <2>2. \A d \in others : f[d] \in 0 .. 0
    BY <1>1, <1>5 DEF Line!Speaking, Encoded, Silence
  <2>3. IsFiniteSet(others) /\ Cardinality(others) \in Nat
    BY <1>2, FS_Subset, FS_CardinalityType
  <2>4. SumOf(f, Clients) = f[c] + SumOf(f, others)
    BY <1>1, <1>2, <2>1, SumOfRest
  <2> HIDE DEF others
  <2>5. SumOf(f, others) \in 0 .. 0 * Cardinality(others)
    BY <2>2, <2>3, SumBounded
  <2>6. f[c] = said[c] + MAX_CHAR /\ said[c] \in 1 .. MAX_CHAR
    BY <1>1, <2>1 DEF Encoded, Chars, Silence
  <2>7. total = said[c] + MAX_CHAR
    BY <1>1, <1>2, <2>3, <2>4, <2>5, <2>6
  <2>8. collate(outputs) = ToChar(said[c])
    BY <1>2, <1>3, <2>6, <2>7
  <2>9. collate(outputs) = said[c]
    BY <1>2, <2>6, <2>8, CharOfInt
  <2> QED
    BY <1>5, <2>9 DEF Line!Audible
<1>6. CASE Line!Speaking # {} /\ ~ \E c \in Line!Speaking : Line!Speaking = {c}
  <2>1. collate(outputs) \in Chars \cup {Silence}
    BY OutputsAreInts, CollateType DEF BroadcastInv
  <2> QED
    BY <1>6, <2>1 DEF Line!Audible
<1> QED
  BY <1>4, <1>5, <1>6

\* The total of a round tells silence, one speaker and several apart.
LEMMA TotalTellsSpeakers == BroadcastInv => CollisionsDetected
<1> SUFFICES ASSUME BroadcastInv, Len(outputs) = N
             PROVE  /\ Total(outputs) = 0 <=> Speaking = {}
                    /\ Total(outputs) > 2 * MAX_CHAR <=> \E c, d \in Speaking : c # d
  BY DEF CollisionsDetected
<1> DEFINE f == Speech(said)
           total == Total(outputs)
<1>1. Spoken = Clients
  BY AllSpoken DEF BroadcastInv
<1>2. /\ total = SumOf(f, Clients) /\ Ints(f, Clients)
      /\ \A c \in Clients : f[c] = Encoded(said[c]) /\ said[c] \in Chars \cup {Silence}
  BY <1>1, TotalIsSpeech
<1>3. /\ IsFiniteSet(Clients) /\ Cardinality(Clients) \in Nat
      /\ MAX_CHAR \in Nat \ {0}
  BY KeySetsFinite, FS_CardinalityType, WordHalves
<1>4. /\ Speaking = {c \in Clients : said[c] \in Chars}
      /\ \A c \in Speaking : f[c] \in MAX_CHAR + 1 .. 2 * MAX_CHAR
      /\ \A c \in Clients \ Speaking : f[c] = 0
  <2>1. \A c \in Clients : said[c] # Null
    BY <1>1 DEF Spoken
  <2>2. Speaking = {c \in Clients : said[c] \in Chars}
    BY <1>2, <2>1, WordHalves DEF Speaking, Chars, Silence
  <2>3. ASSUME NEW x \in Chars PROVE Encoded(x) \in MAX_CHAR + 1 .. 2 * MAX_CHAR
    BY <1>3 DEF Encoded, Chars, Silence
  <2>4. \A c \in Clients \ Speaking : said[c] = Silence
    BY <1>2, <2>2
  <2>5. Encoded(Silence) = 0
    BY DEF Encoded, Silence
  <2> QED
    BY <1>2, <2>2, <2>3, <2>4, <2>5
<1>5. \A T \in SUBSET Clients : /\ IsFiniteSet(T) /\ Ints(f, T) /\ Cardinality(T) \in Nat
                                /\ SumOf(f, T) \in Int
  <2> HIDE DEF f
  <2> QED
    BY <1>2, <1>3, FS_Subset, FS_CardinalityType, PartsSum DEF Ints
<1>6. \A T \in SUBSET Clients : SumOf(f, T) >= 0
  <2> SUFFICES ASSUME NEW T \in SUBSET Clients PROVE SumOf(f, T) >= 0
    OBVIOUS
  <2>1. \A c \in T : f[c] \in 0 .. 2 * MAX_CHAR
    BY <1>3, <1>4
  <2> DEFINE b == 2 * MAX_CHAR
  <2>2. b \in Nat
    BY <1>3
  <2> HIDE DEF f, b
  <2>3. SumOf(f, T) \in 0 .. b * Cardinality(T)
    BY <1>5, <2>1, <2>2, SumBounded DEF b
  <2> QED
    BY <1>5, <2>3
<1> HIDE DEF f, total
<1>7. CASE Speaking = {}
  <2>1. \A c \in Clients : f[c] \in 0 .. 0
    BY <1>4, <1>7
  <2>2. SumOf(f, Clients) \in 0 .. 0 * Cardinality(Clients)
    BY <1>3, <2>1, SumBounded
  <2>3. total = 0
    BY <1>2, <1>3, <2>2
  <2> QED
    BY <1>3, <1>7, <2>3 DEF total
<1>8. ASSUME NEW c \in Speaking, Speaking = {c}
      PROVE  total \in MAX_CHAR + 1 .. 2 * MAX_CHAR
  <2> DEFINE others == Clients \ {c}
  <2>1. c \in Clients /\ others \in SUBSET Clients
    BY DEF Speaking
  <2>2. \A d \in others : f[d] \in 0 .. 0
    BY <1>4, <1>8
  <2>3. SumOf(f, Clients) = f[c] + SumOf(f, others)
    BY <1>2, <1>3, <2>1, SumOfRest
  <2> HIDE DEF others
  <2>4. SumOf(f, others) \in 0 .. 0 * Cardinality(others)
    BY <1>5, <2>1, <2>2, SumBounded
  <2>5. f[c] \in MAX_CHAR + 1 .. 2 * MAX_CHAR
    BY <1>4
  <2> QED
    BY <1>2, <1>3, <1>5, <2>1, <2>3, <2>4, <2>5
<1>9. ASSUME NEW c \in Speaking, NEW d \in Speaking, c # d
      PROVE  total > 2 * MAX_CHAR
  <2> DEFINE others == Clients \ {c}
             rest == others \ {d}
  <2>1. c \in Clients /\ d \in others /\ others \in SUBSET Clients /\ rest \in SUBSET Clients
    BY <1>9 DEF Speaking
  <2>2. SumOf(f, Clients) = f[c] + SumOf(f, others)
    BY <1>2, <1>3, <2>1, SumOfRest
  <2>3. SumOf(f, others) = f[d] + SumOf(f, rest)
    <3> HIDE DEF others
    <3> QED
      BY <1>5, <2>1, SumOfRest
  <2> HIDE DEF others, rest
  <2>4. SumOf(f, rest) \in Int /\ SumOf(f, rest) >= 0 /\ SumOf(f, others) \in Int
    BY <1>5, <1>6, <2>1
  <2>5. f[c] \in MAX_CHAR + 1 .. 2 * MAX_CHAR /\ f[d] \in MAX_CHAR + 1 .. 2 * MAX_CHAR
    BY <1>4
  <2> QED
    BY <1>2, <1>3, <2>2, <2>3, <2>4, <2>5
<1>10. CASE \E c \in Speaking : Speaking = {c}
  <2>1. total \in MAX_CHAR + 1 .. 2 * MAX_CHAR
    BY <1>8, <1>10
  <2>2. total # 0 /\ ~(total > 2 * MAX_CHAR)
    BY <1>3, <2>1
  <2> QED
    BY <1>10, <2>2 DEF total
<1>11. CASE \E c, d \in Speaking : c # d
  <2>1. total > 2 * MAX_CHAR /\ total \in Int
    BY <1>2, <1>5, <1>9, <1>11
  <2>2. total # 0
    BY <1>3, <2>1
  <2> QED
    BY <1>11, <2>1, <2>2 DEF total
<1> QED
  BY <1>7, <1>10, <1>11

\* However many clients speak in a round, and whatever they say, the total of
\* the outputs tells nobody, one and more than one speaking apart.
THEOREM CollisionsAreDetected == BroadcastSpec => []CollisionsDetected
  BY TotalTellsSpeakers, BroadcastInvariant, PTL

LEMMA InitOnLine == BroadcastInit => Line!ChannelInit
  BY DEF BroadcastInit, Line!ChannelInit

LEMMA TransmitOnLine ==
  ASSUME BroadcastInv, NEW c \in Clients, NEW ch \in Chars \cup {Silence}, Transmit(c, ch)
  PROVE  Line!Say(c)
<1>1. /\ outputs' # <<>> /\ said' = [said EXCEPT ![c] = ch] /\ UNCHANGED r
      /\ phase[c] = "start" /\ phase' = [phase EXCEPT ![c] = "results"]
      /\ phase \in [Clients -> {"keys", "start", "results", "dead"}]
  BY DEF Transmit, Set, outputVars, BroadcastInv, BroadcastTypeOK
<1>2. said[c] = Null
  BY <1>1 DEF BroadcastInv, RoundInv
<1>3. HeardBy' = Heard'
  BY <1>1 DEF HeardBy
<1>4. Heard' = Heard
  BY <1>1 DEF Heard, BroadcastInv, BroadcastTypeOK
<1>5. HeardBy' = HeardBy
  BY <1>3, <1>4, HeardIsHeardBy
<1> QED
  BY <1>1, <1>2, <1>5 DEF Line!Say, HeardBy, Heard

LEMMA ReceiveResultsOnLine ==
  ASSUME BroadcastInv, NEW c \in Clients, ReceiveResults(c)
  PROVE  Line!Hear(c)
<1>1. /\ Spoken = Clients /\ \A d \in Clients : said[d] # Null
      /\ outputs # <<>>
  BY AllSpoken, NAssumption DEF ReceiveResults, BroadcastInv, Spoken
<1>2. /\ phase[c] = "results" /\ phase' = [phase EXCEPT ![c] = "keys"]
      /\ phase \in [Clients -> {"keys", "start", "results", "dead"}]
      /\ r' = [r EXCEPT ![c] = collate(outputs)]
      /\ collate(outputs) \in Line!Audible
  BY <1>1, CollatedIsAudible DEF ReceiveResults, Set, BroadcastInv, BroadcastTypeOK
<1>3. HeardBy = {d \in Clients : phase[d] = "keys"}
  BY <1>1 DEF HeardBy, Heard
<1>4. c \notin HeardBy
  BY <1>2, <1>3
<1>5. IF HeardBy \cup {c} = Clients
      THEN said' = [d \in Clients |-> Null] /\ HeardBy' = {}
      ELSE HeardBy' = HeardBy \cup {c} /\ UNCHANGED said
  <2>1. CASE \A d \in Clients \ {c} : phase[d] = "keys"
    <3>1. HeardBy \cup {c} = Clients
      BY <1>3, <2>1
    <3>2. outputs' = <<>> /\ said' = [d \in Clients |-> Null]
      BY <2>1 DEF ReceiveResults
    <3> QED
      BY <3>1, <3>2 DEF HeardBy
  <2>2. CASE ~ \A d \in Clients \ {c} : phase[d] = "keys"
    <3>1. HeardBy \cup {c} # Clients
      BY <1>3, <2>2
    <3>2. UNCHANGED <<outputs, said>>
      BY <2>2 DEF ReceiveResults
    <3>3. HeardBy' = HeardBy \cup {c}
      BY <1>1, <1>2, <3>2 DEF HeardBy, Heard
    <3> QED
      BY <3>1, <3>2, <3>3
  <2> QED
    BY <2>1, <2>2
<1> QED
  BY <1>1, <1>2, <1>4, <1>5 DEF Line!Hear, HeardBy, Heard

LEMMA StepOnLine ==
  ASSUME BroadcastInv, [BroadcastNext]_broadcastVars
  PROVE  [Line!ChannelNext]_Line!channelVars
<1>1. CASE UNCHANGED <<said, r, outputs, phase>>
  BY <1>1 DEF Line!channelVars
<1>2. ASSUME NEW c \in Clients, ReceiveKeySet(c) PROVE UNCHANGED Line!channelVars
  <2>1. c \notin Spoken /\ phase[c] = "keys" /\ phase' = [phase EXCEPT ![c] = "start"]
    BY <1>2, NotYetEngaged DEF ReceiveKeySet, Set, BroadcastInv
  <2>2. UNCHANGED <<said, r, outputs>>
    BY <1>2 DEF ReceiveKeySet, outputVars
  <2>3. Heard' = Heard
    BY <2>1, <2>2 DEF Heard, Spoken, BroadcastInv, BroadcastTypeOK
  <2> QED
    BY <2>2, <2>3 DEF Line!channelVars, Heard
<1>3. ASSUME NEW c \in Clients, TransmitNothing(c) \/ TransmitChar(c) \/ TransmitEnd(c)
      PROVE  Line!Say(c)
  <2>1. PICK ch \in Chars \cup {Silence} : Transmit(c, ch)
    BY <1>3, TransmitStepTypes DEF BroadcastInv
  <2> QED
    BY <2>1, TransmitOnLine
<1>4. ASSUME NEW c \in Clients, ReceiveResults(c) PROVE Line!Hear(c)
  BY <1>4, ReceiveResultsOnLine
<1>5. ASSUME NEW c \in Clients, NextFails(c) PROVE UNCHANGED Line!channelVars
  <2>1. /\ phase[c] = "start" /\ phase' = [phase EXCEPT ![c] = "dead"]
        /\ UNCHANGED <<said, r, outputs>>
    BY <1>5 DEF NextFails, Set, outputVars
  <2>2. Heard' = Heard
    BY <2>1 DEF Heard, BroadcastInv, BroadcastTypeOK
  <2> QED
    BY <2>1, <2>2 DEF Line!channelVars, Heard
<1>6. (\E c \in Clients : LoopStep(c)) \/ UNCHANGED <<said, r, outputs, phase>>
  BY DEF BroadcastNext, Submit, broadcastVars, outputVars, roundVars
<1> QED
  BY <1>1, <1>2, <1>3, <1>4, <1>5, <1>6 DEF LoopStep, Line!ChannelNext

\* To its users the net is a plain line: what one client says alone is what
\* everybody hears, and silence is heard as silence.
THEOREM NetIsALine == BroadcastSpec => ImplementsChannel
<1>1. BroadcastInv /\ [BroadcastNext]_broadcastVars => [Line!ChannelNext]_Line!channelVars
  BY StepOnLine
<1> QED
  BY <1>1, InitOnLine, BroadcastInvariant, PTL
     DEF BroadcastSpec, ImplementsChannel, Line!ChannelSpec

-----------------------------------------------------------------------------
(* What a window shows of messages, as the loop of Rendered makes it.      *)

\* Shown: what was shown, and then a message on a line of its own.
Texts == Seq(Chars \cup {Newline})
Shown(text, m) == IF m = <<>> THEN text ELSE text \o Append(m, Newline)

LEMMA CharsAreText == \A m \in Seq(Chars) : m \in Texts
<1> SUFFICES ASSUME NEW m \in Seq(Chars) PROVE m \in Texts
  OBVIOUS
<1>1. /\ Len(m) \in Nat /\ m = [i \in 1 .. Len(m) |-> m[i]]
      /\ \A i \in 1 .. Len(m) : m[i] \in Chars \cup {Newline}
  OBVIOUS
<1> QED
  BY <1>1 DEF Texts

LEMMA ShownType ==
  ASSUME NEW text \in Texts, NEW m \in Seq(Chars)
  PROVE  Shown(text, m) \in Texts
<1>1. m \in Texts
  BY CharsAreText
<1>2. Append(m, Newline) \in Texts
  BY <1>1 DEF Texts
<1> QED
  BY <1>2 DEF Shown, Texts

\* g holds what is shown of the messages with each set of indices.
Renders(g, ms) ==
  g = [s \in SUBSET DOMAIN ms |->
         IF s = {} THEN <<>> ELSE Shown(g[s \ {Max(s)}], ms[Max(s)])]

LEMMA LastIndex ==
  ASSUME NEW n \in Nat
  PROVE  \A s \in SUBSET (1 .. n) : s # {} => Max(s) \in s
<1>1. IsFiniteSet(1 .. n) /\ 1 .. n \subseteq Nat
  BY FS_Interval
<1> QED
  BY <1>1, LargestExists

LEMMA RendersExists ==
  ASSUME NEW ms \in Seq(Seq(Chars))
  PROVE  \E g \in [SUBSET DOMAIN ms -> Texts] : Renders(g, ms)
<1> DEFINE K == DOMAIN ms
           first == [s \in SUBSET K |-> Max(s)]
           step == [s \in SUBSET K |-> [v \in Texts |-> Shown(v, ms[Max(s)])]]
<1>1. IsFiniteSet(K) /\ \A s \in SUBSET K : s # {} => Max(s) \in s
  <2>1. Len(ms) \in Nat /\ K = 1 .. Len(ms)
    OBVIOUS
  <2>2. IsFiniteSet(1 .. Len(ms))
    BY <2>1, FS_Interval
  <2>3. \A s \in SUBSET (1 .. Len(ms)) : s # {} => Max(s) \in s
    BY <2>1, LastIndex
  <2> HIDE DEF K
  <2> QED
    BY <2>1, <2>2, <2>3
<1>2. \A i \in K : ms[i] \in Seq(Chars)
  OBVIOUS
<1>3. <<>> \in Texts
  BY DEF Texts
<1>4. Foldable(K, Texts, <<>>, first, step)
  <2> HIDE DEF K
  <2>1. ASSUME NEW s \in (SUBSET K) \ {{}}, NEW v \in Texts
        PROVE  step[s][v] \in Texts
    <3>1. ms[Max(s)] \in Seq(Chars)
      BY <1>1, <1>2
    <3> QED
      BY <3>1, ShownType
  <2>2. \A s \in (SUBSET K) \ {{}} : first[s] \in s
    BY <1>1
  <2> HIDE DEF first, step
  <2> QED
    BY <1>1, <1>3, <2>1, <2>2 DEF Foldable
<1>5. PICK g : g \in FoldsOf(K, Texts, <<>>, first, step)
  <2> HIDE DEF K, first, step
  <2> QED
    BY <1>4, FoldExists
<1>6. g \in [SUBSET K -> Texts]
  BY <1>5 DEF FoldsOf
<1>7. ASSUME NEW s \in SUBSET K
      PROVE  g[s] = IF s = {} THEN <<>> ELSE Shown(g[s \ {Max(s)}], ms[Max(s)])
  <2>1. g[s \ {Max(s)}] \in Texts
    BY <1>6
  <2>2. g[s] = IF s = {} THEN <<>> ELSE step[s][g[s \ {first[s]}]]
    BY <1>5 DEF FoldsOf
  <2> QED
    BY <2>1, <2>2
<1> QED
  BY <1>6, <1>7 DEF Renders

\* What is shown of a set of indices depends on the messages with those only.
LEMMA RendersAgree ==
  ASSUME NEW n \in Nat, NEW k \in 0 .. n,
         NEW ms, DOMAIN ms = 1 .. n, NEW ns, DOMAIN ns = 1 .. k,
         \A i \in 1 .. k : ns[i] = ms[i],
         NEW g, Renders(g, ms), NEW h, Renders(h, ns)
  PROVE  g[1 .. k] = h[1 .. k]
<1> DEFINE Same == {s \in SUBSET (1 .. k) : g[s] = h[s]}
<1>1. IsFiniteSet(1 .. k) /\ 1 .. k \subseteq 1 .. n
  BY FS_Interval
<1>2. ASSUME NEW s \in SUBSET (1 .. k), \A i \in s : s \ {i} \in Same PROVE s \in Same
  <2>1. /\ g[s] = IF s = {} THEN <<>> ELSE Shown(g[s \ {Max(s)}], ms[Max(s)])
        /\ h[s] = IF s = {} THEN <<>> ELSE Shown(h[s \ {Max(s)}], ns[Max(s)])
    BY <1>1 DEF Renders
  <2>2. s # {} => Max(s) \in s
    <3>1. k \in Nat
      OBVIOUS
    <3> QED
      BY <3>1, LastIndex
  <2> QED
    BY <1>2, <2>1, <2>2
<1>3. 1 .. k \in Same
  <2> DEFINE K == 1 .. k
  <2> HIDE DEF Same
  <2>1. \A s \in SUBSET K : (\A i \in s : s \ {i} \in Same) => s \in Same
    BY <1>2
  <2>2. IsFiniteSet(K)
    BY <1>1
  <2> HIDE DEF K
  <2>3. SUBSET K \subseteq Same
    BY <2>1, <2>2, SubsetsReached
  <2> QED
    BY <2>3 DEF K
<1> QED
  BY <1>3

LEMMA RenderedIs ==
  ASSUME NEW ms \in Seq(Seq(Chars)), NEW g, Renders(g, ms)
  PROVE  Rendered(ms) = g[1 .. Len(ms)]
<1> DEFINE Iter(h) == h = [s \in SUBSET DOMAIN ms |-> IF s = {} THEN <<>>
                             ELSE IF ms[Max(s)] = <<>> THEN h[s \ {Max(s)}]
                             ELSE h[s \ {Max(s)}] \o Append(ms[Max(s)], Newline)]
           h == CHOOSE i : Iter(i)
<1>1. \A i : Iter(i) <=> Renders(i, ms)
  BY DEF Renders, Shown
<1>2. Renders(h, ms)
  BY <1>1
<1>3. Rendered(ms) = h[DOMAIN ms]
  BY DEF Rendered, FoldLeft, MapThenFoldSet
<1> HIDE DEF h
<1> QED
  BY <1>2, <1>3, RendersAgree

\* Nothing is shown of no messages; one more is shown after all others.
LEMMA RenderedMore ==
  /\ Rendered(<<>>) = <<>>
  /\ \A ms \in Seq(Seq(Chars)) : Rendered(ms) \in Texts
  /\ \A ms \in Seq(Seq(Chars)), m \in Seq(Chars) :
       Rendered(Append(ms, m)) = Shown(Rendered(ms), m)
<1>1. ASSUME NEW ms \in Seq(Seq(Chars)) PROVE Rendered(ms) \in Texts
  <2>1. PICK g \in [SUBSET DOMAIN ms -> Texts] : Renders(g, ms)
    BY RendersExists
  <2> QED
    BY <2>1, RenderedIs
<1>2. Rendered(<<>>) = <<>>
  <2>1. <<>> \in Seq(Seq(Chars)) /\ Len(<<>>) = 0 /\ DOMAIN <<>> = {} /\ 1 .. 0 = {}
    OBVIOUS
  <2>2. PICK g : Renders(g, <<>>)
    BY <2>1, RendersExists
  <2>3. g[{}] = <<>>
    BY <2>1, <2>2 DEF Renders
  <2> QED
    BY <2>1, <2>2, <2>3, RenderedIs
<1>3. ASSUME NEW ms \in Seq(Seq(Chars)), NEW m \in Seq(Chars)
      PROVE  Rendered(Append(ms, m)) = Shown(Rendered(ms), m)
  <2> DEFINE ns == Append(ms, m)
             n == Len(ms)
  <2>1. /\ ns \in Seq(Seq(Chars)) /\ n \in Nat /\ Len(ns) = n + 1 /\ ns[n + 1] = m
        /\ DOMAIN ns = 1 .. n + 1 /\ DOMAIN ms = 1 .. n /\ \A i \in 1 .. n : ns[i] = ms[i]
    OBVIOUS
  <2> HIDE DEF ns, n
  <2>2. PICK g : Renders(g, ns)
    BY <2>1, RendersExists
  <2>3. PICK h : Renders(h, ms)
    BY RendersExists
  <2>4. g[1 .. n] = h[1 .. n]
    BY <2>1, <2>2, <2>3, RendersAgree
  <2>5. Max(1 .. n + 1) = n + 1 /\ (1 .. n + 1) \ {n + 1} = 1 .. n
    <3>1. n + 1 \in 1 .. n + 1 /\ \A y \in 1 .. n + 1 : n + 1 >= y
      BY <2>1
    <3>2. \A x \in 1 .. n + 1 : x >= n + 1 => x = n + 1
      BY <2>1
    <3>3. \A x \in 1 .. n + 1 : (\A y \in 1 .. n + 1 : x >= y) <=> x = n + 1
      BY <3>1, <3>2
    <3> QED
      BY <2>1, <3>1, <3>3 DEF Max
  <2>6. g[1 .. n + 1] = Shown(g[1 .. n], m)
    <3>1. n + 1 \in 1 .. n + 1
      BY <2>1
    <3>2. (1 .. n + 1) # {} /\ (1 .. n + 1) \in SUBSET DOMAIN ns
      BY <2>1, <3>1
    <3> QED
      BY <2>1, <2>2, <2>5, <3>2 DEF Renders
  <2>7. Rendered(ms) = h[1 .. n] /\ Rendered(ns) = g[1 .. n + 1]
    BY <2>1, <2>2, <2>3, RenderedIs DEF n
  <2> QED
    BY <2>4, <2>6, <2>7 DEF ns
<1> QED
  BY <1>1, <1>2, <1>3

-----------------------------------------------------------------------------
(* Prefixes.                                                               *)

Starts(s, t) == Len(s) <= Len(t) /\ \A i \in 1 .. Len(s) : s[i] = t[i]

LEMMA StartsIsPrefix ==
  ASSUME NEW s \in Texts, NEW t \in Texts, Starts(s, t)
  PROVE  IsPrefix(s, t)
<1>1. Len(s) \in Nat /\ Len(t) \in Nat /\ Len(s) <= Len(t)
  BY DEF Texts, Starts
<1>2. SubSeq(s, 1, Len(s)) = [i \in 1 .. Len(s) |-> s[i]]
  BY <1>1 DEF Texts
<1>3. SubSeq(t, 1, Len(s)) = [i \in 1 .. Len(s) |-> t[i]]
  BY <1>1 DEF Texts
<1> QED
  BY <1>1, <1>2, <1>3 DEF IsPrefix, Starts

LEMMA StartsLonger ==
  ASSUME NEW s \in Texts, NEW t \in Texts
  PROVE  s \o t \in Texts /\ Starts(s, s \o t)
BY DEF Texts, Starts

LEMMA StartsTransitive ==
  ASSUME NEW s \in Texts, NEW t \in Texts, NEW u \in Texts, Starts(s, t), Starts(t, u)
  PROVE  Starts(s, u)
BY DEF Texts, Starts

LEMMA MessagesAreTexts ==
  /\ \A ms \in Seq(Messages) : ms \in Seq(Seq(Chars))
  /\ \A m \in Messages : m \in Seq(Chars) /\ m \in Texts
<1>1. \A m \in Messages : m \in Seq(Chars)
  BY MessagesAssumption
<1>2. ASSUME NEW ms \in Seq(Messages) PROVE ms \in Seq(Seq(Chars))
  <2>1. /\ Len(ms) \in Nat /\ ms = [i \in 1 .. Len(ms) |-> ms[i]]
        /\ \A i \in 1 .. Len(ms) : ms[i] \in Seq(Chars)
    BY <1>1
  <2> QED
    BY <2>1
<1> QED
  BY <1>1, <1>2, CharsAreText

\* What is shown of some messages is the beginning of what is shown of more.
LEMMA RenderedParts ==
  ASSUME NEW ms \in Seq(Seq(Chars)), NEW k \in 0 .. Len(ms)
  PROVE  /\ SubSeq(ms, 1, k) \in Seq(Seq(Chars))
         /\ Rendered(SubSeq(ms, 1, k)) \in Texts
         /\ k < Len(ms) => Rendered(SubSeq(ms, 1, k + 1))
                             = Shown(Rendered(SubSeq(ms, 1, k)), ms[k + 1])
<1>1. SubSeq(ms, 1, k) \in Seq(Seq(Chars))
  OBVIOUS
<1>2. k < Len(ms) => /\ SubSeq(ms, 1, k + 1) = Append(SubSeq(ms, 1, k), ms[k + 1])
                     /\ ms[k + 1] \in Seq(Chars)
  OBVIOUS
<1> QED
  BY <1>1, <1>2, RenderedMore

LEMMA RenderedStarts ==
  ASSUME NEW ms \in Seq(Seq(Chars)), NEW k \in 0 .. Len(ms)
  PROVE  Starts(Rendered(SubSeq(ms, 1, k)), Rendered(ms))
<1> DEFINE R(j) == Rendered(SubSeq(ms, 1, j))
           Reached == {j \in Nat : k + j <= Len(ms) => Starts(R(k), R(k + j))}
<1>1. Len(ms) \in Nat /\ k \in Nat
  OBVIOUS
<1>2. \A j \in 0 .. Len(ms) : R(j) \in Texts
  BY RenderedParts
<1>3. \A j \in 0 .. Len(ms) - 1 : R(j + 1) = Shown(R(j), ms[j + 1]) /\ ms[j + 1] \in Seq(Chars)
  <2> SUFFICES ASSUME NEW j \in 0 .. Len(ms) - 1
               PROVE  R(j + 1) = Shown(R(j), ms[j + 1]) /\ ms[j + 1] \in Seq(Chars)
    OBVIOUS
  <2>1. j \in 0 .. Len(ms) /\ j < Len(ms) /\ ms[j + 1] \in Seq(Chars)
    OBVIOUS
  <2> QED
    BY <2>1, RenderedParts
<1>4. R(Len(ms)) = Rendered(ms)
  <2>1. SubSeq(ms, 1, Len(ms)) = ms
    OBVIOUS
  <2> QED
    BY <2>1
<1> HIDE DEF R
<1>5. 0 \in Reached
  <2>1. R(k) \in Texts /\ k + 0 = k
    BY <1>1, <1>2
  <2>2. Starts(R(k), R(k))
    BY <2>1 DEF Starts, Texts
  <2> QED
    BY <2>1, <2>2
<1>6. ASSUME NEW j \in Reached PROVE j + 1 \in Reached
  <2> SUFFICES ASSUME k + (j + 1) <= Len(ms) PROVE Starts(R(k), R(k + (j + 1)))
    OBVIOUS
  <2>1. /\ k + j \in 0 .. Len(ms) - 1 /\ k + j \in 0 .. Len(ms) /\ k + (j + 1) = (k + j) + 1
        /\ (k + j) + 1 \in 0 .. Len(ms)
    BY <1>1
  <2>2. Starts(R(k), R(k + j))
    BY <1>1, <2>1
  <2>3. R(k) \in Texts /\ R(k + j) \in Texts /\ R((k + j) + 1) \in Texts
    BY <1>2, <2>1
  <2>4. Starts(R(k + j), R((k + j) + 1))
    <3> DEFINE m == ms[(k + j) + 1]
    <3>1. R((k + j) + 1) = Shown(R(k + j), m) /\ m \in Seq(Chars)
      BY <1>3, <2>1
    <3> HIDE DEF m
    <3>2. CASE m = <<>>
      BY <2>3, <3>1, <3>2 DEF Shown, Starts, Texts
    <3>3. CASE m # <<>>
      <4>1. m \in Texts
        BY <3>1, CharsAreText
      <4>2. Append(m, Newline) \in Texts
        BY <4>1 DEF Texts
      <4> QED
        BY <2>3, <3>1, <3>3, <4>2, StartsLonger DEF Shown
    <3> QED
      BY <3>2, <3>3
  <2> QED
    BY <2>1, <2>2, <2>3, <2>4, StartsTransitive
<1>7. Len(ms) - k \in Nat /\ k + (Len(ms) - k) = Len(ms)
  BY <1>1
<1>8. Len(ms) - k \in Reached
  <2> HIDE DEF Reached
  <2>1. Reached \in SUBSET Nat
    BY DEF Reached
  <2> QED
    BY <1>5, <1>6, <1>7, <2>1, NumbersReached
<1>9. Starts(R(k), R(Len(ms)))
  BY <1>7, <1>8
<1> QED
  BY <1>4, <1>9 DEF R

-----------------------------------------------------------------------------
(* From the sender's input buffer to everybody's display.                  *)

\* How many of its messages a client has sent to the end, and what it has
\* said so far, as it is to be displayed.
Held(s) == IF currentMessage[s] = Null THEN 0 ELSE 1
Ended(s) == Len(submitted[s]) - Len(inputBuf[s]) - Held(s)
Begun(s) == IF currentMessage[s] = Null THEN <<>>
            ELSE SubSeq(currentMessage[s], 1, currentMessageIndex[s])
Uttered(s) == Rendered(SubSeq(submitted[s], 1, Ended(s))) \o Begun(s)

\* Messages are in hand and in the buffer as they were submitted.
QueueOK(s) ==
  /\ Ended(s) \in Nat
  /\ \A i \in 1 .. Len(inputBuf[s]) :
       inputBuf[s][i] = submitted[s][Len(submitted[s]) - Len(inputBuf[s]) + i]
  /\ currentMessage[s] = Null => currentMessageIndex[s] = 0
  /\ currentMessage[s] # Null =>
       /\ currentMessageIndex[s] \in 1 .. Len(currentMessage[s])
       /\ currentMessage[s] = submitted[s][Ended(s) + 1]

\* Who has submitted nothing says nothing.
SilentOK(s) == submitted[s] = <<>> => said[s] \in {Null, Silence}

\* c has still to hear what s has said in this round; until then its display
\* lacks just that.
Missing(c, s) == said[s] # Null /\ (phase[c] # "keys" \/ said[c] = Null)
Shows(c, s) == display[c] = Uttered(s) /\ (inMessageFlag[c] <=> currentMessage[s] # Null)
WillShow(c, s) ==
  /\ said[s] # Silence =>
       /\ currentMessage[s] # Null
       /\ Append(display[c], said[s]) = Uttered(s)
  /\ said[s] = Silence =>
       /\ currentMessage[s] = Null
       /\ (IF inMessageFlag[c] THEN Append(display[c], Newline) ELSE display[c]) = Uttered(s)
DisplayOK(s) ==
  OnlySpeaker(s) => \A c \in Clients : IF Missing(c, s) THEN WillShow(c, s) ELSE Shows(c, s)

DisplayInv == \A s \in Clients : QueueOK(s) /\ SilentOK(s) /\ DisplayOK(s)

LEMMA InitDisplay == BroadcastInit => DisplayInv
<1> SUFFICES ASSUME BroadcastInit, NEW s \in Clients
             PROVE  QueueOK(s) /\ SilentOK(s) /\ DisplayOK(s)
  BY DEF DisplayInv
<1>1. /\ inputBuf[s] = <<>> /\ currentMessage[s] = Null /\ currentMessageIndex[s] = 0
      /\ submitted[s] = <<>> /\ said[s] = Null
      /\ \A c \in Clients : display[c] = <<>> /\ inMessageFlag[c] = FALSE
  BY DEF BroadcastInit
<1>2. Ended(s) = 0 /\ QueueOK(s)
  BY <1>1 DEF Ended, Held, QueueOK
<1>3. Uttered(s) = <<>>
  <2>1. SubSeq(<<>>, 1, 0) = <<>>
    OBVIOUS
  <2>2. Uttered(s) = <<>> \o <<>>
    BY <1>1, <1>2, <2>1, RenderedMore DEF Uttered, Begun
  <2> QED
    BY <2>2
<1> QED
  BY <1>1, <1>2, <1>3 DEF SilentOK, DisplayOK, Missing, Shows

\* A step that leaves alone what the sender's part is about.
LEMMA QueueStays ==
  ASSUME NEW s \in Clients, QueueOK(s),
         submitted'[s] = submitted[s], inputBuf'[s] = inputBuf[s],
         currentMessage'[s] = currentMessage[s],
         currentMessageIndex'[s] = currentMessageIndex[s]
  PROVE  QueueOK(s)' /\ Uttered(s)' = Uttered(s) /\ Ended(s)' = Ended(s)
<1>1. Ended(s)' = Ended(s)
  BY DEF Ended, Held
<1> QED
  BY <1>1 DEF QueueOK, Uttered, Begun

LEMMA SubmitDisplay ==
  ASSUME BroadcastTypeOK, DisplayInv, NEW c \in Clients, Submit(c)
  PROVE  DisplayInv'
<1> SUFFICES ASSUME NEW s \in Clients
             PROVE  QueueOK(s)' /\ SilentOK(s)' /\ DisplayOK(s)'
  BY DEF DisplayInv
<1>1. QueueOK(s) /\ SilentOK(s) /\ DisplayOK(s)
  BY DEF DisplayInv
<1>2. PICK m \in Messages :
        /\ inputBuf' = [inputBuf EXCEPT ![c] = Append(inputBuf[c], m)]
        /\ submitted' = [submitted EXCEPT ![c] = Append(submitted[c], m)]
  BY DEF Submit, Set
<1>3. UNCHANGED <<currentMessage, currentMessageIndex, display, inMessageFlag, said, phase>>
  BY DEF Submit, outputVars, roundVars
<1>4. /\ submitted[c] \in Seq(Messages) /\ inputBuf[c] \in Seq(Messages)
      /\ submitted'[c] = Append(submitted[c], m) /\ inputBuf'[c] = Append(inputBuf[c], m)
      /\ \A d \in Clients : d # c => submitted'[d] = submitted[d] /\ inputBuf'[d] = inputBuf[d]
  BY <1>2 DEF BroadcastTypeOK
<1>5. submitted'[c] # <<>>
  BY <1>4
<1>6. CASE s # c
  <2>1. QueueOK(s)'
    BY <1>1, <1>3, <1>4, <1>6, QueueStays
  <2>2. SilentOK(s)'
    BY <1>1, <1>3, <1>4, <1>6 DEF SilentOK
  <2>3. ~OnlySpeaker(s)'
    BY <1>5, <1>6 DEF OnlySpeaker
  <2> QED
    BY <2>1, <2>2, <2>3 DEF DisplayOK
<1>7. CASE s = c
  <2> DEFINE n == Len(submitted[c])
             b == Len(inputBuf[c])
             k == Held(c)
  <2>1. /\ n \in Nat /\ b \in Nat /\ Len(submitted'[c]) = n + 1 /\ Len(inputBuf'[c]) = b + 1
        /\ \A i \in 1 .. n : submitted'[c][i] = submitted[c][i]
        /\ \A i \in 1 .. b : inputBuf'[c][i] = inputBuf[c][i]
        /\ submitted'[c][n + 1] = m /\ inputBuf'[c][b + 1] = m
    BY <1>4
  <2>2. /\ Held(c)' = k /\ k \in 0 .. 1
        /\ k = 1 <=> currentMessage[c] # Null
    BY <1>3 DEF Held
  <2>3. /\ Ended(c) = n - b - k /\ Ended(c)' = (n + 1) - (b + 1) - k
        /\ Ended(c) \in Nat
    BY <1>1, <1>7, <2>1, <2>2 DEF Ended, QueueOK
  <2> HIDE DEF n, b, k
  <2>4. Ended(c)' = Ended(c) /\ Ended(c) \in 0 .. n /\ n - b \in 0 .. n
        /\ (k = 1 => Ended(c) + 1 \in 1 .. n)
    BY <2>1, <2>2, <2>3
  <2>5. SubSeq(submitted'[c], 1, Ended(c)) = SubSeq(submitted[c], 1, Ended(c))
    BY <1>4, <2>1, <2>4 DEF n
  <2>6. Uttered(c)' = Uttered(c)
    BY <1>3, <2>4, <2>5 DEF Uttered, Begun
  <2>7. ASSUME NEW i \in 1 .. b + 1
        PROVE  inputBuf'[c][i] = submitted'[c][(n + 1) - (b + 1) + i]
    <3>1. CASE i = b + 1
      <4>1. (n + 1) - (b + 1) + i = n + 1
        BY <2>1, <3>1
      <4> QED
        BY <2>1, <3>1, <4>1
    <3>2. CASE i \in 1 .. b
      <4>1. inputBuf[c][i] = submitted[c][n - b + i]
        BY <1>1, <1>7, <3>2 DEF QueueOK, n, b
      <4>2. n \in Nat /\ b \in Nat /\ i \in Nat /\ 1 <= i /\ i <= b /\ n - b >= 0
        BY <2>1, <2>4, <3>2
      <4>3. n - b + i \in 1 .. n /\ (n + 1) - (b + 1) + i = n - b + i
        BY <4>2
      <4> QED
        BY <2>1, <3>2, <4>1, <4>3
    <3>3. i = b + 1 \/ i \in 1 .. b
      BY <2>1
    <3> QED
      BY <3>1, <3>2, <3>3
  <2>8. currentMessage[c] # Null => submitted'[c][Ended(c) + 1] = submitted[c][Ended(c) + 1]
    BY <2>1, <2>2, <2>4
  <2>9. \A i \in 1 .. Len(inputBuf'[c]) :
          inputBuf'[c][i] = submitted'[c][Len(submitted'[c]) - Len(inputBuf'[c]) + i]
    BY <2>1, <2>7
  <2>10. QueueOK(c)'
    BY <1>1, <1>3, <1>7, <2>3, <2>4, <2>8, <2>9 DEF QueueOK
  <2>11. SilentOK(c)'
    BY <1>5 DEF SilentOK
  <2>12. OnlySpeaker(c)' => OnlySpeaker(c)
    BY <1>4 DEF OnlySpeaker
  <2>13. DisplayOK(c)'
    BY <1>1, <1>3, <1>7, <2>6, <2>12 DEF DisplayOK, Missing, WillShow, Shows
  <2> QED
    BY <1>7, <2>10, <2>11, <2>13
<1> QED
  BY <1>6, <1>7

\* The message at hand is the first one not yet sent, taken or still to be
\* taken; taking it leaves in the buffer what was submitted after it.
LEMMA NextAtHand ==
  ASSUME BroadcastTypeOK, NEW c \in Clients, QueueOK(c), AtHand(c) # Null, TakeAtHand(c),
         submitted'[c] = submitted[c]
  PROVE  /\ AtHand(c) \in Seq(Chars) /\ AtHand(c) \in Messages
         /\ Ended(c) \in 0 .. Len(submitted[c]) - 1
         /\ AtHand(c) = submitted[c][Ended(c) + 1]
         /\ currentMessageIndex[c] \in 0 .. Len(AtHand(c))
         /\ currentMessage[c] = Null <=> currentMessageIndex[c] = 0
         /\ Begun(c) = SubSeq(AtHand(c), 1, currentMessageIndex[c])
         /\ Len(submitted[c]) - Len(inputBuf'[c]) = Ended(c) + 1
         /\ \A i \in 1 .. Len(inputBuf'[c]) :
              inputBuf'[c][i] = submitted[c][Len(submitted[c]) - Len(inputBuf'[c]) + i]
<1> DEFINE n == Len(submitted[c])
           b == Len(inputBuf[c])
<1>1. /\ inputBuf \in [Clients -> Seq(Messages)] /\ inputBuf[c] \in Seq(Messages)
      /\ submitted[c] \in Seq(Messages) /\ currentMessageIndex[c] \in Nat
      /\ n \in Nat /\ b \in Nat
  BY DEF BroadcastTypeOK
<1>2. AtHand(c) \in Messages /\ AtHand(c) \in Seq(Chars)
  BY AtHandType, MessagesAreTexts
<1>3. CASE currentMessage[c] # Null
  <2>1. /\ AtHand(c) = currentMessage[c] /\ inputBuf'[c] = inputBuf[c]
        /\ Held(c) = 1
    BY <1>3 DEF AtHand, TakeAtHand, Takes, Held
  <2>2. Ended(c) = n - b - 1 /\ Ended(c) \in Nat
    BY <1>1, <2>1 DEF Ended, QueueOK
  <2>3. /\ currentMessageIndex[c] \in 1 .. Len(AtHand(c))
        /\ AtHand(c) = submitted[c][Ended(c) + 1]
        /\ \A i \in 1 .. b : inputBuf[c][i] = submitted[c][n - b + i]
    BY <1>3, <2>1 DEF QueueOK
  <2>4. Begun(c) = SubSeq(AtHand(c), 1, currentMessageIndex[c])
    BY <1>3, <2>1 DEF Begun
  <2>5. /\ currentMessageIndex[c] \in 0 .. Len(AtHand(c)) /\ currentMessageIndex[c] # 0
    BY <1>1, <1>2, <2>3
  <2>6. Ended(c) \in 0 .. n - 1 /\ n - b = Ended(c) + 1
    <3> HIDE DEF n, b
    <3> QED
      BY <1>1, <2>2
  <2> QED
    BY <1>2, <1>3, <2>1, <2>3, <2>4, <2>5, <2>6
<1>4. CASE currentMessage[c] = Null
  <2>1. inputBuf[c] # <<>> /\ Takes(c)
    BY <1>4 DEF AtHand, Takes
  <2>2. AtHand(c) = inputBuf[c][1] /\ inputBuf'[c] = Tail(inputBuf[c]) /\ Held(c) = 0
    BY <1>1, <1>4, <2>1 DEF AtHand, TakeAtHand, Set, Held
  <2>3. /\ b >= 1 /\ Len(inputBuf'[c]) = b - 1
        /\ \A i \in 1 .. b - 1 : inputBuf'[c][i] = inputBuf[c][i + 1]
    BY <1>1, <2>1, <2>2
  <2>4. Ended(c) = n - b - 0 /\ Ended(c) \in Nat
    BY <1>1, <2>2 DEF Ended, QueueOK
  <2>5. /\ currentMessageIndex[c] = 0
        /\ \A i \in 1 .. b : inputBuf[c][i] = submitted[c][n - b + i]
    BY <1>4 DEF QueueOK
  <2>6. SubSeq(AtHand(c), 1, 0) = <<>> /\ 0 \in 0 .. Len(AtHand(c))
    BY <1>2
  <2>7. Begun(c) = SubSeq(AtHand(c), 1, currentMessageIndex[c])
    BY <1>4, <2>5, <2>6 DEF Begun
  <2> HIDE DEF n, b
  <2>8. /\ Ended(c) = n - b /\ Ended(c) \in 0 .. n - 1 /\ n - (b - 1) = Ended(c) + 1
        /\ AtHand(c) = submitted[c][Ended(c) + 1]
    BY <1>1, <2>2, <2>3, <2>4, <2>5
  <2>9. ASSUME NEW i \in 1 .. b - 1
        PROVE  inputBuf'[c][i] = submitted[c][n - (b - 1) + i]
    <3>1. i + 1 \in 1 .. b /\ n - b + (i + 1) = n - (b - 1) + i
      BY <1>1, <2>3
    <3> QED
      BY <2>3, <2>5, <3>1
  <2>10. \A i \in 1 .. Len(inputBuf'[c]) :
           inputBuf'[c][i] = submitted[c][n - Len(inputBuf'[c]) + i]
    BY <2>3, <2>9
  <2> QED
    BY <1>2, <1>4, <2>3, <2>5, <2>6, <2>7, <2>8, <2>10 DEF n
<1> QED
  BY <1>3, <1>4

\* A client utters a character: one of its message, or none.
Utters(c, ch) ==
  \/ TransmitNothing(c) /\ ch = Silence
  \/ TransmitChar(c) /\ ch = AtHand(c)[currentMessageIndex[c] + 1]
  \/ TransmitEnd(c) /\ ch = Silence

\* What is to be displayed grows by what is uttered; a silence ends the line
\* of the message that was in hand, and otherwise adds nothing.
Growth(c, ch) ==
  /\ ch = Silence =>
       /\ currentMessage'[c] = Null
       /\ currentMessage[c] = Null => Uttered(c)' = Uttered(c)
       /\ currentMessage[c] # Null => Uttered(c)' = Append(Uttered(c), Newline)
  /\ ch # Silence => /\ currentMessage'[c] # Null
                     /\ Uttered(c)' = Append(Uttered(c), ch)

LEMMA NothingUttered ==
  ASSUME BroadcastTypeOK, NEW c \in Clients, QueueOK(c), TransmitNothing(c)
  PROVE  QueueOK(c)' /\ Growth(c, Silence)
<1>1. UNCHANGED <<submitted, inputBuf, currentMessage, currentMessageIndex>>
  BY DEF TransmitNothing, Transmit, inputVars
<1>2. currentMessage[c] = Null
  <2>1. inputBuf[c] # <<>> => Head(inputBuf[c]) \in Messages
    BY DEF BroadcastTypeOK
  <2> QED
    BY <2>1, NoTextAssumption DEF TransmitNothing, AtHand, Takes
<1>3. QueueOK(c)' /\ Uttered(c)' = Uttered(c)
  BY <1>1, QueueStays
<1> QED
  BY <1>1, <1>2, <1>3 DEF Growth

LEMMA CharUttered ==
  ASSUME BroadcastTypeOK, NEW c \in Clients, QueueOK(c), TransmitChar(c),
         NEW ch, ch = AtHand(c)[currentMessageIndex[c] + 1]
  PROVE  QueueOK(c)' /\ Growth(c, ch) /\ ch \in Chars /\ submitted[c] # <<>>
<1> DEFINE m == AtHand(c)
           i == currentMessageIndex[c]
           e == Ended(c)
           n == Len(submitted[c])
<1>1. /\ m # Null /\ i < Len(m) /\ TakeAtHand(c) /\ submitted' = submitted
      /\ currentMessage'[c] = m /\ currentMessageIndex'[c] = i + 1
  BY DEF TransmitChar, Transmit, Set, BroadcastTypeOK
<1>2. /\ m \in Seq(Chars) /\ e \in 0 .. n - 1 /\ m = submitted[c][e + 1] /\ i \in 0 .. Len(m)
      /\ Begun(c) = SubSeq(m, 1, i)
      /\ n - Len(inputBuf'[c]) = e + 1
      /\ \A j \in 1 .. Len(inputBuf'[c]) :
           inputBuf'[c][j] = submitted[c][n - Len(inputBuf'[c]) + j]
  BY <1>1, NextAtHand
<1>3. n \in Nat /\ submitted[c] \in Seq(Messages) /\ submitted[c] \in Seq(Seq(Chars))
  BY MessagesAreTexts DEF BroadcastTypeOK
<1>4. Held(c)' = 1
  BY <1>1 DEF Held
<1>5. Ended(c)' = n - Len(inputBuf'[c]) - 1
  BY <1>1, <1>4 DEF Ended
<1> HIDE DEF m, i, e, n
<1>6. Ended(c)' = e /\ e \in 0 .. n /\ e \in Nat
  <2>1. e \in 0 .. n - 1 /\ n \in Nat
    BY <1>2, <1>3
  <2>2. e \in 0 .. n /\ e \in Nat /\ (e + 1) - 1 = e
    BY <2>1
  <2> QED
    BY <1>2, <1>5, <2>2
<1>7. i + 1 \in 1 .. Len(m) /\ ch = m[i + 1]
  BY <1>1, <1>2 DEF m, i
<1>8. QueueOK(c)'
  BY <1>1, <1>2, <1>6, <1>7 DEF QueueOK, n
<1>9. Begun(c)' = Append(Begun(c), ch) /\ Begun(c) \in Texts /\ ch \in Chars
  <2>1. SubSeq(m, 1, i + 1) = Append(SubSeq(m, 1, i), m[i + 1])
    <3>1. m \in Seq(Chars) /\ i \in Nat /\ i + 1 \in 1 .. Len(m)
      BY <1>2, <1>7
    <3> QED
      BY <3>1
  <2>2. SubSeq(m, 1, i) \in Seq(Chars) /\ m[i + 1] \in Chars
    BY <1>2, <1>7
  <2> QED
    BY <1>1, <1>2, <1>7, <2>1, <2>2, CharsAreText DEF Begun
<1>10. Rendered(SubSeq(submitted[c], 1, e)) \in Texts
  BY <1>3, <1>6, RenderedParts DEF n
<1>11. Uttered(c)' = Append(Uttered(c), ch)
  <2> DEFINE t == Rendered(SubSeq(submitted[c], 1, e))
             u == Begun(c)
  <2>1. Uttered(c) = t \o u /\ Uttered(c)' = t \o Begun(c)'
    BY <1>1, <1>6 DEF Uttered, e
  <2>2. t \in Texts /\ u \in Texts /\ ch \in Chars \cup {Newline}
    BY <1>9, <1>10
  <2>3. Begun(c)' = Append(u, ch)
    BY <1>9
  <2> HIDE DEF t, u
  <2>4. t \o Append(u, ch) = Append(t \o u, ch)
    BY <2>2 DEF Texts
  <2> QED
    BY <2>1, <2>3, <2>4
<1>12. ch # Silence
  BY <1>9, WordHalves DEF Chars, Silence
<1>13. submitted[c] # <<>>
  BY <1>2, <1>3 DEF n
<1> QED
  BY <1>1, <1>8, <1>9, <1>11, <1>12, <1>13 DEF Growth, m

LEMMA EndUttered ==
  ASSUME BroadcastTypeOK, NEW c \in Clients, QueueOK(c), TransmitEnd(c)
  PROVE  QueueOK(c)' /\ Growth(c, Silence)
<1> DEFINE m == AtHand(c)
           i == currentMessageIndex[c]
           e == Ended(c)
           n == Len(submitted[c])
           R == Rendered(SubSeq(submitted[c], 1, e))
<1>1. /\ m # Null /\ i >= Len(m) /\ TakeAtHand(c) /\ submitted' = submitted
      /\ currentMessage'[c] = Null /\ currentMessageIndex'[c] = 0
  BY DEF TransmitEnd, Transmit, Set, BroadcastTypeOK
<1>2. /\ m \in Seq(Chars) /\ e \in 0 .. n - 1 /\ m = submitted[c][e + 1] /\ i \in 0 .. Len(m)
      /\ currentMessage[c] = Null <=> i = 0
      /\ Begun(c) = SubSeq(m, 1, i)
      /\ n - Len(inputBuf'[c]) = e + 1
      /\ \A j \in 1 .. Len(inputBuf'[c]) :
           inputBuf'[c][j] = submitted[c][n - Len(inputBuf'[c]) + j]
  BY <1>1, NextAtHand
<1>3. n \in Nat /\ submitted[c] \in Seq(Seq(Chars))
  BY MessagesAreTexts DEF BroadcastTypeOK
<1>4. Held(c)' = 0
  BY <1>1 DEF Held
<1>5. Ended(c)' = n - Len(inputBuf'[c]) - 0
  BY <1>1, <1>4 DEF Ended
<1>6. Uttered(c) = R \o Begun(c) /\ Begun(c)' = <<>>
      /\ Uttered(c)' = Rendered(SubSeq(submitted[c], 1, Ended(c)')) \o <<>>
  BY <1>1 DEF Uttered, Begun
<1>7. e \in 0 .. n
  <2>1. e \in 0 .. n - 1 /\ n \in Nat
    BY <1>2, <1>3
  <2> HIDE DEF e, n
  <2> QED
    BY <2>1
<1>8. R \in Texts /\ Rendered(SubSeq(submitted[c], 1, e + 1)) = Shown(R, submitted[c][e + 1])
      /\ Rendered(SubSeq(submitted[c], 1, e + 1)) \in Texts
  <2>1. e < n /\ e + 1 \in 0 .. n
    <3>1. e \in 0 .. n - 1 /\ n \in Nat
      BY <1>2, <1>3
    <3> HIDE DEF e, n
    <3> QED
      BY <3>1
  <2> HIDE DEF e
  <2> QED
    BY <1>3, <1>7, <2>1, RenderedParts
<1> HIDE DEF m, i, e, n, R
<1>9. Ended(c)' = e + 1 /\ Ended(c)' \in Nat
  <2>1. e \in Nat /\ e + 1 \in Nat /\ (e + 1) - 0 = e + 1
    BY <1>7
  <2> QED
    BY <1>2, <1>5, <2>1
<1>10. QueueOK(c)'
  BY <1>1, <1>2, <1>9 DEF QueueOK, n
<1>11. Uttered(c)' = Shown(R, m)
  BY <1>2, <1>6, <1>8, <1>9 DEF Texts
<1>12. i = Len(m) /\ Begun(c) = m
  BY <1>1, <1>2
<1>13. currentMessage[c] = Null => Uttered(c)' = Uttered(c)
  <2>1. m = <<>> <=> Len(m) = 0
    BY <1>2
  <2>2. R \o <<>> = R
    BY <1>8 DEF Texts
  <2> QED
    BY <1>2, <1>6, <1>11, <1>12, <2>1, <2>2 DEF Shown
<1>14. currentMessage[c] # Null => Uttered(c)' = Append(Uttered(c), Newline)
  <2>1. m = <<>> <=> Len(m) = 0
    BY <1>2
  <2>2. m \in Texts
    BY <1>2, CharsAreText
  <2>3. R \o Append(m, Newline) = Append(R \o m, Newline)
    BY <1>8, <2>2 DEF Texts
  <2> QED
    BY <1>2, <1>6, <1>11, <1>12, <2>1, <2>3 DEF Shown
<1> QED
  BY <1>1, <1>10, <1>13, <1>14 DEF Growth

LEMMA UtterStep ==
  ASSUME BroadcastTypeOK, NEW c \in Clients, QueueOK(c), NEW ch, Utters(c, ch)
  PROVE  /\ QueueOK(c)' /\ ch \in Chars \cup {Silence}
         /\ submitted[c] = <<>> => ch = Silence
         /\ Growth(c, ch)
<1>1. CASE TransmitNothing(c) /\ ch = Silence
  BY <1>1, NothingUttered
<1>2. CASE TransmitChar(c) /\ ch = AtHand(c)[currentMessageIndex[c] + 1]
  BY <1>2, CharUttered
<1>3. CASE TransmitEnd(c) /\ ch = Silence
  BY <1>3, EndUttered
<1> QED
  BY <1>1, <1>2, <1>3 DEF Utters

LEMMA UtterDisplay ==
  ASSUME BroadcastTypeOK, RoundInv, DisplayInv, NEW c \in Clients,
         TransmitNothing(c) \/ TransmitChar(c) \/ TransmitEnd(c)
  PROVE  DisplayInv'
<1>1. PICK ch : Utters(c, ch) /\ Transmit(c, ch)
  <2>1. CASE TransmitNothing(c) \/ TransmitEnd(c)
    <3>1. Utters(c, Silence) /\ Transmit(c, Silence)
      BY <2>1 DEF Utters, TransmitNothing, TransmitEnd
    <3> QED
      BY <3>1
  <2>2. CASE TransmitChar(c)
    <3>1. PICK x : x = AtHand(c)[currentMessageIndex[c] + 1]
      OBVIOUS
    <3>2. Transmit(c, x)
      BY <2>2, <3>1 DEF TransmitChar, Transmit, Set
    <3>3. Utters(c, x)
      BY <2>2, <3>1 DEF Utters
    <3> QED
      BY <3>2, <3>3
  <2> QED
    BY <2>1, <2>2
<1>2. /\ QueueOK(c)' /\ ch \in Chars \cup {Silence} /\ Growth(c, ch)
      /\ submitted[c] = <<>> => ch = Silence
  BY <1>1, UtterStep DEF DisplayInv
<1>3. /\ c \notin Spoken /\ Spoken' = Spoken \cup {c}
      /\ phase[c] = "start" /\ phase' = [phase EXCEPT ![c] = "results"]
      /\ said' = [said EXCEPT ![c] = ch]
      /\ UNCHANGED <<display, inMessageFlag, submitted>>
      /\ phase \in [Clients -> {"keys", "start", "results", "dead"}]
      /\ said \in [Clients -> Chars \cup {Silence, Null}]
  BY <1>1, <1>2, TransmitRound DEF Transmit, Set, outputVars, BroadcastTypeOK
<1>4. said[c] = Null /\ said'[c] = ch /\ ch # Null
  BY <1>3 DEF Spoken
<1>5. ASSUME NEW s \in Clients, s # c
      PROVE  /\ inputBuf'[s] = inputBuf[s] /\ currentMessage'[s] = currentMessage[s]
             /\ currentMessageIndex'[s] = currentMessageIndex[s]
  BY <1>5 DEF TransmitNothing, TransmitChar, TransmitEnd, TakeAtHand, Takes, Set, inputVars,
              BroadcastTypeOK
<1>6. ASSUME NEW s \in Clients, s # c
      PROVE  QueueOK(s)' /\ SilentOK(s)' /\ DisplayOK(s)'
  <2>1. QueueOK(s) /\ SilentOK(s) /\ DisplayOK(s)
    BY DEF DisplayInv
  <2>2. QueueOK(s)' /\ Uttered(s)' = Uttered(s)
    BY <1>3, <1>5, <1>6, <2>1, QueueStays
  <2>3. said'[s] = said[s]
    BY <1>3, <1>6
  <2>4. \A d \in Clients : Missing(d, s)' <=> Missing(d, s)
    BY <1>3, <1>4, <2>3 DEF Missing
  <2>5. \A d \in Clients : /\ WillShow(d, s)' <=> WillShow(d, s)
                           /\ Shows(d, s)' <=> Shows(d, s)
    BY <1>3, <1>5, <1>6, <2>2, <2>3 DEF WillShow, Shows
  <2>6. SilentOK(s)' /\ (OnlySpeaker(s)' <=> OnlySpeaker(s))
    BY <1>3, <2>1, <2>3 DEF SilentOK, OnlySpeaker
  <2> QED
    BY <2>1, <2>2, <2>4, <2>5, <2>6 DEF DisplayOK
<1>7. SilentOK(c)'
  BY <1>2, <1>3, <1>4 DEF SilentOK
<1>8. DisplayOK(c)'
  <2> SUFFICES ASSUME OnlySpeaker(c)', NEW d \in Clients
               PROVE  Missing(d, c)' /\ WillShow(d, c)'
    BY DEF DisplayOK
  <2>1. Shows(d, c)
    BY <1>3, <1>4 DEF DisplayInv, DisplayOK, OnlySpeaker, Missing
  <2>2. Missing(d, c)'
    <3>1. ASSUME phase'[d] = "keys", said'[d] # Null PROVE FALSE
      <4>1. d # c /\ phase[d] = "keys" /\ said[d] # Null
        BY <1>3, <3>1
      <4> QED
        BY <1>3, <4>1 DEF RoundInv
    <3> QED
      BY <1>4, <3>1 DEF Missing
  <2>3. ch # Silence => /\ currentMessage'[c] # Null
                        /\ Append(display'[d], said'[c]) = Uttered(c)'
    BY <1>2, <1>3, <1>4, <2>1 DEF Growth, Shows
  <2>4. ch = Silence =>
          /\ currentMessage'[c] = Null
          /\ (IF inMessageFlag'[d] THEN Append(display'[d], Newline) ELSE display'[d])
               = Uttered(c)'
    BY <1>2, <1>3, <2>1 DEF Growth, Shows
  <2> QED
    BY <1>4, <2>2, <2>3, <2>4 DEF WillShow
<1> QED
  BY <1>2, <1>6, <1>7, <1>8 DEF DisplayInv

LEMMA KeySetDisplay ==
  ASSUME BroadcastTypeOK, RoundInv, DisplayInv, NEW c \in Clients, ReceiveKeySet(c)
  PROVE  DisplayInv'
<1>1. /\ said[c] = Null /\ phase' = [phase EXCEPT ![c] = "start"]
      /\ UNCHANGED <<inputBuf, currentMessage, currentMessageIndex, display, inMessageFlag,
                     said, submitted>>
      /\ phase \in [Clients -> {"keys", "start", "results", "dead"}]
  BY NotYetEngaged DEF ReceiveKeySet, Set, inputVars, outputVars, Spoken, BroadcastTypeOK
<1> SUFFICES ASSUME NEW s \in Clients
             PROVE  QueueOK(s)' /\ SilentOK(s)' /\ DisplayOK(s)'
  BY DEF DisplayInv
<1>2. QueueOK(s) /\ SilentOK(s) /\ DisplayOK(s)
  BY DEF DisplayInv
<1>3. QueueOK(s)' /\ Uttered(s)' = Uttered(s)
  BY <1>1, <1>2, QueueStays
<1>4. \A d \in Clients : Missing(d, s)' <=> Missing(d, s)
  BY <1>1 DEF Missing
<1>5. \A d \in Clients : /\ WillShow(d, s)' <=> WillShow(d, s)
                         /\ Shows(d, s)' <=> Shows(d, s)
  BY <1>1, <1>3 DEF WillShow, Shows
<1>6. SilentOK(s)' /\ (OnlySpeaker(s)' <=> OnlySpeaker(s))
  BY <1>1, <1>2 DEF SilentOK, OnlySpeaker
<1> QED
  BY <1>2, <1>3, <1>4, <1>5, <1>6 DEF DisplayOK

LEMMA NextFailsDisplay ==
  ASSUME BroadcastTypeOK, DisplayInv, NEW c \in Clients, NextFails(c)
  PROVE  DisplayInv'
<1>1. /\ phase[c] = "start" /\ phase' = [phase EXCEPT ![c] = "dead"]
      /\ UNCHANGED <<inputBuf, currentMessage, currentMessageIndex, display, inMessageFlag,
                     said, submitted>>
      /\ phase \in [Clients -> {"keys", "start", "results", "dead"}]
  BY DEF NextFails, Set, inputVars, outputVars, BroadcastTypeOK
<1> SUFFICES ASSUME NEW s \in Clients
             PROVE  QueueOK(s)' /\ SilentOK(s)' /\ DisplayOK(s)'
  BY DEF DisplayInv
<1>2. QueueOK(s) /\ SilentOK(s) /\ DisplayOK(s)
  BY DEF DisplayInv
<1>3. QueueOK(s)' /\ Uttered(s)' = Uttered(s)
  BY <1>1, <1>2, QueueStays
<1>4. \A d \in Clients : /\ Missing(d, s)' <=> Missing(d, s)
                         /\ WillShow(d, s)' <=> WillShow(d, s)
                         /\ Shows(d, s)' <=> Shows(d, s)
  BY <1>1, <1>3 DEF Missing, WillShow, Shows
<1>5. SilentOK(s)' /\ (OnlySpeaker(s)' <=> OnlySpeaker(s))
  BY <1>1, <1>2 DEF SilentOK, OnlySpeaker
<1> QED
  BY <1>2, <1>3, <1>4, <1>5 DEF DisplayOK

\* Who alone has submitted anything is heard.
LEMMA LoneSpeakerHeard ==
  ASSUME BroadcastInv, DisplayInv, Spoken = Clients, NEW s \in Clients, OnlySpeaker(s)
  PROVE  collate(outputs) = said[s]
<1>1. \A c \in Clients : said[c] \in Chars \cup {Silence}
  BY DEF BroadcastInv, BroadcastTypeOK, Spoken
<1>2. \A c \in Clients \ {s} : said[c] = Silence
  BY <1>1, NoTextAssumption, NullAssumption, NAssumption
     DEF DisplayInv, SilentOK, OnlySpeaker, Spoken
<1>3. Silence \notin Chars
  BY WordHalves DEF Chars, Silence
<1>4. collate(outputs) \in Line!Audible
  BY CollatedIsAudible
<1>5. CASE said[s] = Silence
  <2>1. Line!Speaking = {}
    BY <1>2, <1>3, <1>5 DEF Line!Speaking
  <2> QED
    BY <1>4, <1>5, <2>1 DEF Line!Audible
<1>6. CASE said[s] \in Chars
  <2>1. Line!Speaking = {s}
    BY <1>2, <1>3, <1>6 DEF Line!Speaking
  <2> QED
    BY <1>4, <2>1 DEF Line!Audible
<1> QED
  BY <1>1, <1>5, <1>6

LEMMA ResultsDisplay ==
  ASSUME BroadcastInv, DisplayInv, NEW c \in Clients, ReceiveResults(c)
  PROVE  DisplayInv'
<1>1. /\ Spoken = Clients /\ \A d \in Clients : said[d] # Null
      /\ phase[c] = "results" /\ phase' = [phase EXCEPT ![c] = "keys"]
      /\ UNCHANGED <<inputBuf, currentMessage, currentMessageIndex, submitted>>
      /\ phase \in [Clients -> {"keys", "start", "results", "dead"}]
  BY AllSpoken DEF ReceiveResults, Set, inputVars, Spoken, BroadcastInv, BroadcastTypeOK
<1>2. \/ said' = said
      \/ /\ said' = [d \in Clients |-> Null]
         /\ \A d \in Clients \ {c} : phase[d] = "keys"
  BY DEF ReceiveResults
<1>3. \A d \in Clients : d # c => /\ display'[d] = display[d]
                                  /\ inMessageFlag'[d] = inMessageFlag[d]
  BY DEF ReceiveResults, Display, Set, BroadcastInv, BroadcastTypeOK
<1> SUFFICES ASSUME NEW s \in Clients
             PROVE  QueueOK(s)' /\ SilentOK(s)' /\ DisplayOK(s)'
  BY DEF DisplayInv
<1>4. QueueOK(s) /\ SilentOK(s) /\ DisplayOK(s)
  BY DEF DisplayInv
<1>5. QueueOK(s)' /\ Uttered(s)' = Uttered(s)
  BY <1>1, <1>4, QueueStays
<1>6. SilentOK(s)'
  BY <1>1, <1>2, <1>4 DEF SilentOK
<1>7. ASSUME OnlySpeaker(s) PROVE Shows(c, s)'
  <2>1. collate(outputs) = said[s] /\ WillShow(c, s)
    BY <1>1, <1>4, <1>7, LoneSpeakerHeard DEF DisplayOK, Missing
  <2>2. Display(c, collate(outputs))
    BY DEF ReceiveResults
  <2>3. CASE said[s] # Silence
    <3>1. display'[c] = Append(display[c], said[s]) /\ inMessageFlag'[c] = TRUE
      BY <2>1, <2>2, <2>3 DEF Display, Set, BroadcastInv, BroadcastTypeOK
    <3> QED
      BY <1>1, <1>5, <2>1, <2>3, <3>1 DEF WillShow, Shows
  <2>4. CASE said[s] = Silence
    <3>1. /\ inMessageFlag'[c] = FALSE
          /\ display'[c] = IF inMessageFlag[c] THEN Append(display[c], Newline) ELSE display[c]
      BY <2>1, <2>2, <2>4 DEF Display, Set, BroadcastInv, BroadcastTypeOK
    <3> QED
      BY <1>1, <1>5, <2>1, <2>4, <3>1 DEF WillShow, Shows
  <2> QED
    BY <2>3, <2>4
<1>8. ~Missing(c, s)'
  BY <1>1, <1>2 DEF Missing
<1>9. ASSUME NEW d \in Clients, d # c, OnlySpeaker(s)
      PROVE  IF Missing(d, s)' THEN WillShow(d, s)' ELSE Shows(d, s)'
  <2>1. IF Missing(d, s) THEN WillShow(d, s) ELSE Shows(d, s)
    BY <1>4, <1>9 DEF DisplayOK
  <2>2. /\ Missing(d, s) <=> phase[d] # "keys"
        /\ phase'[d] = phase[d]
    BY <1>1, <1>9 DEF Missing
  <2>3. Shows(d, s)' <=> Shows(d, s)
    BY <1>1, <1>3, <1>5, <1>9 DEF Shows
  <2>4. CASE said' = said
    <3>1. (Missing(d, s)' <=> Missing(d, s)) /\ (WillShow(d, s)' <=> WillShow(d, s))
      BY <1>1, <1>3, <1>5, <1>9, <2>2, <2>4 DEF Missing, WillShow
    <3> QED
      BY <2>1, <2>3, <3>1
  <2>5. CASE /\ said' = [e \in Clients |-> Null]
             /\ \A e \in Clients \ {c} : phase[e] = "keys"
    <3>1. ~Missing(d, s)' /\ ~Missing(d, s)
      BY <1>9, <2>2, <2>5 DEF Missing
    <3> QED
      BY <2>1, <2>3, <3>1
  <2> QED
    BY <1>2, <2>4, <2>5
<1>10. OnlySpeaker(s)' <=> OnlySpeaker(s)
  BY <1>1 DEF OnlySpeaker
<1> QED
  BY <1>5, <1>6, <1>7, <1>8, <1>9, <1>10 DEF DisplayOK

LEMMA DisplayInvStep ==
  ASSUME BroadcastInv, DisplayInv, [BroadcastNext]_broadcastVars
  PROVE  DisplayInv'
<1>1. CASE UNCHANGED broadcastVars
  <2> SUFFICES ASSUME NEW s \in Clients
               PROVE  QueueOK(s)' /\ SilentOK(s)' /\ DisplayOK(s)'
    BY DEF DisplayInv
  <2>1. QueueOK(s) /\ SilentOK(s) /\ DisplayOK(s)
    BY DEF DisplayInv
  <2>2. UNCHANGED <<inputBuf, currentMessage, currentMessageIndex, display, inMessageFlag,
                    said, phase, submitted>>
    BY <1>1 DEF broadcastVars, inputVars, outputVars, roundVars
  <2>3. QueueOK(s)' /\ Uttered(s)' = Uttered(s)
    BY <2>1, <2>2, QueueStays
  <2>4. SilentOK(s)' /\ DisplayOK(s)'
    BY <2>1, <2>2, <2>3 DEF SilentOK, DisplayOK, OnlySpeaker, Missing, WillShow, Shows
  <2> QED
    BY <2>3, <2>4
<1>2. ASSUME NEW c \in Clients, Submit(c) PROVE DisplayInv'
  BY <1>2, SubmitDisplay DEF BroadcastInv
<1>3. ASSUME NEW c \in Clients, LoopStep(c) PROVE DisplayInv'
  BY <1>3, KeySetDisplay, UtterDisplay, NextFailsDisplay, ResultsDisplay
     DEF LoopStep, BroadcastInv
<1> QED
  BY <1>1, <1>2, <1>3 DEF BroadcastNext

\* What a client has said so far is a start of what its messages look like.
LEMMA UtteredStarts ==
  ASSUME BroadcastTypeOK, NEW s \in Clients, QueueOK(s)
  PROVE  /\ Uttered(s) \in Texts /\ Rendered(submitted[s]) \in Texts
         /\ Starts(Uttered(s), Rendered(submitted[s]))
<1> DEFINE n == Len(submitted[s])
           b == Len(inputBuf[s])
           e == Ended(s)
           m == currentMessage[s]
           i == currentMessageIndex[s]
           R == Rendered(SubSeq(submitted[s], 1, e))
<1>1. /\ n \in Nat /\ b \in Nat /\ Held(s) \in 0 .. 1 /\ submitted[s] \in Seq(Seq(Chars))
      /\ m = Null \/ Held(s) = 1
  BY MessagesAreTexts DEF BroadcastTypeOK, Held
<1>2. e = n - b - Held(s) /\ e \in Nat
  BY DEF Ended, QueueOK
<1>3. e \in 0 .. n /\ (Held(s) = 1 => e < n /\ e + 1 \in 0 .. n)
  <2> HIDE DEF n, b, e, m
  <2> QED
    BY <1>1, <1>2
<1>4. Uttered(s) = R \o Begun(s)
  BY DEF Uttered
<1>5. /\ Rendered(submitted[s]) \in Texts
      /\ R \in Texts /\ Starts(R, Rendered(submitted[s]))
  <2> HIDE DEF e
  <2> QED
    BY <1>1, <1>3, RenderedMore, RenderedParts, RenderedStarts
<1>6. CASE m = Null
  <2>1. R \o <<>> = R
    BY <1>5 DEF Texts
  <2> QED
    BY <1>4, <1>5, <1>6, <2>1 DEF Begun
<1>7. CASE m # Null
  <2>1. /\ m \in Seq(Chars) /\ i \in 1 .. Len(m) /\ m = submitted[s][e + 1]
        /\ Begun(s) = SubSeq(m, 1, i)
    BY <1>7, MessagesAreTexts DEF BroadcastTypeOK, QueueOK, Begun
  <2>2. e < n /\ e + 1 \in 0 .. n
    BY <1>1, <1>3, <1>7
  <2>3. /\ Rendered(SubSeq(submitted[s], 1, e + 1)) \in Texts
        /\ Rendered(SubSeq(submitted[s], 1, e + 1)) = Shown(R, submitted[s][e + 1])
        /\ Starts(Rendered(SubSeq(submitted[s], 1, e + 1)), Rendered(submitted[s]))
    <3> HIDE DEF e
    <3> QED
      BY <1>1, <1>3, <2>2, RenderedParts, RenderedStarts
  <2> HIDE DEF m, i, R
  <2>4. /\ m # <<>> /\ m \in Texts /\ SubSeq(m, 1, i) \in Texts
        /\ Len(SubSeq(m, 1, i)) = i /\ \A j \in 1 .. i : SubSeq(m, 1, i)[j] = m[j]
    <3>1. m \in Seq(Chars) /\ i \in 1 .. Len(m) /\ Len(m) \in Nat
      BY <2>1
    <3>2. SubSeq(m, 1, i) \in Seq(Chars) /\ m # <<>> /\ i \in Nat
      BY <3>1
    <3>3. Len(SubSeq(m, 1, i)) = i
      BY <3>1, <3>2
    <3>4. \A j \in 1 .. i : SubSeq(m, 1, i)[j] = m[j]
      BY <3>1, <3>2
    <3> QED
      BY <3>1, <3>2, <3>3, <3>4, CharsAreText
  <2> DEFINE u == SubSeq(m, 1, i)
             v == Append(m, Newline)
  <2>5. u \in Texts /\ v \in Texts /\ Starts(u, v)
    BY <2>1, <2>4 DEF Texts, Starts
  <2> HIDE DEF u, v
  <2>6. Starts(R \o u, R \o v) /\ R \o u \in Texts /\ R \o v \in Texts
    BY <1>5, <2>5 DEF Texts, Starts
  <2>7. Uttered(s) = R \o u
    BY <1>4, <2>1 DEF u
  <2>8. Rendered(SubSeq(submitted[s], 1, e + 1)) = R \o v
    BY <2>1, <2>3, <2>4 DEF Shown, v
  <2> QED
    BY <1>5, <2>3, <2>6, <2>7, <2>8, StartsTransitive
<1> QED
  BY <1>6, <1>7

LEMMA DisplaySuffices == BroadcastInv /\ DisplayInv => DisplayedAsSubmitted
<1> SUFFICES ASSUME BroadcastInv, DisplayInv, NEW s \in Clients, OnlySpeaker(s), NEW c \in Clients
             PROVE  IsPrefix(display[c], Rendered(submitted[s]))
  BY DEF DisplayedAsSubmitted
<1>1. /\ Uttered(s) \in Texts /\ Rendered(submitted[s]) \in Texts
      /\ Starts(Uttered(s), Rendered(submitted[s]))
  BY UtteredStarts DEF BroadcastInv, DisplayInv
<1>2. /\ display[c] \in Texts
      /\ \A x \in Chars \cup {Newline} :
           Append(display[c], x) \in Texts /\ Starts(display[c], Append(display[c], x))
  BY DEF BroadcastInv, BroadcastTypeOK, Texts, Starts
<1>3. Missing(c, s) => said[s] \in Chars \cup {Silence}
  BY DEF Missing, BroadcastInv, BroadcastTypeOK
<1>4. Silence = Newline
  BY DEF Silence, Newline
<1>5. Starts(display[c], Uttered(s))
  <2>1. CASE Shows(c, s)
    <3>1. Starts(display[c], display[c])
      BY <1>2 DEF Texts, Starts
    <3> QED
      BY <2>1, <3>1 DEF Shows
  <2>2. CASE Missing(c, s) /\ WillShow(c, s)
    <3>1. Starts(display[c], display[c])
      BY <1>2 DEF Texts, Starts
    <3> QED
      BY <1>2, <1>3, <1>4, <2>2, <3>1 DEF WillShow
  <2> QED
    BY <2>1, <2>2 DEF DisplayInv, DisplayOK
<1> QED
  BY <1>1, <1>2, <1>5, StartsTransitive, StartsIsPrefix

\* A lone user's messages appear in every window as they were submitted, in
\* order and whole but for the last: for any number of clients, any keys,
\* and any messages, whoever is ahead or behind in the round.
THEOREM ShownAsSubmitted == BroadcastSpec => []DisplayedAsSubmitted
<1>1. BroadcastInit => DisplayInv
  BY InitDisplay
<1>2. BroadcastInv /\ DisplayInv /\ [BroadcastNext]_broadcastVars => DisplayInv'
  BY DisplayInvStep
<1>3. BroadcastInv /\ DisplayInv => DisplayedAsSubmitted
  BY DisplaySuffices
<1> QED
  BY <1>1, <1>2, <1>3, BroadcastInvariant, PTL DEF BroadcastSpec
=============================================================================
