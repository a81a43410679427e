----------------------------- MODULE Broadcast -----------------------------
(***************************************************************************)
(* What the clients say and display: DiningLoop.run, getNextChar, transmit *)
(* and collate with their data, over rounds as the server means them to be *)
(* (every client's results are the outputs of one round, all enciphered    *)
(* with one generation of keys).  Whether the server keeps to that is the  *)
(* subject of module DiningSystem: with one client it does, with several   *)
(* it may not.  The input buffer is the queue of module InputQueue, which  *)
(* StrBuffer implements: it has length places altogether and may lose a    *)
(* message.                                                                *)
(***************************************************************************)
EXTENDS DcNet

CONSTANTS Speakers,    \* the clients whose users submit anything
          Messages,    \* what they submit: sequences of Chars
          length,      \* the size of a client's input buffer
          MaxMessages  \* bound: messages submitted altogether

ASSUME SpeakersAssumption == Speakers \subseteq Clients /\ MaxMessages \in Nat
ASSUME LengthAssumption == length \in Nat \ {0}
ASSUME MessagesAssumption == Messages \subseteq Seq(Chars)
ASSUME NoTextAssumption == Null \notin Chars /\ Null \notin Messages

VARIABLES inputBuf,             \* messages submitted and not yet taken
          lost,                 \* the first of them has been lost
          currentMessage,       \* the message being sent, or Null
          currentMessageIndex,  \* how much of it has been sent
          inMessageFlag,        \* the display is inside a message
          display,              \* the text area: characters and newlines
          r,                    \* the character found in the last round
          phase,                \* waits for "keys", START_ROUND or "results", or
                                \* the main thread is "dead"
          keysDistributed,      \* keysets of this generation handed out
          keys,                 \* the values of this generation's keys
          entry,                \* entry[c]: which keyset of it c has got
          outputs,              \* the outputs of the round, as they arrived
          said,                 \* history: what each client encoded, or Null
          submitted             \* history: all messages submitted

inputVars == <<inputBuf, lost, currentMessage, currentMessageIndex>>
outputVars == <<inMessageFlag, display, r>>
roundVars == <<phase, keysDistributed, keys, entry, outputs, said>>
broadcastVars == <<inputVars, outputVars, roundVars, submitted>>

Newline == 0   \* stands for "\n": the char 0 itself is never displayed

BroadcastTypeOK ==
  /\ inputBuf \in [Clients -> Seq(Messages)]
  /\ lost \in [Clients -> BOOLEAN]
  /\ currentMessage \in [Clients -> Messages \cup {Null}]
  /\ currentMessageIndex \in [Clients -> Nat]
  /\ inMessageFlag \in [Clients -> BOOLEAN]
  /\ display \in [Clients -> Seq(Chars \cup {Newline})]
  /\ r \in [Clients -> Chars \cup {Silence}]
  /\ phase \in [Clients -> {"keys", "start", "results", "dead"}]
  /\ keysDistributed \in 0 .. N
  /\ keys \in [Pairs -> KeyValues]
  /\ entry \in [Clients -> Clients]
  /\ outputs \in Seq(JavaInt)
  /\ said \in [Clients -> Chars \cup {Silence, Null}]
  /\ submitted \in [Clients -> Seq(Messages)]

BroadcastInit ==
  /\ inputBuf = [c \in Clients |-> <<>>]
  /\ lost = [c \in Clients |-> FALSE]
  /\ currentMessage = [c \in Clients |-> Null]
  /\ currentMessageIndex = [c \in Clients |-> 0]
  /\ inMessageFlag = [c \in Clients |-> FALSE]
  /\ display = [c \in Clients |-> <<>>]
  /\ r = [c \in Clients |-> Silence]
  /\ phase = [c \in Clients |-> "keys"]
  /\ keysDistributed = 0
  /\ keys \in [Pairs -> KeyValues]
  /\ entry = [c \in Clients |-> 0]
  /\ outputs = <<>>
  /\ said = [c \in Clients |-> Null]
  /\ submitted = [c \in Clients |-> <<>>]

Set(v, c, x) == v' = [v EXCEPT ![c] = x]

-----------------------------------------------------------------------------
(* StrBuffer.readPosition, and what next does when it is at the end: it    *)
(* throws, and nothing catches the exception.                              *)
readPosition(c) == Len(submitted[c]) - Len(inputBuf[c])
NextThrows(c) == currentMessage[c] = Null /\ readPosition(c) = length

(* actionPerformed and inputString: the text goes to the buffer's end.     *)
(* When the buffer has no place left, or submitInput is null, an exception *)
(* leaves everything as it was.  The text is lost when the main thread is  *)
(* in next, has found no message, and has still to clear the entry.        *)
Submit(c) ==
  /\ c \in Speakers
  /\ Len(submitted[c]) < length
  /\ MapThenSumSet(LAMBDA d : Len(submitted[d]), Clients) < MaxMessages
  /\ \E m \in Messages : /\ Set(inputBuf, c, Append(inputBuf[c], m))
                        /\ Set(submitted, c, Append(submitted[c], m))
  /\ \/ UNCHANGED lost
     \/ /\ phase[c] = "start" /\ currentMessage[c] = Null /\ inputBuf[c] = <<>>
        /\ Set(lost, c, TRUE)
  /\ UNCHANGED <<currentMessage, currentMessageIndex, outputVars, roundVars>>

-----------------------------------------------------------------------------
(* getKeySet of client and server: the entries in the order of arrival,    *)
(* and a new generation once all are out and the round is over.            *)
ReceiveKeySet(c) ==
  /\ phase[c] = "keys"
  /\ Set(phase, c, "start")
  /\ \/ /\ keysDistributed < N
        /\ Set(entry, c, keysDistributed)
        /\ keysDistributed' = keysDistributed + 1
        /\ UNCHANGED keys
     \/ /\ keysDistributed = N
        /\ \A d \in Clients : phase[d] = "keys"
        /\ Set(entry, c, 0)
        /\ keysDistributed' = 1
        /\ keys' \in [Pairs -> KeyValues]
  /\ UNCHANGED <<inputVars, outputVars, outputs, said, submitted>>

(* transmit: the client's output joins the others at the server. *)
Transmit(c, ch) ==
  /\ phase[c] = "start"
  /\ Set(phase, c, "results")
  /\ outputs' = Append(outputs, transmit(ch, keys, KeySetOf(entry[c])))
  /\ Set(said, c, ch)
  /\ UNCHANGED <<outputVars, keysDistributed, keys, entry, submitted>>

(* getNextChar: the next message is taken when there is none at hand; the  *)
(* end of a message takes a round of its own.  After a loss next finds     *)
(* null for ever.                                                          *)
Takes(c) == currentMessage[c] = Null /\ inputBuf[c] # <<>> /\ ~lost[c]
AtHand(c) == IF Takes(c) THEN Head(inputBuf[c]) ELSE currentMessage[c]
TakeAtHand(c) ==
  /\ IF Takes(c) THEN Set(inputBuf, c, Tail(inputBuf[c])) ELSE UNCHANGED inputBuf
  /\ UNCHANGED lost

(* The exception ends the main thread; the window and the socket stay.     *)
NextFails(c) ==
  /\ phase[c] = "start"
  /\ NextThrows(c)
  /\ Set(phase, c, "dead")
  /\ UNCHANGED <<inputVars, outputVars, keysDistributed, keys, entry, outputs, said, submitted>>

TransmitNothing(c) ==
  /\ ~NextThrows(c)
  /\ AtHand(c) = Null
  /\ Transmit(c, Silence)
  /\ UNCHANGED inputVars

TransmitChar(c) ==
  /\ AtHand(c) # Null
  /\ currentMessageIndex[c] < Len(AtHand(c))
  /\ Transmit(c, AtHand(c)[currentMessageIndex[c] + 1])
  /\ TakeAtHand(c)
  /\ Set(currentMessage, c, AtHand(c))
  /\ Set(currentMessageIndex, c, currentMessageIndex[c] + 1)

TransmitEnd(c) ==
  /\ AtHand(c) # Null
  /\ currentMessageIndex[c] >= Len(AtHand(c))
  /\ Transmit(c, Silence)
  /\ TakeAtHand(c)
  /\ Set(currentMessage, c, Null)
  /\ Set(currentMessageIndex, c, 0)

-----------------------------------------------------------------------------
(* Mutants: a message does not end its line; a line ends again and again.  *)
DisplayOneLine(c, ch) ==
  IF ch # Silence
  THEN Set(display, c, Append(display[c], ch)) /\ Set(inMessageFlag, c, TRUE)
  ELSE UNCHANGED <<display, inMessageFlag>>

DisplayKeepsFlag(c, ch) ==
  IF ch # Silence
  THEN Set(display, c, Append(display[c], ch)) /\ Set(inMessageFlag, c, TRUE)
  ELSE /\ display' = [display EXCEPT ![c] = IF inMessageFlag[c] THEN Append(@, Newline) ELSE @]
       /\ UNCHANGED inMessageFlag

(* The results: collate, and display what comes out; the first silence     *)
(* after a message ends the line.  The last client to have them ends the   *)
(* round, for which the server clears the outputs.                         *)
Display(c, ch) ==
  \/ /\ ch # Silence
     /\ Set(display, c, Append(display[c], ch))
     /\ Set(inMessageFlag, c, TRUE)
  \/ /\ ch = Silence /\ inMessageFlag[c]
     /\ Set(display, c, Append(display[c], Newline))
     /\ Set(inMessageFlag, c, FALSE)
  \/ /\ ch = Silence /\ ~inMessageFlag[c]
     /\ UNCHANGED <<display, inMessageFlag>>

ReceiveResults(c) ==
  /\ phase[c] = "results"
  /\ Len(outputs) = N
  /\ Set(r, c, collate(outputs))
  /\ Display(c, collate(outputs))
  /\ Set(phase, c, "keys")
  /\ IF \A d \in Clients \ {c} : phase[d] = "keys"
     THEN outputs' = <<>> /\ said' = [d \in Clients |-> Null]
     ELSE UNCHANGED <<outputs, said>>
  /\ UNCHANGED <<inputVars, keysDistributed, keys, entry, submitted>>

LoopStep(c) ==
  \/ ReceiveKeySet(c) \/ TransmitNothing(c) \/ TransmitChar(c) \/ TransmitEnd(c)
  \/ NextFails(c) \/ ReceiveResults(c)

BroadcastNext == \E c \in Clients : Submit(c) \/ LoopStep(c)

BroadcastSpec == BroadcastInit /\ [][BroadcastNext]_broadcastVars

-----------------------------------------------------------------------------
\* KeysCancel: at any point of a round, what the outputs that have arrived and
\* the keysets not yet used add up to is what has been said, every key with
\* its opposite or on its way: the invariant behind collate (generateKeySets
\* against KeySet.sum and transmit, in wrapping arithmetic).
Used == {entry[c] : c \in {d \in Clients : said[d] # Null}}
KeysCancel ==
  Wrap(Total(outputs) + MapThenSumSet(LAMBDA x : sum(keys, KeySetOf(x)), Clients \ Used))
    = MapThenSumSet(LAMBDA c : Encoded(said[c]), {d \in Clients : said[d] # Null})

\* CollisionsDetected: what the outputs of a round add up to tells silence, one
\* speaker and several apart ("so we can detect collisions", transmit against
\* the three cases of collate).
Speaking == {c \in Clients : said[c] \notin {Null, Silence}}
CollisionsDetected ==
  Len(outputs) = N =>
    /\ Total(outputs) = 0 <=> Speaking = {}
    /\ Total(outputs) > 2 * MAX_CHAR <=> \E c, d \in Speaking : c # d

\* ImplementsChannel: with all its keys the net is the plain line of module
\* Channel: what one client says alone in a round everybody hears, and
\* silence is heard as silence (transmit against collate).
Line == INSTANCE Channel WITH
  heard <- r,
  heardBy <- IF outputs = <<>> THEN {} ELSE {c \in Clients : said[c] # Null /\ phase[c] = "keys"}
ImplementsChannel == Line!ChannelSpec

\* DisplayedAsSubmitted: while only one user has submitted anything, every
\* window shows his messages character by character in order, one to a line
\* and the empty ones left out: nothing is repeated, skipped or run together
\* (getNextChar at one end against the display of run at the other).
Rendered(ms) ==
  FoldLeft(LAMBDA shown, m : IF m = <<>> THEN shown ELSE shown \o Append(m, Newline), <<>>, ms)
OnlySpeaker(s) == \A c \in Clients \ {s} : submitted[c] = <<>>
DisplayedAsSubmitted ==
  \A s \in Clients : OnlySpeaker(s) =>
    \A c \in Clients : IsPrefix(display[c], Rendered(submitted[s]))

\* KeptIsDisplayed: if rounds go on until an input buffer is used up, every
\* window comes to show all a lone user has submitted up to the message the
\* buffer loses, if it loses one, with the newline that needs one more round;
\* the exception that ends the main thread comes too late to cut anything off
\* ("Send any client-submitted input to the server", "Receive the result of the
\* round from the server and display it", DiningLoop.run).
Kept(s) == IF lost[s] THEN SubSeq(submitted[s], 1, readPosition(s)) ELSE submitted[s]
AllShown ==
  \A s \in Clients : OnlySpeaker(s) =>
    \A c \in Clients : display[c] = Rendered(Kept(s))
RoundsGoOn ==
  \/ []<>(outputs # <<>>) /\ []<>(outputs = <<>>)
  \/ <>(\E c \in Clients : phase[c] = "dead")
KeptIsDisplayed == RoundsGoOn => <>[]AllShown
=============================================================================
