----------------------------- MODULE StrBuffer -----------------------------
(***************************************************************************)
(* utility.StrBuffer as the client uses it: the event thread adds what the *)
(* user submits, the main thread takes the next message when it needs one, *)
(* and nothing synchronizes the two.  One step per access to an entry.     *)
(*                                                                         *)
(* The positions only grow, so that the buffer holds length messages in    *)
(* the client's whole life: a further add, or next once all are taken,     *)
(* throws ArrayIndexOutOfBoundsException.  On the event thread that leaves *)
(* everything as it was; it ends the main thread.                          *)
(***************************************************************************)
EXTENDS Naturals, Sequences

CONSTANTS length,   \* the buffer's size
          String,   \* what users submit
          Null      \* Java's null

ASSUME LengthAssumption == length \in Nat \ {0}
ASSUME StringAssumption == Null \notin String

VARIABLES array, readPosition, writePosition,
          adder,    \* event thread: "idle", or "stored" in the middle of add
          reader,   \* main thread: in next, about to "read", "clear" or
                    \* "advance", or "dead"
          ret,      \* the local variable of next
          added,    \* history: the messages add has stored
          taken     \* history: the messages next has returned

bufVars == <<array, readPosition, writePosition, adder, reader, ret, added, taken>>

BufTypeOK ==
  /\ array \in [0 .. length - 1 -> String \cup {Null}]
  /\ readPosition \in 0 .. length
  /\ writePosition \in 0 .. length
  /\ adder \in {"idle", "stored"}
  /\ reader \in {"read", "clear", "advance", "dead"}
  /\ ret \in String \cup {Null}
  /\ added \in Seq(String)
  /\ taken \in Seq(String)

BufInit ==
  /\ array = [k \in 0 .. length - 1 |-> Null]
  /\ readPosition = 0
  /\ writePosition = 0
  /\ adder = "idle"
  /\ reader = "read"
  /\ ret = Null
  /\ added = <<>>
  /\ taken = <<>>

(* add: array[writePosition] = str *)
Store ==
  /\ adder = "idle"
  /\ writePosition < length
  /\ \E str \in String :
       /\ array' = [array EXCEPT ![writePosition] = str]
       /\ added' = Append(added, str)
  /\ adder' = "stored"
  /\ UNCHANGED <<readPosition, writePosition, reader, ret, taken>>

(* Mutant: writePosition++ is missing. *)
StoredInPlace ==
  /\ adder = "stored"
  /\ adder' = "idle"
  /\ UNCHANGED <<array, readPosition, writePosition, reader, ret, added, taken>>

(* add: writePosition++ *)
Stored ==
  /\ adder = "stored"
  /\ writePosition' = writePosition + 1
  /\ adder' = "idle"
  /\ UNCHANGED <<array, readPosition, reader, ret, added, taken>>

(* next: ret = array[readPosition] *)
Read ==
  /\ reader = "read"
  /\ readPosition < length
  /\ ret' = array[readPosition]
  /\ reader' = "clear"
  /\ UNCHANGED <<array, readPosition, writePosition, adder, added, taken>>

ReadBeyond ==
  /\ reader = "read"
  /\ readPosition = length
  /\ reader' = "dead"
  /\ UNCHANGED <<array, readPosition, writePosition, adder, ret, added, taken>>

(* Mutant: next returns what it found, null or not, and goes on. *)
ClearAndAdvance ==
  /\ reader = "clear"
  /\ array' = [array EXCEPT ![readPosition] = Null]
  /\ readPosition' = readPosition + 1
  /\ taken' = IF ret = Null THEN taken ELSE Append(taken, ret)
  /\ ret' = Null
  /\ reader' = "read"
  /\ UNCHANGED <<writePosition, adder, added>>

(* next: array[readPosition] = null *)
Clear ==
  /\ reader = "clear"
  /\ array' = [array EXCEPT ![readPosition] = Null]
  /\ reader' = IF ret # Null THEN "advance" ELSE "read"
  /\ UNCHANGED <<readPosition, writePosition, adder, ret, added, taken>>

(* Mutant: readPosition++ is missing. *)
AdvanceInPlace ==
  /\ reader = "advance"
  /\ taken' = Append(taken, ret)
  /\ ret' = Null
  /\ reader' = "read"
  /\ UNCHANGED <<array, readPosition, writePosition, adder, added>>

(* next: readPosition++, and the message is returned *)
Advance ==
  /\ reader = "advance"
  /\ readPosition' = readPosition + 1
  /\ taken' = Append(taken, ret)
  /\ ret' = Null
  /\ reader' = "read"
  /\ UNCHANGED <<array, writePosition, adder, added>>

BufNext == Store \/ Stored \/ Read \/ ReadBeyond \/ Clear \/ Advance

BufSpec == BufInit /\ [][BufNext]_bufVars

(* The main thread keeps asking for messages, and an add once begun ends;  *)
(* nobody has to submit anything.                                          *)
BufFairSpec ==
  BufSpec /\ WF_bufVars(Stored) /\ WF_bufVars(Read \/ ReadBeyond \/ Clear \/ Advance)

-----------------------------------------------------------------------------
\* TakenInOrder: what next returns is what add stored, in the same order, with
\* none skipped and none returned twice, however the two threads interleave.
TakenInOrder == Len(taken) <= Len(added) /\ taken = SubSeq(added, 1, Len(taken))

\* Lost: the next message to take has been stored, but next has set its entry
\* back to null without having read it.
Lost ==
  /\ readPosition < Len(added)
  /\ array[readPosition] = Null
  /\ ret = Null

\* ImplementsQueue: the buffer is the queue of InputQueue; a message is lost when
\* it is stored between the read of its entry and the write that clears it,
\* and no later message is then taken, because readPosition never gets past.
Queue == INSTANCE InputQueue WITH lost <- Lost
ImplementsQueue == Queue!QueueSpec

\* BufInv: the inductive invariant behind the two.  The positions count the
\* histories, an entry not null holds the message of its place, the entries
\* after the one being read are all there, and so is the message in ret.
BufInv ==
  /\ BufTypeOK
  /\ Len(added) = writePosition + (IF adder = "stored" THEN 1 ELSE 0)
  /\ Len(added) <= length
  /\ Len(taken) = readPosition
  /\ TakenInOrder
  /\ \A k \in 0 .. length - 1 :
       /\ array[k] # Null => k < Len(added) /\ array[k] = added[k + 1]
       /\ readPosition < k /\ k < Len(added) => array[k] # Null
  /\ reader = "clear" => readPosition < length
  /\ reader = "advance" => ret # Null
  /\ reader \in {"read", "dead"} => ret = Null
  /\ ret # Null => readPosition < Len(added) /\ ret = added[readPosition + 1]

\* EverythingTaken: every message that is submitted is taken ("Send any
\* client-submitted input to the server", DiningLoop.run).
EverythingTaken == \A n \in 1 .. length : Len(added) >= n ~> Len(taken) >= n
=============================================================================
