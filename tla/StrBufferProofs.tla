-------------------------- MODULE StrBufferProofs --------------------------
(***************************************************************************)
(* For every length and every set of strings: messages are taken in order, *)
(* and the buffer implements the queue of InputQueue.                      *)
(***************************************************************************)
EXTENDS StrBuffer, TLAPS

LEMMA InitBufInv == BufInit => BufInv
  BY LengthAssumption DEF BufInit, BufInv, BufTypeOK, TakenInOrder

LEMMA NextBufInv == BufInv /\ [BufNext]_bufVars => BufInv'
<1> SUFFICES ASSUME BufInv, [BufNext]_bufVars PROVE BufInv'
  OBVIOUS
<1> USE LengthAssumption, StringAssumption DEF BufInv, BufTypeOK, TakenInOrder
<1>1. CASE Store
  <2>1. PICK str \in String : /\ array' = [array EXCEPT ![writePosition] = str]
                              /\ added' = Append(added, str)
    BY <1>1 DEF Store
  <2>2. /\ added' \in Seq(String)
        /\ Len(added') = Len(added) + 1
        /\ \A n \in 1 .. Len(added) : added'[n] = added[n]
        /\ added'[Len(added) + 1] = str
    BY <2>1
  <2>3. BufTypeOK'
    BY <1>1, <2>1, <2>2 DEF Store
  <2>4. TakenInOrder'
    BY <1>1, <2>2 DEF Store
  <2>5. ASSUME NEW k \in 0 .. length - 1
        PROVE  /\ array'[k] # Null => k < Len(added') /\ array'[k] = added'[k + 1]
               /\ readPosition < k /\ k < Len(added') => array'[k] # Null
    <3>1. Len(added) = writePosition
      BY <1>1 DEF Store
    <3>2. CASE k = writePosition
      <4>1. array'[k] = str
        BY <2>1, <3>2
      <4> QED
        BY <2>2, <3>1, <3>2, <4>1
    <3>3. CASE k # writePosition
      <4>1. array'[k] = array[k]
        BY <2>1, <3>3
      <4>2. k < Len(added) => added'[k + 1] = added[k + 1]
        BY <2>2
      <4>3. k < Len(added') => k < Len(added)
        BY <2>2, <3>1, <3>3
      <4> QED
        BY <2>2, <4>1, <4>2, <4>3
    <3> QED
      BY <3>2, <3>3
  <2>6. /\ Len(added') = writePosition' + (IF adder' = "stored" THEN 1 ELSE 0)
        /\ Len(added') <= length
        /\ Len(taken') = readPosition'
    BY <1>1, <2>2 DEF Store
  <2>7. ret' # Null => readPosition' < Len(added') /\ ret' = added'[readPosition' + 1]
    BY <1>1, <2>2 DEF Store
  <2>8. UNCHANGED <<readPosition, reader, ret>>
    BY <1>1 DEF Store
  <2> QED
    BY <2>3, <2>4, <2>5, <2>6, <2>7, <2>8
<1>2. CASE Stored
  BY <1>2 DEF Stored
<1>3. CASE Read
  BY <1>3 DEF Read
<1>4. CASE ReadBeyond
  BY <1>4 DEF ReadBeyond
<1>5. CASE Clear
  BY <1>5 DEF Clear
<1>6. CASE Advance
  BY <1>6 DEF Advance
<1>7. CASE UNCHANGED bufVars
  BY <1>7 DEF bufVars
<1> QED
  BY <1>1, <1>2, <1>3, <1>4, <1>5, <1>6, <1>7 DEF BufNext

\* The inductive invariant holds in every reachable state.
THEOREM BufferInvariant == BufSpec => []BufInv
  BY InitBufInv, NextBufInv, PTL DEF BufSpec

\* What next returns is what add stored, in order and without gaps, for every
\* interleaving of the event thread and the main thread.
THEOREM BufferOrder == BufSpec => []TakenInOrder
<1>1. BufInv => TakenInOrder
  BY DEF BufInv
<1> QED
  BY <1>1, BufferInvariant, PTL
\* The buffer implements the queue: every step of either thread is a step of
\* the queue or changes nothing there.
THEOREM BufferImplementsQueue == BufSpec => ImplementsQueue
<1> USE LengthAssumption, StringAssumption
<1>1. BufInit => Queue!QueueInit
  BY DEF BufInit, Queue!QueueInit, Lost
<1>2. ASSUME BufInv, BufInv', [BufNext]_bufVars
      PROVE  [Queue!QueueNext]_Queue!queueVars
  <2> USE <1>2 DEF BufInv, BufTypeOK
  <2>1. CASE Store
    <3>1. PICK str \in String : /\ array' = [array EXCEPT ![writePosition] = str]
                                /\ added' = Append(added, str)
      BY <2>1 DEF Store
    <3>2. Len(added) = writePosition /\ Len(added') = Len(added) + 1
      BY <2>1, <3>1 DEF Store
    <3>3. CASE readPosition < Len(added)
      <4>1. array'[readPosition] = array[readPosition]
        BY <3>1, <3>2, <3>3
      <4> QED
        BY <2>1, <3>1, <3>2, <3>3, <4>1
           DEF Store, Lost, Queue!QueueNext, Queue!Submit
    <3>4. CASE readPosition = Len(added)
      <4>1. array'[readPosition] = str /\ str # Null
        BY <2>1, <3>1, <3>2, <3>4 DEF Store
      <4> QED
        BY <2>1, <3>1, <3>2, <3>4, <4>1
           DEF Store, Lost, Queue!QueueNext, Queue!Submit
    <3> QED
      BY <3>3, <3>4 DEF TakenInOrder
  <2>2. CASE Stored
    BY <2>2 DEF Stored, Lost, Queue!queueVars
  <2>3. CASE Read
    BY <2>3 DEF Read, Lost, Queue!queueVars
  <2>4. CASE ReadBeyond
    BY <2>4 DEF ReadBeyond, Lost, Queue!queueVars
  <2>5. CASE Clear
    <3>1. array'[readPosition] = Null
      BY <2>5 DEF Clear
    <3>2. CASE Lost' = Lost
      BY <2>5, <3>2 DEF Clear, Queue!queueVars
    <3>3. CASE Lost' # Lost
      BY <2>5, <3>1, <3>3
         DEF Clear, Lost, Queue!QueueNext, Queue!Lose, Queue!Pending
    <3> QED
      BY <3>2, <3>3
  <2>6. CASE Advance
    <3>1. taken' = Append(taken, added[Len(taken) + 1]) /\ Len(taken) < Len(added)
      BY <2>6 DEF Advance
    <3>2. ~Lost
      BY <2>6 DEF Advance, Lost
    <3>3. Lost' = Lost
      BY <2>6 DEF Advance, Lost
    <3>4. added' = added
      BY <2>6 DEF Advance
    <3> QED
      BY <3>1, <3>2, <3>3, <3>4
         DEF Queue!QueueNext, Queue!Take, Queue!Pending
  <2>7. CASE UNCHANGED bufVars
    BY <2>7 DEF bufVars, Lost, Queue!queueVars
  <2> QED
    BY <2>1, <2>2, <2>3, <2>4, <2>5, <2>6, <2>7 DEF BufNext
<1> QED
  BY <1>1, <1>2, BufferInvariant, PTL DEF BufSpec, ImplementsQueue, Queue!QueueSpec
=============================================================================
