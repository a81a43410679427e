------------------------ MODULE KeyGenerationProofs ------------------------
(***************************************************************************)
(* The start of the server for every number of clients: what the threads'  *)
(* unsynchronized generateKeySets calls can and cannot do to the shared    *)
(* array, and that ServerThread's coarse account of them leaves nothing    *)
(* out.                                                                    *)
(***************************************************************************)
EXTENDS KeyGeneration, Counting

\* Where the loops stand.
LoopsOK ==
  \A t \in Clients :
    /\ gpc[t] = "allocate" => i[t] = 0
    /\ gpc[t] = "fill" => i[t] < N
    /\ gpc[t] \in {"add", "subtract"} => i[t] < j[t] /\ j[t] < N
    /\ gpc[t] \in Building => keysets # Null

\* Threads that have called getKeySet, or will never do so.
Finished == {t \in Clients : gpc[t] \in {"sendKeys", "sent", "dead"}}

\* Entries keep the index they were made for, and are never reset; the array
\* the field refers to is full once its allocator is through with its loop.
EntriesOK ==
  /\ \A a, x \in Clients : array[a][x] # Null => array[a][x][2] = x
  /\ keysets # Null =>
       /\ gpc[keysets] # "allocate"
       /\ \A x \in Clients : gpc[keysets] # "fill" \/ x < i[keysets] => Entry(x) # Null
  /\ keysets = Null => \A t \in Clients : gpc[t] = "allocate"

\* getKeySet has handed out the entries below distributed, each once.
TakenOK ==
  /\ distributed <= Cardinality(Finished)
  /\ \A t \in Clients : taken[t] # Null => taken[t][2] < distributed
  /\ \A t, u \in Clients : t # u /\ taken[t] # Null /\ taken[u] # Null
       => taken[t][2] # taken[u][2]

GenInv == GenTypeOK /\ LoopsOK /\ EntriesOK /\ TakenOK

LEMMA InitGen == GenInit => GenInv
<1> SUFFICES ASSUME GenInit PROVE GenInv
  OBVIOUS
<1> USE NAssumption DEF GenInit
<1>1. GenTypeOK
  BY DEF GenTypeOK, GenPC
<1>2. LoopsOK /\ EntriesOK
  BY DEF LoopsOK, EntriesOK, Building
<1>3. Finished \subseteq Clients
  BY DEF Finished
<1>4. TakenOK
  BY <1>3, ClientsCounted DEF TakenOK
<1> QED
  BY <1>1, <1>2, <1>4 DEF GenInv

\* A thread that has not called getKeySet yet finds an entry left for it.
LEMMA EntryLeft ==
  ASSUME GenInv, NEW t \in Clients, t \notin Finished
  PROVE  distributed \in Clients /\ distributed + 1 \in 0 .. N
<1>1. Finished \cup {t} \subseteq Clients
  BY DEF Finished
<1>2. Cardinality(Finished) + 1 <= N /\ Cardinality(Finished) \in Nat
  BY <1>1, ClientsCounted
<1> QED
  BY <1>2, NAssumption DEF GenInv, GenTypeOK, TakenOK, Clients

\* A null entry is one its allocator has still to fill.
LEMMA NullIsUnfilled ==
  ASSUME GenInv, NEW t \in Clients, gpc[t] \notin {"allocate", "fill"},
         NEW x \in Clients, Entry(x) = Null
  PROVE  keysets \in Clients /\ keysets # t /\ gpc[keysets] = "fill"
  BY DEF GenInv, GenTypeOK, EntriesOK

-----------------------------------------------------------------------------
\* The loops of generateKeySets stay within the array.
LEMMA LoopsStep ==
  ASSUME GenInv, NEW t \in Clients, GenStep(t)
  PROVE  /\ LoopsOK'
         /\ gpc' \in [Clients -> GenPC]
         /\ i' \in [Clients -> 0 .. N] /\ j' \in [Clients -> 0 .. N]
<1> USE NAssumption DEF GenInv
<1>1. /\ i[t] \in 0 .. N /\ j[t] \in 0 .. N /\ gpc \in [Clients -> GenPC]
      /\ i \in [Clients -> 0 .. N] /\ j \in [Clients -> 0 .. N]
      /\ \A l : Enter(t, l) => gpc' = [gpc EXCEPT ![t] = l]
      /\ Null \notin Clients
  BY NullAssumption DEF GenTypeOK, Enter
<1>2. \A l \in {"fill", "add", "subtract", "getKeySet", "sendKeys", "sent", "dead"} :
        l \in GenPC
  BY DEF GenPC
<1>3. CASE Allocate(t)
  BY <1>1, <1>2, <1>3 DEF Allocate, LoopsOK, Building
<1>4. CASE Fill(t)
  <2>1. i[t] < N /\ keysets # Null
    BY <1>4 DEF Fill, LoopsOK, Building
  <2>2. CASE i[t] < N - 1
    <3>1. /\ gpc[t] = "fill" /\ UNCHANGED <<gpc, j, keysets>>
          /\ i' = [i EXCEPT ![t] = i[t] + 1] /\ i[t] + 1 \in 0 .. N
      BY <1>1, <1>4, <2>2 DEF Fill, Set
    <3> QED
      BY <1>1, <2>1, <2>2, <3>1 DEF LoopsOK, Building
  <2>3. CASE ~(i[t] < N - 1)
    <3>1. /\ gpc[t] = "fill" /\ UNCHANGED keysets
          /\ i' = [i EXCEPT ![t] = 0] /\ j' = [j EXCEPT ![t] = 1]
          /\ gpc' = [gpc EXCEPT ![t] = IF N = 1 THEN "getKeySet" ELSE "add"]
      BY <1>1, <1>4, <2>3 DEF Fill, Set
    <3> QED
      BY <1>1, <1>2, <2>1, <3>1 DEF LoopsOK, Building
  <2> QED
    BY <2>2, <2>3
<1>5. CASE AddPositive(t)
  BY <1>1, <1>2, <1>5 DEF AddPositive, LoopsOK, Building
<1>6. CASE AddNegative(t)
  <2>1. /\ gpc[t] = "subtract" /\ keysets # Null /\ i[t] < j[t] /\ j[t] < N
        /\ UNCHANGED keysets
    BY <1>6 DEF AddNegative, LoopsOK, Building
  <2>2. \/ /\ j[t] < N - 1
           /\ j' = [j EXCEPT ![t] = j[t] + 1]
           /\ gpc' = [gpc EXCEPT ![t] = "add"]
           /\ UNCHANGED i
        \/ /\ j[t] = N - 1 /\ i[t] < N - 2
           /\ i' = [i EXCEPT ![t] = i[t] + 1]
           /\ j' = [j EXCEPT ![t] = i[t] + 2]
           /\ gpc' = [gpc EXCEPT ![t] = "add"]
        \/ /\ gpc' = [gpc EXCEPT ![t] = "getKeySet"]
           /\ UNCHANGED <<i, j>>
    BY <1>1, <1>6 DEF AddNegative, Set
  <2> QED
    BY <1>1, <1>2, <2>1, <2>2 DEF LoopsOK, Building
<1>7. CASE \/ AddToNull(t) \/ TakeKeySet(t) \/ WriteKeySet(t) \/ WriteFailsByAddition(t)
  <2>1. /\ UNCHANGED <<i, j, keysets>>
        /\ \E l \in {"dead", "sendKeys", "sent"} : gpc' = [gpc EXCEPT ![t] = l]
    BY <1>1, <1>7 DEF AddToNull, TakeKeySet, WriteKeySet, WriteFailsByAddition
  <2> QED
    BY <1>1, <1>2, <2>1 DEF LoopsOK, Building
<1> QED
  BY <1>3, <1>4, <1>5, <1>6, <1>7 DEF GenStep

LEMMA GenTypeStep ==
  ASSUME GenInv, NEW t \in Clients, GenStep(t)
  PROVE  GenTypeOK'
<1> USE DEF GenInv
<1>1. /\ gpc' \in [Clients -> GenPC]
      /\ i' \in [Clients -> 0 .. N] /\ j' \in [Clients -> 0 .. N]
  BY LoopsStep
<1>2. \A x \in Clients : keysets # Null => Entry(x) \in Object \cup {Null}
  BY DEF GenTypeOK, Entry
<1>3. CASE Allocate(t) \/ AddToNull(t) \/ WriteFailsByAddition(t)
  BY <1>1, <1>3 DEF Allocate, AddToNull, WriteFailsByAddition, GenTypeOK
<1>4. CASE Fill(t)
  <2>1. i[t] \in Clients /\ keysets \in Clients
    BY <1>4, NAssumption DEF Fill, LoopsOK, Building, GenTypeOK, Clients
  <2>2. <<t, i[t]>> \in Object
    BY <2>1 DEF Object
  <2>3. array' \in [Clients -> [Clients -> Object \cup {Null}]]
    BY <1>4, <2>1, <2>2 DEF Fill, GenTypeOK
  <2> QED
    BY <1>1, <1>4, <2>3 DEF Fill, GenTypeOK
<1>5. CASE AddPositive(t) \/ AddNegative(t)
  <2>1. i[t] \in Clients /\ j[t] \in Clients /\ keysets # Null
    BY <1>5, NAssumption DEF AddPositive, AddNegative, LoopsOK, Building, GenTypeOK, Clients
  <2>2. PICK x \in {i[t], j[t]}, op \in Keyop : Entry(x) # Null /\ AddKey(t, x, op)
    BY <1>5 DEF AddPositive, AddNegative, Keyop
  <2>3. Entry(x) \in Clients \X Clients
    BY <1>2, <2>1, <2>2 DEF Object
  <2>4. [by |-> t, pair |-> <<i[t], j[t]>>, op |-> op] \in Key
    BY <2>1 DEF Key
  <2>5. PICK o \in Clients \X Clients, k \in Key :
          keysIn' = [keysIn EXCEPT ![o[1]][o[2]] = @ \cup {k}]
    BY <2>2, <2>3, <2>4, Zenon DEF AddKey
  <2>6. keysIn' \in [Clients -> [Clients -> SUBSET Key]]
    BY <2>5 DEF GenTypeOK
  <2> QED
    BY <1>1, <1>5, <2>6 DEF AddPositive, AddNegative, GenTypeOK
<1>6. CASE TakeKeySet(t)
  <2>1. distributed \in Clients /\ distributed + 1 \in 0 .. N
    BY <1>6, EntryLeft DEF TakeKeySet, Finished
  <2>2. keysets # Null
    BY <1>6 DEF TakeKeySet, EntriesOK
  <2>3. taken' \in [Clients -> Object \cup {Null}]
    BY <1>2, <1>6, <2>1, <2>2 DEF TakeKeySet, Set, GenTypeOK
  <2> QED
    BY <1>1, <1>6, <2>1, <2>3 DEF TakeKeySet, GenTypeOK
<1>7. CASE WriteKeySet(t)
  <2>1. taken[t] # Null => keysIn[taken[t][1]][taken[t][2]] \subseteq Key
    BY DEF GenTypeOK, Object
  <2>2. sent' \in [Clients -> SUBSET Key]
    BY <1>7, <2>1 DEF WriteKeySet, Set, GenTypeOK
  <2> QED
    BY <1>1, <1>7, <2>2 DEF WriteKeySet, GenTypeOK
<1> QED
  BY <1>3, <1>4, <1>5, <1>6, <1>7 DEF GenStep

-----------------------------------------------------------------------------
\* The array the field refers to.
LEMMA EntriesStep ==
  ASSUME GenInv, NEW t \in Clients, GenStep(t)
  PROVE  EntriesOK'
<1> USE DEF GenInv
<1>1. /\ gpc \in [Clients -> GenPC] /\ i \in [Clients -> 0 .. N]
      /\ array \in [Clients -> [Clients -> Object \cup {Null}]]
      /\ keysets \in Clients \cup {Null} /\ Null \notin Clients
      /\ \A l : Enter(t, l) => gpc' = [gpc EXCEPT ![t] = l]
  BY NullAssumption DEF GenTypeOK, Enter
<1>2. CASE Allocate(t)
  <2>1. /\ keysets' = t /\ UNCHANGED <<array, i>> /\ gpc' = [gpc EXCEPT ![t] = "fill"]
        /\ i[t] = 0
    BY <1>1, <1>2 DEF Allocate, LoopsOK
  <2>2. \A x \in Clients : ~(x < i'[t])
    BY <2>1, NAssumption DEF Clients
  <2> QED
    BY <1>1, <2>1, <2>2 DEF EntriesOK
<1>3. CASE Fill(t)
  <2>1. /\ i[t] \in Clients /\ i[t] < N /\ keysets \in Clients /\ gpc[t] = "fill"
        /\ UNCHANGED keysets
    BY <1>1, <1>3, NAssumption DEF Fill, LoopsOK, Building, Clients
  <2>2. <<t, i[t]>> # Null
    BY <2>1, ObjectAssumption DEF Object
  <2>3. array' = [array EXCEPT ![keysets][i[t]] = <<t, i[t]>>]
    BY <1>3 DEF Fill
  <2>4. \A a, x \in Clients : array'[a][x] # Null => array'[a][x][2] = x
    BY <1>1, <2>1, <2>3 DEF EntriesOK
  <2>5. \A x \in Clients : Entry(x) # Null \/ x = i[t] => Entry(x)' # Null
    BY <1>1, <2>1, <2>2, <2>3 DEF Entry
  <2>6. \/ i'[t] = i[t] + 1 /\ gpc'[t] = "fill"
        \/ i[t] = N - 1 /\ gpc'[t] \in {"getKeySet", "add"}
    BY <1>1, <1>3, <2>1, NAssumption DEF Fill, Set, Clients
  <2>7. \A u \in Clients : u # t => i'[u] = i[u] /\ gpc'[u] = gpc[u]
    BY <1>1, <1>3 DEF Fill, Set
  <2>8. \A x \in Clients : gpc'[keysets] # "fill" \/ x < i'[keysets] => Entry(x)' # Null
    <3>1. CASE keysets = t
      <4>1. \A x \in Clients : x < i[t] => Entry(x)' # Null
        BY <2>1, <2>5, <3>1, <1>1 DEF EntriesOK
      <4>2. \A x \in Clients : x < i'[t] \/ gpc'[t] # "fill" => x < i[t] \/ x = i[t]
        BY <1>1, <2>1, <2>6, NAssumption DEF Clients
      <4> QED
        BY <2>1, <2>5, <2>6, <3>1, <4>1, <4>2
    <3>2. CASE keysets # t
      BY <1>1, <2>1, <2>5, <2>7, <3>2 DEF EntriesOK
    <3> QED
      BY <3>1, <3>2
  <2>9. gpc'[keysets] # "allocate"
    BY <1>1, <2>1, <2>6, <2>7 DEF EntriesOK
  <2> QED
    BY <1>1, <2>1, <2>4, <2>8, <2>9 DEF EntriesOK
<1>4. CASE ~Allocate(t) /\ ~Fill(t)
  <2>1. /\ gpc[t] \notin {"allocate", "fill"} /\ gpc'[t] \notin {"allocate", "fill"}
        /\ UNCHANGED <<keysets, array>>
        /\ \A u \in Clients : u # t => i'[u] = i[u] /\ gpc'[u] = gpc[u]
    BY <1>1, <1>4 DEF GenStep, AddPositive, AddNegative, AddToNull, TakeKeySet, WriteKeySet,
         WriteFailsByAddition, Set
  <2> QED
    BY <1>1, <2>1 DEF EntriesOK, Entry
<1> QED
  BY <1>2, <1>3, <1>4

LEMMA TakenStep ==
  ASSUME GenInv, NEW t \in Clients, GenStep(t)
  PROVE  TakenOK'
<1> USE DEF GenInv
<1>1. /\ gpc \in [Clients -> GenPC] /\ taken \in [Clients -> Object \cup {Null}]
      /\ distributed \in Nat
      /\ \A l : Enter(t, l) => gpc' = [gpc EXCEPT ![t] = l]
  BY NAssumption DEF GenTypeOK, Enter
<1>2. Finished \subseteq Clients /\ Finished' \subseteq Clients
  BY DEF Finished
<1>3. CASE TakeKeySet(t)
  <2>1. /\ gpc[t] = "getKeySet" /\ gpc' = [gpc EXCEPT ![t] = "sendKeys"]
        /\ taken' = [taken EXCEPT ![t] = Entry(distributed)]
        /\ distributed' = distributed + 1
    BY <1>1, <1>3 DEF TakeKeySet, Set
  <2>2. Finished \cup {t} \subseteq Finished' /\ t \notin Finished
    BY <1>1, <2>1 DEF Finished
  <2>3. distributed' <= Cardinality(Finished')
    <3>1. /\ Cardinality(Finished) + 1 <= Cardinality(Finished')
          /\ Cardinality(Finished) \in Nat /\ Cardinality(Finished') \in Nat
      BY <1>2, <2>2, ClientsCounted
    <3> QED
      BY <1>1, <2>1, <3>1 DEF TakenOK
  <2>4. Entry(distributed) # Null => Entry(distributed)[2] = distributed
    <3>1. distributed \in Clients
      BY <2>2, EntryLeft
    <3>2. keysets \in Clients
      BY <2>1 DEF EntriesOK, GenTypeOK
    <3> QED
      BY <3>1, <3>2 DEF EntriesOK, Entry
  <2>5. \A u \in Clients : u # t /\ taken[u] # Null =>
          taken[u][2] < distributed /\ taken[u][2] \in Nat
    BY <1>1, NAssumption DEF TakenOK, Object, Clients
  <2>6. \A u \in Clients : taken'[u] # Null => taken'[u][2] < distributed'
    BY <1>1, <2>1, <2>4, <2>5
  <2>7. \A u, v \in Clients : u # v /\ taken'[u] # Null /\ taken'[v] # Null
          => taken'[u][2] # taken'[v][2]
    <3>1. \A u \in Clients : u # t => taken'[u] = taken[u]
      BY <1>1, <2>1
    <3>2. taken'[t] = Entry(distributed)
      BY <1>1, <2>1
    <3> QED
      BY <1>1, <2>4, <2>5, <3>1, <3>2 DEF TakenOK
  <2> QED
    BY <2>3, <2>6, <2>7 DEF TakenOK
<1>4. CASE ~TakeKeySet(t)
  <2>1. UNCHANGED <<distributed, taken>> /\ Finished \subseteq Finished'
    BY <1>1, <1>4 DEF GenStep, Allocate, Fill, AddPositive, AddNegative, AddToNull,
         WriteKeySet, WriteFailsByAddition, Finished
  <2>2. /\ Cardinality(Finished) <= Cardinality(Finished')
        /\ Cardinality(Finished) \in Nat /\ Cardinality(Finished') \in Nat
    BY <1>2, <2>1, ClientsCounted
  <2> QED
    BY <1>1, <2>1, <2>2 DEF TakenOK
<1> QED
  BY <1>3, <1>4

-----------------------------------------------------------------------------
THEOREM GenerationInvariant == GenSpec => []GenInv
<1>1. GenInv /\ [GenNext]_genVars => GenInv'
  <2> SUFFICES ASSUME GenInv, [GenNext]_genVars PROVE GenInv'
    OBVIOUS
  <2>1. CASE UNCHANGED genVars
    BY <2>1 DEF genVars, GenInv, GenTypeOK, LoopsOK, EntriesOK, Entry, TakenOK, Finished
  <2> QED
    BY <2>1, LoopsStep, GenTypeStep, EntriesStep, TakenStep DEF GenNext, GenInv
<1> QED
  BY <1>1, InitGen, PTL DEF GenSpec

\* Once no thread is inside generateKeySets the array in use has no null entry.
THEOREM ArrayFilled == GenSpec => []EntriesAreThere
<1>1. GenInv => EntriesAreThere
  BY DEF GenInv, GenTypeOK, EntriesOK, EntriesAreThere, Building
<1> QED
  BY <1>1, GenerationInvariant, PTL

\* No KeySet object is ever given to two clients.
THEOREM KeySetsApart == GenSpec => []NoSharedKeySet
<1>1. GenInv => NoSharedKeySet
  BY DEF GenInv, TakenOK, NoSharedKeySet
<1> QED
  BY <1>1, GenerationInvariant, PTL

-----------------------------------------------------------------------------
\* The refinement: every step is one of ServerThread's, or none.

LEMMA StartInit == GenInit => Start!Init
<1> SUFFICES ASSUME GenInit PROVE Start!Init
  OBVIOUS
<1>1. \A t \in Clients : gpc[t] = "allocate" /\ taken[t] = Null
  BY DEF GenInit
<1>2. Start!ConnInit
  BY <1>1 DEF Start!ConnInit, Start!Clients, Clients
<1>3. Start!SharedInit
  BY DEF GenInit, Start!SharedInit
<1>4. Start!ThreadInit
  BY <1>1 DEF Start!ThreadInit, Start!Clients, Clients, Abstractly, Building, NameOf
<1>5. Start!ClientInit
  BY DEF Start!ClientInit, Start!Clients, Clients
<1> QED
  BY <1>2, <1>3, <1>4, <1>5 DEF Start!Init

\* The abstract state changes as the thread's program counter does.
Stutter == UNCHANGED <<distributed, [u \in Clients |-> Abstractly(gpc[u])],
                       [u \in Clients |-> gpc[u] = "sent"], taken>>

LEMMA StartStutters == Stutter => UNCHANGED Start!vars
  BY DEF Stutter, Start!vars, Start!connVars, Start!sharedVars, Start!threadVars,
     Start!clientVars

LEMMA AllocateStarts ==
  ASSUME GenInv, NEW t \in Clients, Allocate(t)
  PROVE  Start!GenerateBegin(t) /\ UNCHANGED Start!clientVars
  BY DEF GenInv, GenTypeOK, Allocate, Enter, Start!GenerateBegin, Start!Step, Start!At,
     Start!Goto, Start!connVars, Start!sharedVars, Start!clientVars, Abstractly, Building

\* The end of a call of generateKeySets, and the steps inside one.
LEMMA BuildingSteps ==
  ASSUME GenInv, NEW t \in Clients, Fill(t) \/ AddPositive(t) \/ AddNegative(t)
  PROVE  \/ UNCHANGED Start!vars
         \/ Start!GenerateEnd(t) /\ UNCHANGED Start!clientVars
<1>1. /\ gpc \in [Clients -> GenPC]
      /\ gpc[t] \in Building
      /\ UNCHANGED <<distributed, taken>>
      /\ \E l \in Building \cup {"getKeySet"} : gpc' = [gpc EXCEPT ![t] = l]
  <2>1. gpc \in [Clients -> GenPC]
    BY DEF GenInv, GenTypeOK
  <2>2. gpc' = gpc => gpc' = [gpc EXCEPT ![t] = gpc[t]]
    BY <2>1
  <2> QED
    BY <2>1, <2>2 DEF Fill, AddPositive, AddNegative, Enter, Building
<1>2. PICK l \in Building \cup {"getKeySet"} : gpc' = [gpc EXCEPT ![t] = l]
  BY <1>1
<1>3. CASE l \in Building
  <2>1. \A u \in Clients : /\ Abstractly(gpc'[u]) = Abstractly(gpc[u])
                           /\ (gpc'[u] = "sent") = (gpc[u] = "sent")
    BY <1>1, <1>2, <1>3 DEF Abstractly, Building
  <2>2. Stutter
    BY <1>1, <2>1 DEF Stutter
  <2> QED
    BY <2>2, StartStutters
<1>4. CASE l = "getKeySet"
  <2>1. Start!GenerateEnd(t)
    BY <1>1, <1>2, <1>4 DEF Start!GenerateEnd, Start!Step, Start!At,
       Start!Goto, Start!connVars, Start!sharedVars, Abstractly, Building
  <2> QED
    BY <2>1 DEF Start!clientVars
<1> QED
  BY <1>3, <1>4

\* A thread that dies of a null entry does so while the allocator is filling.
LEMMA FailingSteps ==
  ASSUME GenInv, NEW t \in Clients, AddToNull(t) \/ WriteFailsByAddition(t)
  PROVE  Start!GenerateFails(t) /\ UNCHANGED Start!clientVars
<1>1. /\ gpc \in [Clients -> GenPC] /\ gpc' = [gpc EXCEPT ![t] = "dead"]
      /\ UNCHANGED <<distributed, taken>>
  BY DEF GenInv, GenTypeOK, AddToNull, WriteFailsByAddition, Enter
<1>2. /\ \/ gpc[t] \in {"add", "subtract"}
         \/ gpc[t] = "sendKeys" /\ taken[t] # Null
      /\ \E u \in Clients : u # t /\ gpc[u] \in Building
  <2>1. CASE AddToNull(t)
    <3>1. gpc[t] \in {"add", "subtract"} /\ i[t] < j[t] /\ j[t] < N
      BY <2>1 DEF AddToNull, GenInv, LoopsOK
    <3>2. i[t] \in Clients /\ j[t] \in Clients
      BY <3>1, NAssumption DEF GenInv, GenTypeOK, Clients
    <3>3. \E x \in Clients : Entry(x) = Null
      BY <2>1, <3>2 DEF AddToNull
    <3> QED
      BY <3>1, <3>3, NullIsUnfilled DEF Building
  <2>2. CASE WriteFailsByAddition(t)
    BY <2>2 DEF WriteFailsByAddition, Building
  <2> QED
    BY <2>1, <2>2
<1>3. Start!OtherGenerating(t)
  BY <1>2 DEF Start!OtherGenerating, Start!Clients, Clients, Abstractly, Building
<1>4. Start!GenerateFails(t)
  <2>1. NameOf(taken[t]) = Null => taken[t] = Null
    BY NullAssumption
       DEF NameOf, GenInv, GenTypeOK, Object, KeySet
  <2> QED
    BY <1>1, <1>2, <1>3, <2>1 DEF Start!GenerateFails, Start!At, Start!Goto,
       Start!connVars, Start!sharedVars, Abstractly, Building
<1> QED
  BY <1>4 DEF Start!clientVars

LEMMA TakeKeySetStarts ==
  ASSUME GenInv, NEW t \in Clients, TakeKeySet(t)
  PROVE  Start!GetKeySet(t) /\ UNCHANGED Start!clientVars
<1>1. /\ gpc \in [Clients -> GenPC] /\ gpc[t] = "getKeySet"
      /\ gpc' = [gpc EXCEPT ![t] = "sendKeys"]
      /\ taken \in [Clients -> Object \cup {Null}]
      /\ taken' = [taken EXCEPT ![t] = Entry(distributed)]
      /\ distributed' = distributed + 1
  BY DEF GenInv, GenTypeOK, TakeKeySet, Enter, Set
<1>2. distributed \in Clients /\ distributed < N
  BY <1>1, EntryLeft, NAssumption DEF Finished, Clients
<1>3. Entry(distributed) = Null => Start!OtherGenerating(t)
  BY <1>1, <1>2, NullIsUnfilled
     DEF Start!OtherGenerating, Start!Clients, Clients, Abstractly, Building
<1>4. Entry(distributed) # Null => Entry(distributed)[2] = distributed
  <2>1. keysets \in Clients
    BY <1>1 DEF GenInv, GenTypeOK, EntriesOK
  <2> QED
    BY <1>2, <2>1 DEF GenInv, EntriesOK, Entry
<1>5. Start!NextKeySet = [gen |-> 0, idx |-> distributed] /\ ~Start!AtBound /\ Start!getKeySet
  BY <1>1, <1>2, NAssumption
     DEF Start!NextKeySet, Start!KeysExhausted, Start!AtBound, Start!getKeySet,
         Start!MonitorFree
<1>6. \E k \in {Start!NextKeySet} \cup (IF Start!OtherGenerating(t) THEN {Null} ELSE {}) :
        k = NameOf(Entry(distributed))
  BY <1>3, <1>4, <1>5 DEF NameOf
<1>7. [u \in Clients |-> NameOf(taken'[u])] =
        [[u \in Clients |-> NameOf(taken[u])] EXCEPT ![t] = NameOf(Entry(distributed))]
  BY <1>1
<1>8. [u \in Clients |-> Abstractly(gpc'[u])] =
        [[u \in Clients |-> Abstractly(gpc[u])] EXCEPT ![t] = "sendKeys"]
  BY <1>1 DEF Abstractly, Building
<1> QED
  BY <1>1, <1>5, <1>6, <1>7, <1>8 DEF Start!GetKeySet, Start!Step, Start!At, Start!Goto,
     Start!connVars, Start!clientVars, Abstractly, Building

LEMMA WriteKeySetStarts ==
  ASSUME GenInv, NEW t \in Clients, WriteKeySet(t)
  PROVE  Start!SendKeys(t) /\ UNCHANGED Start!clientVars
<1>1. /\ gpc \in [Clients -> GenPC] /\ gpc[t] = "sendKeys"
      /\ gpc' = [gpc EXCEPT ![t] = "sent"] /\ UNCHANGED <<distributed, taken>>
  BY DEF GenInv, GenTypeOK, WriteKeySet, Enter
<1> DEFINE s == [u \in Clients |-> IF gpc[u] = "sent"
                                   THEN <<KeySetObject(NameOf(taken[u]))>> ELSE <<>>]
           o == KeySetObject(NameOf(taken[t]))
<1>2. s' = [s EXCEPT ![t] = Append(@, o)]
  <2>1. \A x : Append(<<>>, x) = <<x>>
    OBVIOUS
  <2>2. s[t] = <<>> /\ s'[t] = <<o>>
    BY <1>1
  <2>3. \A u \in Clients : u # t => s'[u] = s[u]
    BY <1>1
  <2> QED
    BY <2>1, <2>2, <2>3
<1>3. [u \in Clients |-> Abstractly(gpc'[u])] =
        [[u \in Clients |-> Abstractly(gpc[u])] EXCEPT ![t] = "keysAck"]
  BY <1>1 DEF Abstractly, Building
<1>4. Start!KeySetObject(NameOf(taken[t])) = o
  BY DEF Start!KeySetObject, KeySetObject
<1> QED
  BY <1>1, <1>2, <1>3, <1>4 DEF Start!SendKeys, Start!SendToClient, Start!Step, Start!At,
     Start!Goto, Start!sharedVars, Start!clientVars, Abstractly, Building

\* What the threads do to arrays and keys at the start is, at every step, what
\* ServerThread says of it.
THEOREM StartImplemented == GenSpec => StartsAsAssumed
<1>1. GenInv /\ [GenNext]_genVars => [Start!Next]_Start!vars
  <2> SUFFICES ASSUME GenInv, [GenNext]_genVars PROVE [Start!Next]_Start!vars
    OBVIOUS
  <2>1. CASE UNCHANGED genVars
    <3>1. Stutter
      BY <2>1 DEF genVars, Stutter
    <3> QED
      BY <3>1, StartStutters
  <2>2. ASSUME NEW t \in Clients, Start!ThreadStep(t), UNCHANGED Start!clientVars
        PROVE  Start!Next
    BY <2>2 DEF Start!Next, Start!Clients, Clients
  <2>3. ASSUME NEW t \in Clients, GenStep(t) PROVE [Start!Next]_Start!vars
    BY <2>2, <2>3, AllocateStarts, BuildingSteps, FailingSteps, TakeKeySetStarts,
       WriteKeySetStarts DEF GenStep, Start!ThreadStep
  <2> QED
    BY <2>1, <2>3 DEF GenNext
<1> QED
  BY <1>1, StartInit, GenerationInvariant, PTL DEF GenSpec, StartsAsAssumed, Start!Spec

=============================================================================
