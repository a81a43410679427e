--------------------------- MODULE KeyGeneration ---------------------------
(***************************************************************************)
(* The start of the server's threads, up to the first keyset each sends:   *)
(* every thread calls SharedServerInfo.generateKeySets, which is not       *)
(* synchronized, then getKeySet, which is.  One step per access to an      *)
(* entry of the array to which the shared field keysets refers at the      *)
(* time, reading that field included: an access through a reference read   *)
(* earlier is one made before the field changed.                           *)
(*                                                                         *)
(* A thread allocates one array and at most one KeySet per index, so that  *)
(* an array is named by its allocator and a KeySet object by <<thread,     *)
(* index>>.  HashSet.add is one step; that a set is written while another  *)
(* thread adds to it may end the writer with an exception.                 *)
(***************************************************************************)
EXTENDS Protocol, FiniteSets

VARIABLES gpc,       \* next statement of the thread
          i, j,      \* its loop variables
          keysets,   \* the shared field: the array it refers to, or Null
          array,     \* array[a]: the entries of the array thread a allocated
          keysIn,    \* keysIn[t][x]: the keys in the KeySet object <<t, x>>
          distributed,  \* the field keysDistributed
          taken,     \* the KeySet object getKeySet returned to the thread
          sent       \* the keys the thread has sent to its client

genVars == <<gpc, i, j, keysets, array, keysIn, distributed, taken, sent>>

Object == Clients \X Clients

ASSUME ObjectAssumption == Null \notin Object

\* A key: who generated it, for which pair of clients, and its Keyop.
Keyop == {"ADD", "SUBTRACT"}
Key == [by : Clients, pair : Clients \X Clients, op : Keyop]

GenPC == {"allocate", "fill", "add", "subtract", "getKeySet", "sendKeys",
          "sent", "dead"}

GenTypeOK ==
  /\ gpc \in [Clients -> GenPC]
  /\ i \in [Clients -> 0 .. N]
  /\ j \in [Clients -> 0 .. N]
  /\ keysets \in Clients \cup {Null}
  /\ array \in [Clients -> [Clients -> Object \cup {Null}]]
  /\ keysIn \in [Clients -> [Clients -> SUBSET Key]]
  /\ distributed \in 0 .. N
  /\ taken \in [Clients -> Object \cup {Null}]
  /\ sent \in [Clients -> SUBSET Key]

GenInit ==
  /\ gpc = [t \in Clients |-> "allocate"]
  /\ i = [t \in Clients |-> 0]
  /\ j = [t \in Clients |-> 0]
  /\ keysets = Null
  /\ array = [t \in Clients |-> [x \in Clients |-> Null]]
  /\ keysIn = [t \in Clients |-> [x \in Clients |-> {}]]
  /\ distributed = 0
  /\ taken = [t \in Clients |-> Null]
  /\ sent = [t \in Clients |-> {}]

Enter(t, l) == gpc' = [gpc EXCEPT ![t] = l]
Set(v, t, x) == v' = [v EXCEPT ![t] = x]
Entry(x) == array[keysets][x]

-----------------------------------------------------------------------------
(* keysets = new KeySet[numberClients] *)
Allocate(t) ==
  /\ gpc[t] = "allocate"
  /\ keysets' = t
  /\ Enter(t, "fill")
  /\ UNCHANGED <<i, j, array, keysIn, distributed, taken, sent>>

(* Mutant: the loop stops one entry early. *)
FillOffByOne(t) ==
  /\ gpc[t] = "fill"
  /\ array' = [array EXCEPT ![keysets][i[t]] = <<t, i[t]>>]
  /\ IF i[t] + 1 < N - 1
     THEN Set(i, t, i[t] + 1) /\ UNCHANGED <<gpc, j>>
     ELSE /\ Set(i, t, 0)
          /\ Set(j, t, 1)
          /\ Enter(t, IF N = 1 THEN "getKeySet" ELSE "add")
  /\ UNCHANGED <<keysets, keysIn, distributed, taken, sent>>

(* keysets[i] = new KeySet(), in whatever array the field refers to by now *)
Fill(t) ==
  /\ gpc[t] = "fill"
  /\ array' = [array EXCEPT ![keysets][i[t]] = <<t, i[t]>>]
  /\ IF i[t] < N - 1
     THEN Set(i, t, i[t] + 1) /\ UNCHANGED <<gpc, j>>
     ELSE /\ Set(i, t, 0)
          /\ Set(j, t, 1)
          /\ Enter(t, IF N = 1 THEN "getKeySet" ELSE "add")
  /\ UNCHANGED <<keysets, keysIn, distributed, taken, sent>>

AddKey(t, x, op) ==
  LET o == Entry(x)
      k == [by |-> t, pair |-> <<i[t], j[t]>>, op |-> op]
  IN  keysIn' = [keysIn EXCEPT ![o[1]][o[2]] = @ \cup {k}]

(* keysets[i].addKey(kp) *)
AddPositive(t) ==
  /\ gpc[t] = "add"
  /\ Entry(i[t]) # Null
  /\ AddKey(t, i[t], "ADD")
  /\ Enter(t, "subtract")
  /\ UNCHANGED <<i, j, keysets, array, distributed, taken, sent>>

(* keysets[j].addKey(kn), and on to the next pair i < j *)
AddNegative(t) ==
  /\ gpc[t] = "subtract"
  /\ Entry(j[t]) # Null
  /\ AddKey(t, j[t], "SUBTRACT")
  /\ \/ /\ j[t] < N - 1
        /\ Set(j, t, j[t] + 1)
        /\ Enter(t, "add")
        /\ UNCHANGED i
     \/ /\ j[t] = N - 1 /\ i[t] < N - 2
        /\ Set(i, t, i[t] + 1)
        /\ Set(j, t, i[t] + 2)
        /\ Enter(t, "add")
     \/ /\ j[t] = N - 1 /\ i[t] = N - 2
        /\ Enter(t, "getKeySet")
        /\ UNCHANGED <<i, j>>
  /\ UNCHANGED <<keysets, array, distributed, taken, sent>>

(* A null entry: NullPointerException, which ends the thread. *)
AddToNull(t) ==
  /\ \/ gpc[t] = "add" /\ Entry(i[t]) = Null
     \/ gpc[t] = "subtract" /\ Entry(j[t]) = Null
  /\ Enter(t, "dead")
  /\ UNCHANGED <<i, j, keysets, array, keysIn, distributed, taken, sent>>

-----------------------------------------------------------------------------
(* Mutant: keysDistributed++ is missing. *)
TakeFirstKeySet(t) ==
  /\ gpc[t] = "getKeySet"
  /\ Set(taken, t, Entry(distributed))
  /\ Enter(t, "sendKeys")
  /\ UNCHANGED <<i, j, keysets, array, keysIn, distributed, sent>>

(* getKeySet: the entries are not yet exhausted when a thread starts. *)
TakeKeySet(t) ==
  /\ gpc[t] = "getKeySet"
  /\ Set(taken, t, Entry(distributed))
  /\ distributed' = distributed + 1
  /\ Enter(t, "sendKeys")
  /\ UNCHANGED <<i, j, keysets, array, keysIn, sent>>

(* client.send(key) writes the keys that are in the set by now. *)
WriteKeySet(t) ==
  /\ gpc[t] = "sendKeys"
  /\ Set(sent, t, IF taken[t] = Null THEN {} ELSE keysIn[taken[t][1]][taken[t][2]])
  /\ Enter(t, "sent")
  /\ UNCHANGED <<i, j, keysets, array, keysIn, distributed, taken>>

(* HashSet.writeObject iterates over the set: an addition made meanwhile   *)
(* ends it with a ConcurrentModificationException.                         *)
WriteFailsByAddition(t) ==
  /\ gpc[t] = "sendKeys"
  /\ taken[t] # Null
  /\ \E u \in Clients : \/ gpc[u] = "add" /\ Entry(i[u]) = taken[t]
                        \/ gpc[u] = "subtract" /\ Entry(j[u]) = taken[t]
  /\ Enter(t, "dead")
  /\ UNCHANGED <<i, j, keysets, array, keysIn, distributed, taken, sent>>

GenStep(t) ==
  \/ Allocate(t) \/ Fill(t) \/ AddPositive(t) \/ AddNegative(t) \/ AddToNull(t)
  \/ TakeKeySet(t) \/ WriteKeySet(t) \/ WriteFailsByAddition(t)

GenNext == \E t \in Clients : GenStep(t)

GenSpec == GenInit /\ [][GenNext]_genVars

-----------------------------------------------------------------------------
Building == {"fill", "add", "subtract"}

\* EntriesAreThere: when no thread is inside generateKeySets, even if one has
\* died there, the array the field refers to has no null entry: the thread
\* that allocated it has filled it.
EntriesAreThere ==
  (keysets # Null /\ \A t \in Clients : gpc[t] \notin Building) =>
    \A x \in Clients : Entry(x) # Null

\* NoSharedKeySet: whatever the interleaving, no KeySet object is given to two
\* threads, so no two clients encipher with the same keyset.
NoSharedKeySet ==
  \A t, u \in Clients : t # u /\ taken[t] # Null => taken[t] # taken[u]

Partner(k) == [k EXCEPT !.op = IF @ = "ADD" THEN "SUBTRACT" ELSE "ADD"]

\* KeysAgree: once every client has been sent its first keyset, each key that
\* one of them adds is subtracted by another ("to ensure all threads work
\* from the same set of information", SharedServerInfo's class comment).
KeysAgree ==
  (\A t \in Clients : gpc[t] = "sent") =>
    \A t \in Clients : \A k \in sent[t] :
      \E u \in Clients \ {t} : Partner(k) \in sent[u]

-----------------------------------------------------------------------------
(* What ServerThread says of the start: its threads are generating, without *)
(* a word on arrays and keys, its getKeySet hands out the entries of the    *)
(* generation 0 in order, and null or a failure only while another thread   *)
(* is generating.                                                           *)
Abstractly(l) == CASE l = "allocate" -> "generate"
                   [] l \in Building -> "generating"
                   [] l = "sent"     -> "keysAck"
                   [] OTHER          -> l

NameOf(o) == IF o = Null THEN Null ELSE [gen |-> 0, idx |-> o[2]]

Start == INSTANCE DiningSystem WITH
  MaxGenerations <- 1, SpuriousWakeups <- FALSE, Loop <- "DiningLoop", Mortal <- {},
  pc <- [t \in Clients |-> Abstractly(gpc[t])],
  keySet <- [t \in Clients |-> NameOf(taken[t])],
  keysDistributed <- distributed,
  s2c <- [t \in Clients |-> IF gpc[t] = "sent" THEN <<KeySetObject(NameOf(taken[t]))>>
                                               ELSE <<>>],
  c2s <- [t \in Clients |-> <<>>], clientOpen <- [t \in Clients |-> TRUE],
  serverUp <- TRUE, currentRoundMessages <- <<>>, noSent <- 0, generation <- 0,
  monitor <- Null, waitSet <- {}, output <- [t \in Clients |-> Null],
  size <- [t \in Clients |-> 0], notified <- [t \in Clients |-> 0],
  cpc <- [t \in Clients |-> "keys"], ckeys <- [t \in Clients |-> Null]

\* StartsAsAssumed: every behaviour of the unsynchronized code is one that
\* ServerThread allows: its coarser account of the start leaves nothing out.
StartsAsAssumed == Start!Spec
=============================================================================
