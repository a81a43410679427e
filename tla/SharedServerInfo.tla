-------------------------- MODULE SharedServerInfo --------------------------
(***************************************************************************)
(* The one SharedServerInfo object of the server, and the Java monitor     *)
(* that its synchronized methods and ServerThread's synchronized blocks    *)
(* use.  A synchronized section that only reads or writes fields is one    *)
(* step; ArrayList.add and ArrayList.clear are two, because ServerThread   *)
(* copies the list without holding the monitor and can see them half done. *)
(***************************************************************************)
EXTENDS Protocol

VARIABLES currentRoundMessages,  \* the outputs collected so far
          noSent,                \* threads that have sent their results
          keysDistributed,       \* entries of keysets handed out
          generation,            \* how often getKeySet has regenerated keysets
          monitor,               \* thread inside a two-step section, or Null
          waitSet                \* threads blocked in sharedInfo.wait()

sharedVars == <<currentRoundMessages, noSent, keysDistributed, generation,
                monitor, waitSet>>

SharedTypeOK ==
  /\ currentRoundMessages \in Results
  /\ noSent \in Nat
  /\ keysDistributed \in 0 .. N
  /\ generation \in Nat
  /\ monitor \in Clients \cup {Null}
  /\ waitSet \subseteq Clients

SharedInit ==
  /\ currentRoundMessages = <<>>
  /\ noSent = 0
  /\ keysDistributed = 0
  /\ generation = 0
  /\ monitor = Null
  /\ waitSet = {}

MonitorFree == monitor = Null

(* Mutants of getKeySet: all but the last entry count as all; the entries   *)
(* are handed out again without a new generation; keysDistributed = 0 is   *)
(* missing; keysDistributed++ is missing.                                  *)
KeysExhaustedEarly == keysDistributed + 1 >= N

NextKeySetStale ==
  [gen |-> generation, idx |-> IF keysDistributed = N THEN 0 ELSE keysDistributed]

getKeySetNoReset ==
  /\ MonitorFree
  /\ generation' = generation + (IF keysDistributed >= N THEN 1 ELSE 0)
  /\ keysDistributed' = keysDistributed + 1
  /\ UNCHANGED <<currentRoundMessages, noSent, monitor, waitSet>>

getKeySetNoIncrement ==
  /\ MonitorFree
  /\ generation' = generation + (IF keysDistributed = N THEN 1 ELSE 0)
  /\ keysDistributed' = IF keysDistributed = N THEN 0 ELSE keysDistributed
  /\ UNCHANGED <<currentRoundMessages, noSent, monitor, waitSet>>

(* getKeySet: when all entries are out, generate new ones and start over;  *)
(* the result is the entry it hands out.                                   *)
KeysExhausted == keysDistributed = N

NextKeySet ==
  IF KeysExhausted THEN [gen |-> generation + 1, idx |-> 0]
                   ELSE [gen |-> generation, idx |-> keysDistributed]

getKeySet ==
  /\ MonitorFree
  /\ generation' = NextKeySet.gen
  /\ keysDistributed' = NextKeySet.idx + 1
  /\ UNCHANGED <<currentRoundMessages, noSent, monitor, waitSet>>

(* addOutput: ArrayList.add grows the list, then stores the element. *)
addOutputBegin(t) ==
  /\ MonitorFree
  /\ monitor' = t
  /\ currentRoundMessages' = Append(currentRoundMessages, Null)
  /\ UNCHANGED <<noSent, keysDistributed, generation, waitSet>>

addOutputEnd(t, m) ==
  /\ monitor = t
  /\ monitor' = Null
  /\ currentRoundMessages' =
       [currentRoundMessages EXCEPT ![Len(currentRoundMessages)] = m]
  /\ UNCHANGED <<noSent, keysDistributed, generation, waitSet>>

(* sharedInfo.wait() and sharedInfo.notifyAll() *)
Wait(t)   == waitSet' = waitSet \cup {t}
notifyAll == waitSet' = {}
=============================================================================
