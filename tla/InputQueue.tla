----------------------------- MODULE InputQueue -----------------------------
(***************************************************************************)
(* What the client's input buffer promises its two users: a queue of at    *)
(* most length messages, first in first out, out of which one message may  *)
(* be lost.  A loss is final: no message is taken after it.                *)
(***************************************************************************)
EXTENDS Naturals, Sequences

CONSTANTS length, String

VARIABLES added,  \* the messages submitted
          taken,  \* the messages taken
          lost    \* whether the next message to take has been lost

queueVars == <<added, taken, lost>>

QueueInit == added = <<>> /\ taken = <<>> /\ lost = FALSE

Pending == Len(taken) < Len(added)

Submit ==
  /\ Len(added) < length
  /\ \E str \in String : added' = Append(added, str)
  /\ UNCHANGED <<taken, lost>>

Take ==
  /\ Pending /\ ~lost
  /\ taken' = Append(taken, added[Len(taken) + 1])
  /\ UNCHANGED <<added, lost>>

Lose ==
  /\ Pending /\ ~lost
  /\ lost' = TRUE
  /\ UNCHANGED <<added, taken>>

QueueNext == Submit \/ Take \/ Lose

QueueSpec == QueueInit /\ [][QueueNext]_queueVars
=============================================================================
