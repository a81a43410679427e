------------------------------- MODULE DcNet -------------------------------
(***************************************************************************)
(* The arithmetic of the dining-cryptographers net: how the server makes   *)
(* the keysets of a round, how a client turns a character and a keyset     *)
(* into its output, and how the outputs of a round give a character back.  *)
(* Java's int has Word values and wraps; a char has MAX_CHAR + 1.  The     *)
(* output travels as a decimal text, which parseInt turns back into the    *)
(* same int.                                                               *)
(***************************************************************************)
EXTENDS Protocol, Integers, FiniteSetsExt, SequencesExt

CONSTANTS MAX_CHAR,   \* '\uffff'
          Word,       \* the number of values of an int, 2^32
          KeyValues   \* what RandomGenerator.generateInt may return

JavaInt == -(Word \div 2) .. (Word \div 2) - 1

(* An int holds the sum of all clients' characters: 2^32 does for up to    *)
(* 16384 clients.                                                          *)
ASSUME ArithmeticAssumption ==
  /\ MAX_CHAR \in Nat \ {0}
  /\ Word \in Nat /\ Word % (2 * (MAX_CHAR + 1)) = 0
  /\ 2 * N * MAX_CHAR < Word \div 2
  /\ KeyValues \subseteq JavaInt

\* Arithmetic on int, and the cast of an int to a char.
Wrap(x) == ((x + Word \div 2) % Word) - Word \div 2
ToChar(x) == x % (MAX_CHAR + 1)

Silence == 0   \* the char 0: nothing to say in this round
Chars == 1 .. MAX_CHAR

-----------------------------------------------------------------------------
(* generateKeySets: for every pair i < j a key that i adds and j subtracts. *)
(* Key defines no equals, so that a HashSet keeps keys of equal value apart *)
(* (the pair stands for the object's identity).                             *)
Pairs == {p \in Clients \X Clients : p[1] < p[2]}

KeySetOf(x) ==
  [pair : {p \in Pairs : p[1] = x}, op : {"ADD"}]
    \cup [pair : {p \in Pairs : p[2] = x}, op : {"SUBTRACT"}]

(* Mutant of sum: the key operation is not looked at. *)
sumIgnoresOp(k, keys) == FoldSet(LAMBDA e, s : Wrap(s + k[e.pair]), 0, keys)

(* KeySet.sum, of keys with the values k *)
sum(k, keys) ==
  FoldSet(LAMBDA e, s : Wrap(IF e.op = "ADD" THEN s + k[e.pair] ELSE s - k[e.pair]),
          0, keys)

-----------------------------------------------------------------------------
(* Mutant of transmit: MAX_CHAR is not added. *)
transmitBareChar(c, k, keys) == Wrap(sum(k, keys) + c)

(* DiningLoop.transmit: the text a client sends for the char c. *)
Encoded(c) == IF c # Silence THEN c + MAX_CHAR ELSE c

transmit(c, k, keys) == Wrap(sum(k, keys) + Encoded(c))

(* DiningLoop.collate: the char a client finds in the outputs of a round;  *)
(* of two or more characters it makes a char that nobody has sent.         *)
Total(messages) == FoldLeft(LAMBDA s, o : Wrap(s + o), 0, messages)

(* Mutant: the cast to char is missing. *)
collateUncast(messages) ==
  LET s == Total(messages)
  IN  IF s = 0 \/ s > 2 * MAX_CHAR THEN s ELSE s - MAX_CHAR

collate(messages) ==
  LET s == Total(messages)
  IN  ToChar(IF s = 0 \/ s > 2 * MAX_CHAR THEN s ELSE s - MAX_CHAR)
=============================================================================
