------------------------------ MODULE Channel ------------------------------
(***************************************************************************)
(* What the net promises its users, without keys and outputs: a line on    *)
(* which, in every round, everybody says a character or keeps silent, and  *)
(* everybody then hears the same as if the only one to speak had been      *)
(* heard directly.  When several speak at once anything may be heard.      *)
(***************************************************************************)
EXTENDS Naturals

CONSTANTS Clients, Chars, Silence, Null

VARIABLES said,   \* said[c]: what c says in this round, Null before it does
          heard,  \* heard[c]: what c heard last
          heardBy \* who has heard the round

channelVars == <<said, heard, heardBy>>

ChannelInit ==
  /\ said = [c \in Clients |-> Null]
  /\ heard = [c \in Clients |-> Silence]
  /\ heardBy = {}

Speaking == {c \in Clients : said[c] # Silence}

Audible ==
  CASE Speaking = {} -> {Silence}
    [] \E c \in Speaking : Speaking = {c} -> {said[c] : c \in Speaking}
    [] OTHER -> Chars \cup {Silence}

Say(c) ==
  /\ said[c] = Null
  /\ \E ch \in Chars \cup {Silence} : said' = [said EXCEPT ![c] = ch]
  /\ UNCHANGED <<heard, heardBy>>

(* The round is over when the last client has heard it. *)
Hear(c) ==
  /\ \A d \in Clients : said[d] # Null
  /\ c \notin heardBy
  /\ \E ch \in Audible : heard' = [heard EXCEPT ![c] = ch]
  /\ IF heardBy \cup {c} = Clients
     THEN said' = [d \in Clients |-> Null] /\ heardBy' = {}
     ELSE heardBy' = heardBy \cup {c} /\ UNCHANGED said

ChannelNext == \E c \in Clients : Say(c) \/ Hear(c)

ChannelSpec == ChannelInit /\ [][ChannelNext]_channelVars
=============================================================================
