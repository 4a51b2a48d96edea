---------------------------- MODULE AnswerPromise ----------------------------
(***************************************************************************)
(* What the daemon promises of the answers of its turns, whatever the      *)
(* mutes, the buffer and the flushes do: an answer that is owed goes to    *)
(* the chat or is given up, one given up is not taken up again by the same *)
(* daemon, and a later daemon takes up at most the newest answer of a      *)
(* session, and none that it knows to be in the chat.                      *)
(***************************************************************************)
EXTENDS Naturals

CONSTANTS
  Turns,    \* numbered as they end
  Owner     \* the session of each turn

VARIABLES
  fate,     \* of each answer
  known     \* the answers this daemon does not take up again

Fates == {"none", "owed", "delivered", "lost"}

Init == fate = [t \in Turns |-> "none"] /\ known = {}

\* The turn ends: its answer is owed.
Owe(t) ==
  /\ fate[t] = "none"
  /\ fate' = [fate EXCEPT ![t] = "owed"]
  /\ known' = known \cup {t}

\* The answer is in the chat.
Deliver(t) ==
  /\ fate[t] = "owed"
  /\ fate' = [fate EXCEPT ![t] = "delivered"]
  /\ known' = known

\* Answers are given up.
GiveUp ==
  /\ \E given \in SUBSET Turns :
       /\ \A t \in given : fate[t] = "owed"
       /\ fate' = [t \in Turns |-> IF t \in given THEN "lost" ELSE fate[t]]
  /\ known' = known

\* A new daemon: what was owed is lost, or was in the chat already; it knows
\* nothing but answers that are in the chat.
Restart ==
  /\ \E landed \in SUBSET Turns :
       fate' = [t \in Turns |-> IF fate[t] # "owed" THEN fate[t]
                                ELSE IF t \in landed THEN "delivered" ELSE "lost"]
  /\ \A t \in known' : t \in Turns /\ fate[t] = "delivered"

\* The newest answer of a session, unknown to this daemon, is taken up again.
TakeUpAgain(t) ==
  /\ t \notin known
  /\ fate[t] \in {"lost", "delivered"}
  /\ \A u \in Turns : u > t /\ Owner[u] = Owner[t] => fate[u] = "none"
  /\ fate' = [fate EXCEPT ![t] = IF @ = "lost" THEN "owed" ELSE @]
  /\ known' = known \cup {t}

Next ==
  \/ GiveUp \/ Restart
  \/ \E t \in Turns : Owe(t) \/ Deliver(t) \/ TakeUpAgain(t)

Spec == Init /\ [][Next]_<<fate, known>>
=============================================================================
