----------------------------- MODULE TurnPromise -----------------------------
(***************************************************************************)
(* What the chat of a session promises, whatever card requests and         *)
(* finishes are out: one running card at a time, of a turn that is not     *)
(* closed; a card that ends for good; and, once for a message, its answer, *)
(* when its turn is closed and neither that turn nor an older one has a    *)
(* card that runs.                                                         *)
(* An answer goes under its own message, for that message's turn, unless   *)
(* the message was spoilt before; and while none was, turn t is message    *)
(* t's.  While nobody has stopped waiting for a finish, a turn has one     *)
(* card, ended by that turn, and the answers come in the order of the      *)
(* messages as long as none is spoilt.                                     *)
(***************************************************************************)
EXTENDS Integers, Sequences

CONSTANT
  Messages  \* how many are sent

VARIABLES
  turns,    \* the message each turn was begun for
  closed,   \* the turns that are over: this one and those before it
  cards,    \* the cards in the chat
  answers,  \* the runs answered, each for a turn and under a message
  patient,  \* whether every finish has been waited for
  spoilt    \* the messages that may be taken for another one

Running(k) == k \in DOMAIN cards /\ cards[k].state = "live"
Answered(m) == \E a \in answers : a.run = m

Init ==
  /\ turns = <<>> /\ closed = 0 /\ cards = <<>> /\ answers = {}
  /\ patient = TRUE /\ spoilt = {}

\* A message once spoilt stays so.
Spoil == spoilt \subseteq spoilt' /\ spoilt' \subseteq 1 .. Messages

LoseTrack ==
  /\ Spoil
  /\ UNCHANGED <<turns, closed, cards, answers, patient>>

\* A turn is begun; beginning the wrong one spoils messages.
Begin ==
  /\ Spoil
  /\ \E m \in 1 .. Messages :
       turns' = Append(turns, m) /\ (spoilt' = {} => m = Len(turns) + 1)
  /\ UNCHANGED <<closed, cards, answers, patient>>

\* The turns up to t are over.
Close(t) ==
  /\ t > closed
  /\ closed' = t
  /\ UNCHANGED <<turns, cards, answers, patient, spoilt>>

LoseWait ==
  /\ patient' = FALSE
  /\ UNCHANGED <<turns, closed, cards, answers, spoilt>>

\* A card of turn t is sent: it runs, or is lost.
Show(t) ==
  /\ t > closed
  /\ \A k \in DOMAIN cards : ~ Running(k)
  /\ patient => \A k \in DOMAIN cards : cards[k].turn = t => cards[k].state = "lost"
  /\ \E state \in {"live", "lost"} :
       cards' = Append(cards, [turn |-> t, state |-> state, by |-> 0])
  /\ UNCHANGED <<turns, closed, answers, patient, spoilt>>

\* Turn t ends card k, of a turn that is closed or not the newest.
Settle(k, t) ==
  /\ Running(k)
  /\ patient => t = cards[k].turn /\ (t <= closed \/ t < Len(turns))
  /\ cards' = [cards EXCEPT ![k].state = "over", ![k].by = t]
  /\ UNCHANGED <<turns, closed, answers, patient, spoilt>>

\* The answer of run m, of turn t, goes out under message u.
Answer(m, t, u) ==
  /\ ~ Answered(m)
  /\ \A k \in DOMAIN cards : Running(k) => cards[k].turn > t
  /\ m \notin spoilt => t = m /\ u = m
  /\ spoilt = {} /\ patient => \A n \in 1 .. m - 1 : Answered(n)
  /\ answers' = answers \cup {[run |-> m, under |-> u, turn |-> t]}
  /\ UNCHANGED <<turns, closed, cards, patient, spoilt>>

Next ==
  \/ Begin \/ LoseTrack \/ LoseWait
  \/ \E t \in 0 .. Len(turns) : Close(t) \/ Show(t)
  \/ \E k \in DOMAIN cards, t \in 0 .. Len(turns) : Settle(k, t)
  \/ \E m \in 1 .. Messages, t \in 0 .. closed, u \in 0 .. Messages : Answer(m, t, u)

Spec == Init /\ [][Next]_<<turns, closed, cards, answers, patient, spoilt>>
=============================================================================
