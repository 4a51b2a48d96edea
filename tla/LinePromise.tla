----------------------------- MODULE LinePromise -----------------------------
(***************************************************************************)
(* What the chat of a session promises of the lines under its queued       *)
(* messages: a message gets one line at most, and a line that is gone does *)
(* not come back, not in a later daemon either; a line in the chat is owed *)
(* a delete, or is lost to the daemon by a fault; and a line that the      *)
(* daemon tracks is let go before it is deleted, unless its own button was *)
(* pressed.                                                                *)
(***************************************************************************)
EXTENDS Naturals

CONSTANT Msgs

VARIABLES
  may,      \* the messages that may still get a line
  up,       \* the lines in the chat
  tracked,  \* the lines the daemon keeps up
  debt,     \* the lines owed a delete
  lost,     \* the lines no daemon need know of
  tapped    \* the lines whose button was pressed

Init ==
  /\ may = Msgs
  /\ up = {} /\ tracked = {} /\ debt = {} /\ lost = {} /\ tapped = {}

\* A line is posted; it is owed a delete at once, or lost.
Post(m) ==
  /\ m \in may
  /\ may' = may \ {m} /\ up' = up \cup {m}
  /\ \/ debt' = debt \cup {m} /\ UNCHANGED lost
     \/ lost' = lost \cup {m} /\ UNCHANGED debt
  /\ UNCHANGED <<tracked, tapped>>

\* The daemon tracks a line it owes, in the chat or already pressed.
Track(m) ==
  /\ m \in debt \cap (up \cup tapped)
  /\ tracked' = tracked \cup {m}
  /\ UNCHANGED <<may, up, debt, lost, tapped>>

\* Lines are let go, and what was tracked is owed; messages need no line any
\* more.
LetGo ==
  /\ may' \subseteq may /\ tracked' \subseteq tracked
  /\ debt \cup (tracked \ tracked') \subseteq debt'
  /\ debt' \subseteq debt \cup (tracked \ tracked') \cup up
  /\ UNCHANGED <<up, lost, tapped>>

\* What is tracked is not touched, unless its button was pressed.
Free(gone) == gone \cap tracked \subseteq tapped

\* What is owed beside these lines stays owed.
Settled(gone) == debt \ gone \subseteq debt' /\ debt' \subseteq debt

Remove(gone) ==
  /\ Free(gone) /\ Settled(gone)
  /\ up' = up \ gone
  /\ UNCHANGED <<may, tracked, lost, tapped>>

\* A delete that failed is taken for one that was done.
Lose(gone) ==
  /\ Free(gone) /\ Settled(gone)
  /\ lost' = lost \cup gone
  /\ UNCHANGED <<may, up, tracked, tapped>>

Press(m) ==
  /\ m \in up
  /\ tapped' = tapped \cup {m}
  /\ UNCHANGED <<may, up, tracked, debt, lost>>

\* A new daemon tracks nothing and owes what it was left; a line it does not
\* know of is lost.
Restart ==
  /\ may' \subseteq may
  /\ tracked' = {}
  /\ debt' \subseteq Msgs \ may
  /\ lost' \in {lost, lost \cup (up \ debt')}
  /\ up \subseteq debt' \cup lost'
  /\ UNCHANGED <<up, tapped>>

Next ==
  \/ LetGo \/ Restart
  \/ \E m \in Msgs : Post(m) \/ Track(m) \/ Press(m)
  \/ \E gone \in SUBSET Msgs : Remove(gone) \/ Lose(gone)

Spec == Init /\ [][Next]_<<may, up, tracked, debt, lost, tapped>>
=============================================================================
