------------------------- MODULE AnswerPromiseProofs -------------------------
(***************************************************************************)
(* AnswerDelivery implements AnswerPromise, for any turns, sessions, caps, *)
(* attempts, faults, mutes and restarts.                                   *)
(*                                                                         *)
(* A step of the detailed specification takes an answer up, brings one to  *)
(* the chat, or takes answers out of hand; what it does to the fate of the *)
(* answers follows from that and from the inductive invariant.             *)
(***************************************************************************)
EXTENDS AnswerDeliveryProofs

fates == [t \in Turns |-> Fate(t)]

\* The finishes that have not begun are the same before and after.
SameBegun == \A u \in Turns : fin'[u] = "none" <=> fin[u] = "none"

-----------------------------------------------------------------------------
(* Three kinds of step. *)

\* A step that brings nothing to the chat and takes nothing up gives answers up.
LEMMA GivesUp ==
  ASSUME IInv, SameBegun, UNCHANGED <<copies, ring>>,
         \A u \in Turns : InHand(u)' => InHand(u)
  PROVE  Promise!GiveUp
<1> DEFINE given == {u \in Turns : Fate(u) = "owed" /\ Fate(u)' = "lost"}
<1>1. \A u \in Turns : u \notin given => Fate(u)' = Fate(u)
  BY DEF Fate, SameBegun
<1>2. fates' = [t \in Turns |-> IF t \in given THEN "lost" ELSE fates[t]]
  BY <1>1 DEF fates
<1>3. \A t \in given : fates[t] = "owed"
  BY DEF fates
<1>4. given \in SUBSET Turns
  OBVIOUS
<1> HIDE DEF given
<1> QED BY <1>2, <1>3, <1>4 DEF Promise!GiveUp, fates

\* One more copy of an answer in hand delivers it.
LEMMA Delivers ==
  ASSUME IInv, NEW d \in Turns, SameBegun, ring' = ring, InHand(d),
         copies' = [copies EXCEPT ![d] = @ + 1],
         \A u \in Turns \ {d} : InHand(u)' <=> InHand(u)
  PROVE  Promise!Deliver(d) \/ UNCHANGED <<fates, ring>>
<1>1. /\ copies'[d] > 0 /\ copies[d] \in Nat
      /\ \A u \in Turns \ {d} : copies'[u] = copies[u]
      /\ fin[d] # "none" /\ fin'[d] # "none"
  BY DEF IInv, Typed, Known, SameBegun
<1>2. \A u \in Turns \ {d} : Fate(u)' = Fate(u)
  BY <1>1 DEF Fate, SameBegun
<1>3. Fate(d)' = "delivered" /\ Fate(d) \in {"owed", "delivered"}
  BY <1>1 DEF Fate
<1>4. fates' = [fates EXCEPT ![d] = "delivered"]
  BY <1>2, <1>3 DEF fates
<1>5. CASE Fate(d) = "owed"
  BY <1>4, <1>5 DEF Promise!Deliver, fates
<1>6. CASE Fate(d) = "delivered"
  <2>1. fates' = fates
    BY <1>2, <1>3, <1>6 DEF fates
  <2> QED BY <2>1
<1> QED BY <1>3, <1>5, <1>6

\* What a finish takes up is owed.
LEMMA TakesUp ==
  ASSUME IInv, NEW t \in Turns, TakeUp(t), UNCHANGED <<copies, held, flush>>,
         fin[t] \in {"none", "done"}, fin[t] = "none" \/ t \notin ring,
         \A u \in Turns : u > t /\ Owner[u] = Owner[t] => fin[t] = "none" \/ fin[u] = "none"
  PROVE  Promise!Owe(t) \/ Promise!TakeUpAgain(t)
<1>1. /\ fin'[t] \in Sendings /\ \A u \in Turns \ {t} : fin'[u] = fin[u]
      /\ ring' = ring \cup {t}
  BY DEF TakeUp, IInv, Typed, Sendings
<1>2. ~InHand(t) /\ InHand(t)' /\ fin'[t] # "none"
  BY <1>1 DEF IInv, Known, InHand, Sendings
<1>3. \A u \in Turns \ {t} : InHand(u)' <=> InHand(u)
  BY <1>1 DEF InHand
<1>4. \A u \in Turns \ {t} : Fate(u)' = Fate(u)
  BY <1>1, <1>3 DEF Fate
<1>5. CASE fin[t] = "none"
  <2>1. Fate(t) = "none" /\ Fate(t)' = "owed"
    BY <1>2, <1>5 DEF Fate, IInv, Landed
  <2>2. fates' = [fates EXCEPT ![t] = "owed"] /\ fates[t] = "none"
    BY <1>4, <2>1 DEF fates
  <2> QED BY <1>1, <2>2 DEF Promise!Owe, fates
<1>6. CASE fin[t] # "none"
  <2>1. /\ Fate(t) \in {"lost", "delivered"}
        /\ Fate(t)' = IF Fate(t) = "lost" THEN "owed" ELSE Fate(t)
    BY <1>2, <1>6 DEF Fate
  <2>2. /\ fates' = [fates EXCEPT ![t] = IF @ = "lost" THEN "owed" ELSE @]
        /\ fates[t] \in {"lost", "delivered"}
    BY <1>4, <2>1 DEF fates
  <2>3. \A u \in Turns : u > t /\ Owner[u] = Owner[t] => fates[u] = "none"
    BY <1>6 DEF fates, Fate
  <2> QED BY <1>1, <1>6, <2>2, <2>3 DEF Promise!TakeUpAgain, fates
<1> QED BY <1>5, <1>6

-----------------------------------------------------------------------------
(* The steps. *)

Simulated == [Promise!Next]_<<fates, ring>>

LEMMA FinishSimulated ==
  ASSUME IInv, NEW t \in Turns, Finish(t) PROVE Simulated
<1>1. CASE AnswerLands(t)
  <2>1. /\ InHand(t) /\ ring' = ring /\ SameBegun
        /\ copies' = [copies EXCEPT ![t] = @ + 1]
    BY <1>1 DEF AnswerLands, InHand, SameBegun, IInv, Typed, Sendings
  <2>2. /\ \A u \in Turns \ {t} : fin'[u] = fin[u]
        /\ UNCHANGED <<held, flush>>
    BY <1>1 DEF AnswerLands, IInv, Typed, heldVars
  <2>3. \A u \in Turns \ {t} : InHand(u)' <=> InHand(u)
    BY <2>2 DEF InHand
  <2> QED BY <2>1, <2>3, Delivers DEF Simulated, Promise!Next
<1>2. CASE MergeHeld(t) \/ AnswerHeld(t)
  <2>1. PICK kind \in Kinds : Hold(t, kind)
    BY <1>2 DEF MergeHeld, AnswerHeld, Kinds
  <2>2. PICK new \in Record : new.turn = t /\ held' \subseteq held \cup {new}
    BY <2>1, HoldFacts
  <2>3. /\ fin[t] \in Sendings /\ SameBegun
        /\ \A u \in Turns \ {t} : fin'[u] = fin[u]
        /\ UNCHANGED <<copies, ring, flush>>
    BY <1>2 DEF MergeHeld, AnswerHeld, Sendings, SameBegun, IInv, Typed, ringVars
  <2>4. \A u \in Turns : InHand(u)' => InHand(u)
    BY <2>2, <2>3 DEF InHand
  <2> QED BY <2>3, <2>4, GivesUp DEF Simulated, Promise!Next
<1>3. CASE FallsBack(t) \/ AnswerLost(t) \/ DeliverTurnFiles(t)
  <2>1. /\ SameBegun /\ UNCHANGED <<copies, ring, held, flush>>
        /\ \A u \in Turns : fin'[u] \in Sendings => fin[u] \in Sendings
    BY <1>3 DEF FallsBack, AnswerLost, DeliverTurnFiles, Sendings, SameBegun, IInv, Typed,
                ringVars, heldVars
  <2>2. \A u \in Turns : InHand(u)' => InHand(u)
    BY <2>1 DEF InHand
  <2> QED BY <2>1, <2>2, GivesUp DEF Simulated, Promise!Next
<1> QED BY <1>1, <1>2, <1>3 DEF Finish

LEMMA FlushSimulated ==
  ASSUME IInv, Flush PROVE Simulated
<1>1. SameBegun /\ UNCHANGED <<fin, ring>>
  BY DEF Flush, HeldRefused, HeldLands, HeldFails, HeldGivenUp, HeldPlainLands,
         HeldPlainFails, ringVars, SameBegun
<1>2. CASE HeldRefused
  <2>1. UNCHANGED <<copies, held>> /\ flush'.queue = {}
    BY <1>2 DEF HeldRefused, heldVars, NoFlush
  <2>2. \A u \in Turns : InHand(u)' => InHand(u)
    BY <1>1, <2>1 DEF InHand
  <2> QED BY <1>1, <2>1, <2>2, GivesUp DEF Simulated, Promise!Next
<1>3. ASSUME NEW s \in flush.sessions, NEW e \in flush.queue, Oldest(e, flush.queue),
             HeldLands(s, e) \/ HeldPlainLands(s, e)
      PROVE  Simulated
  <2>1. /\ e.turn \in Turns /\ InHand(e.turn)
        /\ copies' = [copies EXCEPT ![e.turn] = @ + 1]
    BY <1>3 DEF IInv, Typed, FlushType, Record, InHand, HeldLands, HeldPlainLands
  <2>2. flush'.queue = flush.queue \ {e}
    <3>1. \/ flush' = [flush EXCEPT !.queue = @ \ {e}, !.phase = "rich"]
          \/ flush.queue = {e} /\ flush' = NoFlush
      BY <1>3 DEF HeldLands, HeldPlainLands, Continue
    <3> QED BY <1>3, <3>1, ContinueFacts DEF Current, SentOn
  <2>3. held' \subseteq held /\ \A f \in held : f \notin held' => f.turn = e.turn
    BY <1>3 DEF HeldLands, HeldPlainLands, Without, heldVars, IInv, Numbered
  <2>4. \A u \in Turns \ {e.turn} : InHand(u)' <=> InHand(u)
    BY <1>1, <2>2, <2>3 DEF InHand
  <2> QED BY <1>1, <2>1, <2>4, Delivers DEF Simulated, Promise!Next
<1>4. ASSUME NEW s \in flush.sessions, NEW e \in flush.queue, Oldest(e, flush.queue),
             HeldFails(s, e) \/ HeldGivenUp(s, e) \/ HeldPlainFails(s, e)
      PROVE  Simulated
  <2>1. copies' = copies /\ flush'.queue \subseteq flush.queue
    <3>1. \/ flush' = [flush EXCEPT !.queue = @ \ {e}, !.phase = "rich"]
          \/ flush.queue = {e} /\ flush' = NoFlush
          \/ flush' = [flush EXCEPT !.phase = "plain"]
      BY <1>4 DEF HeldFails, HeldGivenUp, HeldPlainFails, Continue
    <3> QED BY <1>4, <3>1, ContinueFacts
            DEF Current, SentOn, HeldFails, HeldGivenUp, HeldPlainFails, IInv, Typed,
                FlushType
  <2>2. \A f \in held' : \E g \in held : g.turn = f.turn
    <3>1. CASE HeldFails(s, e)
      BY <3>1 DEF HeldFails, IInv, Typed, Record
    <3>2. CASE HeldGivenUp(s, e) \/ HeldPlainFails(s, e)
      BY <3>2 DEF HeldGivenUp, HeldPlainFails, Without, heldVars
    <3> QED BY <1>4, <3>1, <3>2
  <2>3. \A u \in Turns : InHand(u)' => InHand(u)
    BY <1>1, <2>1, <2>2 DEF InHand
  <2> QED BY <1>1, <2>1, <2>3, GivesUp DEF Simulated, Promise!Next
<1> QED BY <1>2, <1>3, <1>4 DEF Flush

LEMMA RestartSimulated ==
  ASSUME IInv, Restart PROVE Simulated
<1>1. PICK landed \in SUBSET Turns :
        /\ landed \subseteq Out
        /\ copies' = [t \in Turns |-> copies[t] + IF t \in landed THEN 1 ELSE 0]
  <2>1. Out \subseteq Turns
    BY DEF Out, IInv, Typed, FlushType, Record
  <2>2. PICK landed \in {{}} \cup (IF muted THEN {} ELSE {{t} : t \in Out}) :
          copies' = [t \in Turns |-> copies[t] + IF t \in landed THEN 1 ELSE 0]
    BY DEF Restart
  <2>3. landed \subseteq Out
    OBVIOUS
  <2> QED BY <2>1, <2>2, <2>3
<1>2. /\ fin' = [t \in Turns |-> IF fin[t] = "none" THEN "none" ELSE "done"]
      /\ held' = {} /\ flush' = NoFlush /\ ring' \subseteq confirmed
  BY DEF Restart, IInv, Typed
<1>3. \A u \in Turns : ~InHand(u)' /\ (fin'[u] = "none" <=> fin[u] = "none")
  BY <1>2 DEF InHand, NoFlush, Sendings
<1>4. \A u \in Turns : /\ copies[u] > 0 => copies'[u] > 0
                       /\ copies'[u] > 0 => copies[u] > 0 \/ u \in landed
                       /\ u \in landed => InHand(u) /\ copies'[u] > 0
  BY <1>1 DEF IInv, Typed, Out, InHand
<1>5. \A u \in Turns : Fate(u)' = IF Fate(u) # "owed" THEN Fate(u)
                                 ELSE IF u \in landed THEN "delivered" ELSE "lost"
  BY <1>3, <1>4 DEF Fate, IInv, Known
<1>6. fates' = [t \in Turns |-> IF fates[t] # "owed" THEN fates[t]
                               ELSE IF t \in landed THEN "delivered" ELSE "lost"]
  BY <1>5 DEF fates
<1>7. \A t \in ring' : t \in Turns /\ fates[t] = "delivered"
  BY <1>2 DEF fates, Fate, IInv, Typed, Landed
<1> QED BY <1>6, <1>7 DEF Simulated, Promise!Next, Promise!Restart, fates

LEMMA NextSimulated ==
  ASSUME IInv, [Next]_vars PROVE Simulated
<1>1. ASSUME UNCHANGED <<fin, copies, held, flush, ring>> PROVE Simulated
  <2>1. \A u \in Turns : Fate(u)' = Fate(u)
    BY <1>1 DEF Fate, InHand
  <2>2. fates' = fates
    BY <2>1 DEF fates
  <2> QED BY <1>1, <2>2 DEF Simulated
<1>2. CASE \/ UNCHANGED vars \/ MuteStarts \/ MuteLifts \/ Save
           \/ \E s \in Sessions : FlushFiles(s) \/ Deliver(s)
  <2>1. CASE UNCHANGED vars \/ Save
    BY <1>1, <2>1 DEF vars, heldVars, ringVars, Save
  <2>2. CASE MuteStarts \/ MuteLifts \/ \E s \in Sessions : FlushFiles(s) \/ Deliver(s)
    BY <1>1, <2>2, QuietActions DEF Places, heldVars, ringVars
  <2> QED BY <1>2, <2>1, <2>2
<1>3. CASE Expire \/ \E s \in Sessions : StartFlush(s)
  <2>1. /\ SameBegun /\ UNCHANGED <<fin, copies, ring>>
        /\ held' \subseteq held /\ flush'.queue \subseteq held \cup flush.queue
    BY <1>3 DEF Expire, StartFlush, heldVars, ringVars, SameBegun, Of
  <2>2. \A u \in Turns : InHand(u)' => InHand(u)
    BY <2>1 DEF InHand
  <2> QED BY <2>1, <2>2, GivesUp DEF Simulated, Promise!Next
<1>4. ASSUME NEW t \in Turns, EndTurn(t) \/ IdleAgain(t) PROVE Simulated
  <2>1. /\ TakeUp(t) /\ UNCHANGED <<copies, held, flush>>
        /\ fin[t] \in {"none", "done"} /\ (fin[t] = "none" \/ t \notin ring)
        /\ \A u \in Turns : u > t /\ Owner[u] = Owner[t] => fin[t] = "none" \/ fin[u] = "none"
    BY <1>4 DEF EndTurn, IdleAgain, heldVars
  <2> QED BY <2>1, TakesUp DEF Simulated, Promise!Next
<1> QED BY <1>2, <1>3, <1>4, FinishSimulated, FlushSimulated, RestartSimulated DEF Next

\* The deliveries, mutes, flushes and restarts of notify.py, held.py and outbox.py
\* keep the daemon's promise of its answers: one that is owed goes to the chat or is
\* given up, and what was given up is taken up again only after a restart.
THEOREM PromiseKept == Spec => KeepsPromise
<1>1. Init => Promise!Init
  BY DEF Init, Promise!Init, Fate
<1>2. IInv /\ [Next]_vars => [Promise!Next]_<<fates, ring>>
  BY NextSimulated DEF Simulated
<1>3. IInv /\ [Next]_vars => [Promise!Next]_<<[t \in Turns |-> Fate(t)], ring>>
  BY <1>2 DEF fates
<1> QED BY <1>1, <1>3, Invariance, PTL DEF Spec, KeepsPromise, Promise!Spec
=============================================================================
