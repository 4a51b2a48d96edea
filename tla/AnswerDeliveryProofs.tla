------------------------ MODULE AnswerDeliveryProofs ------------------------
(***************************************************************************)
(* Proofs about AnswerDelivery, for any turns, sessions, caps, attempts,   *)
(* faults, mutes and restarts.                                             *)
(*                                                                         *)
(* The inductive invariant says where an answer can be: with its finish,   *)
(* in the buffer, or in the queue of the running flush.  An entry's number *)
(* names it in both places; an entry of the queue that the buffer has lost *)
(* was logged as lost, or is the one whose plain text is out (the last     *)
(* attempt takes it out of the buffer first).  Outside the merged layout   *)
(* an answer is in one place only, and in none once it is in the chat.     *)
(* A second one, below, adds the order of the entries and where the files  *)
(* wait: the types, and the three properties of the files and of late      *)
(* answers, follow from the two together.                                  *)
(***************************************************************************)
EXTENDS AnswerDelivery, FiniteSetTheorems, SequenceTheorems, TLAPS

Record    == [no : Nat, turn : Turns, kind : Kinds, attempts : Nat]
FlushType == [sessions : SUBSET Sessions, queue : SUBSET Record,
              phase : {"idle", "rich", "plain"}]

Typed ==
  /\ fin \in [Turns -> Phases]
  /\ copies \in [Turns -> Nat]
  /\ held \subseteq Record /\ holds \in Nat
  /\ flush \in FlushType
  /\ ring \subseteq Turns /\ confirmed \subseteq ring /\ saved \subseteq confirmed

\* A number names one entry, in the buffer and in the queue.
Numbered ==
  /\ \A e, f \in held : e.no = f.no => e = f
  /\ \A e, f \in flush.queue : e.no = f.no => e = f
  /\ \A e \in held, f \in flush.queue : e.no = f.no => e.turn = f.turn /\ e.kind = f.kind
  /\ \A e \in held \cup flush.queue : e.no <= holds

\* What is in hand was taken up by this daemon.
Known ==
  \A t \in Turns : InHand(t) => t \in ring /\ fin[t] # "none"

Landed ==
  \A t \in Turns : /\ fin[t] = "none" => copies[t] = 0
                   /\ t \in confirmed => copies[t] > 0

\* An entry of the queue is in the buffer, was logged as lost, or its plain
\* text is out.
Queued ==
  \A e \in flush.queue :
    \/ \E f \in held : f.no = e.no
    \/ e.turn \in told
    \/ flush.phase = "plain" /\ Oldest(e, flush.queue)

\* An entry whose plain text is out has left the buffer.
Spent ==
  flush.phase = "plain" =>
    \A e \in flush.queue, f \in held : Oldest(e, flush.queue) => f.no # e.no

\* Outside the merged layout an answer is in one place.
Single ==
  \A t \in Turns \ Merged :
    /\ fin[t] # "merging"
    /\ fin[t] \in Sendings => \A e \in held \cup flush.queue : e.turn # t
    /\ \A e, f \in held \cup flush.queue : e.turn = t /\ f.turn = t => e.no = f.no
    /\ \A e \in held \cup flush.queue : e.turn = t => e.kind = "answer"

Once ==
  \A t \in Turns \ (Merged \cup forgot) :
    copies[t] = 0 \/ (copies[t] = 1 /\ ~InHand(t) /\ t \in confirmed)

Places == <<fin, copies, heldVars, flush, ringVars, told, dropped, forgot>>

IInv == /\ Typed /\ Numbered /\ Known /\ Landed /\ Queued /\ Spent
        /\ NothingVanishes /\ Single /\ Once

-----------------------------------------------------------------------------
LEMMA InitIInv == Init => IInv
BY DEF Init, IInv, Typed, Numbered, Known, Landed, Queued, Spent, NothingVanishes, Single,
       Once, InHand, NoFlush, FlushType, Phases, Sendings

-----------------------------------------------------------------------------
(* Steps that move no answer. *)

\* Mutes, and everything the files do, leave the answers where they are.
LEMMA QuietStep == ASSUME IInv, UNCHANGED Places PROVE IInv'
BY DEF Places, heldVars, ringVars, IInv, Typed, Numbered, Known, Landed, Queued, Spent,
       NothingVanishes, Single, Once, InHand, Oldest

LEMMA QuietActions ==
  ASSUME \/ MuteStarts \/ MuteLifts
         \/ \E s \in Sessions : FlushFiles(s) \/ Deliver(s)
  PROVE  UNCHANGED Places
BY DEF MuteStarts, MuteLifts, FlushFiles, Deliver, RunOwn, FilesSent, FilesRefused,
       Places, heldVars, ringVars, lifeVars

LEMMA SaveStep == ASSUME IInv, Save PROVE IInv'
BY DEF Save, heldVars, lifeVars, IInv, Typed, Numbered, Known, Landed, Queued, Spent,
       NothingVanishes, Single, Once, InHand, Oldest

LEMMA DeliverTurnFilesStep ==
  ASSUME IInv, NEW t \in Turns, DeliverTurnFiles(t) PROVE IInv'
<1>1. /\ fin' = [fin EXCEPT ![t] = "done"] /\ fin[t] \in {"answered", "unanswered"}
      /\ UNCHANGED <<copies, held, holds, flush, ring, confirmed, saved, told, dropped,
                     forgot>>
  BY DEF DeliverTurnFiles, heldVars, ringVars, lifeVars
<1>2. \A u \in Turns : /\ fin'[u] \in Sendings <=> fin[u] \in Sendings
                       /\ fin'[u] = "none" <=> fin[u] = "none"
                       /\ fin'[u] = "merging" <=> fin[u] = "merging"
  BY <1>1 DEF IInv, Typed, Phases, Sendings
<1>3. \A u \in Turns : InHand(u)' <=> InHand(u)
  BY <1>1, <1>2 DEF InHand
<1>4. Typed'
  BY <1>1 DEF IInv, Typed, Phases
<1>5. Numbered' /\ Queued' /\ Spent'
  BY <1>1 DEF IInv, Numbered, Queued, Spent, Oldest
<1>6. Known' /\ Landed' /\ NothingVanishes' /\ Single' /\ Once'
  BY <1>1, <1>2, <1>3 DEF IInv, Known, Landed, NothingVanishes, Single, Once
<1> QED BY <1>4, <1>5, <1>6 DEF IInv

(* A finish. *)

LEMMA TakeUpStep ==
  ASSUME IInv, NEW t \in Turns, TakeUp(t),
         fin[t] \in {"none", "done"}, fin[t] = "none" \/ t \notin ring,
         UNCHANGED <<copies, held, holds, flush, confirmed, saved, told, dropped, forgot>>
  PROVE  IInv'
<1>1. /\ fin' \in [Turns -> Phases] /\ fin'[t] \in {"sending", "merging"}
      /\ t \notin Merged => fin'[t] = "sending"
      /\ \A u \in Turns \ {t} : fin'[u] = fin[u]
      /\ ring' = ring \cup {t}
  BY DEF TakeUp, IInv, Typed, Phases, Sendings
<1>2. ~InHand(t)
  BY DEF IInv, Known, InHand, Sendings
<1>3. \A u \in Turns \ {t} : InHand(u)' <=> InHand(u)
  BY <1>1 DEF InHand
<1>4. InHand(t)'
  BY <1>1 DEF InHand, Sendings
<1>5. t \notin confirmed /\ (t \notin Merged \cup forgot => copies[t] = 0)
  BY DEF IInv, Typed, Landed, Once
<1>6. Typed'
  BY <1>1 DEF IInv, Typed
<1>7. Numbered' /\ Queued' /\ Spent'
  BY DEF IInv, Numbered, Queued, Spent, Oldest
<1>8. Known' /\ Landed' /\ NothingVanishes'
  BY <1>1, <1>3, <1>4, <1>5 DEF IInv, Known, Landed, NothingVanishes
<1>9. Single'
  BY <1>1, <1>2 DEF IInv, Single, InHand
<1>10. Once'
  BY <1>1, <1>3, <1>5 DEF IInv, Once
<1> QED BY <1>6, <1>7, <1>8, <1>9, <1>10 DEF IInv

LEMMA AnswerLandsStep ==
  ASSUME IInv, NEW t \in Turns, AnswerLands(t) PROVE IInv'
<1>1. /\ fin[t] \in Sendings /\ fin' = [fin EXCEPT ![t] = "answered"]
      /\ copies' = [copies EXCEPT ![t] = @ + 1] /\ confirmed' = confirmed \cup {t}
      /\ UNCHANGED <<held, holds, flush, ring, saved, told, dropped, forgot>>
  BY DEF AnswerLands, heldVars, lifeVars
<1>2. \A u \in Turns \ {t} : fin'[u] = fin[u] /\ copies'[u] = copies[u]
  BY <1>1 DEF IInv, Typed
<1>3. fin'[t] = "answered" /\ copies'[t] = copies[t] + 1 /\ copies[t] \in Nat
  BY <1>1 DEF IInv, Typed
<1>4. \A u \in Turns \ {t} : InHand(u)' <=> InHand(u)
  BY <1>1, <1>2 DEF InHand
<1>5. InHand(t) /\ (InHand(t)' => InHand(t)) /\ (t \notin Merged => ~InHand(t)')
  BY <1>1, <1>3 DEF IInv, Single, InHand, Sendings
<1>6. Typed'
  BY <1>1, <1>5 DEF IInv, Typed, Known, Phases
<1>7. Numbered' /\ Queued' /\ Spent'
  BY <1>1 DEF IInv, Numbered, Queued, Spent, Oldest
<1>8. Known' /\ Landed' /\ NothingVanishes'
  BY <1>1, <1>2, <1>3, <1>4, <1>5 DEF IInv, Known, Landed, NothingVanishes
<1>9. Single'
  BY <1>1, <1>2, <1>3 DEF IInv, Single, Sendings
<1>10. Once'
  BY <1>1, <1>2, <1>3, <1>4, <1>5 DEF IInv, Once
<1> QED BY <1>6, <1>7, <1>8, <1>9, <1>10 DEF IInv

LEMMA FallsBackStep ==
  ASSUME IInv, NEW t \in Turns, FallsBack(t) PROVE IInv'
<1>1. /\ fin[t] \in {"merging", "sending"}
      /\ fin' = [fin EXCEPT ![t] = IF @ = "merging" THEN "sending" ELSE "plain"]
      /\ UNCHANGED <<copies, held, holds, flush, ring, confirmed, saved, told, dropped,
                     forgot>>
  BY DEF FallsBack, heldVars, ringVars, lifeVars
<1>2. /\ fin' \in [Turns -> Phases] /\ fin'[t] \in Sendings \ {"merging"}
      /\ \A u \in Turns \ {t} : fin'[u] = fin[u]
  BY <1>1 DEF IInv, Typed, Phases, Sendings
<1>3. \A u \in Turns : InHand(u)' <=> InHand(u)
  BY <1>1, <1>2 DEF InHand, Sendings
<1>4. Typed' /\ Numbered' /\ Queued' /\ Spent'
  BY <1>1, <1>2 DEF IInv, Typed, Numbered, Queued, Spent, Oldest
<1>5. Known' /\ Landed' /\ NothingVanishes' /\ Once'
  BY <1>1, <1>2, <1>3 DEF IInv, Known, Landed, NothingVanishes, Once, Sendings
<1>6. Single'
  BY <1>1, <1>2 DEF IInv, Single, Sendings
<1> QED BY <1>4, <1>5, <1>6 DEF IInv

LEMMA AnswerLostStep ==
  ASSUME IInv, NEW t \in Turns, AnswerLost(t) PROVE IInv'
<1>1. /\ fin[t] \in {"plain", "sending"} /\ told' = told \cup {t}
      /\ fin' = [fin EXCEPT ![t] = "unanswered"]
      /\ UNCHANGED <<copies, held, holds, flush, ring, confirmed, saved, dropped, forgot>>
  BY DEF AnswerLost, heldVars, ringVars, lifeVars
<1>2. /\ fin' \in [Turns -> Phases] /\ fin'[t] = "unanswered"
      /\ \A u \in Turns \ {t} : fin'[u] = fin[u]
  BY <1>1 DEF IInv, Typed, Phases, Sendings
<1>3. /\ \A u \in Turns \ {t} : InHand(u)' <=> InHand(u)
      /\ InHand(t)
      /\ \A u \in Turns : InHand(u)' => InHand(u)
  BY <1>1, <1>2 DEF InHand, Sendings
<1>4. Typed' /\ Numbered' /\ Queued' /\ Spent'
  BY <1>1, <1>2 DEF IInv, Typed, Numbered, Queued, Spent, Oldest
<1>5. Known' /\ Landed' /\ NothingVanishes' /\ Once'
  BY <1>1, <1>2, <1>3 DEF IInv, Known, Landed, NothingVanishes, Once, Sendings
<1>6. Single'
  BY <1>1, <1>2 DEF IInv, Single, Sendings
<1> QED BY <1>4, <1>5, <1>6 DEF IInv

(* A step that brings nothing to the chat keeps what is said of the answers, *)
(* if it gives up only what it logs as lost.                                *)
LEMMA NothingLands ==
  ASSUME IInv,
         \A u \in Turns : fin'[u] = "none" <=> fin[u] = "none",
         UNCHANGED <<copies, ring, confirmed, dropped, forgot>>, told \subseteq told',
         \A u \in Turns : /\ InHand(u)' => InHand(u)
                          /\ InHand(u) => InHand(u)' \/ u \in told'
  PROVE  Known' /\ Landed' /\ NothingVanishes' /\ Once'
BY DEF IInv, Known, Landed, NothingVanishes, Once

(* What a hold does: the new entry is in, with a number of its own; the     *)
(* entries that went were logged as lost.                                   *)
LEMMA HoldFacts ==
  ASSUME IInv, NEW t \in Turns, NEW kind \in Kinds, Hold(t, kind)
  PROVE  \E new \in Record :
           /\ new.turn = t /\ new.kind = kind /\ new.no = holds + 1
           /\ holds' = holds + 1
           /\ new \in held' /\ held' \subseteq held \cup {new}
           /\ told \subseteq told'
           /\ \A e \in held : e \in held' \/ e.turn \in told'
<1>1. Entry(holds', t, kind) \in Record /\ holds' = holds + 1
  BY DEF Hold, IInv, Typed, Record, Entry
<1>2. /\ Entry(holds', t, kind).turn = t /\ Entry(holds', t, kind).kind = kind
      /\ Entry(holds', t, kind).no = holds'
  BY DEF Entry
<1>3. /\ Entry(holds', t, kind) \in held'
      /\ held' \subseteq held \cup {Entry(holds', t, kind)}
      /\ told \subseteq told'
      /\ \A e \in held : e \in held' \/ e.turn \in told'
  BY DEF Hold
<1> QED BY <1>1, <1>2, <1>3

LEMMA HoldStep ==
  ASSUME IInv, NEW t \in Turns, NEW kind \in Kinds, Hold(t, kind),
         \/ kind = "merged" /\ fin[t] = "merging" /\ fin' = [fin EXCEPT ![t] = "sending"]
         \/ kind = "answer" /\ fin[t] = "sending" /\ fin' = [fin EXCEPT ![t] = "unanswered"],
         UNCHANGED <<copies, flush, ring, confirmed, saved, dropped, forgot>>
  PROVE  IInv'
<1>1. PICK new \in Record :
        /\ new.turn = t /\ new.kind = kind /\ new.no = holds + 1
        /\ holds' = holds + 1
        /\ new \in held' /\ held' \subseteq held \cup {new}
        /\ told \subseteq told'
        /\ \A e \in held : e \in held' \/ e.turn \in told'
  BY HoldFacts
<1>3. /\ fin' \in [Turns -> Phases] /\ fin'[t] \in {"sending", "unanswered"}
      /\ kind = "answer" => fin'[t] = "unanswered"
      /\ \A u \in Turns \ {t} : fin'[u] = fin[u]
      /\ fin[t] \in Sendings
  BY DEF IInv, Typed, Phases, Sendings
<1>4. /\ \E e \in held' \cup flush'.queue : e.turn = t
      /\ \A u \in Turns \ {t} : fin'[u] \in Sendings <=> fin[u] \in Sendings
  BY <1>1, <1>3
<1>5. \A u \in Turns : /\ InHand(u)' => InHand(u)
                       /\ InHand(u) => InHand(u)' \/ u \in told'
  BY <1>1, <1>3, <1>4 DEF InHand
<1>6. \A e \in held \cup flush.queue : e.no <= holds /\ e.no \in Nat /\ holds \in Nat
  BY DEF IInv, Numbered, Typed, FlushType, Record
<1>7. Typed'
  BY <1>1, <1>3 DEF IInv, Typed
<1>8. Numbered'
  BY <1>1, <1>6 DEF IInv, Numbered
<1>9. Known' /\ Landed' /\ NothingVanishes' /\ Once'
  <2>1. \A u \in Turns : fin'[u] = "none" <=> fin[u] = "none"
    BY <1>3 DEF Sendings
  <2> QED BY <1>1, <1>5, <2>1, NothingLands
<1>10. Queued'
  <2> SUFFICES ASSUME NEW e \in flush.queue
               PROVE  \/ \E f \in held' : f.no = e.no
                      \/ e.turn \in told'
                      \/ flush.phase = "plain" /\ Oldest(e, flush.queue)
    BY DEF Queued, Oldest
  <2>1. CASE \E f \in held : f.no = e.no
    <3>1. PICK f \in held : f.no = e.no
      BY <2>1
    <3>2. f \in held' \/ f.turn \in told'
      BY <1>1
    <3>3. f.turn = e.turn
      BY <3>1 DEF IInv, Numbered
    <3> QED BY <3>1, <3>2, <3>3
  <2> QED BY <1>1, <2>1 DEF IInv, Queued
<1>11. Spent'
  BY <1>1, <1>6 DEF IInv, Spent, Oldest
<1>12. Single'
  <2>1. t \notin Merged => /\ kind = "answer"
                          /\ \A e \in held \cup flush.queue : e.turn # t
    BY <1>3 DEF IInv, Single
  <2> QED BY <1>1, <1>3, <2>1 DEF IInv, Single, Sendings
<1> QED BY <1>7, <1>8, <1>9, <1>10, <1>11, <1>12 DEF IInv

LEMMA HeldByFinish ==
  ASSUME IInv, NEW t \in Turns, MergeHeld(t) \/ AnswerHeld(t) PROVE IInv'
<1>1. CASE MergeHeld(t)
  BY <1>1, HoldStep DEF MergeHeld, ringVars, lifeVars, Kinds
<1>2. CASE AnswerHeld(t)
  BY <1>2, HoldStep DEF AnswerHeld, ringVars, lifeVars, Kinds
<1> QED BY <1>1, <1>2

(* The buffer and the flush. *)

LEMMA ExpireStep == ASSUME IInv, Expire PROVE IInv'
<1>1. PICK x \in held : /\ held' = held \ {x} /\ told' = told \cup {x.turn}
  BY DEF Expire
<1>2. /\ flush = NoFlush
      /\ UNCHANGED <<fin, copies, holds, flush, ring, confirmed, saved, dropped, forgot>>
  BY DEF Expire, ringVars, lifeVars
<1>3. \A u \in Turns : /\ InHand(u)' => InHand(u)
                       /\ InHand(u) => InHand(u)' \/ u \in told'
  BY <1>1, <1>2 DEF InHand
<1>4. Typed' /\ Numbered' /\ Queued' /\ Spent'
  BY <1>1, <1>2 DEF IInv, Typed, Numbered, Queued, Spent, NoFlush
<1>5. Known' /\ Landed' /\ NothingVanishes' /\ Once' /\ Single'
  BY <1>1, <1>2, <1>3 DEF IInv, Known, Landed, NothingVanishes, Once, Single
<1> QED BY <1>4, <1>5 DEF IInv

LEMMA StartFlushStep ==
  ASSUME IInv, NEW s \in Sessions, StartFlush(s) PROVE IInv'
<1>1. /\ flush = NoFlush
      /\ flush' = [sessions |-> {s}, queue |-> Of(s, held), phase |-> "rich"]
      /\ UNCHANGED <<fin, copies, held, holds, ring, confirmed, saved, told, dropped,
                     forgot>>
  BY DEF StartFlush, heldVars, ringVars, lifeVars
<1>2. flush'.queue \subseteq held /\ flush.queue = {} /\ flush' \in FlushType
  BY <1>1 DEF IInv, Typed, Of, NoFlush, FlushType
<1>3. \A u \in Turns : InHand(u)' <=> InHand(u)
  BY <1>1, <1>2 DEF InHand
<1>4. Typed' /\ Numbered' /\ Queued' /\ Spent'
  BY <1>1, <1>2 DEF IInv, Typed, Numbered, Queued, Spent
<1>5. Known' /\ Landed' /\ NothingVanishes' /\ Once' /\ Single'
  BY <1>1, <1>2, <1>3 DEF IInv, Known, Landed, NothingVanishes, Once, Single
<1> QED BY <1>4, <1>5 DEF IInv

LEMMA HeldRefusedStep == ASSUME IInv, HeldRefused PROVE IInv'
<1>1. /\ flush.phase = "rich" /\ flush' = NoFlush
      /\ UNCHANGED <<fin, copies, held, holds, ring, confirmed, saved, told, dropped,
                     forgot>>
  BY DEF HeldRefused, heldVars, ringVars, lifeVars
<1>2. flush'.queue = {} /\ flush' \in FlushType
  BY <1>1 DEF NoFlush, FlushType
<1>3. \A u \in Turns : InHand(u)' => InHand(u)
  BY <1>1, <1>2 DEF InHand
<1>4. \A u \in Turns : InHand(u) => InHand(u)' \/ u \in told
  BY <1>1 DEF InHand, IInv, Queued, Numbered
<1>5. Typed' /\ Numbered' /\ Queued' /\ Spent'
  BY <1>1, <1>2 DEF IInv, Typed, Numbered, Queued, Spent
<1>6. Known' /\ Landed' /\ NothingVanishes' /\ Once' /\ Single'
  BY <1>1, <1>2, <1>3, <1>4 DEF IInv, Known, Landed, NothingVanishes, Once, Single
<1> QED BY <1>5, <1>6 DEF IInv

(* The flush's current entry. *)
Current(s, e) ==
  s \in flush.sessions /\ e \in flush.queue /\ Oldest(e, flush.queue)

\* An entry that was sent, in one way or another, leaves the queue.
SentOn(e) ==
  /\ flush'.queue = flush.queue \ {e}
  /\ flush' \in FlushType
  /\ flush'.phase # "plain"

LEMMA ContinueFacts ==
  ASSUME IInv, NEW s, NEW e, Current(s, e),
         \/ flush' = [flush EXCEPT !.queue = @ \ {e}, !.phase = "rich"]
         \/ flush.queue = {e} /\ flush' = NoFlush
  PROVE  SentOn(e)
<1>1. CASE flush' = [flush EXCEPT !.queue = @ \ {e}, !.phase = "rich"]
  BY <1>1 DEF IInv, Typed, FlushType, SentOn
<1>2. CASE flush.queue = {e} /\ flush' = NoFlush
  <2>1. NoFlush \in FlushType /\ NoFlush.queue = {} /\ NoFlush.phase = "idle"
    BY DEF NoFlush, FlushType
  <2> QED BY <1>2, <2>1 DEF SentOn
<1> QED BY <1>1, <1>2

\* Entries of one turn, outside the merged layout, are one entry.
LEMMA OneEntry ==
  ASSUME IInv, NEW e \in flush.queue,
         e.turn \notin Merged
  PROVE  /\ e.turn \in Turns /\ fin[e.turn] \notin Sendings /\ e.kind = "answer"
         /\ \A f \in held : f.turn = e.turn => f.no = e.no
         /\ \A f \in flush.queue \ {e} : f.turn # e.turn
<1>1. e.turn \in Turns
  BY DEF IInv, Typed, FlushType, Record
<1> QED BY <1>1 DEF IInv, Single, Numbered

\* A landing: what is not of its turn stays as it is.
LEMMA LandingStep ==
  ASSUME IInv, NEW s, NEW e, Current(s, e), SentOn(e), ConfirmHeld(e),
         \/ held' = Without(e)
         \/ held' = held /\ flush.phase = "plain",
         copies' = [copies EXCEPT ![e.turn] = @ + 1],
         UNCHANGED <<fin, holds, ring, saved, told, dropped, forgot>>
  PROVE  IInv'
<1>1. /\ e \in flush.queue /\ e \in Record /\ e.turn \in Turns
      /\ flush'.queue = flush.queue \ {e} /\ flush' \in FlushType
  BY DEF Current, SentOn, IInv, Typed, FlushType, Record
<1>2. /\ held' \subseteq held
      /\ \A f \in held : f \in held' <=> f.no # e.no
  BY DEF Without, Current, IInv, Spent
<1>3. \A f \in held : f.no = e.no => f.turn = e.turn
  BY <1>1 DEF IInv, Numbered
<1>4. /\ \A u \in Turns \ {e.turn} : copies'[u] = copies[u] /\ (InHand(u)' <=> InHand(u))
      /\ \A u \in Turns : InHand(u)' => InHand(u)
  <2>1. \A u \in Turns \ {e.turn} : copies'[u] = copies[u]
    BY <1>1 DEF IInv, Typed
  <2> QED BY <1>1, <1>2, <1>3, <2>1 DEF InHand
<1>5. copies'[e.turn] = copies[e.turn] + 1 /\ copies[e.turn] \in Nat
  BY <1>1 DEF IInv, Typed
<1>6. InHand(e.turn)
  BY <1>1 DEF InHand
<1>7. /\ confirmed \subseteq confirmed' /\ confirmed' \subseteq confirmed \cup {e.turn}
      /\ e.kind = "answer" => e.turn \in confirmed'
  BY DEF ConfirmHeld
<1>8. Typed'
  BY <1>1, <1>2, <1>6, <1>7 DEF IInv, Typed, Known
<1>9. Numbered'
  BY <1>1, <1>2 DEF IInv, Numbered
<1>10. Known' /\ Landed' /\ NothingVanishes'
  <2>1. Known'
    BY <1>4 DEF IInv, Known
  <2>2. fin[e.turn] # "none"
    BY <1>1, <1>6 DEF IInv, Known
  <2>3. Landed'
    BY <1>1, <1>4, <1>5, <1>7, <2>2 DEF IInv, Landed
  <2>4. NothingVanishes'
    BY <1>1, <1>4, <1>5 DEF IInv, NothingVanishes
  <2> QED BY <2>1, <2>3, <2>4
<1>11. Queued'
  <2> SUFFICES ASSUME NEW f \in flush.queue \ {e}
               PROVE  (\E g \in held' : g.no = f.no) \/ f.turn \in told
    BY <1>1 DEF Queued
  <2>1. f.no # e.no
    BY <1>1 DEF IInv, Numbered
  <2>2. ~Oldest(f, flush.queue)
    BY <1>1, <2>1 DEF Current, Oldest, IInv, Typed, FlushType, Record
  <2> QED BY <1>2, <2>1, <2>2 DEF IInv, Queued
<1>12. Single'
  BY <1>1, <1>2 DEF IInv, Single
<1>13. Once'
  <2>1. e.turn \notin Merged => ~(fin[e.turn] \in Sendings)
                              /\ \A f \in held' \cup flush'.queue : f.turn # e.turn
    BY <1>1, <1>2, OneEntry
  <2>2. e.turn \notin Merged => e.kind = "answer"
    BY <1>1, OneEntry
  <2>3. e.turn \notin Merged \cup forgot => copies[e.turn] = 0
    BY <1>1, <1>6 DEF IInv, Once
  <2>4. SUFFICES ASSUME NEW u \in Turns \ (Merged \cup forgot)
                 PROVE  copies'[u] = 0 \/ (copies'[u] = 1 /\ ~InHand(u)' /\ u \in confirmed')
    BY DEF Once
  <2>5. CASE u = e.turn
    BY <1>5, <1>7, <2>1, <2>2, <2>3, <2>5 DEF InHand
  <2>6. CASE u # e.turn
    BY <1>4, <1>7, <2>6 DEF IInv, Once
  <2> QED BY <2>5, <2>6
<1>14. Spent'
  BY DEF SentOn, Spent
<1> QED BY <1>8, <1>9, <1>10, <1>11, <1>12, <1>13, <1>14 DEF IInv

\* An entry that landed, in rich or plain text.
LEMMA FlushLandsStep ==
  ASSUME IInv, NEW s, NEW e, Current(s, e), HeldLands(s, e) \/ HeldPlainLands(s, e)
  PROVE  IInv'
<1>1. CASE HeldLands(s, e)
  <2>1. SentOn(e)
    <3>1. \/ flush' = [flush EXCEPT !.queue = @ \ {e}, !.phase = "rich"]
          \/ flush.queue = {e} /\ flush' = NoFlush
      BY <1>1 DEF HeldLands, Continue
    <3> QED BY <3>1, ContinueFacts
  <2>2. /\ ConfirmHeld(e) /\ held' = Without(e)
        /\ copies' = [copies EXCEPT ![e.turn] = @ + 1]
        /\ UNCHANGED <<fin, holds, ring, saved, told, dropped, forgot>>
    BY <1>1 DEF HeldLands, lifeVars
  <2> QED BY <2>1, <2>2, LandingStep
<1>2. CASE HeldPlainLands(s, e)
  <2>1. SentOn(e)
    <3>1. \/ flush' = [flush EXCEPT !.queue = @ \ {e}, !.phase = "rich"]
          \/ flush.queue = {e} /\ flush' = NoFlush
      BY <1>2 DEF HeldPlainLands, Continue
    <3> QED BY <3>1, ContinueFacts
  <2>2. /\ ConfirmHeld(e) /\ held' = held /\ flush.phase = "plain"
        /\ copies' = [copies EXCEPT ![e.turn] = @ + 1]
        /\ UNCHANGED <<fin, holds, ring, saved, told, dropped, forgot>>
    BY <1>2 DEF HeldPlainLands, heldVars, lifeVars
  <2> QED BY <2>1, <2>2, LandingStep
<1> QED BY <1>1, <1>2

\* A failure of a rich send counts an attempt of the entry, if it is held still.
LEMMA HeldFailsStep ==
  ASSUME IInv, NEW s, NEW e, Current(s, e), HeldFails(s, e) PROVE IInv'
<1> DEFINE counted(f) == IF f.no = e.no THEN [f EXCEPT !.attempts = @ + 1] ELSE f
<1>1. SentOn(e)
  <2>1. \/ flush' = [flush EXCEPT !.queue = @ \ {e}, !.phase = "rich"]
        \/ flush.queue = {e} /\ flush' = NoFlush
    BY DEF HeldFails, Continue
  <2> QED BY <2>1, ContinueFacts
<1>2. /\ held' = {counted(f) : f \in held} /\ flush.phase = "rich"
      /\ UNCHANGED <<fin, copies, holds, ring, confirmed, saved, told, dropped, forgot>>
  BY DEF HeldFails, ringVars, lifeVars
<1>3. \A f \in held : /\ counted(f) \in Record /\ counted(f).no = f.no
                      /\ counted(f).turn = f.turn /\ counted(f).kind = f.kind
  BY DEF IInv, Typed, Record
<1> HIDE DEF counted
<1>4. /\ e \in flush.queue /\ flush'.queue = flush.queue \ {e} /\ flush' \in FlushType
      /\ flush'.phase # "plain"
  BY <1>1 DEF Current, SentOn
<1>5. \A u \in Turns : /\ InHand(u)' => InHand(u)
                       /\ InHand(u) => InHand(u)' \/ u \in told'
  <2>1. \A u \in Turns : InHand(u)' => InHand(u)
    BY <1>2, <1>3, <1>4 DEF InHand
  <2>2. ASSUME NEW u \in Turns, InHand(u) PROVE InHand(u)' \/ u \in told'
    <3>1. CASE fin[u] \in Sendings \/ \E f \in held : f.turn = u
      BY <1>2, <1>3, <3>1 DEF InHand
    <3>2. CASE \E f \in flush.queue : f.turn = u
      BY <1>2, <1>3, <3>2 DEF InHand, IInv, Queued, Numbered
    <3> QED BY <2>2, <3>1, <3>2 DEF InHand
  <2> QED BY <2>1, <2>2
<1>6. Typed' /\ Numbered'
  BY <1>2, <1>3, <1>4 DEF IInv, Typed, Numbered
<1>7. Known' /\ Landed' /\ NothingVanishes' /\ Once'
  BY <1>2, <1>5, NothingLands
<1>8. Queued' /\ Spent'
  BY <1>2, <1>3, <1>4 DEF IInv, Queued, Spent
<1>9. Single'
  BY <1>2, <1>3, <1>4 DEF IInv, Single
<1> QED BY <1>6, <1>7, <1>8, <1>9 DEF IInv

\* The last attempt: the entry leaves the buffer and stays in the queue.
LEMMA HeldGivenUpStep ==
  ASSUME IInv, NEW s, NEW e, Current(s, e), HeldGivenUp(s, e) PROVE IInv'
<1>1. /\ held' = Without(e) /\ flush' = [flush EXCEPT !.phase = "plain"]
      /\ flush.phase = "rich"
      /\ UNCHANGED <<fin, copies, holds, ring, confirmed, saved, told, dropped, forgot>>
  BY DEF HeldGivenUp, ringVars, lifeVars
<1>2. /\ flush' \in FlushType /\ flush'.queue = flush.queue /\ flush'.phase = "plain"
      /\ e \in flush.queue /\ Oldest(e, flush.queue)
      /\ held' \subseteq held /\ \A f \in held : f \in held' <=> f.no # e.no
  BY <1>1 DEF IInv, Typed, FlushType, Current, Without
<1>3. \A f \in flush.queue : Oldest(f, flush.queue) => f = e
  BY <1>2 DEF Oldest, IInv, Numbered, Typed, FlushType, Record
<1>4. \A u \in Turns : InHand(u)' <=> InHand(u)
  BY <1>1, <1>2 DEF InHand, IInv, Numbered
<1>5. Typed' /\ Numbered' /\ Spent'
  BY <1>1, <1>2, <1>3 DEF IInv, Typed, Numbered, Spent
<1>6. Queued'
  <2> SUFFICES ASSUME NEW f \in flush.queue
               PROVE  (\E g \in held' : g.no = f.no) \/ f.turn \in told \/ f = e
    BY <1>1, <1>2 DEF Queued
  <2>1. f # e => f.no # e.no
    BY <1>2 DEF IInv, Numbered
  <2> QED BY <1>1, <1>2, <2>1 DEF IInv, Queued
<1>7. Known' /\ Landed' /\ NothingVanishes' /\ Once'
  BY <1>1, <1>4, NothingLands
<1>8. Single'
  BY <1>1, <1>2 DEF IInv, Single
<1> QED BY <1>5, <1>6, <1>7, <1>8 DEF IInv

LEMMA HeldPlainFailsStep ==
  ASSUME IInv, NEW s, NEW e, Current(s, e), HeldPlainFails(s, e) PROVE IInv'
<1>1. SentOn(e)
  <2>1. \/ flush' = [flush EXCEPT !.queue = @ \ {e}, !.phase = "rich"]
        \/ flush.queue = {e} /\ flush' = NoFlush
    BY DEF HeldPlainFails, Continue
  <2> QED BY <2>1, ContinueFacts
<1>2. /\ told' = told \cup {e.turn}
      /\ UNCHANGED <<fin, copies, held, holds, ring, confirmed, saved, dropped, forgot>>
  BY DEF HeldPlainFails, heldVars, ringVars, lifeVars
<1>3. /\ e \in flush.queue /\ Oldest(e, flush.queue)
      /\ flush'.queue = flush.queue \ {e} /\ flush' \in FlushType
      /\ flush'.phase # "plain"
  BY <1>1 DEF Current, SentOn
<1>4. \A f \in flush.queue : Oldest(f, flush.queue) => f = e
  BY <1>3 DEF Oldest, IInv, Numbered, Typed, FlushType, Record
<1>5. \A u \in Turns : /\ InHand(u)' => InHand(u)
                       /\ InHand(u) => InHand(u)' \/ u \in told'
  BY <1>2, <1>3 DEF InHand
<1>6. Typed' /\ Numbered' /\ Spent'
  BY <1>2, <1>3 DEF IInv, Typed, Numbered, Spent
<1>7. Queued'
  BY <1>2, <1>3, <1>4 DEF IInv, Queued
<1>8. Known' /\ Landed' /\ NothingVanishes' /\ Once'
  BY <1>2, <1>5, NothingLands
<1>9. Single'
  BY <1>2, <1>3 DEF IInv, Single
<1> QED BY <1>6, <1>7, <1>8, <1>9 DEF IInv

(* The next daemon. *)
LEMMA RestartStep == ASSUME IInv, Restart PROVE IInv'
<1>1. PICK file \in {confirmed, saved}, landed \in SUBSET Turns :
        /\ ring' = file /\ confirmed' = file /\ saved' = file
        /\ landed \subseteq Out
        /\ copies' = [t \in Turns |-> copies[t] + IF t \in landed THEN 1 ELSE 0]
        /\ forgot' = forgot \cup landed \cup (confirmed \ file)
        /\ dropped' = dropped \cup {t \in Turns : InHand(t)}
  <2>1. Out \subseteq Turns
    BY DEF Out, IInv, Typed, FlushType, Record
  <2>2. PICK file \in {confirmed} \cup (IF "crash" \in Faults THEN {saved} ELSE {}),
             landed \in {{}} \cup (IF muted THEN {} ELSE {{t} : t \in Out}) :
          /\ ring' = file /\ confirmed' = file /\ saved' = file
          /\ copies' = [t \in Turns |-> copies[t] + IF t \in landed THEN 1 ELSE 0]
          /\ forgot' = forgot \cup landed \cup (confirmed \ file)
          /\ dropped' = dropped \cup {t \in Turns : InHand(t)}
    BY DEF Restart
  <2>3. file \in {confirmed, saved} /\ landed \subseteq Out
    OBVIOUS
  <2>4. landed \in SUBSET Turns
    BY <2>1, <2>3
  <2> QED BY <2>2, <2>3, <2>4
<1>2. /\ fin' = [t \in Turns |-> IF fin[t] = "none" THEN "none" ELSE "done"]
      /\ held' = {} /\ holds' = 0 /\ flush' = NoFlush /\ told' = told
  BY DEF Restart
<1>3. /\ flush' \in FlushType /\ flush'.queue = {} /\ flush'.phase # "plain"
  BY <1>2 DEF NoFlush, FlushType
<1>4. \A u \in Turns : ~InHand(u)'
  BY <1>2, <1>3 DEF InHand, Sendings
<1>5. \A u \in landed : fin[u] # "none"
  <2>1. \A u \in Out : u \in Turns => InHand(u)
    BY DEF Out, InHand
  <2> QED BY <1>1, <2>1 DEF IInv, Known
<1>6. file \subseteq Turns /\ file \subseteq confirmed
  BY <1>1 DEF IInv, Typed
<1>7. Typed' /\ Numbered' /\ Queued' /\ Spent' /\ Known' /\ Single'
  <2>1. Typed'
    BY <1>1, <1>2, <1>3, <1>6 DEF IInv, Typed, Phases
  <2>2. Numbered' /\ Queued' /\ Spent' /\ Known'
    BY <1>2, <1>3, <1>4 DEF Numbered, Queued, Spent, Known
  <2>3. Single'
    BY <1>2, <1>3 DEF Single, Sendings
  <2> QED BY <2>1, <2>2, <2>3
<1>8. Landed' /\ NothingVanishes'
  BY <1>1, <1>2, <1>5, <1>6 DEF IInv, Typed, Landed, NothingVanishes
<1>9. Once'
  BY <1>1, <1>2, <1>4, <1>6 DEF IInv, Typed, Once
<1> QED BY <1>7, <1>8, <1>9 DEF IInv

-----------------------------------------------------------------------------
LEMMA NextIInv == ASSUME IInv, [Next]_vars PROVE IInv'
<1>1. CASE UNCHANGED vars
  BY <1>1, QuietStep DEF vars, Places, heldVars, ringVars, lifeVars
<1>2. CASE MuteStarts \/ MuteLifts \/ \E s \in Sessions : FlushFiles(s) \/ Deliver(s)
  BY <1>2, QuietStep, QuietActions
<1>3. CASE Expire \/ Save \/ Restart
  BY <1>3, ExpireStep, SaveStep, RestartStep
<1>4. CASE Flush
  <2>1. CASE HeldRefused
    BY <2>1, HeldRefusedStep
  <2>2. ASSUME NEW s \in flush.sessions, NEW e \in flush.queue, Oldest(e, flush.queue),
               \/ HeldLands(s, e) \/ HeldFails(s, e) \/ HeldGivenUp(s, e)
               \/ HeldPlainLands(s, e) \/ HeldPlainFails(s, e)
        PROVE  IInv'
    BY <2>2, FlushLandsStep, HeldFailsStep, HeldGivenUpStep, HeldPlainFailsStep DEF Current
  <2> QED BY <1>4, <2>1, <2>2 DEF Flush
<1>5. ASSUME NEW t \in Turns, EndTurn(t) \/ IdleAgain(t) PROVE IInv'
  <2>1. TakeUp(t) /\ fin[t] \in {"none", "done"} /\ (fin[t] = "none" \/ t \notin ring)
    BY <1>5 DEF EndTurn, IdleAgain
  <2>2. UNCHANGED <<copies, held, holds, flush, confirmed, saved, told, dropped, forgot>>
    BY <1>5 DEF EndTurn, IdleAgain, heldVars, lifeVars
  <2> QED BY <2>1, <2>2, TakeUpStep
<1>6. ASSUME NEW t \in Turns, Finish(t) PROVE IInv'
  BY <1>6, AnswerLandsStep, HeldByFinish, FallsBackStep, AnswerLostStep,
     DeliverTurnFilesStep DEF Finish
<1>7. ASSUME NEW s \in Sessions, StartFlush(s) PROVE IInv'
  BY <1>7, StartFlushStep
<1> QED BY <1>1, <1>2, <1>3, <1>4, <1>5, <1>6, <1>7 DEF Next

THEOREM Invariance == Spec => []IInv
BY InitIInv, NextIInv, PTL DEF Spec

\* No answer is lost in silence: each one whose turn ended is on its way, in the
\* chat, logged as lost, or went with a restart.
THEOREM AnswersDoNotVanish == Spec => []NothingVanishes
<1>1. IInv => NothingVanishes
  BY DEF IInv
<1> QED BY <1>1, Invariance, PTL

\* No answer comes twice, but in the merged layout or when a restart kept its
\* landing off the state file.
THEOREM AnswersComeOnce == Spec => []AnswerOnce
<1>1. IInv => AnswerOnce
  BY DEF IInv, Typed, Once, AnswerOnce
<1> QED BY <1>1, Invariance, PTL

-----------------------------------------------------------------------------
(***************************************************************************)
(* The files, and the types.  A second invariant, on top of the first,     *)
(* says where each session's files wait.  The finishes of a session come   *)
(* one after the other, so its entries are numbered as their turns end;    *)
(* a flush takes them oldest first, so an older entry that is left behind  *)
(* has failed more often than a younger one that still waits.  Whence what *)
(* the key a finish reads can be: the number of its own turn's entry, or   *)
(* of an older one that was refused for another reason than a mute.        *)
(***************************************************************************)

Limits ==
  /\ muted \in BOOLEAN /\ mutes \in 0 .. MaxMutes /\ restarts \in 0 .. MaxRestarts
  /\ IsFiniteSet(held) /\ Cardinality(held) <= Cap
  /\ held \cup flush.queue \subseteq HeldEntry
  /\ \A r, s \in flush.sessions : r = s
  /\ keyBefore \in [Turns -> 0 .. holds]
  /\ told \cup dropped \cup forgot \subseteq Turns
  /\ batches \cup sentFiles \subseteq FileTurns

Running(t) == fin[t] \notin {"none", "done"}

\* A session's turns end one after the other, and this daemon refuses the
\* answer of one it has taken up.
InTurn ==
  /\ \A t, u \in Turns : u < t /\ Owner[u] = Owner[t] /\ fin[t] # "none" => fin[u] = "done"
  /\ \A t \in Turns : Running(t) => t \in ring

\* The flush has the entries as the buffer has them.
SameEntries == \A e \in held, f \in flush.queue : e.no = f.no => e = f

\* Of one session's entries the older one is of no later turn, and has failed
\* no less often...
ByAge ==
  \A e, f \in held : e.no < f.no /\ Owner[e.turn] = Owner[f.turn]
                       => e.turn <= f.turn /\ f.attempts <= e.attempts

\* ...and more often, when this flush has left it behind.
LeftBehind ==
  \A e \in held, f \in flush.queue :
    e.no < f.no /\ Owner[e.turn] = Owner[f.turn]
      => f.attempts <= e.attempts /\ (e \in flush.queue \/ f.attempts < e.attempts)

\* What the buffer has of the session of a running finish: entries of its own,
\* younger than the newest of when it began, and older ones, of which that
\* newest one goes last, unless they failed.
KeyKept ==
  \A t \in Turns : Running(t) =>
    \A e \in held : Owner[e.turn] = Owner[t] =>
      /\ e.turn = t => keyBefore[t] < e.no
      /\ e.turn # t => \/ e.attempts > 0
                       \/ e.no <= keyBefore[t] /\ keyBefore[t] \in Numbers(Of(Owner[t], held))

\* The turns whose finish is over, and whose answer is refused from now on.
Over == {t \in Turns : fin[t] = "done" /\ t \in ring}

\* The files session s may have waiting, when the buffer holds entries (of
\* numbers up to n), the flush has queue in hand, sent says which answers are in
\* the chat, and over which finishes are over.
Fitting(s, entries, queue, n, sent, over) ==
  {p \in Item :
     /\ p.turn \in FileTurns \cap over /\ Owner[p.turn] = s /\ p.key <= n
     /\ p.anchor # Prompt => Owner[p.anchor] = s /\ p.anchor <= p.turn
     /\ \A e \in entries \cup queue : e.no = p.key => Owner[e.turn] = s /\ e.turn <= p.turn
     /\ \A e \in entries : e.no = p.key /\ e.turn < p.turn => e.attempts > 0
     /\ sent[p.turn] = 0 => \A e \in entries : e.turn = p.turn
                              => e.no <= p.key /\ p.key \in Numbers(entries)}

\* The tasks of a session whose files may be those of F.
Jobs(F) ==
  {j \in [kind : {"own", "due"}, items : Seq(F) \ {<<>>}] :
     IF j.kind = "own" THEN Len(j.items) = 1
     ELSE \A i \in DOMAIN j.items : j.items[i].key = NoKey}

FilesKnown ==
  /\ pend \in [Sessions -> Seq(Item)] /\ chain \in [Sessions -> Seq(Jobs(Item))]
  /\ \A s \in Sessions :
       /\ pend[s] \in Seq(Fitting(s, held, flush.queue, holds, copies, Over))
       /\ chain[s] \in Seq(Jobs(Fitting(s, held, flush.queue, holds, copies, Over)))

FInv == /\ Limits /\ InTurn /\ SameEntries /\ ByAge /\ LeftBehind /\ KeyKept
        /\ FilesKnown


\* A finite, non-empty set of naturals has a greatest element.
LEMMA MaxOfFinite ==
  ASSUME NEW S \in SUBSET Nat, IsFiniteSet(S), S # {}
  PROVE  Max(S) \in S /\ \A n \in S : n <= Max(S)
<1> DEFINE Bad == {T \in FiniteSubsetsOf(Nat) :
                    T # {} /\ ~ \E m \in T : \A n \in T : n <= m}
<1>1. Bad = {}
  <2> SUFFICES ASSUME Bad # {} PROVE FALSE
    OBVIOUS
  <2>1. IsWellFoundedOn(StrictSubsetOrdering(Nat), FiniteSubsetsOf(Nat))
    BY FS_StrictSubsetOrderingWellFounded
  <2>2. Bad \subseteq FiniteSubsetsOf(Nat)
    OBVIOUS
  <2> HIDE DEF Bad
  <2>3. PICK T \in Bad : \A U \in Bad : <<U, T>> \notin StrictSubsetOrdering(Nat)
    BY <2>1, <2>2, WFMin
  <2>4. T \in SUBSET Nat /\ IsFiniteSet(T) /\ T # {}
    BY DEF Bad, FiniteSubsetsOf
  <2>5. PICK x \in T : TRUE
    BY <2>4
  <2>6. T \ {x} \in SUBSET Nat /\ IsFiniteSet(T \ {x})
    BY <2>4, FS_RemoveElement
  <2>7. T \ {x} \notin Bad
    BY <2>3, <2>4, <2>5, <2>6 DEF StrictSubsetOrdering
  <2>8. CASE T \ {x} = {}
    <3>1. \A n \in T : n <= x
      BY <2>4, <2>5, <2>8
    <3> QED BY <2>5, <3>1 DEF Bad
  <2>9. CASE T \ {x} # {}
    <3>1. PICK m \in T \ {x} : \A n \in T \ {x} : n <= m
      BY <2>6, <2>7, <2>9 DEF Bad, FiniteSubsetsOf
    <3>2. CASE m <= x
      <4>1. \A n \in T : n <= x
        BY <2>4, <2>5, <3>1, <3>2
      <4> QED BY <2>5, <4>1 DEF Bad
    <3>3. CASE x <= m
      <4>1. \A n \in T : n <= m
        BY <2>4, <2>5, <3>1, <3>3
      <4> QED BY <3>1, <4>1 DEF Bad
    <3> QED BY <2>4, <2>5, <3>1, <3>2, <3>3
  <2> QED BY <2>8, <2>9
<1>2. S \in FiniteSubsetsOf(Nat)
  BY DEF FiniteSubsetsOf
<1>3. \E m \in S : \A n \in S : m >= n
  BY <1>1, <1>2
<1> QED BY <1>3 DEF Max

(* What is done to lists of files. *)

LEMMA SeqOfMore == ASSUME NEW F, NEW G, F \subseteq G PROVE Seq(F) \subseteq Seq(G)
OBVIOUS

LEMMA JobsOfMore == ASSUME NEW F, NEW G, F \subseteq G PROVE Jobs(F) \subseteq Jobs(G)
BY SeqOfMore DEF Jobs

\* A delivery that waits no more.
Freed(p, a) == [p EXCEPT !.key = NoKey, !.anchor = a]

LEMMA ResolvedIn ==
  ASSUME NEW F, NEW G, F \subseteq G, NEW items \in Seq(F), NEW k, NEW a,
         \A p \in F : p.key = k /\ k # NoKey => Freed(p, a) \in G
  PROVE  Resolved(items, k, a) \in Seq(G)
<1>0. Resolved(items, k, a) =
        [i \in DOMAIN items |->
           IF items[i].key = k /\ k # NoKey THEN Freed(items[i], a) ELSE items[i]]
  BY DEF Resolved, Freed
<1>1. DOMAIN items = 1 .. Len(items) /\ Len(items) \in Nat /\ \A i \in 1 .. Len(items) : items[i] \in F
  OBVIOUS
<1>2. \A i \in 1 .. Len(items) :
        (IF items[i].key = k /\ k # NoKey THEN Freed(items[i], a) ELSE items[i]) \in G
  BY <1>1
<1> QED BY <1>0, <1>1, <1>2, IsASeq

\* An initial part of a sequence has as many members as its last place says.
LEMMA InitialPart ==
  ASSUME NEW n \in Nat, NEW P \in SUBSET (1 .. n),
         \A i, j \in 1 .. n : i \in P /\ j <= i => j \in P
  PROVE  Cardinality(P) \in 0 .. n /\ P = 1 .. Cardinality(P)
<1>1. IsFiniteSet(P)
  <2>1. 1 \in Int /\ n \in Int
    OBVIOUS
  <2>2. IsFiniteSet(1 .. n)
    BY <2>1, FS_Interval
  <2> QED BY <2>2, FS_Subset
<1>2. CASE P = {}
  BY <1>2, FS_EmptySet
<1>3. CASE P # {}
  <2> DEFINE m == Max(P)
  <2>1. m \in P /\ \A i \in P : i <= m
    <3>1. P \in SUBSET Nat
      OBVIOUS
    <3> QED BY <1>1, <1>3, <3>1, MaxOfFinite
  <2> HIDE DEF m
  <2>2. m \in 1 .. n
    BY <2>1
  <2>3. P = 1 .. m
    <3>1. \A i \in 1 .. n : i \in P <=> i <= m
      BY <2>1, <2>2
    <3>2. \A i \in 1 .. m : i \in 1 .. n /\ i <= m
      BY <2>2
    <3>3. 1 .. m \subseteq P
      BY <3>1, <3>2
    <3>4. \A i \in P : i \in 1 .. n
      OBVIOUS
    <3>5. \A i \in P : i \in 1 .. m
      BY <2>1, <3>4
    <3> QED BY <3>3, <3>5
  <2>4. 1 \in Int /\ m \in Int
    BY <2>2
  <2>5. Cardinality(1 .. m) = IF 1 > m THEN 0 ELSE m - 1 + 1
    BY <2>4, FS_Interval
  <2>6. Cardinality(1 .. m) = m
    BY <2>2, <2>5
  <2> QED BY <2>2, <2>3, <2>6
<1> QED BY <1>2, <1>3

LEMMA FlushedIn ==
  ASSUME NEW F, NEW items \in Seq(F), NEW keys, NEW stopped \in BOOLEAN,
         \A p \in F : p.key \notin keys \cup {NoKey}
                        => Freed(p, Prompt) \in F
  PROVE  /\ FilesFlushed(items, keys, stopped).pend \in Seq(F)
         /\ FilesFlushed(items, keys, stopped).jobs \in Seq(Jobs(F))
<1> DEFINE known == [i \in DOMAIN items |->
                       IF items[i].key \in keys \cup {NoKey} THEN items[i]
                         ELSE Freed(items[i], Prompt)]
           due == {i \in DOMAIN known : \A j \in 1 .. i : known[j].key = NoKey}
           n == Cardinality(due)
           first == SubSeq(known, 1, n)
           rest == SubSeq(known, n + 1, Len(known))
<1>0. FilesFlushed(items, keys, stopped) =
        IF stopped THEN [pend |-> items, jobs |-> <<>>]
        ELSE [pend |-> rest, jobs |-> IF n = 0 THEN <<>> ELSE <<[kind |-> "due", items |-> first]>>]
  BY DEF FilesFlushed, Freed
<1>1. DOMAIN items = 1 .. Len(items) /\ Len(items) \in Nat /\ \A i \in 1 .. Len(items) : items[i] \in F
  OBVIOUS
<1>2. known \in Seq(F) /\ DOMAIN known = 1 .. Len(items)
  <2>1. \A i \in 1 .. Len(items) :
          (IF items[i].key \in keys \cup {NoKey} THEN items[i]
             ELSE Freed(items[i], Prompt)) \in F
    BY <1>1
  <2> QED BY <1>1, <2>1, IsASeq
<1> HIDE DEF known
<1>3. Len(known) = Len(items) /\ \A i \in 1 .. Len(items) : known[i] \in F
  BY <1>1, <1>2
<1>4. n \in 0 .. Len(items) /\ due = 1 .. n
  <2>1. /\ due \in SUBSET (1 .. Len(items))
         /\ \A i, j \in 1 .. Len(items) : i \in due /\ j <= i => j \in due
    BY <1>1, <1>2
  <2> HIDE DEF due
  <2> QED BY <1>1, <2>1, InitialPart
<1>5. \A i \in 1 .. n : known[i].key = NoKey
  BY <1>4
<1> HIDE DEF due, n
<1>6. rest \in Seq(F)
  BY <1>1, <1>3, <1>4, SubSeqProperties
<1>7. /\ first \in Seq(F) /\ Len(first) = n
      /\ \A i \in 1 .. n : first[i] = known[i]
  <2>1. \A i \in 1 .. n : known[i] \in F
    BY <1>1, <1>3, <1>4
  <2>2. /\ first \in Seq(F) /\ Len(first) = IF 1 <= n THEN n - 1 + 1 ELSE 0
        /\ \A i \in 1 .. n - 1 + 1 : first[i] = known[1 + i - 1]
    BY <1>1, <1>4, <2>1, SubSeqProperties
  <2> HIDE DEF first
  <2>3. Len(first) = n
    BY <1>1, <1>4, <2>2
  <2>4. \A i \in 1 .. n : i \in 1 .. n - 1 + 1 /\ 1 + i - 1 = i
    BY <1>1, <1>4
  <2> QED BY <2>2, <2>3, <2>4
<1> HIDE DEF first, rest
<1>8. ASSUME n # 0 PROVE [kind |-> "due", items |-> first] \in Jobs(F)
  <2>1. first # <<>> /\ DOMAIN first = 1 .. n
    BY <1>1, <1>4, <1>7, <1>8
  <2>2. \A i \in DOMAIN first : first[i].key = NoKey
    BY <1>5, <1>7, <2>1
  <2> QED BY <1>7, <2>1, <2>2 DEF Jobs
<1>9. (IF n = 0 THEN <<>> ELSE <<[kind |-> "due", items |-> first]>>) \in Seq(Jobs(F))
  BY <1>8
<1> QED BY <1>0, <1>6, <1>9

(* The newest entry of a session. *)

LEMMA EntryFacts ==
  ASSUME IInv, Limits, NEW e \in held \cup flush.queue
  PROVE  /\ e \in HeldEntry /\ e.no \in Nat \ {0} /\ e.no <= holds /\ holds \in Nat
         /\ e.turn \in Turns /\ e.turn \in Nat \ {0} /\ Owner[e.turn] \in Sessions
         /\ e.attempts \in 0 .. MaxAttempts - 1 /\ e.attempts \in Nat
         /\ fin[e.turn] # "none"
<1>1. e \in HeldEntry
  BY DEF Limits
<1>2. e.no \in Nat \ {0} /\ e.turn \in Turns /\ e.attempts \in 0 .. MaxAttempts - 1
  BY <1>1 DEF HeldEntry
<1>3. e.no <= holds /\ holds \in Nat
  BY DEF IInv, Numbered, Typed
<1>4. e.turn \in Nat \ {0} /\ Owner[e.turn] \in Sessions
  BY <1>2, TurnsAssumption, OwnerAssumption
<1>5. fin[e.turn] # "none"
  BY <1>2 DEF IInv, Known, InHand
<1>6. e.attempts \in Nat
  BY <1>2, BoundsAssumption
<1> QED BY <1>1, <1>2, <1>3, <1>4, <1>5, <1>6

LEMMA NewestFacts ==
  ASSUME IInv, Limits, NEW s
  PROVE  /\ NewestKey(s) \in 0 .. holds
         /\ \A e \in held : Owner[e.turn] = s => e.no <= NewestKey(s)
         /\ NewestKey(s) # NoKey => \E e \in held : Owner[e.turn] = s /\ e.no = NewestKey(s)
<1> DEFINE N == Numbers(Of(s, held))
<1>1. /\ holds \in Nat /\ \A e \in held : e.no \in 1 .. holds
      /\ N = {e.no : e \in Of(s, held)} /\ Of(s, held) = {e \in held : Owner[e.turn] = s}
  BY EntryFacts DEF IInv, Typed, Numbers, Of
<1>2. CASE Of(s, held) = {}
  BY <1>1, <1>2 DEF NewestKey, NoKey
<1>3. CASE Of(s, held) # {}
  <2>1. N \in SUBSET (1 .. holds) /\ N # {}
    BY <1>1, <1>3
  <2> HIDE DEF N
  <2>2. IsFiniteSet(N) /\ N \in SUBSET Nat
    <3>1. 1 \in Int /\ holds \in Int
      BY <1>1
    <3>2. IsFiniteSet(1 .. holds)
      BY <3>1, FS_Interval
    <3>3. IsFiniteSet(N)
      BY <2>1, <3>2, FS_Subset
    <3> QED BY <2>1, <3>3
  <2>3. Max(N) \in N /\ \A n \in N : n <= Max(N)
    BY <2>1, <2>2, MaxOfFinite
  <2>4. NewestKey(s) = Max(N)
    BY <1>3 DEF NewestKey, N
  <2>5. NewestKey(s) \in 0 .. holds
    BY <2>1, <2>3, <2>4, <1>1
  <2>6. \A e \in held : Owner[e.turn] = s => e.no \in N
    BY <1>1 DEF N
  <2>7. \E e \in held : Owner[e.turn] = s /\ e.no = Max(N)
    BY <1>1, <2>3 DEF N
  <2> QED BY <2>3, <2>4, <2>5, <2>6, <2>7
<1> QED BY <1>2, <1>3

(* What may wait of a session's files, from one step to the next. *)

\* What may be said of a session's files still may, when the entries are those
\* there were (or new ones, of turns whose finish is not over), and an entry that
\* went leaves no older one of its turn, unless the answer landed.
LEMMA FittingKept ==
  ASSUME NEW s, NEW entries, NEW queue, NEW n \in Nat, NEW sent, NEW over,
         NEW entries2, NEW queue2, NEW n2 \in Nat, NEW sent2, NEW over2,
         n <= n2, over \subseteq over2,
         \A t \in over : sent2[t] = 0 => sent[t] = 0,
         \A e \in entries2 \cup queue2 :
           e.no > n \/ \E f \in entries \cup queue : f.no = e.no /\ f.turn = e.turn,
         \A e \in entries2 :
           \/ e.no > n /\ e.turn \notin over
           \/ \E f \in entries : /\ f.no = e.no /\ f.turn = e.turn
                                 /\ f.attempts > 0 => e.attempts > 0,
         \A k, f \in entries :
           /\ f.no <= k.no /\ Owner[k.turn] = Owner[f.turn] /\ k.turn <= f.turn
           /\ f.no \in Numbers(entries2) /\ k.no \notin Numbers(entries2)
           => sent2[f.turn] # 0
  PROVE  Fitting(s, entries, queue, n, sent, over)
           \subseteq Fitting(s, entries2, queue2, n2, sent2, over2)
<1> SUFFICES ASSUME NEW p \in Fitting(s, entries, queue, n, sent, over)
             PROVE  p \in Fitting(s, entries2, queue2, n2, sent2, over2)
  OBVIOUS
<1>1. /\ p \in Item /\ p.turn \in FileTurns \cap over /\ Owner[p.turn] = s /\ p.key <= n
      /\ p.anchor # Prompt => Owner[p.anchor] = s /\ p.anchor <= p.turn
      /\ \A e \in entries \cup queue : e.no = p.key => Owner[e.turn] = s /\ e.turn <= p.turn
      /\ \A e \in entries : e.no = p.key /\ e.turn < p.turn => e.attempts > 0
      /\ sent[p.turn] = 0 => \A e \in entries : e.turn = p.turn
                               => e.no <= p.key /\ p.key \in Numbers(entries)
  BY DEF Fitting
<1>2. p.key \in Nat /\ p.key <= n2 /\ p.turn \in FileTurns \cap over2 /\ ~(p.key > n)
  BY <1>1 DEF Item
<1>3. \A e \in entries2 \cup queue2 : e.no = p.key => Owner[e.turn] = s /\ e.turn <= p.turn
  BY <1>1, <1>2
<1>4. \A e \in entries2 : e.no = p.key /\ e.turn < p.turn => e.attempts > 0
  BY <1>1, <1>2
<1>5. ASSUME sent2[p.turn] = 0, NEW e \in entries2, e.turn = p.turn
      PROVE  e.no <= p.key /\ p.key \in Numbers(entries2)
  <2>1. PICK f \in entries : f.no = e.no /\ f.turn = e.turn
    BY <1>1, <1>5
  <2>2. f.no <= p.key /\ p.key \in Numbers(entries)
    BY <1>1, <1>5, <2>1
  <2>3. PICK k \in entries : k.no = p.key
    BY <2>2 DEF Numbers
  <2>4. Owner[k.turn] = Owner[f.turn] /\ k.turn <= f.turn
    BY <1>1, <1>5, <2>1, <2>3
  <2>5. f.no \in Numbers(entries2)
    BY <2>1 DEF Numbers
  <2> QED BY <1>5, <2>1, <2>2, <2>3, <2>4, <2>5
<1> QED BY <1>1, <1>2, <1>3, <1>4, <1>5 DEF Fitting

\* A delivery whose key is no entry's may be let go, to the prompt or to an
\* answer of its session that is not of a later turn.
LEMMA FreedFits ==
  ASSUME NEW s, NEW entries, NEW queue, NEW n \in Nat, NEW sent, NEW over,
         \A e \in entries \cup queue : e.no # NoKey,
         NEW p \in Fitting(s, entries, queue, n, sent, over), p.key \notin Numbers(entries),
         NEW a \in Turns \cup {Prompt},
         a # Prompt => Owner[a] = s /\ a <= p.turn
  PROVE  Freed(p, a) \in Fitting(s, entries, queue, n, sent, over)
<1> DEFINE q == Freed(p, a)
<1>1. p \in Item
  BY DEF Fitting
<1>2. q \in Item /\ q.turn = p.turn /\ q.key = 0 /\ q.anchor = a
  BY <1>1 DEF Freed, Item, NoKey
<1> HIDE DEF q
<1>3. \A e \in entries : e.turn = p.turn => sent[p.turn] # 0
  BY DEF Fitting
<1>4. \A e \in entries \cup queue : e.no # q.key
  BY <1>2 DEF NoKey
<1> QED BY <1>2, <1>3, <1>4 DEF Fitting, q

-----------------------------------------------------------------------------
(* The files' own steps. *)

LEMMA MuteFacts ==
  ASSUME Limits, Refused \/ UNCHANGED muteVars
  PROVE  muted' \in BOOLEAN /\ mutes' \in 0 .. MaxMutes
<1>1. MaxMutes \in Nat /\ muted \in BOOLEAN /\ mutes \in 0 .. MaxMutes
  BY BoundsAssumption DEF Limits
<1>2. CASE UNCHANGED muteVars
  BY <1>1, <1>2 DEF muteVars
<1>3. CASE mutes < MaxMutes /\ muted' = TRUE /\ mutes' = mutes + 1
  BY <1>1, <1>3
<1> QED BY <1>2, <1>3 DEF Refused, Ban

\* A step that only moves the files of one session, among what they may be.
LEMMA FilesMove ==
  ASSUME IInv, FInv, NEW s \in Sessions,
         NEW F, F = Fitting(s, held, flush.queue, holds, copies, Over),
         NEW waits \in Seq(F), NEW tasks \in Seq(Jobs(F)),
         pend' = [pend EXCEPT ![s] = waits], chain' = [chain EXCEPT ![s] = tasks],
         Refused \/ UNCHANGED muteVars, sentFiles' \subseteq FileTurns,
         UNCHANGED <<fin, keyBefore, ringVars, heldVars, flush, batches, copies, told, lifeVars>>
  PROVE  FInv'
<1>1. UNCHANGED <<fin, keyBefore, ring, held, holds, flush, batches, copies, told, restarts,
                  dropped, forgot>>
  BY DEF ringVars, heldVars, lifeVars
<1>2. Limits'
  BY <1>1, MuteFacts DEF FInv, Limits
<1>3. InTurn' /\ KeyKept'
  BY <1>1 DEF FInv, InTurn, KeyKept, Running
<1>4. SameEntries' /\ ByAge' /\ LeftBehind'
  BY <1>1 DEF FInv, SameEntries, ByAge, LeftBehind
<1>5. FilesKnown'
  <2>1. Over' = Over
    BY <1>1 DEF Over
  <2>2. pend' \in [Sessions -> Seq(Item)] /\ chain' \in [Sessions -> Seq(Jobs(Item))]
    <3>1. F \subseteq Item
      BY DEF Fitting
    <3>2. waits \in Seq(Item) /\ tasks \in Seq(Jobs(Item))
      BY <3>1, SeqOfMore, JobsOfMore
    <3> QED BY <3>2 DEF FInv, FilesKnown
  <2> SUFFICES ASSUME NEW r \in Sessions
               PROVE  /\ pend'[r] \in Seq(Fitting(r, held', flush'.queue, holds', copies', Over'))
                      /\ chain'[r] \in Seq(Jobs(Fitting(r, held', flush'.queue, holds', copies', Over')))
    BY <2>2 DEF FilesKnown
  <2>3. Fitting(r, held', flush'.queue, holds', copies', Over')
          = Fitting(r, held, flush.queue, holds, copies, Over)
    BY <1>1, <2>1
  <2>4. CASE r = s
    BY <2>3, <2>4 DEF FInv, FilesKnown
  <2>5. CASE r # s
    BY <2>3, <2>5 DEF FInv, FilesKnown
  <2> QED BY <2>4, <2>5
<1> QED BY <1>2, <1>3, <1>4, <1>5 DEF FInv

\* What the lists of a session hold, and what may be let go of it.
LEMMA ListFacts ==
  ASSUME IInv, FInv, NEW s \in Sessions,
         NEW F, F = Fitting(s, held, flush.queue, holds, copies, Over)
  PROVE  /\ pend[s] \in Seq(F) /\ chain[s] \in Seq(Jobs(F))
         /\ \A p \in F : p.key \notin Numbers(held) \cup {NoKey} => Freed(p, Prompt) \in F
         /\ \A p \in F : p \in Item /\ p.turn \in FileTurns /\ p.turn \in Turns
<1>1. pend[s] \in Seq(F) /\ chain[s] \in Seq(Jobs(F))
  BY DEF FInv, FilesKnown
<1>2. ASSUME NEW p \in F, p.key \notin Numbers(held) \cup {NoKey}
      PROVE  Freed(p, Prompt) \in F
  <2>1. holds \in Nat /\ \A e \in held \cup flush.queue : e.no # NoKey
    BY EntryFacts DEF NoKey, IInv, Typed, FInv
  <2>2. Prompt \in Turns \cup {Prompt} /\ p.key \notin Numbers(held)
    BY <1>2
  <2> QED BY <2>1, <2>2, FreedFits
<1>3. \A p \in F : p \in Item /\ p.turn \in FileTurns /\ p.turn \in Turns
  BY DEF Fitting, Item
<1> QED BY <1>1, <1>2, <1>3

\* What is put behind others goes under the prompt.
LEMMA UnderPrompt ==
  ASSUME NEW s, NEW entries, NEW queue, NEW n, NEW sent, NEW over,
         NEW p \in Fitting(s, entries, queue, n, sent, over)
  PROVE  [p EXCEPT !.anchor = Prompt] \in Fitting(s, entries, queue, n, sent, over)
<1>1. p \in Item
  BY DEF Fitting
<1>2. PICK q : q = [p EXCEPT !.anchor = Prompt]
  OBVIOUS
<1>3. q \in Item /\ q.turn = p.turn /\ q.key = p.key /\ q.anchor = Prompt
  BY <1>1, <1>2 DEF Item, Prompt
<1>4. q \in Fitting(s, entries, queue, n, sent, over)
  BY <1>3 DEF Fitting
<1> QED BY <1>2, <1>4

\* A session's running task.
LEMMA HeadFacts ==
  ASSUME NEW F, NEW jobs \in Seq(Jobs(F)), jobs # <<>>
  PROVE  /\ Head(jobs) \in Jobs(F) /\ Tail(jobs) \in Seq(Jobs(F)) /\ Head(jobs) = jobs[1]
         /\ 1 \in DOMAIN jobs
         /\ Head(jobs).items \in Seq(F) /\ Head(jobs).items # <<>>
         /\ Head(jobs).items[1] \in F
         /\ Head(jobs).kind = "own" => Head(jobs).items = <<Head(jobs).items[1]>>
<1>1. /\ Head(jobs) \in Jobs(F) /\ Tail(jobs) \in Seq(Jobs(F)) /\ Head(jobs) = jobs[1]
      /\ 1 \in DOMAIN jobs
  OBVIOUS
<1>2. PICK j \in Jobs(F) : j = Head(jobs)
  BY <1>1
<1>3. j.items \in Seq(F) /\ j.items # <<>>
  BY DEF Jobs
<1>4. j.items[1] \in F
  BY <1>3
<1>5. ASSUME j.kind = "own" PROVE j.items = <<j.items[1]>>
  <2>1. Len(j.items) = 1
    BY <1>5 DEF Jobs
  <2> QED BY <1>3, <2>1
<1> QED BY <1>1, <1>2, <1>3, <1>4, <1>5

LEMMA FlushFilesStep ==
  ASSUME IInv, FInv, NEW s \in Sessions, FlushFiles(s) PROVE FInv'
<1> DEFINE F == Fitting(s, held, flush.queue, holds, copies, Over)
           f == FilesFlushed(pend[s], Numbers(held), muted)
<1>1. /\ pend[s] \in Seq(F) /\ chain[s] \in Seq(Jobs(F))
      /\ \A p \in F : p.key \notin Numbers(held) \cup {NoKey} => Freed(p, Prompt) \in F
  BY ListFacts
<1> HIDE DEF F
<1>2. f.pend \in Seq(F) /\ f.jobs \in Seq(Jobs(F))
  BY <1>1, FlushedIn DEF FInv, Limits
<1>3. chain[s] \o f.jobs \in Seq(Jobs(F))
  BY <1>1, <1>2
<1>4. /\ pend' = [pend EXCEPT ![s] = f.pend]
      /\ chain' = [chain EXCEPT ![s] = chain[s] \o f.jobs]
      /\ UNCHANGED muteVars /\ sentFiles' = sentFiles
      /\ UNCHANGED <<fin, keyBefore, ringVars, heldVars, flush, batches, copies, told, lifeVars>>
  BY DEF FlushFiles
<1>5. sentFiles' \subseteq FileTurns
  BY <1>4 DEF FInv, Limits
<1> HIDE DEF f
<1> QED BY <1>2, <1>3, <1>4, <1>5, FilesMove DEF F

LEMMA FilesRefusedStep ==
  ASSUME IInv, FInv, NEW s \in Sessions, FilesRefused(s) PROVE FInv'
<1> DEFINE F == Fitting(s, held, flush.queue, holds, copies, Over)
<1>1. pend[s] \in Seq(F) /\ chain[s] \in Seq(Jobs(F)) /\ chain[s] # <<>>
  BY ListFacts DEF FilesRefused
<1> HIDE DEF F
<1>2. Head(chain[s]).items \in Seq(F) /\ Tail(chain[s]) \in Seq(Jobs(F))
  BY <1>1, HeadFacts
<1>3. Head(chain[s]).items \o pend[s] \in Seq(F)
  BY <1>1, <1>2
<1>4. /\ pend' = [pend EXCEPT ![s] = Head(chain[s]).items \o pend[s]]
      /\ chain' = [chain EXCEPT ![s] = Tail(chain[s])]
      /\ Refused /\ sentFiles' = sentFiles
      /\ UNCHANGED <<fin, keyBefore, ringVars, heldVars, flush, batches, copies, told, lifeVars>>
  BY DEF FilesRefused
<1>5. sentFiles' \subseteq FileTurns
  BY <1>4 DEF FInv, Limits
<1> QED BY <1>2, <1>3, <1>4, <1>5, FilesMove DEF F

\* A task that is not through with its files.
LEMMA TaskChanged ==
  ASSUME NEW F, NEW jobs \in Seq(Jobs(F)), jobs # <<>>, NEW j \in Jobs(F)
  PROVE  [jobs EXCEPT ![1] = j] \in Seq(Jobs(F))
BY ExceptSeq

LEMMA FilesSentStep ==
  ASSUME IInv, FInv, NEW s \in Sessions, FilesSent(s) PROVE FInv'
<1> DEFINE F == Fitting(s, held, flush.queue, holds, copies, Over)
           job == Head(chain[s])
           left == [chain[s] EXCEPT ![1] = [job EXCEPT !.items = Tail(@)]]
<1>1. /\ pend[s] \in Seq(F) /\ chain[s] \in Seq(Jobs(F)) 
      /\ \A p \in F : p.turn \in FileTurns
  BY ListFacts
<1>0. chain[s] # <<>>
  BY DEF FilesSent
<1> HIDE DEF F
<1>2. /\ job \in Jobs(F) /\ job.items \in Seq(F) /\ job.items # <<>> /\ job = chain[s][1]
      /\ Tail(chain[s]) \in Seq(Jobs(F)) /\ 1 \in DOMAIN chain[s]
  BY <1>0, <1>1, HeadFacts
<1>3. s \in DOMAIN chain /\ s \in DOMAIN pend
  BY DEF FInv, FilesKnown
<1>4. /\ job.kind = "due"
      /\ sentFiles' = sentFiles \cup {Head(job.items).turn}
      /\ chain' = IF Len(job.items) = 1 THEN [chain EXCEPT ![s] = Tail(@)]
                  ELSE [chain EXCEPT ![s][1].items = Tail(@)]
      /\ UNCHANGED muteVars /\ pend' = pend
      /\ UNCHANGED <<fin, keyBefore, ringVars, heldVars, flush, batches, copies, told, lifeVars>>
  BY DEF FilesSent
<1>5. sentFiles' \subseteq FileTurns
  <2>1. Head(job.items) \in F
    BY <1>2
  <2> QED BY <1>1, <1>4, <2>1 DEF FInv, Limits
<1>6. pend' = [pend EXCEPT ![s] = pend[s]]
  <2>1. pend \in [Sessions -> Seq(Item)] /\ pend' = pend
    BY <1>4 DEF FInv, FilesKnown
  <2> QED BY <2>1
<1>7. CASE Len(job.items) = 1
  <2>1. chain' = [chain EXCEPT ![s] = Tail(chain[s])]
    BY <1>4, <1>7
  <2>2. /\ UNCHANGED muteVars
        /\ UNCHANGED <<fin, keyBefore, ringVars, heldVars, flush, batches, copies, told, lifeVars>>
    BY <1>4
  <2> QED BY <1>1, <1>2, <1>5, <1>6, <2>1, <2>2, FilesMove DEF F
<1>8. CASE Len(job.items) # 1
  <2>1. chain' = [chain EXCEPT ![s] = left]
    BY <1>2, <1>3, <1>4, <1>8
  <2>2. PICK r : r = [job EXCEPT !.items = Tail(@)]
    OBVIOUS
  <2>3. r = [kind |-> "due", items |-> Tail(job.items)]
    BY <1>2, <1>4, <2>2 DEF Jobs
  <2>4. r \in Jobs(F)
    <3>1. Tail(job.items) \in Seq(F) /\ Tail(job.items) # <<>>
      <4>1. PICK items \in Seq(F) : items = job.items
        BY <1>2
      <4>2. Len(items) \in Nat \ {0, 1}
        BY <1>2, <1>8, <4>1
      <4>3. Tail(items) \in Seq(F) /\ Len(Tail(items)) = Len(items) - 1
        BY <1>2, <4>1
      <4>4. Tail(items) # <<>>
        BY <4>2, <4>3
      <4> QED BY <4>1, <4>3, <4>4
    <3>2. \A i \in DOMAIN job.items : job.items[i].key = NoKey
      BY <1>2, <1>4 DEF Jobs
    <3>3. \A i \in DOMAIN Tail(job.items) :
            i + 1 \in DOMAIN job.items /\ Tail(job.items)[i] = job.items[i + 1]
      BY <1>2
    <3>4. /\ r.kind = "due" /\ r.items = Tail(job.items)
          /\ r \in [kind : {"own", "due"}, items : Seq(F) \ {<<>>}]
      BY <2>3, <3>1
    <3>5. \A i \in DOMAIN r.items : r.items[i].key = NoKey
      BY <3>2, <3>3, <3>4
    <3> QED BY <3>4, <3>5 DEF Jobs
  <2>5. left \in Seq(Jobs(F))
    <3>1. left = [chain[s] EXCEPT ![1] = r]
      BY <2>2
    <3>2. [chain[s] EXCEPT ![1] = r] \in Seq(Jobs(F))
      BY <1>0, <1>1, <2>4, TaskChanged
    <3> HIDE DEF left
    <3> QED BY <3>1, <3>2
  <2> HIDE DEF left
  <2> QED BY <1>1, <1>4, <1>5, <1>6, <2>1, <2>5, FilesMove DEF F
<1> QED BY <1>7, <1>8

LEMMA RunOwnStep ==
  ASSUME IInv, FInv, NEW s \in Sessions, RunOwn(s) PROVE FInv'
<1> DEFINE F == Fitting(s, held, flush.queue, holds, copies, Over)
           job == Head(chain[s])
           item == job.items[1]
           waits == [item EXCEPT !.anchor = IF item.key = NoKey THEN @ ELSE Prompt]
           queued == Append(pend[s], waits)
           f == FilesFlushed(queued, Numbers(held), s \in flush.sessions)
           due == [chain[s] EXCEPT ![1] = [job EXCEPT !.kind = "due"]]
<1>1. /\ pend[s] \in Seq(F) /\ chain[s] \in Seq(Jobs(F)) 
      /\ \A p \in F : p.key \notin Numbers(held) \cup {NoKey} => Freed(p, Prompt) \in F
      /\ \A p \in F : p \in Item
  BY ListFacts
<1>0. chain[s] # <<>>
  BY DEF RunOwn
<1> HIDE DEF F
<1>2. /\ job \in Jobs(F) /\ job = chain[s][1] /\ item \in F
      /\ Tail(chain[s]) \in Seq(Jobs(F)) /\ 1 \in DOMAIN chain[s]
      /\ job.kind = "own" => job.items = <<item>>
  BY <1>0, <1>1, HeadFacts
<1>3. s \in DOMAIN chain /\ s \in DOMAIN pend
  BY DEF FInv, FilesKnown
<1>4. waits \in F
  <2>1. PICK p \in F : p = item
    BY <1>2
  <2>2. p \in Item /\ [p EXCEPT !.anchor = Prompt] \in F
    BY <1>1, UnderPrompt DEF F
  <2>3. [p EXCEPT !.anchor = IF p.key = NoKey THEN @ ELSE Prompt] \in F
    <3>1. CASE p.key = NoKey
      <4>1. [p EXCEPT !.anchor = IF p.key = NoKey THEN @ ELSE Prompt] = p
        BY <2>2, <3>1 DEF Item
      <4> QED BY <4>1
    <3>2. CASE p.key # NoKey
      BY <2>2, <3>2
    <3> QED BY <3>1, <3>2
  <2> QED BY <2>1, <2>3
<1> HIDE DEF waits
<1>5. queued \in Seq(F)
  BY <1>1, <1>4
<1> HIDE DEF queued
<1>6. f.pend \in Seq(F) /\ f.jobs \in Seq(Jobs(F))
  <2>1. (s \in flush.sessions) \in BOOLEAN
    OBVIOUS
  <2> QED BY <1>1, <1>5, <2>1, FlushedIn
<1> HIDE DEF f
<1>7. Tail(chain[s]) \o f.jobs \in Seq(Jobs(F))
  BY <1>2, <1>6
<1>8. /\ UNCHANGED muteVars
      /\ UNCHANGED <<fin, keyBefore, ringVars, heldVars, flush, batches, copies, told, lifeVars>>
  BY DEF RunOwn
<1>9. sentFiles' \subseteq FileTurns
  BY DEF RunOwn, FInv, Limits
<1>10. CASE /\ pend' = [pend EXCEPT ![s] = queued]
            /\ chain' = [chain EXCEPT ![s] = Tail(@)]
  BY <1>2, <1>5, <1>8, <1>9, <1>10, FilesMove DEF F
<1>11. CASE /\ pend' = [pend EXCEPT ![s] = f.pend]
            /\ chain' = [chain EXCEPT ![s] = Tail(@) \o f.jobs]
  BY <1>6, <1>7, <1>8, <1>9, <1>11, FilesMove DEF F
<1>12. CASE /\ item.key = NoKey /\ job.kind = "own"
            /\ chain' = [chain EXCEPT ![s][1].kind = "due"] /\ pend' = pend
  <2>1. chain' = [chain EXCEPT ![s] = due] /\ pend' = [pend EXCEPT ![s] = pend[s]]
    <3>1. chain' = [chain EXCEPT ![s] = due]
      BY <1>2, <1>3, <1>12
    <3>2. pend \in [Sessions -> Seq(Item)] /\ pend' = pend
      BY <1>12 DEF FInv, FilesKnown
    <3>3. pend' = [pend EXCEPT ![s] = pend[s]]
      BY <3>2
    <3> QED BY <3>1, <3>3
  <2>2. PICK r : r = [job EXCEPT !.kind = "due"]
    OBVIOUS
  <2>3. r = [kind |-> "due", items |-> <<item>>]
    BY <1>2, <1>12, <2>2 DEF Jobs
  <2>4. r \in Jobs(F)
    <3>1. <<item>> \in Seq(F) /\ <<item>> # <<>> /\ DOMAIN <<item>> = {1}
      BY <1>2
    <3>2. \A i \in DOMAIN <<item>> : <<item>>[i].key = NoKey
      BY <1>12, <3>1
    <3> HIDE DEF item
    <3> QED BY <2>3, <3>1, <3>2 DEF Jobs
  <2>5. due \in Seq(Jobs(F))
    <3>1. due = [chain[s] EXCEPT ![1] = r]
      BY <2>2
    <3>2. [chain[s] EXCEPT ![1] = r] \in Seq(Jobs(F))
      BY <1>0, <1>1, <2>4, TaskChanged
    <3> HIDE DEF due
    <3> QED BY <3>1, <3>2
  <2> HIDE DEF due
  <2> QED BY <1>1, <1>8, <1>9, <2>1, <2>5, FilesMove DEF F
<1> QED BY <1>10, <1>11, <1>12 DEF RunOwn, f, queued, waits

-----------------------------------------------------------------------------
(* A finish's steps. *)

\* The files of every session stay where they are, when they still may.
LEMMA ListsKept ==
  ASSUME FInv, UNCHANGED <<pend, chain>>,
         \A s \in Sessions : Fitting(s, held, flush.queue, holds, copies, Over)
                   \subseteq Fitting(s, held', flush'.queue, holds', copies', Over')
  PROVE  FilesKnown'
<1> SUFFICES ASSUME NEW s \in Sessions
             PROVE  /\ pend[s] \in Seq(Fitting(s, held', flush'.queue, holds', copies', Over'))
                    /\ chain[s] \in Seq(Jobs(Fitting(s, held', flush'.queue, holds', copies', Over')))
  BY DEF FInv, FilesKnown
<1>1. /\ pend[s] \in Seq(Fitting(s, held, flush.queue, holds, copies, Over))
      /\ chain[s] \in Seq(Jobs(Fitting(s, held, flush.queue, holds, copies, Over)))
  BY DEF FInv, FilesKnown
<1>2. Fitting(s, held, flush.queue, holds, copies, Over)
        \subseteq Fitting(s, held', flush'.queue, holds', copies', Over')
  OBVIOUS
<1>3. Jobs(Fitting(s, held, flush.queue, holds, copies, Over))
        \subseteq Jobs(Fitting(s, held', flush'.queue, holds', copies', Over'))
  BY <1>2, JobsOfMore
<1> QED BY <1>1, <1>2, <1>3, SeqOfMore

\* A running finish that goes on keeps the order of the finishes.
LEMMA InTurnKept ==
  ASSUME InTurn, NEW t \in Turns, Running(t), fin'[t] # "none",
         \A u \in Turns \ {t} : fin'[u] = fin[u], ring' = ring
  PROVE  InTurn'
BY DEF InTurn, Running

\* A step of a finish that leaves the buffer alone.
LEMMA FinishMoves ==
  ASSUME IInv, FInv, NEW t \in Turns, Running(t), fin'[t] \notin {"none", "done"},
         \A u \in Turns \ {t} : fin'[u] = fin[u],
         \A u \in Turns : copies'[u] = 0 => copies[u] = 0,
         Refused \/ UNCHANGED muteVars, told' \subseteq told \cup {t},
         UNCHANGED <<keyBefore, ring, held, holds, flush, batches, pend, chain, sentFiles,
                     restarts, dropped, forgot>>
  PROVE  FInv'
<1>1. Limits'
  BY MuteFacts DEF FInv, Limits
<1>2. InTurn'
  BY InTurnKept DEF FInv
<1>3. SameEntries' /\ ByAge' /\ LeftBehind'
  BY DEF FInv, SameEntries, ByAge, LeftBehind
<1>4. \A u \in Turns : fin'[u] \notin {"none", "done"} <=> Running(u)
  BY DEF Running
<1>5. KeyKept'
  BY <1>4 DEF FInv, KeyKept, Running
<1>6. FilesKnown'
  <2>1. Over' = Over
    BY DEF Over, Running
  <2>2. holds \in Nat /\ \A e \in held : \E f \in held : f.no = e.no
    BY DEF IInv, Typed
  <2>3. \A u \in Over : copies'[u] = 0 => copies[u] = 0
    BY DEF Over
  <2>4. \A f \in held : f.no \in Numbers(held)
    BY DEF Numbers
  <2> SUFFICES ASSUME NEW s \in Sessions
               PROVE  Fitting(s, held, flush.queue, holds, copies, Over)
                        \subseteq Fitting(s, held, flush.queue, holds, copies', Over)
    BY <2>1, ListsKept
  <2> QED BY <2>2, <2>3, <2>4, FittingKept
<1> QED BY <1>1, <1>2, <1>3, <1>5, <1>6 DEF FInv

LEMMA FinishStep ==
  ASSUME IInv, FInv, NEW t \in Turns, AnswerLands(t) \/ FallsBack(t) \/ AnswerLost(t)
  PROVE  FInv'
<1>1. fin \in [Turns -> Phases] /\ copies \in [Turns -> Nat]
  BY DEF IInv, Typed
<1>2. CASE AnswerLands(t)
  <2>1. /\ fin[t] \in Sendings /\ fin' = [fin EXCEPT ![t] = "answered"]
        /\ copies' = [copies EXCEPT ![t] = @ + 1]
        /\ UNCHANGED <<muted, mutes, keyBefore, ring, held, holds, flush, batches, pend, chain,
                       sentFiles, told, restarts, dropped, forgot>>
    BY <1>2 DEF AnswerLands, muteVars, heldVars, fileVars, lifeVars
  <2>2. Running(t) /\ fin'[t] = "answered" /\ \A u \in Turns \ {t} : fin'[u] = fin[u]
    BY <1>1, <2>1 DEF Running, Sendings
  <2>3. \A u \in Turns : copies'[u] = 0 => copies[u] = 0
    BY <1>1, <2>1
  <2> QED BY <2>1, <2>2, <2>3, FinishMoves DEF muteVars
<1>3. CASE FallsBack(t)
  <2>1. /\ fin[t] \in {"merging", "sending"}
        /\ fin' = [fin EXCEPT ![t] = IF @ = "merging" THEN "sending" ELSE "plain"]
        /\ UNCHANGED <<muted, mutes, keyBefore, ring, held, holds, flush, batches, pend, chain,
                       sentFiles, copies, told, restarts, dropped, forgot>>
    BY <1>3 DEF FallsBack, muteVars, ringVars, heldVars, fileVars, lifeVars
  <2>2. Running(t) /\ fin'[t] \in {"sending", "plain"} /\ \A u \in Turns \ {t} : fin'[u] = fin[u]
    BY <1>1, <2>1 DEF Running
  <2> QED BY <2>1, <2>2, FinishMoves DEF muteVars
<1>4. CASE AnswerLost(t)
  <2>1. /\ fin[t] \in {"plain", "sending"} /\ fin' = [fin EXCEPT ![t] = "unanswered"]
        /\ Refused \/ UNCHANGED muteVars
        /\ told' = told \cup {t}
        /\ UNCHANGED <<keyBefore, ring, held, holds, flush, batches, pend, chain,
                       sentFiles, copies, restarts, dropped, forgot>>
    BY <1>4 DEF AnswerLost, ringVars, heldVars, fileVars, lifeVars
  <2>2. Running(t) /\ fin'[t] = "unanswered" /\ \A u \in Turns \ {t} : fin'[u] = fin[u]
    BY <1>1, <2>1 DEF Running
  <2> QED BY <2>1, <2>2, FinishMoves
<1> QED BY <1>2, <1>3, <1>4

\* A finish that begins.
LEMMA TakeUpFiles ==
  ASSUME IInv, FInv, NEW t \in Turns, TakeUp(t),
         \/ fin[t] = "none" /\ \A u \in Turns : u < t /\ Owner[u] = Owner[t] => fin[u] = "done"
         \/ /\ fin[t] = "done" /\ t \notin ring
            /\ \A u \in Turns : u > t /\ Owner[u] = Owner[t] => fin[u] = "none",
         batches' \subseteq FileTurns,
         UNCHANGED <<muted, mutes, confirmed, saved, held, holds, flush, pend, chain, sentFiles,
                     copies, told, restarts, dropped, forgot>>
  PROVE  FInv'
<1>1. /\ fin' \in [Turns -> Phases] /\ fin'[t] \in {"sending", "merging"}
      /\ \A u \in Turns \ {t} : fin'[u] = fin[u]
      /\ ring' = ring \cup {t}
  BY DEF TakeUp, IInv, Typed, Phases, Sendings
<1>2. keyBefore' = [keyBefore EXCEPT ![t] = NewestKey(Owner[t])]
  BY DEF TakeUp
<1>3. /\ NewestKey(Owner[t]) \in 0 .. holds
      /\ \A e \in held : Owner[e.turn] = Owner[t] => e.no <= NewestKey(Owner[t])
      /\ NewestKey(Owner[t]) # NoKey =>
           \E e \in held : Owner[e.turn] = Owner[t] /\ e.no = NewestKey(Owner[t])
  BY NewestFacts DEF FInv
<1> DEFINE key == NewestKey(Owner[t])
<1> HIDE DEF key
<1>4. /\ keyBefore' \in [Turns -> 0 .. holds] /\ keyBefore'[t] = key
      /\ \A u \in Turns \ {t} : keyBefore'[u] = keyBefore[u]
  BY <1>2, <1>3 DEF FInv, Limits, key
<1>5. Limits'
  BY <1>4 DEF FInv, Limits
<1>6. InTurn'
  <2>1. \A u \in Turns : u < t /\ Owner[u] = Owner[t] => fin[u] = "done"
    BY DEF FInv, InTurn
  <2>2. \A u \in Turns : t < u /\ Owner[u] = Owner[t] => fin[u] = "none"
    BY DEF FInv, InTurn
  <2>3. \A u \in Turns : ~(u < u)
    BY TurnsAssumption
  <2>4. ASSUME NEW v \in Turns, NEW u \in Turns, u < v, Owner[u] = Owner[v], fin'[v] # "none"
        PROVE  fin'[u] = "done"
    <3>1. CASE v = t
      BY <1>1, <2>1, <2>3, <2>4, <3>1
    <3>2. CASE v # t
      BY <1>1, <2>2, <2>4, <3>2 DEF FInv, InTurn
    <3> QED BY <3>1, <3>2
  <2>5. \A u \in Turns : fin'[u] \notin {"none", "done"} => u \in ring'
    BY <1>1 DEF FInv, InTurn, Running
  <2> QED BY <2>4, <2>5 DEF InTurn, Running
<1>7. SameEntries' /\ ByAge' /\ LeftBehind'
  BY DEF FInv, SameEntries, ByAge, LeftBehind
<1>8. KeyKept'
  <2> SUFFICES ASSUME NEW u \in Turns, fin'[u] \notin {"none", "done"}, NEW e \in held,
                      Owner[e.turn] = Owner[u]
               PROVE  /\ e.turn = u => keyBefore'[u] < e.no
                      /\ e.turn # u => \/ e.attempts > 0
                                       \/ e.no <= keyBefore'[u] /\ keyBefore'[u] \in Numbers(Of(Owner[u], held))
    BY DEF KeyKept, Running
  <2>1. CASE u = t
    <3>1. e.turn # t
      <4>1. ~InHand(t)
        BY DEF IInv, Known
      <4> QED BY <4>1 DEF InHand
    <3>2. e.no <= key /\ e.no # NoKey /\ e.no \in Nat
      BY <1>3, <2>1, EntryFacts DEF key, NoKey, FInv
    <3>3. key # NoKey
      BY <3>2, <1>3 DEF NoKey, key
    <3>4. key \in Numbers(Of(Owner[t], held))
      BY <1>3, <3>3 DEF Numbers, Of, key
    <3> QED BY <1>4, <2>1, <3>1, <3>2, <3>4
  <2>2. CASE u # t
    BY <1>1, <1>4, <2>2 DEF FInv, KeyKept, Running
  <2> QED BY <2>1, <2>2
<1>9. FilesKnown'
  <2>1. Over \subseteq Over'
    BY <1>1 DEF Over
  <2>2. holds \in Nat /\ \A f \in held : f.no \in Numbers(held)
    BY DEF IInv, Typed, Numbers
  <2>3. PICK over : over = Over'
    OBVIOUS
  <2> SUFFICES ASSUME NEW s \in Sessions
               PROVE  Fitting(s, held, flush.queue, holds, copies, Over)
                        \subseteq Fitting(s, held, flush.queue, holds, copies, over)
    BY <2>3, ListsKept
  <2> QED BY <2>1, <2>2, <2>3, FittingKept
<1> QED BY <1>5, <1>6, <1>7, <1>8, <1>9 DEF FInv

LEMMA FinishBegins ==
  ASSUME IInv, FInv, NEW t \in Turns, EndTurn(t) \/ IdleAgain(t) PROVE FInv'
<1>1. TakeUp(t)
  BY DEF EndTurn, IdleAgain
<1>2. \/ fin[t] = "none" /\ \A u \in Turns : u < t /\ Owner[u] = Owner[t] => fin[u] = "done"
      \/ /\ fin[t] = "done" /\ t \notin ring
         /\ \A u \in Turns : u > t /\ Owner[u] = Owner[t] => fin[u] = "none"
  BY DEF EndTurn, IdleAgain
<1>3. batches' \subseteq FileTurns
  BY DEF EndTurn, IdleAgain, fileVars, FInv, Limits
<1>4. UNCHANGED <<muted, mutes, confirmed, saved, held, holds, flush, pend, chain, sentFiles,
                  copies, told, restarts, dropped, forgot>>
  BY DEF EndTurn, IdleAgain, muteVars, heldVars, fileVars, lifeVars
<1> QED BY <1>1, <1>2, <1>3, <1>4, TakeUpFiles

\* Two entries of the buffer with one number are one.
LEMMA OneNumber ==
  ASSUME IInv, NEW e \in held, NEW f \in held, e.no = f.no PROVE e = f
BY DEF IInv, Numbered

\* A refused answer is held.
LEMMA HoldFiles ==
  ASSUME IInv, FInv, NEW t \in Turns, NEW kind \in Kinds, Hold(t, kind),
         Running(t), fin'[t] \notin {"none", "done"},
         \A u \in Turns \ {t} : fin'[u] = fin[u],
         Refused \/ UNCHANGED muteVars,
         UNCHANGED <<keyBefore, ring, flush, batches, pend, chain, sentFiles, copies,
                     restarts, dropped, forgot>>
  PROVE  FInv'
<1>1. PICK gone \in SUBSET held :
        /\ Eldest(gone, held) /\ Cardinality(held \ gone) < Cap
        /\ holds' = holds + 1
        /\ held' = (held \ gone) \cup {Entry(holds', t, kind)}
        /\ told' = told \cup {e.turn : e \in gone}
  BY DEF Hold
<1> DEFINE new == Entry(holds', t, kind)
           kept == held \ gone
<1>2. /\ new.no = holds + 1 /\ new.turn = t /\ new.kind = kind /\ new.attempts = 0
      /\ new \in HeldEntry /\ holds \in Nat
  BY <1>1, BoundsAssumption DEF Entry, HeldEntry, IInv, Typed
<1> HIDE DEF new
<1>3. held' = kept \cup {new} /\ kept \subseteq held
  BY <1>1 DEF new
<1>4. \A e \in held \cup flush.queue : /\ e.no \in Nat \ {0} /\ e.no <= holds /\ e.turn \in Turns
                                      /\ e.turn \in Nat /\ e.attempts \in Nat
                                      /\ fin[e.turn] # "none"
  BY EntryFacts DEF FInv
<1>5. \A k, f \in held : f.no <= k.no /\ f \in kept => k \in kept
  BY <1>1, <1>4 DEF Eldest
<1>6. \A f \in held : f.no \in Numbers(held') => f \in kept
  <2> SUFFICES ASSUME NEW f \in held, NEW e \in held', e.no = f.no PROVE f \in kept
    BY DEF Numbers
  <2>1. e # new
    BY <1>2, <1>4
  <2> QED BY <1>3, <2>1, OneNumber
<1>7. \A f \in kept : f.no \in Numbers(held')
  BY <1>3 DEF Numbers
<1> HIDE DEF kept
<1>8. fin[t] \notin {"none", "done"} /\ t \notin Over
  BY DEF Running, Over
<1>9. \A e \in held : Owner[e.turn] = Owner[t] => e.turn <= t
  <2> SUFFICES ASSUME NEW e \in held, Owner[e.turn] = Owner[t], t < e.turn PROVE FALSE
    BY <1>4, TurnsAssumption
  <2> QED BY <1>4, <1>8 DEF FInv, InTurn
<1>10. Limits'
  <2>1. IsFiniteSet(kept) /\ Cardinality(kept) \in Nat /\ Cardinality(kept) < Cap
    <3>1. IsFiniteSet(held)
      BY DEF FInv, Limits
    <3>2. IsFiniteSet(kept)
      BY <1>3, <3>1, FS_Subset
    <3> QED BY <1>1, <3>2, FS_CardinalityType DEF kept
  <2>2. new \notin kept
    BY <1>2, <1>3, <1>4
  <2>3. IsFiniteSet(held') /\ Cardinality(held') = Cardinality(kept) + 1
    BY <1>3, <2>1, <2>2, FS_AddElement
  <2>4. Cardinality(held') <= Cap
    BY <2>1, <2>3, BoundsAssumption
  <2>5. held' \cup flush'.queue \subseteq HeldEntry
    BY <1>2, <1>3 DEF FInv, Limits
  <2>6. keyBefore' \in [Turns -> 0 .. holds']
    BY <1>1, <1>2 DEF FInv, Limits
  <2>7. told' \subseteq Turns
    BY <1>1, <1>4 DEF FInv, Limits
  <2> QED BY <2>3, <2>4, <2>5, <2>6, <2>7, MuteFacts DEF FInv, Limits
<1>11. InTurn'
  BY InTurnKept DEF FInv
<1>12. SameEntries'
  BY <1>2, <1>3, <1>4 DEF FInv, SameEntries
<1>13. ByAge'
  <2> SUFFICES ASSUME NEW e \in held', NEW f \in held', e.no < f.no, Owner[e.turn] = Owner[f.turn]
               PROVE  e.turn <= f.turn /\ f.attempts <= e.attempts
    BY DEF ByAge
  <2>1. e # new
    BY <1>2, <1>3, <1>4
  <2>2. CASE f = new
    BY <1>2, <1>3, <1>4, <1>9, <2>1, <2>2
  <2>3. CASE f # new
    BY <1>3, <2>1, <2>3 DEF FInv, ByAge
  <2> QED BY <2>2, <2>3
<1>14. LeftBehind'
  <2> SUFFICES ASSUME NEW e \in held', NEW f \in flush.queue, e.no < f.no,
                      Owner[e.turn] = Owner[f.turn]
               PROVE  f.attempts <= e.attempts /\ (e \in flush.queue \/ f.attempts < e.attempts)
    BY DEF LeftBehind
  <2>1. e # new
    BY <1>2, <1>4
  <2> QED BY <1>3, <2>1 DEF FInv, LeftBehind
<1>15. KeyKept'
  <2> SUFFICES ASSUME NEW u \in Turns, fin'[u] \notin {"none", "done"}, NEW e \in held',
                      Owner[e.turn] = Owner[u]
               PROVE  /\ e.turn = u => keyBefore[u] < e.no
                      /\ e.turn # u => \/ e.attempts > 0
                                       \/ e.no <= keyBefore[u] /\ keyBefore[u] \in Numbers(Of(Owner[u], held'))
    BY DEF KeyKept, Running
  <2>1. Running(u)
    BY DEF Running
  <2>2. keyBefore[u] \in 0 .. holds
    BY DEF FInv, Limits
  <2>3. CASE e = new
    <3>1. u = t
      <4>1. ~(u < t) /\ ~(t < u)
        BY <1>2, <1>8, <2>1, <2>3 DEF FInv, InTurn, Running
      <4> QED BY <4>1, TurnsAssumption
    <3> QED BY <1>2, <2>2, <2>3, <3>1
  <2>4. CASE e # new
    <3>1. e \in kept /\ e \in held
      BY <1>3, <2>4
    <3>2. /\ e.turn = u => keyBefore[u] < e.no
          /\ e.turn # u => \/ e.attempts > 0
                           \/ e.no <= keyBefore[u] /\ keyBefore[u] \in Numbers(Of(Owner[u], held))
      BY <2>1, <3>1 DEF FInv, KeyKept
    <3>3. ASSUME e.no <= keyBefore[u], keyBefore[u] \in Numbers(Of(Owner[u], held))
          PROVE  keyBefore[u] \in Numbers(Of(Owner[u], held'))
      <4>1. PICK k \in held : k.no = keyBefore[u] /\ Owner[k.turn] = Owner[u]
        BY <3>3 DEF Numbers, Of
      <4>2. k \in held'
        BY <1>3, <1>5, <3>1, <3>3, <4>1
      <4> QED BY <4>1, <4>2 DEF Numbers, Of
    <3> QED BY <3>2, <3>3
  <2> QED BY <2>3, <2>4
<1>16. FilesKnown'
  <2>1. Over' = Over
    BY DEF Over, Running
  <2>2. holds' \in Nat /\ holds <= holds' /\ holds \in Nat
    BY <1>1, <1>2
  <2>3. \A e \in held' \cup flush.queue :
          e.no > holds \/ \E f \in held \cup flush.queue : f.no = e.no /\ f.turn = e.turn
    BY <1>2, <1>3
  <2>4. \A e \in held' :
          \/ e.no > holds /\ e.turn \notin Over
          \/ \E f \in held : /\ f.no = e.no /\ f.turn = e.turn
                             /\ f.attempts > 0 => e.attempts > 0
    BY <1>2, <1>3, <1>8
  <2>5. \A k, f \in held : ~(f.no <= k.no /\ f.no \in Numbers(held') /\ k.no \notin Numbers(held'))
    BY <1>5, <1>6, <1>7
  <2>6. PICK entries : entries = held'
    OBVIOUS
  <2> SUFFICES ASSUME NEW s \in Sessions
               PROVE  Fitting(s, held, flush.queue, holds, copies, Over)
                        \subseteq Fitting(s, entries, flush.queue, holds', copies, Over)
    BY <2>1, <2>6, ListsKept
  <2> QED BY <2>2, <2>3, <2>4, <2>5, <2>6, FittingKept
<1> QED BY <1>10, <1>11, <1>12, <1>13, <1>14, <1>15, <1>16 DEF FInv

LEMMA HeldByFinishFiles ==
  ASSUME IInv, FInv, NEW t \in Turns, MergeHeld(t) \/ AnswerHeld(t) PROVE FInv'
<1>1. fin \in [Turns -> Phases]
  BY DEF IInv, Typed
<1>2. CASE MergeHeld(t)
  <2>1. /\ fin[t] = "merging" /\ fin' = [fin EXCEPT ![t] = "sending"] /\ Refused
        /\ Hold(t, "merged") /\ "merged" \in Kinds
        /\ UNCHANGED <<keyBefore, ring, flush, batches, pend, chain, sentFiles, copies,
                       restarts, dropped, forgot>>
    BY <1>2 DEF MergeHeld, ringVars, fileVars, lifeVars, Kinds
  <2>2. Running(t) /\ fin'[t] = "sending" /\ \A u \in Turns \ {t} : fin'[u] = fin[u]
    BY <1>1, <2>1 DEF Running
  <2> QED BY <2>1, <2>2, HoldFiles
<1>3. CASE AnswerHeld(t)
  <2>1. /\ fin[t] = "sending" /\ fin' = [fin EXCEPT ![t] = "unanswered"] /\ Refused
        /\ Hold(t, "answer") /\ "answer" \in Kinds
        /\ UNCHANGED <<keyBefore, ring, flush, batches, pend, chain, sentFiles, copies,
                       restarts, dropped, forgot>>
    BY <1>3 DEF AnswerHeld, ringVars, fileVars, lifeVars, Kinds
  <2>2. Running(t) /\ fin'[t] = "unanswered" /\ \A u \in Turns \ {t} : fin'[u] = fin[u]
    BY <1>1, <2>1 DEF Running
  <2> QED BY <2>1, <2>2, HoldFiles
<1> QED BY <1>2, <1>3

\* A finish's files join the session's tasks, behind the newest entry if it is
\* none of those before.
LEMMA DeliverFilesStep ==
  ASSUME IInv, FInv, NEW t \in Turns, DeliverTurnFiles(t) PROVE FInv'
<1> DEFINE s == Owner[t]
           now == NewestKey(s)
           item == [turn |-> t, key |-> IF now # keyBefore[t] THEN now ELSE NoKey,
                    anchor |-> IF fin[t] = "answered" THEN t ELSE Prompt]
           job == [kind |-> "own", items |-> <<item>>]
           F(r) == Fitting(r, held, flush.queue, holds, copies, Over')
<1>1. /\ fin[t] \in {"answered", "unanswered"} /\ fin' = [fin EXCEPT ![t] = "done"]
      /\ keyBefore' = [keyBefore EXCEPT ![t] = NoKey]
      /\ batches' = batches \ {t}
      /\ chain' = IF t \in batches THEN [chain EXCEPT ![s] = Append(@, job)] ELSE chain
      /\ UNCHANGED <<muted, mutes, ring, held, holds, flush, pend, sentFiles, copies, told,
                     restarts, dropped, forgot>>
  BY DEF DeliverTurnFiles, muteVars, ringVars, heldVars, lifeVars
<1>2. /\ fin'[t] = "done" /\ \A u \in Turns \ {t} : fin'[u] = fin[u]
      /\ Running(t) /\ s \in Sessions
  BY <1>1, OwnerAssumption DEF IInv, Typed, Running
<1>3. /\ \A e \in held \cup flush.queue : /\ e.no \in Nat \ {0} /\ e.no <= holds
                                         /\ e.turn \in Turns /\ fin[e.turn] # "none"
      /\ holds \in Nat
  BY EntryFacts DEF FInv, IInv, Typed
<1>4. Limits'
  <2>1. keyBefore' \in [Turns -> 0 .. holds']
    BY <1>1, <1>3 DEF FInv, Limits, NoKey
  <2> QED BY <1>1, <2>1 DEF FInv, Limits
<1>5. InTurn'
  BY <1>1, <1>2, InTurnKept DEF FInv
<1>6. SameEntries' /\ ByAge' /\ LeftBehind'
  BY <1>1 DEF FInv, SameEntries, ByAge, LeftBehind
<1>7. KeyKept'
  <2>1. \A u \in Turns \ {t} : keyBefore'[u] = keyBefore[u]
    BY <1>1 DEF FInv, Limits
  <2> QED BY <1>1, <1>2, <2>1 DEF FInv, KeyKept, Running
<1>8. Over \subseteq Over' /\ t \in Over'
  BY <1>1, <1>2 DEF Over, FInv, InTurn
<1>9. /\ now \in 0 .. holds
      /\ \A e \in held : Owner[e.turn] = s => e.no <= now
      /\ now # NoKey => \E e \in held : Owner[e.turn] = s /\ e.no = now
  BY NewestFacts DEF FInv
<1> HIDE DEF now
<1>10. keyBefore[t] \in 0 .. holds
  BY DEF FInv, Limits
<1>11. item \in Item /\ item.turn = t /\ item.key \in {now, NoKey}
       /\ (now # keyBefore[t] => item.key = now) /\ (now = keyBefore[t] => item.key = NoKey)
       /\ item.anchor \in {t, Prompt} /\ item.key <= holds /\ item.key \in Nat
  BY <1>3, <1>9 DEF Item, NoKey, Prompt
<1> HIDE DEF item, s
<1>12. \A e \in held \cup flush.queue : Owner[e.turn] = s => e.turn <= t
  <2> SUFFICES ASSUME NEW e \in held \cup flush.queue, Owner[e.turn] = s, ~(e.turn <= t)
               PROVE  FALSE
    OBVIOUS
  <2>1. t < e.turn
    <3>1. t \in Nat /\ e.turn \in Nat
      BY <1>3, TurnsAssumption
    <3> QED BY <3>1
  <2> QED BY <2>1, <1>2, <1>3 DEF FInv, InTurn, Running, s
<1>13. ASSUME t \in FileTurns PROVE item \in F(s)
  <2>1. ASSUME NEW e \in held \cup flush.queue, e.no = item.key
        PROVE  Owner[e.turn] = s /\ e.turn <= t
    <3>1. item.key # NoKey
      BY <1>3, <2>1 DEF NoKey
    <3>2. PICK f \in held : Owner[f.turn] = s /\ f.no = item.key
      BY <1>9, <1>11, <3>1
    <3>3. e.turn = f.turn
      BY <2>1, <3>2 DEF IInv, Numbered
    <3> QED BY <1>12, <2>1, <3>2, <3>3
  <2>2. ASSUME NEW e \in held, e.no = item.key, e.turn < t PROVE e.attempts > 0
    <3>1. item.key = now /\ now # keyBefore[t]
      BY <1>3, <1>11, <2>2 DEF NoKey
    <3>2. Owner[e.turn] = s /\ e.turn # t
      BY <2>1, <2>2, <1>3, TurnsAssumption
    <3>3. \/ e.attempts > 0
          \/ e.no <= keyBefore[t] /\ keyBefore[t] \in Numbers(Of(s, held))
      BY <1>2, <3>2 DEF FInv, KeyKept, s
    <3>4. ~(e.no <= keyBefore[t] /\ keyBefore[t] \in Numbers(Of(s, held)))
      <4> SUFFICES ASSUME e.no <= keyBefore[t], keyBefore[t] \in Numbers(Of(s, held))
                   PROVE  FALSE
        OBVIOUS
      <4>1. PICK k \in held : k.no = keyBefore[t] /\ Owner[k.turn] = s
        BY DEF Numbers, Of
      <4>2. k.no <= now
        BY <1>9, <4>1
      <4> QED BY <1>9, <1>10, <2>2, <3>1, <4>1, <4>2
    <3> QED BY <3>3, <3>4
  <2>3. ASSUME NEW e \in held, e.turn = t PROVE e.no <= item.key /\ item.key \in Numbers(held)
    <3>1. Owner[e.turn] = s /\ keyBefore[t] < e.no
      BY <1>2, <2>3 DEF FInv, KeyKept, s
    <3>2. e.no <= now /\ now # keyBefore[t]
      BY <1>3, <1>9, <1>10, <3>1
    <3>3. now # NoKey
      BY <1>3, <1>9, <3>2 DEF NoKey
    <3> QED BY <1>9, <1>11, <3>2, <3>3 DEF Numbers
  <2>4. item.anchor # Prompt => Owner[item.anchor] = s /\ item.anchor <= t
    BY <1>11, TurnsAssumption DEF s
  <2> QED BY <1>8, <1>11, <1>13, <2>1, <2>2, <2>3, <2>4 DEF Fitting, s
<1>14. FilesKnown'
  <2>1. \A r : Fitting(r, held, flush.queue, holds, copies, Over) \subseteq F(r)
    <3>1. \A f \in held : f.no \in Numbers(held)
      BY DEF Numbers
    <3>2. PICK over : over = Over'
      OBVIOUS
    <3> SUFFICES ASSUME NEW r
                 PROVE  Fitting(r, held, flush.queue, holds, copies, Over)
                          \subseteq Fitting(r, held, flush.queue, holds, copies, over)
      BY <3>2
    <3> QED BY <1>3, <1>8, <3>1, <3>2, FittingKept
  <2>2. CASE t \notin batches
    <3>1. UNCHANGED <<pend, chain, held, holds, flush, copies>>
      BY <1>1, <2>2
    <3>2. \A r \in Sessions : Fitting(r, held, flush.queue, holds, copies, Over)
                     \subseteq Fitting(r, held', flush'.queue, holds', copies', Over')
      BY <2>1, <3>1
    <3> QED BY <3>1, <3>2, ListsKept
  <2>3. CASE t \in batches
    <3>1. t \in FileTurns
      BY <2>3 DEF FInv, Limits
    <3>2. item \in F(s)
      BY <1>13, <3>1
    <3>3. job \in Jobs(F(s))
      BY <3>2 DEF Jobs
    <3>4. chain' = [chain EXCEPT ![s] = Append(@, job)] /\ pend' = pend
      BY <1>1, <2>3
    <3> HIDE DEF job, F
    <3>5. \A r \in Sessions : /\ pend[r] \in Seq(F(r)) /\ chain[r] \in Seq(Jobs(F(r)))
      <4> SUFFICES ASSUME NEW r \in Sessions
                   PROVE  /\ pend[r] \in Seq(F(r)) /\ chain[r] \in Seq(Jobs(F(r)))
        OBVIOUS
      <4> DEFINE G == Fitting(r, held, flush.queue, holds, copies, Over)
      <4>1. pend[r] \in Seq(G) /\ chain[r] \in Seq(Jobs(G)) /\ G \subseteq F(r)
        BY <2>1 DEF FInv, FilesKnown
      <4> HIDE DEF G
      <4>2. Seq(G) \subseteq Seq(F(r)) /\ Seq(Jobs(G)) \subseteq Seq(Jobs(F(r)))
        BY <4>1, SeqOfMore, JobsOfMore
      <4> QED BY <4>1, <4>2
    <3>6. Append(chain[s], job) \in Seq(Jobs(F(s)))
      BY <1>2, <3>3, <3>5
    <3>7. F(s) \subseteq Item
      BY DEF Fitting, F
    <3>8. Append(chain[s], job) \in Seq(Jobs(Item))
      BY <3>6, <3>7, SeqOfMore, JobsOfMore
    <3>9. pend' \in [Sessions -> Seq(Item)] /\ chain' \in [Sessions -> Seq(Jobs(Item))]
      BY <3>4, <3>8 DEF FInv, FilesKnown
    <3> SUFFICES ASSUME NEW r \in Sessions
                 PROVE  pend'[r] \in Seq(F(r)) /\ chain'[r] \in Seq(Jobs(F(r)))
      BY <1>1, <3>9 DEF FilesKnown, F
    <3>10. chain'[r] = IF r = s THEN Append(chain[s], job) ELSE chain[r]
      BY <3>4 DEF FInv, FilesKnown
    <3> QED BY <3>4, <3>5, <3>6, <3>10
  <2> QED BY <2>2, <2>3
<1> QED BY <1>4, <1>5, <1>6, <1>7, <1>14 DEF FInv

-----------------------------------------------------------------------------
(* The buffer and the flush. *)

\* Entries that go, from the buffer and from the queue: those left are in order
\* still, and what waits may wait.
LEMMA EntriesGo ==
  ASSUME IInv, FInv, held' \subseteq held, flush'.queue \subseteq flush.queue,
         flush'.sessions \subseteq flush.sessions,
         \A e \in flush.queue \ flush'.queue : e \notin held',
         \A k \in held \ held', e \in held' :
           /\ e.no <= k.no /\ Owner[e.turn] = Owner[k.turn] => e.attempts > 0
           /\ e.no <= k.no /\ Owner[e.turn] = Owner[k.turn] /\ k.turn <= e.turn
                => copies'[e.turn] # 0,
         \A u \in Turns : copies'[u] = 0 => copies[u] = 0,
         Refused \/ UNCHANGED muteVars, told' \subseteq Turns,
         UNCHANGED <<fin, keyBefore, ring, holds, batches, sentFiles, restarts, dropped, forgot>>
  PROVE  /\ Limits' /\ InTurn' /\ SameEntries' /\ ByAge' /\ LeftBehind' /\ KeyKept'
         /\ \A s : Fitting(s, held, flush.queue, holds, copies, Over)
                     \subseteq Fitting(s, held', flush'.queue, holds', copies', Over')
<1>1. Limits'
  <2>1. IsFiniteSet(held) /\ Cardinality(held) <= Cap
    BY DEF FInv, Limits
  <2>2. IsFiniteSet(held') /\ Cardinality(held') <= Cardinality(held)
    BY <2>1, FS_Subset
  <2>3. Cardinality(held') <= Cap
    <3>1. Cardinality(held') \in Nat /\ Cardinality(held) \in Nat /\ Cap \in Nat
      BY <2>1, <2>2, FS_CardinalityType, BoundsAssumption
    <3> QED BY <2>1, <2>2, <3>1
  <2> QED BY <2>2, <2>3, MuteFacts DEF FInv, Limits
<1>2. InTurn'
  BY DEF FInv, InTurn, Running
<1>3. SameEntries' /\ ByAge'
  BY DEF FInv, SameEntries, ByAge
<1>4. LeftBehind'
  BY DEF FInv, LeftBehind
<1>5. \A e, f \in held : e.no = f.no => e = f
  BY OneNumber
<1>6. \A e \in held : e.attempts \in Nat /\ e.turn \in Turns /\ e.no \in Nat
  BY EntryFacts DEF FInv
<1>7. KeyKept'
  <2> SUFFICES ASSUME NEW u \in Turns, Running(u), NEW e \in held', Owner[e.turn] = Owner[u],
                      e.turn # u, ~(e.attempts > 0)
               PROVE  e.no <= keyBefore[u] /\ keyBefore[u] \in Numbers(Of(Owner[u], held'))
    BY DEF FInv, KeyKept, Running
  <2>1. e.no <= keyBefore[u] /\ keyBefore[u] \in Numbers(Of(Owner[u], held))
    BY DEF FInv, KeyKept
  <2>2. PICK k \in held : k.no = keyBefore[u] /\ Owner[k.turn] = Owner[u]
    BY <2>1 DEF Numbers, Of
  <2>3. k \in held'
    BY <2>1, <2>2
  <2> QED BY <2>1, <2>2, <2>3 DEF Numbers, Of
<1>8. ASSUME NEW s
      PROVE  Fitting(s, held, flush.queue, holds, copies, Over)
               \subseteq Fitting(s, held', flush'.queue, holds', copies', Over')
  <2>1. Over' = Over /\ holds' = holds /\ holds \in Nat
    BY DEF Over, IInv, Typed
  <2>2. PICK entries, queue, sent : entries = held' /\ queue = flush'.queue /\ sent = copies'
    OBVIOUS
  <2>3. \A u \in Over : sent[u] = 0 => copies[u] = 0
    BY <2>2 DEF Over
  <2>4. \A k, f \in held :
          /\ f.no <= k.no /\ Owner[k.turn] = Owner[f.turn] /\ k.turn <= f.turn
          /\ f.no \in Numbers(entries) /\ k.no \notin Numbers(entries)
          => sent[f.turn] # 0
    <3> SUFFICES ASSUME NEW k \in held, NEW f \in held, f.no <= k.no,
                        Owner[k.turn] = Owner[f.turn], k.turn <= f.turn,
                        f.no \in Numbers(entries), k.no \notin Numbers(entries)
                 PROVE  sent[f.turn] # 0
      OBVIOUS
    <3>1. f \in held' /\ k \notin held'
      BY <1>5, <2>2 DEF Numbers
    <3> QED BY <2>2, <3>1
  <2>5. /\ \A e \in entries \cup queue :
             \E f \in held \cup flush.queue : f.no = e.no /\ f.turn = e.turn
        /\ \A e \in entries : \E f \in held : /\ f.no = e.no /\ f.turn = e.turn
                                              /\ f.attempts > 0 => e.attempts > 0
    BY <2>2
  <2>6. Fitting(s, held, flush.queue, holds, copies, Over)
          \subseteq Fitting(s, entries, queue, holds, sent, Over)
    BY <2>1, <2>3, <2>4, <2>5, FittingKept
  <2> QED BY <2>1, <2>2, <2>6
<1> QED BY <1>1, <1>2, <1>3, <1>4, <1>7, <1>8

LEMMA ExpireFiles == ASSUME IInv, FInv, Expire PROVE FInv'
<1>1. PICK x \in held : /\ Oldest(x, held) /\ held' = held \ {x} /\ told' = told \cup {x.turn}
  BY DEF Expire
<1>2. /\ flush = NoFlush /\ UNCHANGED muteVars
      /\ UNCHANGED <<fin, copies, keyBefore, ring, holds, flush, batches, pend, chain, sentFiles,
                     restarts, dropped, forgot>>
  BY DEF Expire, ringVars, fileVars, lifeVars
<1>3. \A e \in held : e.no \in Nat /\ e.turn \in Turns
  BY EntryFacts DEF FInv
<1>4. \A k \in held \ held', e \in held' : ~(e.no <= k.no)
  BY <1>1, <1>3, OneNumber DEF Oldest
<1>5. told' \subseteq Turns
  BY <1>1, <1>3 DEF FInv, Limits
<1>6. /\ Limits' /\ InTurn' /\ SameEntries' /\ ByAge' /\ LeftBehind' /\ KeyKept'
      /\ \A s : Fitting(s, held, flush.queue, holds, copies, Over)
                  \subseteq Fitting(s, held', flush'.queue, holds', copies', Over')
  BY <1>1, <1>2, <1>4, <1>5, EntriesGo
<1> QED BY <1>2, <1>6, ListsKept DEF FInv

LEMMA HeldRefusedFiles == ASSUME IInv, FInv, HeldRefused PROVE FInv'
<1>1. /\ Refused /\ flush' = NoFlush
      /\ UNCHANGED <<fin, copies, keyBefore, ring, held, holds, batches, pend, chain, sentFiles,
                     told, restarts, dropped, forgot>>
  BY DEF HeldRefused, ringVars, heldVars, fileVars, lifeVars
<1>2. flush'.queue = {} /\ flush'.sessions = {}
  BY <1>1 DEF NoFlush
<1>3. Limits'
  BY <1>1, <1>2, MuteFacts DEF FInv, Limits
<1>4. InTurn' /\ ByAge' /\ KeyKept'
  BY <1>1 DEF FInv, InTurn, ByAge, KeyKept, Running
<1>5. SameEntries' /\ LeftBehind'
  BY <1>2 DEF SameEntries, LeftBehind
<1>6. FilesKnown'
  <2>1. Over' = Over /\ holds \in Nat /\ \A f \in held : f.no \in Numbers(held)
    BY <1>1 DEF Over, IInv, Typed, Numbers
  <2> SUFFICES ASSUME NEW s \in Sessions
               PROVE  Fitting(s, held, flush.queue, holds, copies, Over)
                        \subseteq Fitting(s, held, {}, holds, copies, Over)
    BY <1>1, <1>2, <2>1, ListsKept
  <2> QED BY <2>1, FittingKept
<1> QED BY <1>3, <1>4, <1>5, <1>6 DEF FInv

LEMMA StartFlushFiles ==
  ASSUME IInv, FInv, NEW s \in Sessions, StartFlush(s) PROVE FInv'
<1>1. /\ flush' = [sessions |-> {s}, queue |-> Of(s, held), phase |-> "rich"]
      /\ UNCHANGED <<muted, mutes, fin, copies, keyBefore, ring, held, holds, batches, pend,
                     chain, sentFiles, told, restarts, dropped, forgot>>
  BY DEF StartFlush, muteVars, ringVars, heldVars, fileVars, lifeVars
<1>2. /\ flush'.queue = {e \in held : Owner[e.turn] = s} /\ flush'.sessions = {s}
  BY <1>1 DEF Of
<1>3. Limits'
  BY <1>1, <1>2 DEF FInv, Limits
<1>4. InTurn' /\ ByAge' /\ KeyKept'
  BY <1>1 DEF FInv, InTurn, ByAge, KeyKept, Running
<1>5. SameEntries'
  BY <1>1, <1>2, OneNumber DEF SameEntries
<1>6. LeftBehind'
  BY <1>1, <1>2 DEF LeftBehind, FInv, ByAge
<1>7. FilesKnown'
  <2>1. Over' = Over /\ holds \in Nat /\ \A f \in held : f.no \in Numbers(held)
    BY <1>1 DEF Over, IInv, Typed, Numbers
  <2>2. PICK queue : queue = flush'.queue /\ queue \subseteq held
    BY <1>2
  <2> SUFFICES ASSUME NEW r \in Sessions
               PROVE  Fitting(r, held, flush.queue, holds, copies, Over)
                        \subseteq Fitting(r, held, queue, holds, copies, Over)
    BY <1>1, <2>1, <2>2, ListsKept
  <2> QED BY <2>1, <2>2, FittingKept
<1> QED BY <1>3, <1>4, <1>5, <1>6, <1>7 DEF FInv

\* The current entry's going leaves no older one behind that has not failed more
\* often.
LEMMA CurrentOldest ==
  ASSUME IInv, FInv, NEW s, NEW x, Current(s, x)
  PROVE  \A e \in held : /\ e.no = x.no => e = x
                         /\ e.no < x.no /\ Owner[e.turn] = Owner[x.turn]
                              => x.attempts < e.attempts /\ e \notin flush.queue
<1>1. x \in flush.queue /\ \A e \in flush.queue : x.no <= e.no
  BY DEF Current, Oldest
<1>2. \A e \in held \cup flush.queue : e.no \in Nat
  BY EntryFacts DEF FInv
<1>3. ASSUME NEW e \in held, e.no = x.no PROVE e = x
  BY <1>1, <1>3 DEF FInv, SameEntries
<1>4. ASSUME NEW e \in held, e.no < x.no, Owner[e.turn] = Owner[x.turn]
      PROVE  x.attempts < e.attempts /\ e \notin flush.queue
  <2>1. e \notin flush.queue
    BY <1>1, <1>2, <1>4
  <2> QED BY <1>1, <1>4, <2>1 DEF FInv, LeftBehind
<1> QED BY <1>3, <1>4

\* The files follow the flush.
LEMMA ContinueFiles ==
  ASSUME IInv, FInv, IInv', Limits', NEW s \in flush.sessions, NEW x,
         \A r : Fitting(r, held, flush.queue, holds, copies, Over)
                  \subseteq Fitting(r, held', flush'.queue, holds', copies', Over'),
         NEW items \in Seq(Fitting(s, held', flush'.queue, holds', copies', Over')),
         Continue(x, items, held')
  PROVE  FilesKnown'
<1> DEFINE G(r) == Fitting(r, held', flush'.queue, holds', copies', Over')
<1>1. s \in Sessions /\ \A r \in flush.sessions : r = s
  BY DEF IInv, Typed, FlushType, FInv, Limits
<1>2. \A r \in Sessions : pend[r] \in Seq(G(r)) /\ chain[r] \in Seq(Jobs(G(r)))
  <2> SUFFICES ASSUME NEW r \in Sessions
               PROVE  pend[r] \in Seq(G(r)) /\ chain[r] \in Seq(Jobs(G(r)))
    OBVIOUS
  <2> DEFINE F == Fitting(r, held, flush.queue, holds, copies, Over)
  <2>1. pend[r] \in Seq(F) /\ chain[r] \in Seq(Jobs(F)) /\ F \subseteq G(r)
    BY DEF FInv, FilesKnown
  <2> HIDE DEF F, G
  <2>2. Seq(F) \subseteq Seq(G(r)) /\ Seq(Jobs(F)) \subseteq Seq(Jobs(G(r)))
    BY <2>1, SeqOfMore, JobsOfMore
  <2> QED BY <2>1, <2>2
<1>3. \A p \in G(s) : p.key \notin Numbers(held') \cup {NoKey} => Freed(p, Prompt) \in G(s)
  <2>1. holds' \in Nat /\ \A e \in held' \cup flush'.queue : e.no # NoKey
    BY DEF NoKey, IInv, Typed, Limits, HeldEntry
  <2>2. PICK entries, queue, n, sent, over :
          /\ entries = held' /\ queue = flush'.queue /\ n = holds' /\ sent = copies'
          /\ over = Over'
    OBVIOUS
  <2>3. ASSUME NEW p \in Fitting(s, entries, queue, n, sent, over),
               p.key \notin Numbers(entries) \cup {NoKey}
        PROVE  Freed(p, Prompt) \in Fitting(s, entries, queue, n, sent, over)
    <3>1. Prompt \in Turns \cup {Prompt} /\ p.key \notin Numbers(entries)
      BY <2>3
    <3> QED BY <2>1, <2>2, <3>1, FreedFits
  <2> QED BY <2>2, <2>3
<1>4. \A r : G(r) \subseteq Item
  BY DEF Fitting
<1>5. items \in Seq(G(s))
  OBVIOUS
<1> HIDE DEF G
<1> DEFINE f == FilesFlushed(items, Numbers(held'), muted')
<1>6. f.pend \in Seq(G(s)) /\ f.jobs \in Seq(Jobs(G(s)))
  <2>1. muted' \in BOOLEAN
    BY DEF Limits
  <2> QED BY <1>3, <1>5, <2>1, FlushedIn
<1>7. \/ pend' = [pend EXCEPT ![s] = items] /\ chain' = chain
      \/ pend' = [pend EXCEPT ![s] = f.pend] /\ chain' = [chain EXCEPT ![s] = @ \o f.jobs]
  BY <1>1 DEF Continue
<1> HIDE DEF f
<1>8. PICK waits \in Seq(G(s)), jobs \in Seq(Jobs(G(s))) :
        pend' = [pend EXCEPT ![s] = waits] /\ chain' = [chain EXCEPT ![s] = jobs]
  <2>1. chain \in [Sessions -> Seq(Jobs(Item))]
    BY DEF FInv, FilesKnown
  <2>2. chain = [chain EXCEPT ![s] = chain[s]]
    BY <2>1
  <2>3. chain[s] \o f.jobs \in Seq(Jobs(G(s)))
    BY <1>1, <1>2, <1>6
  <2>4. CASE pend' = [pend EXCEPT ![s] = items] /\ chain' = chain
    BY <1>1, <1>2, <1>5, <2>2, <2>4
  <2>5. CASE pend' = [pend EXCEPT ![s] = f.pend] /\ chain' = [chain EXCEPT ![s] = @ \o f.jobs]
    BY <1>6, <2>3, <2>5
  <2> QED BY <1>7, <2>4, <2>5
<1>9. pend' \in [Sessions -> Seq(Item)] /\ chain' \in [Sessions -> Seq(Jobs(Item))]
  <2>1. waits \in Seq(Item) /\ jobs \in Seq(Jobs(Item))
    BY <1>4, SeqOfMore, JobsOfMore
  <2> QED BY <1>1, <1>8, <2>1 DEF FInv, FilesKnown
<1> SUFFICES ASSUME NEW r \in Sessions
             PROVE  pend'[r] \in Seq(G(r)) /\ chain'[r] \in Seq(Jobs(G(r)))
  BY <1>9 DEF FilesKnown, G
<1>10. /\ pend'[r] = IF r = s THEN waits ELSE pend[r]
       /\ chain'[r] = IF r = s THEN jobs ELSE chain[r]
  BY <1>8 DEF FInv, FilesKnown
<1> QED BY <1>2, <1>8, <1>10

LEMMA SessionsGo ==
  ASSUME IInv, NEW x,
         \/ flush' = [flush EXCEPT !.queue = @ \ {x}, !.phase = "rich"]
         \/ flush' = NoFlush
  PROVE  flush'.sessions \subseteq flush.sessions
<1>1. CASE flush' = [flush EXCEPT !.queue = @ \ {x}, !.phase = "rich"]
  BY <1>1 DEF IInv, Typed, FlushType
<1>2. CASE flush' = NoFlush
  BY <1>2 DEF NoFlush
<1> QED BY <1>1, <1>2

\* An entry that landed, in rich text: its files go under it.
LEMMA HeldLandsFiles ==
  ASSUME IInv, FInv, IInv', NEW s \in flush.sessions, NEW x, Current(s, x), HeldLands(s, x)
  PROVE  FInv'
<1> DEFINE F(r) == Fitting(r, held, flush.queue, holds, copies, Over)
           G(r) == Fitting(r, held', flush'.queue, holds', copies', Over')
           items == Resolved(pend[s], x.no, x.turn)
<1>1. /\ UNCHANGED muteVars /\ held' = Without(x) /\ copies' = [copies EXCEPT ![x.turn] = @ + 1]
      /\ Continue(x, items, held')
      /\ UNCHANGED <<fin, keyBefore, ring, holds, batches, sentFiles, told, restarts, dropped,
                     forgot>>
  BY DEF HeldLands, lifeVars
<1>2. SentOn(x)
  <2>1. \/ flush' = [flush EXCEPT !.queue = @ \ {x}, !.phase = "rich"]
        \/ flush.queue = {x} /\ flush' = NoFlush
    BY <1>1 DEF Continue
  <2> QED BY <2>1, ContinueFacts
<1>3. /\ x \in flush.queue /\ flush'.queue = flush.queue \ {x}
      /\ flush'.sessions \subseteq flush.sessions
      /\ held' = {f \in held : f.no # x.no}
  <2>1. flush'.sessions \subseteq flush.sessions
    <3>1. \/ flush' = [flush EXCEPT !.queue = @ \ {x}, !.phase = "rich"]
          \/ flush' = NoFlush
      BY <1>1 DEF Continue
    <3> QED BY <3>1, SessionsGo
  <2> QED BY <1>1, <1>2, <2>1 DEF SentOn, Current, Without
<1>4. /\ x.turn \in Turns /\ x.turn \in Nat /\ x.no \in Nat \ {0} /\ x.attempts \in Nat
      /\ \A e \in held : e.no \in Nat /\ e.turn \in Turns /\ e.turn \in Nat
  BY <1>3, EntryFacts DEF FInv
<1>5. /\ copies'[x.turn] # 0 /\ \A u \in Turns : copies'[u] = 0 => copies[u] = 0
  BY <1>1, <1>4 DEF IInv, Typed
<1>6. ASSUME NEW k \in held \ held', NEW e \in held', e.no <= k.no, Owner[e.turn] = Owner[k.turn]
      PROVE  e.attempts > 0 /\ (k.turn <= e.turn => copies'[e.turn] # 0)
  <2>1. k = x /\ x \in held
    BY <1>3, <1>6, CurrentOldest
  <2>2. e.no < x.no /\ e.no # x.no
    BY <1>3, <1>4, <1>6, <2>1
  <2>3. x.attempts < e.attempts
    BY <1>3, <1>6, <2>1, <2>2, CurrentOldest
  <2>4. e.turn <= x.turn
    BY <1>3, <1>6, <2>1, <2>2 DEF FInv, ByAge
  <2>5. e.attempts > 0
    BY <1>3, <1>4, <2>3, EntryFacts DEF FInv
  <2>6. x.turn <= e.turn => e.turn = x.turn
    BY <1>3, <1>4, <2>4
  <2> QED BY <1>5, <2>1, <2>5, <2>6
<1>7. /\ Limits' /\ InTurn' /\ SameEntries' /\ ByAge' /\ LeftBehind' /\ KeyKept'
      /\ \A r : F(r) \subseteq G(r)
  <2>1. told' \subseteq Turns
    BY <1>1 DEF FInv, Limits
  <2>2. \A e \in flush.queue \ flush'.queue : e \notin held'
    BY <1>3
  <2>3. held' \subseteq held /\ flush'.queue \subseteq flush.queue
    BY <1>3
  <2> QED BY <1>1, <1>3, <1>5, <1>6, <2>1, <2>2, <2>3, EntriesGo
<1>8. items \in Seq(G(s))
  <2>1. s \in Sessions
    BY DEF IInv, Typed, FlushType
  <2>2. pend[s] \in Seq(F(s)) /\ F(s) \subseteq G(s)
    BY <1>7, <2>1 DEF FInv, FilesKnown
  <2>3. x.no \notin Numbers(held')
    BY <1>3 DEF Numbers
  <2>4. holds' \in Nat /\ \A e \in held' \cup flush'.queue : e.no # NoKey
    BY <1>7 DEF NoKey, IInv, Typed, Limits, HeldEntry
  <2>5. ASSUME NEW p \in F(s), p.key = x.no PROVE Freed(p, x.turn) \in G(s)
    <3>1. Owner[x.turn] = s /\ x.turn <= p.turn
      BY <1>3, <2>5 DEF Fitting
    <3>2. PICK entries, queue, n, sent, over :
            /\ entries = held' /\ queue = flush'.queue /\ n = holds' /\ sent = copies'
            /\ over = Over'
      OBVIOUS
    <3>3. p \in Fitting(s, entries, queue, n, sent, over) /\ p.key \notin Numbers(entries)
      BY <2>2, <2>3, <2>5, <3>2
    <3>4. Freed(p, x.turn) \in Fitting(s, entries, queue, n, sent, over)
      BY <1>4, <2>4, <3>1, <3>2, <3>3, FreedFits
    <3> QED BY <3>2, <3>4
  <2> HIDE DEF F, G
  <2> QED BY <2>2, <2>5, ResolvedIn
<1>9. FilesKnown'
  <2> HIDE DEF items
  <2> QED BY <1>1, <1>7, <1>8, ContinueFiles
<1> QED BY <1>7, <1>9 DEF FInv

\* An entry whose plain text is out is in the buffer no more.
LEMMA PlainFiles ==
  ASSUME IInv, FInv, IInv', NEW s \in flush.sessions, NEW x, Current(s, x),
         HeldPlainLands(s, x) \/ HeldPlainFails(s, x)
  PROVE  FInv'
<1> DEFINE F(r) == Fitting(r, held, flush.queue, holds, copies, Over)
           G(r) == Fitting(r, held', flush'.queue, holds', copies', Over')
<1>1. /\ Refused \/ UNCHANGED muteVars
      /\ Continue(x, pend[s], held) /\ flush.phase = "plain"
      /\ copies' = copies \/ copies' = [copies EXCEPT ![x.turn] = @ + 1]
      /\ told' \subseteq told \cup {x.turn}
      /\ UNCHANGED <<fin, keyBefore, ring, held, holds, batches, sentFiles, restarts, dropped,
                     forgot>>
  BY DEF HeldPlainLands, HeldPlainFails, heldVars, ringVars, lifeVars
<1>2. SentOn(x)
  <2>1. \/ flush' = [flush EXCEPT !.queue = @ \ {x}, !.phase = "rich"]
        \/ flush.queue = {x} /\ flush' = NoFlush
    BY <1>1 DEF Continue
  <2> QED BY <2>1, ContinueFacts
<1>3. /\ x \in flush.queue /\ flush'.queue = flush.queue \ {x}
      /\ flush'.sessions \subseteq flush.sessions
  <2>1. flush'.sessions \subseteq flush.sessions
    <3>1. \/ flush' = [flush EXCEPT !.queue = @ \ {x}, !.phase = "rich"]
          \/ flush' = NoFlush
      BY <1>1 DEF Continue
    <3> QED BY <3>1, SessionsGo
  <2> QED BY <1>2, <2>1 DEF SentOn, Current
<1>4. x \notin held /\ x.turn \in Turns
  BY <1>1, <1>3, EntryFacts DEF IInv, Spent, Current, FInv
<1>5. \A u \in Turns : copies'[u] = 0 => copies[u] = 0
  BY <1>1, <1>4 DEF IInv, Typed
<1>6. told' \subseteq Turns
  BY <1>1, <1>4 DEF FInv, Limits
<1>7. /\ Limits' /\ InTurn' /\ SameEntries' /\ ByAge' /\ LeftBehind' /\ KeyKept'
      /\ \A r : F(r) \subseteq G(r)
  <2>1. \A e \in flush.queue \ flush'.queue : e \notin held'
    BY <1>1, <1>3, <1>4
  <2>2. held' \subseteq held /\ flush'.queue \subseteq flush.queue /\ held \ held' = {}
    BY <1>1, <1>3
  <2> QED BY <1>1, <1>3, <1>5, <1>6, <2>1, <2>2, EntriesGo
<1>8. pend[s] \in Seq(G(s))
  <2>1. s \in Sessions
    BY DEF IInv, Typed, FlushType
  <2>2. pend[s] \in Seq(F(s)) /\ F(s) \subseteq G(s)
    BY <1>7, <2>1 DEF FInv, FilesKnown
  <2> HIDE DEF F, G
  <2> QED BY <2>2, SeqOfMore
<1>9. FilesKnown'
  <2>1. Continue(x, pend[s], held')
    BY <1>1
  <2> QED BY <1>7, <1>8, <2>1, ContinueFiles
<1> QED BY <1>7, <1>9 DEF FInv

\* The last attempt of an entry: none that is older has been left behind.
LEMMA HeldGivenUpFiles ==
  ASSUME IInv, FInv, IInv', NEW s \in flush.sessions, NEW x, Current(s, x), HeldGivenUp(s, x)
  PROVE  FInv'
<1> DEFINE F(r) == Fitting(r, held, flush.queue, holds, copies, Over)
           G(r) == Fitting(r, held', flush'.queue, holds', copies', Over')
           items == Resolved(pend[s], x.no, Prompt)
<1>1. /\ held' = Without(x) /\ flush' = [flush EXCEPT !.phase = "plain"]
      /\ x.attempts + 1 >= MaxAttempts
      /\ pend' = [pend EXCEPT ![s] = items] /\ chain' = chain
      /\ UNCHANGED <<muted, mutes, fin, copies, keyBefore, ring, holds, batches, sentFiles, told,
                     restarts, dropped, forgot>>
  BY DEF HeldGivenUp, muteVars, ringVars, lifeVars
<1>2. /\ x \in flush.queue /\ flush'.queue = flush.queue /\ flush'.sessions = flush.sessions
      /\ held' = {f \in held : f.no # x.no} /\ s \in Sessions
  BY <1>1 DEF Without, Current, IInv, Typed, FlushType
<1>3. /\ x.turn \in Turns /\ x.no \in Nat \ {0} /\ x.attempts \in 0 .. MaxAttempts - 1
      /\ \A e \in held : e.no \in Nat /\ e.attempts \in 0 .. MaxAttempts - 1
  BY <1>2, EntryFacts DEF FInv
<1>4. ASSUME NEW k \in held \ held', NEW e \in held', e.no <= k.no, Owner[e.turn] = Owner[k.turn]
      PROVE  FALSE
  <2>1. k = x
    BY <1>2, <1>4, CurrentOldest
  <2>2. e.no < x.no
    BY <1>2, <1>3, <1>4, <2>1
  <2>3. x.attempts < e.attempts
    BY <1>2, <1>4, <2>1, <2>2, CurrentOldest
  <2> QED BY <1>1, <1>2, <1>3, <2>3, BoundsAssumption
<1>5. /\ Limits' /\ InTurn' /\ SameEntries' /\ ByAge' /\ LeftBehind' /\ KeyKept'
      /\ \A r : F(r) \subseteq G(r)
  <2>1. told' \subseteq Turns /\ UNCHANGED muteVars
    BY <1>1 DEF FInv, Limits, muteVars
  <2>2. held' \subseteq held /\ flush'.queue \subseteq flush.queue
        /\ flush'.sessions \subseteq flush.sessions /\ flush.queue \ flush'.queue = {}
    BY <1>2
  <2> QED BY <1>1, <1>4, <2>1, <2>2, EntriesGo
<1>6. items \in Seq(G(s))
  <2>1. pend[s] \in Seq(F(s)) /\ F(s) \subseteq G(s)
    BY <1>2, <1>5 DEF FInv, FilesKnown
  <2>2. holds' \in Nat /\ \A e \in held' \cup flush'.queue : e.no # NoKey
    BY <1>5 DEF NoKey, IInv, Typed, Limits, HeldEntry
  <2>3. ASSUME NEW p \in F(s), p.key = x.no PROVE Freed(p, Prompt) \in G(s)
    <3>1. PICK entries, queue, n, sent, over :
            /\ entries = held' /\ queue = flush'.queue /\ n = holds' /\ sent = copies'
            /\ over = Over'
      OBVIOUS
    <3>2. p.key \notin Numbers(entries)
      BY <1>2, <2>3, <3>1 DEF Numbers
    <3>3. p \in Fitting(s, entries, queue, n, sent, over) /\ Prompt \in Turns \cup {Prompt}
      BY <2>1, <2>3, <3>1
    <3>4. Freed(p, Prompt) \in Fitting(s, entries, queue, n, sent, over)
      BY <2>2, <3>1, <3>2, <3>3, FreedFits
    <3> QED BY <3>1, <3>4
  <2> HIDE DEF F, G
  <2> QED BY <2>1, <2>3, ResolvedIn
<1>7. FilesKnown'
  <2> HIDE DEF items
  <2>1. G(s) \subseteq Item
    BY DEF Fitting
  <2> HIDE DEF F
  <2>2. \A r \in Sessions : pend[r] \in Seq(G(r)) /\ chain[r] \in Seq(Jobs(G(r)))
    <3> SUFFICES ASSUME NEW r \in Sessions
                 PROVE  pend[r] \in Seq(G(r)) /\ chain[r] \in Seq(Jobs(G(r)))
      OBVIOUS
    <3>1. pend[r] \in Seq(F(r)) /\ chain[r] \in Seq(Jobs(F(r))) /\ F(r) \subseteq G(r)
      BY <1>5 DEF FInv, FilesKnown, F
    <3> HIDE DEF G
    <3>2. Seq(F(r)) \subseteq Seq(G(r)) /\ Seq(Jobs(F(r))) \subseteq Seq(Jobs(G(r)))
      BY <3>1, SeqOfMore, JobsOfMore
    <3> QED BY <3>1, <3>2
  <2>3. items \in Seq(Item)
    <3> HIDE DEF G
    <3> QED BY <1>6, <2>1, SeqOfMore
  <2>4. pend' \in [Sessions -> Seq(Item)] /\ chain' \in [Sessions -> Seq(Jobs(Item))]
    BY <1>1, <2>3 DEF FInv, FilesKnown
  <2> HIDE DEF G
  <2> SUFFICES ASSUME NEW r \in Sessions
               PROVE  pend'[r] \in Seq(G(r)) /\ chain'[r] \in Seq(Jobs(G(r)))
    BY <2>4 DEF FilesKnown, G
  <2>5. pend'[r] = IF r = s THEN items ELSE pend[r]
    BY <1>1 DEF FInv, FilesKnown
  <2> QED BY <1>1, <1>6, <2>2, <2>5
<1> QED BY <1>5, <1>7 DEF FInv

\* A failure counts an attempt of the entry, if it is held still.
LEMMA HeldFailsFiles ==
  ASSUME IInv, FInv, IInv', NEW s \in flush.sessions, NEW x, Current(s, x), HeldFails(s, x)
  PROVE  FInv'
<1> DEFINE counted(f) == IF f.no = x.no THEN [f EXCEPT !.attempts = @ + 1] ELSE f
           F(r) == Fitting(r, held, flush.queue, holds, copies, Over)
           G(r) == Fitting(r, held', flush'.queue, holds', copies', Over')
<1>1. /\ UNCHANGED muteVars /\ x.attempts + 1 < MaxAttempts
      /\ held' = {counted(f) : f \in held} /\ Continue(x, pend[s], held')
      /\ UNCHANGED <<fin, copies, keyBefore, ring, holds, batches, sentFiles, told, restarts,
                     dropped, forgot>>
  BY DEF HeldFails, ringVars, lifeVars
<1>2. \/ flush' = [flush EXCEPT !.queue = @ \ {x}, !.phase = "rich"]
      \/ flush.queue = {x} /\ flush' = NoFlush
  BY <1>1 DEF Continue
<1>3. /\ x \in flush.queue /\ flush'.queue = flush.queue \ {x}
      /\ flush'.sessions \subseteq flush.sessions /\ s \in Sessions
  <2>1. SentOn(x)
    BY <1>2, ContinueFacts
  <2>2. flush'.sessions \subseteq flush.sessions
    BY <1>2, SessionsGo
  <2> QED BY <2>1, <2>2 DEF SentOn, Current, IInv, Typed, FlushType
<1>4. \A e \in held \cup flush.queue : /\ e \in HeldEntry /\ e.no \in Nat /\ e.attempts \in Nat
                                      /\ e.turn \in Turns
  BY EntryFacts DEF FInv
<1>5. \A f \in held : f.no = x.no => f = x
  BY <1>3, CurrentOldest
<1>6. \A f \in held :
        /\ counted(f).no = f.no /\ counted(f).turn = f.turn /\ counted(f).attempts \in Nat
        /\ counted(f).attempts = IF f.no = x.no THEN f.attempts + 1 ELSE f.attempts
        /\ f.no # x.no => counted(f) = f
        /\ counted(f) \in HeldEntry
  <2> SUFFICES ASSUME NEW f \in held
               PROVE  /\ counted(f).no = f.no /\ counted(f).turn = f.turn
                      /\ counted(f).attempts \in Nat
                      /\ counted(f).attempts = IF f.no = x.no THEN f.attempts + 1 ELSE f.attempts
                      /\ f.no # x.no => counted(f) = f
                      /\ counted(f) \in HeldEntry
    OBVIOUS
  <2>1. f \in HeldEntry /\ f.attempts \in Nat
    BY <1>4
  <2>2. CASE f.no = x.no
    <3>1. f.attempts + 1 \in 0 .. MaxAttempts - 1
      BY <1>1, <1>5, <2>1, <2>2, BoundsAssumption
    <3> QED BY <2>1, <2>2, <3>1 DEF HeldEntry
  <2>3. CASE f.no # x.no
    BY <2>1, <2>3
  <2> QED BY <2>2, <2>3
<1> HIDE DEF counted
<1>7. \A s2 \in Sessions : Numbers(Of(s2, held')) = Numbers(Of(s2, held))
  BY <1>1, <1>6 DEF Numbers, Of
<1>8. Limits'
  <2>1. IsFiniteSet(held) /\ Cardinality(held) <= Cap
    BY DEF FInv, Limits
  <2>2. IsFiniteSet(held') /\ Cardinality(held') <= Cardinality(held)
    <3>1. [f \in held |-> counted(f)] \in Surjection(held, held')
      BY <1>1 DEF Surjection
    <3> QED BY <2>1, <3>1, FS_Surjection
  <2>3. Cardinality(held') <= Cap
    <3>1. Cardinality(held') \in Nat /\ Cardinality(held) \in Nat /\ Cap \in Nat
      BY <2>1, <2>2, FS_CardinalityType, BoundsAssumption
    <3> QED BY <2>1, <2>2, <3>1
  <2>4. held' \cup flush'.queue \subseteq HeldEntry
    BY <1>1, <1>3, <1>4, <1>6
  <2>5. muted' \in BOOLEAN /\ mutes' \in 0 .. MaxMutes
    BY <1>1, MuteFacts DEF FInv
  <2> QED BY <1>1, <1>3, <2>2, <2>3, <2>4, <2>5 DEF FInv, Limits
<1>9. InTurn'
  BY <1>1 DEF FInv, InTurn, Running
<1>10. SameEntries'
  <2> SUFFICES ASSUME NEW e \in held, NEW f \in flush.queue, f # x, e.no = f.no
               PROVE  counted(e) = f
    BY <1>1, <1>3, <1>6 DEF SameEntries
  <2>1. e = f
    BY DEF FInv, SameEntries
  <2>2. e.no # x.no
    BY <1>3, <2>1 DEF IInv, Numbered
  <2> QED BY <1>6, <2>1, <2>2
<1>11. ByAge'
  <2> SUFFICES ASSUME NEW e \in held, NEW f \in held, e.no < f.no, Owner[e.turn] = Owner[f.turn]
               PROVE  e.turn <= f.turn /\ counted(f).attempts <= counted(e).attempts
    BY <1>1, <1>6 DEF ByAge
  <2>1. e.turn <= f.turn /\ f.attempts <= e.attempts
    BY DEF FInv, ByAge
  <2>2. CASE f.no = x.no
    <3>1. x.attempts < e.attempts /\ f = x
      BY <1>3, <1>5, <2>2, CurrentOldest
    <3>2. e.no # x.no
      BY <1>4, <2>2
    <3> QED BY <1>4, <1>6, <2>1, <2>2, <3>1, <3>2
  <2>3. CASE f.no # x.no
    BY <1>4, <1>6, <2>1, <2>3
  <2> QED BY <2>2, <2>3
<1>12. LeftBehind'
  <2> SUFFICES ASSUME NEW e \in held, NEW f \in flush.queue, f # x, e.no < f.no,
                      Owner[e.turn] = Owner[f.turn]
               PROVE  /\ f.attempts <= counted(e).attempts
                      /\ \/ counted(e) \in flush.queue /\ counted(e) # x
                         \/ f.attempts < counted(e).attempts
    BY <1>1, <1>3, <1>6 DEF LeftBehind
  <2>1. f.attempts <= e.attempts /\ (e \in flush.queue \/ f.attempts < e.attempts)
    BY DEF FInv, LeftBehind
  <2>2. CASE e.no = x.no
    BY <1>4, <1>6, <2>1, <2>2
  <2>3. CASE e.no # x.no
    BY <1>6, <2>1, <2>3
  <2> QED BY <2>2, <2>3
<1>13. KeyKept'
  <2> SUFFICES ASSUME NEW u \in Turns, Running(u), NEW e \in held, Owner[e.turn] = Owner[u]
               PROVE  /\ e.turn = u => keyBefore[u] < e.no
                      /\ e.turn # u =>
                           \/ counted(e).attempts > 0
                           \/ /\ e.no <= keyBefore[u]
                              /\ keyBefore[u] \in Numbers(Of(Owner[u], held'))
    BY <1>1, <1>6 DEF KeyKept, Running
  <2>1. Owner[u] \in Sessions
    BY OwnerAssumption
  <2>2. /\ e.turn = u => keyBefore[u] < e.no
        /\ e.turn # u => \/ e.attempts > 0
                         \/ e.no <= keyBefore[u] /\ keyBefore[u] \in Numbers(Of(Owner[u], held))
    BY DEF FInv, KeyKept
  <2>3. e.attempts > 0 => counted(e).attempts > 0
    BY <1>4, <1>6
  <2> QED BY <1>7, <2>1, <2>2, <2>3
<1>14. \A r : F(r) \subseteq G(r)
  <2>1. Over' = Over /\ holds' = holds /\ holds \in Nat /\ copies' = copies
    BY <1>1 DEF Over, IInv, Typed
  <2>2. PICK entries, queue : entries = held' /\ queue = flush'.queue
    OBVIOUS
  <2>3. /\ \A e \in entries \cup queue :
             \E f \in held \cup flush.queue : f.no = e.no /\ f.turn = e.turn
        /\ \A e \in entries : \E f \in held : /\ f.no = e.no /\ f.turn = e.turn
                                              /\ f.attempts > 0 => e.attempts > 0
    <3>1. \A f \in held : f.attempts > 0 => counted(f).attempts > 0
      BY <1>4, <1>6
    <3> QED BY <1>1, <1>3, <1>6, <2>2, <3>1
  <2>4. \A k \in held : k.no \in Numbers(entries)
    BY <1>1, <1>6, <2>2 DEF Numbers
  <2> SUFFICES ASSUME NEW r
               PROVE  Fitting(r, held, flush.queue, holds, copies, Over)
                        \subseteq Fitting(r, entries, queue, holds, copies, Over)
    BY <2>1, <2>2
  <2> QED BY <2>1, <2>3, <2>4, FittingKept
<1>15. FilesKnown'
  <2>1. pend[s] \in Seq(F(s)) /\ F(s) \subseteq G(s)
    BY <1>3, <1>14 DEF FInv, FilesKnown
  <2>2. pend[s] \in Seq(G(s))
    <3> HIDE DEF F, G
    <3> QED BY <2>1, SeqOfMore
  <2> QED BY <1>1, <1>8, <1>14, <2>2, ContinueFiles
<1> QED BY <1>8, <1>9, <1>10, <1>11, <1>12, <1>13, <1>15 DEF FInv

(* The daemon's own steps. *)

\* Mutes that come and go, and the registry's save.
LEMMA QuietFiles == ASSUME IInv, FInv, MuteStarts \/ MuteLifts \/ Save \/ UNCHANGED vars PROVE FInv'
<1>1. UNCHANGED <<fin, keyBefore, ring, held, holds, flush, batches, pend, chain, sentFiles,
                  copies, told, restarts, dropped, forgot>>
  BY DEF MuteStarts, MuteLifts, Save, vars, ringVars, heldVars, fileVars, lifeVars
<1>2. muted' \in BOOLEAN /\ mutes' \in 0 .. MaxMutes
  <2>1. CASE MuteStarts
    BY <2>1, MuteFacts DEF MuteStarts, Refused, FInv
  <2>2. CASE MuteLifts
    BY <2>2 DEF MuteLifts, FInv, Limits
  <2>3. CASE Save \/ UNCHANGED vars
    BY <2>3 DEF Save, vars, muteVars, FInv, Limits
  <2> QED BY <2>1, <2>2, <2>3
<1>3. Limits'
  BY <1>1, <1>2 DEF FInv, Limits
<1>4. InTurn' /\ ByAge' /\ KeyKept' /\ SameEntries' /\ LeftBehind'
  BY <1>1 DEF FInv, InTurn, ByAge, KeyKept, SameEntries, LeftBehind, Running
<1>5. FilesKnown'
  <2>1. Over' = Over
    BY <1>1 DEF Over
  <2> QED BY <1>1, <2>1, ListsKept
<1> QED BY <1>3, <1>4, <1>5 DEF FInv

LEMMA RestartFiles == ASSUME IInv, FInv, Restart PROVE FInv'
<1>1. /\ restarts < MaxRestarts /\ restarts' = restarts + 1
      /\ fin' = [t \in Turns |-> IF fin[t] = "none" THEN "none" ELSE "done"]
      /\ keyBefore' = [t \in Turns |-> NoKey]
      /\ held' = {} /\ holds' = 0 /\ flush' = NoFlush /\ batches' = {}
      /\ pend' = [s \in Sessions |-> <<>>] /\ chain' = [s \in Sessions |-> <<>>]
      /\ UNCHANGED <<muted, mutes, told, sentFiles>>
  BY DEF Restart, muteVars
<1>2. flush'.queue = {} /\ flush'.sessions = {}
  BY <1>1 DEF NoFlush
<1>3. Limits'
  <2>1. dropped' \subseteq Turns /\ forgot' \subseteq Turns
    <3>1. PICK file \in {confirmed, saved}, landed \in SUBSET Out :
            /\ forgot' = forgot \cup landed \cup (confirmed \ file)
            /\ dropped' = dropped \cup {t \in Turns : InHand(t)}
      BY DEF Restart
    <3>2. Out \subseteq Turns
      BY DEF Out, IInv, Typed, FlushType, Record
    <3> QED BY <3>1, <3>2 DEF IInv, Typed, FInv, Limits
  <2>2. IsFiniteSet(held') /\ Cardinality(held') <= Cap
    BY <1>1, FS_EmptySet, BoundsAssumption
  <2>3. restarts' \in 0 .. MaxRestarts
    BY <1>1, BoundsAssumption DEF FInv, Limits
  <2>4. keyBefore' \in [Turns -> 0 .. holds']
    BY <1>1 DEF NoKey
  <2> QED BY <1>1, <1>2, <2>1, <2>2, <2>3, <2>4 DEF FInv, Limits
<1>4. InTurn'
  BY <1>1 DEF FInv, InTurn, Running
<1>5. ByAge' /\ SameEntries' /\ LeftBehind' /\ KeyKept'
  BY <1>1 DEF ByAge, SameEntries, LeftBehind, KeyKept
<1>6. FilesKnown'
  BY <1>1 DEF FilesKnown
<1> QED BY <1>3, <1>4, <1>5, <1>6 DEF FInv

-----------------------------------------------------------------------------
LEMMA InitFInv == Init => FInv
<1> SUFFICES ASSUME Init PROVE FInv
  OBVIOUS
<1>1. Limits
  <2>1. IsFiniteSet(held) /\ Cardinality(held) <= Cap
    BY FS_EmptySet, BoundsAssumption DEF Init
  <2>2. mutes \in 0 .. MaxMutes /\ restarts \in 0 .. MaxRestarts /\ muted \in BOOLEAN
    <3>1. \A n \in Nat : 0 \in 0 .. n
      OBVIOUS
    <3>2. mutes = 0 /\ restarts = 0 /\ muted = FALSE
      BY DEF Init
    <3> QED BY <3>1, <3>2, BoundsAssumption
  <2>3. keyBefore \in [Turns -> 0 .. holds]
    BY DEF Init, NoKey
  <2>4. flush.sessions = {} /\ flush.queue = {}
    BY DEF Init, NoFlush
  <2> QED BY <2>1, <2>2, <2>3, <2>4 DEF Init, Limits
<1>2. InTurn /\ ByAge /\ SameEntries /\ LeftBehind /\ KeyKept
  BY DEF Init, InTurn, ByAge, SameEntries, LeftBehind, KeyKept, Running, NoFlush
<1>3. FilesKnown
  BY DEF Init, FilesKnown
<1> QED BY <1>1, <1>2, <1>3 DEF FInv

LEMMA NextFInv == ASSUME IInv, FInv, [Next]_vars PROVE FInv'
<1>1. IInv'
  BY NextIInv
<1>2. CASE MuteStarts \/ MuteLifts \/ Save \/ UNCHANGED vars
  BY <1>2, QuietFiles
<1>3. CASE Expire
  BY <1>3, ExpireFiles
<1>4. CASE Restart
  BY <1>4, RestartFiles
<1>5. CASE Flush
  <2>1. CASE HeldRefused
    BY <2>1, HeldRefusedFiles
  <2>2. ASSUME NEW s \in flush.sessions, NEW e \in flush.queue, Oldest(e, flush.queue),
               \/ HeldLands(s, e) \/ HeldFails(s, e) \/ HeldGivenUp(s, e)
               \/ HeldPlainLands(s, e) \/ HeldPlainFails(s, e)
        PROVE  FInv'
    <3>1. Current(s, e)
      BY <2>2 DEF Current
    <3> QED BY <1>1, <2>2, <3>1, HeldLandsFiles, HeldFailsFiles, HeldGivenUpFiles, PlainFiles
  <2> QED BY <1>5, <2>1, <2>2 DEF Flush
<1>6. ASSUME NEW t \in Turns, EndTurn(t) \/ IdleAgain(t) PROVE FInv'
  BY <1>6, FinishBegins
<1>7. ASSUME NEW t \in Turns, Finish(t) PROVE FInv'
  BY <1>7, FinishStep, HeldByFinishFiles, DeliverFilesStep DEF Finish
<1>8. ASSUME NEW s \in Sessions, StartFlush(s) \/ FlushFiles(s) \/ Deliver(s) PROVE FInv'
  BY <1>8, StartFlushFiles, FlushFilesStep, RunOwnStep, FilesSentStep, FilesRefusedStep
     DEF Deliver
<1> QED BY <1>2, <1>3, <1>4, <1>5, <1>6, <1>7, <1>8 DEF Next

\* Both invariants hold of every behaviour.
THEOREM FilesInvariance == Spec => [](IInv /\ FInv)
<1>1. Init => IInv /\ FInv
  BY InitIInv, InitFInv
<1>2. IInv /\ FInv /\ [Next]_vars => (IInv /\ FInv)'
  BY NextIInv, NextFInv
<1> QED BY <1>1, <1>2, PTL DEF Spec

\* What a session has waiting is what it may have.
LEMMA WaitingFits ==
  ASSUME IInv, FInv, NEW s \in Sessions, NEW p \in Waiting(s)
  PROVE  p \in Fitting(s, held, flush.queue, holds, copies, Over)
<1> DEFINE F == Fitting(s, held, flush.queue, holds, copies, Over)
<1>1. pend[s] \in Seq(F) /\ chain[s] \in Seq(Jobs(F))
  BY DEF FInv, FilesKnown
<1> HIDE DEF F
<1>2. CASE p \in ToSet(pend[s])
  BY <1>1, <1>2 DEF ToSet, F
<1>3. CASE p \in Tasked(s)
  <2>1. PICK i \in DOMAIN chain[s] : p \in ToSet(chain[s][i].items)
    BY <1>3 DEF Tasked
  <2>2. chain[s][i] \in Jobs(F)
    BY <1>1
  <2>3. PICK items \in Seq(F) : items = chain[s][i].items
    BY <2>2 DEF Jobs
  <2>4. p \in F
    BY <2>1, <2>3 DEF ToSet
  <2> QED BY <2>4 DEF F
<1> QED BY <1>2, <1>3 DEF Waiting

\* The delivery's state keeps its types, the buffer its cap, and a number names
\* one entry, whatever is held, refused, given up or restarted.
THEOREM TypeCorrect == Spec => []TypeOK
<1>1. IInv /\ FInv => TypeOK
  <2> SUFFICES ASSUME IInv, FInv PROVE TypeOK
    OBVIOUS
  <2>1. chain \in [Sessions -> Seq([kind : {"own", "due"}, items : Seq(Item) \ {<<>>}])]
    <3>1. Jobs(Item) \subseteq [kind : {"own", "due"}, items : Seq(Item) \ {<<>>}]
      BY DEF Jobs
    <3>2. Seq(Jobs(Item)) \subseteq Seq([kind : {"own", "due"}, items : Seq(Item) \ {<<>>}])
      BY <3>1, SeqOfMore
    <3> QED BY <3>2 DEF FInv, FilesKnown
  <2>2. \A e, f \in held : e.no <= holds /\ (e.no = f.no => e = f)
    BY DEF IInv, Numbered
  <2>3. pend \in [Sessions -> Seq(Item)]
    BY DEF FInv, FilesKnown
  <2>4. /\ fin \in [Turns -> Phases] /\ copies \in [Turns -> Nat]
        /\ confirmed \subseteq ring /\ ring \subseteq Turns /\ saved \subseteq ring
        /\ flush.sessions \subseteq Sessions /\ flush.phase \in {"idle", "rich", "plain"}
    BY DEF IInv, Typed, FlushType
  <2>5. /\ muted \in BOOLEAN /\ mutes \in 0 .. MaxMutes /\ restarts \in 0 .. MaxRestarts
        /\ held \subseteq HeldEntry /\ Cardinality(held) <= Cap /\ flush.queue \subseteq HeldEntry
        /\ keyBefore \in [Turns -> 0 .. holds] /\ batches \subseteq FileTurns
        /\ told \subseteq Turns /\ sentFiles \subseteq FileTurns
        /\ dropped \subseteq Turns /\ forgot \subseteq Turns
    BY DEF FInv, Limits
  <2> QED BY <2>1, <2>2, <2>3, <2>4, <2>5 DEF TypeOK
<1> QED BY <1>1, FilesInvariance, PTL

\* Files wait for the answer of their own turn, or for an older one of their
\* session whose rich send failed; they hang under no other session's answer.
THEOREM FilesWait == Spec => []FilesWaitForOwn
<1>1. IInv /\ FInv => FilesWaitForOwn
  <2> SUFFICES ASSUME IInv, FInv, NEW s \in Sessions, NEW p \in Waiting(s)
               PROVE  /\ \A e \in held : e.no = p.key =>
                           /\ Owner[e.turn] = s /\ e.turn <= p.turn
                           /\ e.turn < p.turn => e.attempts > 0
                      /\ p.anchor # Prompt => Owner[p.anchor] = s /\ p.anchor <= p.turn
    BY DEF FilesWaitForOwn
  <2>1. p \in Fitting(s, held, flush.queue, holds, copies, Over)
    BY WaitingFits
  <2> QED BY <2>1 DEF Fitting
<1> QED BY <1>1, FilesInvariance, PTL

\* A flush sends a session's answers oldest first, but past those that failed.
THEOREM LateAnswersInOrder == Spec => LateInOrder
<1>1. ASSUME IInv, FInv, [Next]_vars, NEW e \in held, NEW f \in held, e.no < f.no,
             Owner[e.turn] = Owner[f.turn], restarts' = restarts,
             f.no \notin Numbers(held'), copies'[f.turn] > copies[f.turn]
      PROVE  e.attempts > 0
  <2>1. copies[f.turn] \in Nat /\ e.attempts \in Nat
    BY <1>1, EntryFacts DEF IInv, Typed, FInv
  <2>2. ~UNCHANGED copies
    BY <1>1, <2>1
  <2>3. held' # held
    BY <1>1 DEF Numbers
  <2>4. ~Restart
    <3>1. restarts \in Nat
      BY <1>1 DEF FInv, Limits
    <3> QED BY <1>1, <3>1 DEF Restart
  <2>5. PICK s \in flush.sessions, x \in flush.queue : Oldest(x, flush.queue) /\ HeldLands(s, x)
    BY <1>1, <2>2, <2>3, <2>4
       DEF Next, vars, MuteStarts, MuteLifts, Expire, Save, Flush, HeldRefused, HeldFails,
           HeldGivenUp, HeldPlainLands, HeldPlainFails, EndTurn, IdleAgain, Finish, AnswerLands,
           MergeHeld, FallsBack, AnswerHeld, AnswerLost, DeliverTurnFiles, StartFlush, FlushFiles,
           Deliver, RunOwn, FilesSent, FilesRefused, heldVars
  <2>6. Current(s, x) /\ held' = Without(x)
    BY <2>5 DEF Current, HeldLands
  <2>7. f.no = x.no
    BY <1>1, <2>6 DEF Numbers, Without
  <2>8. f = x
    BY <1>1, <2>6, <2>7, CurrentOldest
  <2>9. x.attempts < e.attempts /\ x.attempts \in Nat
    BY <1>1, <2>6, <2>8, CurrentOldest, EntryFacts DEF FInv
  <2> QED BY <2>1, <2>9
<1>2. IInv /\ FInv /\ [Next]_vars =>
        [\A e, f \in held :
           /\ e.no < f.no /\ Owner[e.turn] = Owner[f.turn]
           /\ restarts' = restarts
           /\ f.no \notin Numbers(held') /\ copies'[f.turn] > copies[f.turn]
           => e.attempts > 0]_vars
  BY <1>1
<1> QED BY <1>2, FilesInvariance, PTL DEF Spec, LateInOrder

\* Files go to the chat after the answer of their turn, or when it is in the
\* buffer no more.
THEOREM FilesComeAfter == Spec => FilesAfterAnswer
<1>1. ASSUME IInv, FInv, [Next]_vars, NEW t \in sentFiles' \ sentFiles
      PROVE  copies[t] > 0 \/ (fin[t] \notin Sendings /\ \A e \in held : e.turn # t)
  <2>1. PICK s \in Sessions : FilesSent(s)
    BY <1>1
       DEF Next, vars, MuteStarts, MuteLifts, Expire, Save, Restart, Flush, HeldRefused, HeldLands,
           HeldFails, HeldGivenUp, HeldPlainLands, HeldPlainFails, EndTurn, IdleAgain, Finish,
           AnswerLands, MergeHeld, FallsBack, AnswerHeld, AnswerLost, DeliverTurnFiles, StartFlush,
           FlushFiles, Deliver, RunOwn, FilesRefused, fileVars
  <2> DEFINE F == Fitting(s, held, flush.queue, holds, copies, Over)
  <2>2. /\ chain[s] # <<>> /\ Head(chain[s]).kind = "due"
        /\ sentFiles' = sentFiles \cup {Head(Head(chain[s]).items).turn}
    BY <2>1 DEF FilesSent
  <2>3. chain[s] \in Seq(Jobs(F))
    BY <1>1 DEF FInv, FilesKnown
  <2> HIDE DEF F
  <2>4. PICK j \in Jobs(F) : j = Head(chain[s])
    BY <2>2, <2>3
  <2>5. PICK items \in Seq(F) : items = j.items /\ items # <<>>
    BY DEF Jobs
  <2>6. Head(items) = items[1] /\ 1 \in DOMAIN items /\ items[1] \in F
    BY <2>5
  <2>7. items[1].key = NoKey
    BY <2>2, <2>4, <2>5, <2>6 DEF Jobs
  <2>8. t = items[1].turn
    BY <1>1, <2>2, <2>4, <2>5, <2>6
  <2>9. /\ t \in Over
        /\ copies[t] = 0 => \A e \in held : e.turn = t => e.no <= NoKey
    BY <2>6, <2>7, <2>8 DEF Fitting, F
  <2>10. \A e \in held : e.no \in Nat \ {0}
    BY <1>1, EntryFacts DEF FInv
  <2>11. fin[t] = "done" /\ copies[t] \in Nat
    BY <1>1, <2>9 DEF Over, IInv, Typed
  <2> QED BY <2>9, <2>10, <2>11 DEF NoKey, Sendings
<1>2. IInv /\ FInv /\ [Next]_vars =>
        [\A t \in sentFiles' \ sentFiles :
           \/ copies[t] > 0
           \/ fin[t] \notin Sendings /\ \A e \in held : e.turn # t]_vars
  BY <1>1
<1> QED BY <1>2, FilesInvariance, PTL DEF Spec, FilesAfterAnswer

=============================================================================
