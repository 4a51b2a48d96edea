--------------------------- MODULE TerminalWriter ---------------------------
(***************************************************************************)
(* The writers of one session's terminal (aipager/dtach/inject.py).        *)
(* Prompts, the send-now chord, /clearqueue's wipe and Stop's keys run     *)
(* concurrently in the daemon's event loop.  Each writes its bytes one     *)
(* dtach -p process at a time under the session's FIFO lock, one or more   *)
(* holds per writer.                                                       *)
(*                                                                         *)
(* The other side is external: Claude Code's input box, its queue of       *)
(* messages sent mid-turn, its pending Ctrl+X and its dialogs.  What a key *)
(* does there is taken from the comments of inject.py that record it.      *)
(* Time is left out: a look at the typing gate and the write after it are  *)
(* one step, which module TypingGate shows the gate earns; the wait for a  *)
(* chord in flight is bounded, so it may end at any moment.                *)
(***************************************************************************)
EXTENDS Naturals, Sequences

CONSTANTS
  Prompts,        \* send_text_and_enter calls; each is also its message
  Chords,         \* send-now presses
  Clears,         \* /clearqueue: one discard_queued_input
  Stops,          \* Stop: Escape, Escape, then a discard if a queue was seen
  Pieces,         \* pieces a prompt is typed in
  MinPresses,     \* DISCARD_MIN_PRESSES, in pieces of text
  MaxPresses,     \* DISCARD_MAX_PRESSES
  Batch,          \* DISCARD_KILL_BATCH
  Faults,         \* how a write may fail: "fail", "timeout"
  Kills           \* what kill_session may meet: "dies", "survives"

Writers == Prompts \cup Chords \cup Clears \cup Stops

ASSUME RolesApart ==
  /\ Prompts \cap (Chords \cup Clears \cup Stops) = {}
  /\ Chords \cap (Clears \cup Stops) = {}
  /\ Clears \cap Stops = {}

ASSUME Sizes ==
  /\ Pieces \in Nat \ {0}
  /\ Batch \in Nat \ {0}
  /\ MinPresses \in Nat \ {0}
  /\ MaxPresses \in Nat \ {0}
  /\ MinPresses <= MaxPresses
  /\ Faults \subseteq {"fail", "timeout"}
  /\ Kills \subseteq {"dies", "survives"}

VARIABLES
  term,         \* Claude Code's side of the terminal
  pendingWipe,  \* _PENDING_WIPE: text a stopped prompt left in the box
  job,          \* the lock holds a writer still has to do
  phase,        \* where it is in the first of them
  left,         \* the writes its hold still has to make
  chars,        \* what the caller counted in Claude's queue
  outcome,      \* what the writer returned
  lockQueue,    \* the write lock's holder and waiters, in order
  inFlight,     \* _CHORD_IN_FLIGHT: the chord being written
  broken,       \* chords after whose Ctrl+X another write was counted
  strays,       \* writes that timed out, their dtach -p still running
  parked,       \* is the session parked on a background job?
  upset,        \* history: text may be in the box that nobody accounts for
  doubts        \* history: the messages typed or submitted meanwhile

history == <<upset, doubts>>
vars == <<term, pendingWipe, job, phase, left, chars, outcome, lockQueue,
          inFlight, broken, strays, parked, history>>

(* -------------------------------- writes ------------------------------- *)

Unit == Prompts \X (1..Pieces)
Text(p) == [i \in 1..Pieces |-> <<p, i>>]

Key(k) == [key |-> k, unit |-> <<>>]
Piece(p, i) == [key |-> "text", unit |-> <<p, i>>]
Write == {Key(k) : k \in {"Enter", "Escape", "KillLine", "CtrlX", "CtrlS"}}
           \cup {Piece(p, i) : p \in Prompts, i \in 1..Pieces}

Fewest(m, n) == IF m <= n THEN m ELSE n

(* Ctrl+U writes that wipe n pieces and the margin, in whole batches.      *)
WipeWrites(n) ==
  (Fewest(MaxPresses, MinPresses + n) + Batch - 1) \div Batch

Wipe(n) == [i \in 1..WipeWrites(n) |-> Key("KillLine")]

Prompt(p) == [i \in 1..(Pieces + 1) |->
               IF i <= Pieces THEN Piece(p, i) ELSE Key("Enter")]

(* ---------------------------- Claude's side ---------------------------- *)

Terminal == [box : Seq(Unit), queue : Seq(Unit), prefix : BOOLEAN,
             dialog : BOOLEAN, alive : BOOLEAN,
             submitted : SUBSET Seq(Unit), stashed : BOOLEAN]

FreshTerminal == [box |-> <<>>, queue |-> <<>>, prefix |-> FALSE,
                  dialog |-> FALSE, alive |-> TRUE,
                  submitted |-> {}, stashed |-> FALSE]

Submit(t) == IF t.box = <<>> THEN t.submitted ELSE t.submitted \cup {t.box}

(* What the terminal may be after it reads one write.  Any key ends a      *)
(* pending Ctrl+X; a dialog takes every key, Escape closing it.  An Enter  *)
(* mid-turn queues the box, an Escape moves the queue into it, Ctrl+S      *)
(* sends everything after a Ctrl+X and stashes the box otherwise.  A batch *)
(* of Ctrl+U takes at least a unit per press, at most all there is.        *)
Landed(t, w) ==
  LET u == [t EXCEPT !.prefix = FALSE] IN
  CASE t.dialog -> {[u EXCEPT !.dialog = (w.key # "Escape")]}
    [] ~t.dialog /\ w.key = "text" -> {[u EXCEPT !.box = Append(@, w.unit)]}
    [] ~t.dialog /\ w.key = "Enter" ->
         {[u EXCEPT !.queue = @ \o t.box, !.box = <<>>, !.submitted = Submit(t)]}
    [] ~t.dialog /\ w.key = "Escape" ->
         {[u EXCEPT !.box = t.queue \o @, !.queue = <<>>]}
    [] ~t.dialog /\ w.key = "KillLine" ->
         {[u EXCEPT !.box = SubSeq(@, 1, k)] :
            k \in {n \in 0..Len(t.box) : n = 0 \/ n + Batch <= Len(t.box)}}
    [] ~t.dialog /\ w.key = "CtrlX" -> {[u EXCEPT !.prefix = TRUE]}
    [] ~t.dialog /\ w.key = "CtrlS" /\ t.prefix ->
         {[u EXCEPT !.queue = <<>>, !.box = <<>>, !.submitted = Submit(t)]}
    [] ~t.dialog /\ w.key = "CtrlS" /\ ~t.prefix ->
         {[u EXCEPT !.box = <<>>, !.stashed = TRUE]}

(* ------------------------------- helpers ------------------------------- *)

Op(w) == Head(job[w])
Gated(w) == w \in Prompts
HasLock(w) == lockQueue # <<>> /\ Head(lockQueue) = w
Wiping(w) == /\ phase[w] = "hold"
             /\ \E i \in 1..Len(left[w]) : left[w][i].key = "KillLine"

(* Mutant of HoldWrites: a prompt types without wiping first.              *)
HoldWritesUnwiped(w) ==
  CASE Op(w) = "prompt" -> Prompt(w)
    [] Op(w) = "discard" -> <<Key("Escape")>> \o Wipe(chars[w])
    [] Op(w) \in {"Escape", "CtrlX", "CtrlS"} -> <<Key(Op(w))>>

(* The hold's writes, once the lock is taken.                              *)
HoldWrites(w) ==
  CASE Op(w) = "prompt" ->
         (IF pendingWipe > 0 THEN Wipe(pendingWipe) ELSE <<>>) \o Prompt(w)
    [] Op(w) = "discard" -> <<Key("Escape")>> \o Wipe(chars[w])
    [] Op(w) \in {"Escape", "CtrlX", "CtrlS"} -> <<Key(Op(w))>>

(* Mutant of Typed: the Enter still to come is forgotten.                  *)
TypedOffByOne(w) == Pieces - Len(left[w])

(* Pieces already in the box: left holds the others and the Enter.         *)
Typed(w) == Pieces + 1 - Len(left[w])

(* _note_write: every chord's mark but the writer's own is out of date.    *)
NoteWrite(w) == broken' = (broken \cup Chords) \ {w}

(* A lock hold returned.  Only a Ctrl+X that failed, or a failed last      *)
(* hold, ends the writer early: Stop goes on past its Escapes.  Leaving    *)
(* takes the lock along, and the chord flag with the chord.                *)
EndOp(w, result) ==
  LET rest == IF result = "ok" \/ Op(w) = "Escape" THEN Tail(job[w]) ELSE <<>>
  IN /\ job' = [job EXCEPT ![w] = rest]
     /\ phase' = [phase EXCEPT ![w] = IF rest = <<>> THEN "done" ELSE "ready"]
     /\ outcome' = [outcome EXCEPT ![w] = result]
     /\ left' = [left EXCEPT ![w] = <<>>]
     /\ lockQueue' = IF HasLock(w) THEN Tail(lockQueue) ELSE lockQueue
     /\ inFlight' = IF rest = <<>> THEN inFlight \ {w} ELSE inFlight

(* ------------------------------ the history ---------------------------- *)

MidChord(c) == job[c] = <<"CtrlS">>

(* Whatever went wrong, it is over: the box is empty, nobody writes, and   *)
(* no write is still to come that was given up or that counts on an        *)
(* earlier one.                                                            *)
Settled ==
  /\ term.box = <<>> /\ strays = {}
  /\ \A w \in Writers : phase[w] # "hold"
  /\ \A c \in Chords : ~MidChord(c)

(* A step takes place, one that loses track of text in the box or not.     *)
Recall(loses) ==
  /\ upset' = ((loses \/ upset) /\ ~Settled')
  /\ doubts' = IF upset
       THEN doubts \cup (term'.submitted \ term.submitted)
                   \cup {Text(p) : p \in {q \in Prompts : phase[q] = "hold"}}
       ELSE doubts

(* Less is wiped than there is to wipe: more Ctrl+U than MaxPresses would  *)
(* be needed, or the queue has grown since it was counted.                 *)
WipesShort(w) ==
  \/ /\ Op(w) = "prompt" /\ pendingWipe > 0
     /\ Batch * WipeWrites(pendingWipe) < Len(term.box)
  \/ /\ Op(w) = "discard"
     /\ Batch * WipeWrites(chars[w]) < Len(term.queue) + Len(term.box)

(* A Stop's Escape moves the queue into the box, for its discard to wipe   *)
(* in a later hold, if it still has one.                                   *)
Surfaces(w) == Op(w) = "Escape" /\ ~term.dialog /\ term.queue # <<>>

(* What a failed write leaves in the box: pieces typed, or a queue moved.  *)
LeavesText(w) ==
  \/ Op(w) = "prompt" /\ Len(left[w]) <= Pieces
  \/ Op(w) = "discard" /\ Head(left[w]).key = "KillLine"

Init ==
  /\ term = FreshTerminal
  /\ pendingWipe = 0
  /\ job = [w \in Writers |->
              CASE w \in Prompts -> <<"prompt">>
                [] w \in Chords  -> <<"CtrlX", "CtrlS">>
                [] w \in Clears  -> <<"discard">>
                [] w \in Stops   -> <<"Escape", "Escape", "discard">>]
  /\ phase = [w \in Writers |-> "idle"]
  /\ left = [w \in Writers |-> <<>>]
  /\ chars = [w \in Writers |-> 0]
  /\ outcome = [w \in Writers |-> "none"]
  /\ lockQueue = <<>>
  /\ inFlight = {}
  /\ broken = {}
  /\ strays = {}
  /\ parked = FALSE
  /\ upset = FALSE /\ doubts = {}

(* ------------------------------ the callers ---------------------------- *)

(* _inject_prompt calls send_text_and_enter (prompt_injecting raised).     *)
StartPrompt(p) ==
  /\ phase[p] = "idle"
  /\ phase' = [phase EXCEPT ![p] = "ready"]
  /\ UNCHANGED <<term, pendingWipe, job, left, chars, outcome, lockQueue,
                 inFlight, broken, strays, parked>>
  /\ Recall(FALSE)

(* /clearqueue runs its wipe only for a queue the transcript shows.        *)
StartClear(d) ==
  /\ phase[d] = "idle"
  /\ term.queue # <<>>
  /\ phase' = [phase EXCEPT ![d] = "ready"]
  /\ chars' = [chars EXCEPT ![d] = Len(term.queue)]
  /\ UNCHANGED <<term, pendingWipe, job, left, outcome, lockQueue,
                 inFlight, broken, strays, parked>>
  /\ Recall(FALSE)

(* Stop reads the queue once, before its Escapes.                          *)
StartStop(s) ==
  /\ phase[s] = "idle"
  /\ phase' = [phase EXCEPT ![s] = "ready"]
  /\ chars' = [chars EXCEPT ![s] = Len(term.queue)]
  /\ job' = [job EXCEPT ![s] = IF term.queue = <<>> THEN SubSeq(@, 1, 2) ELSE @]
  /\ UNCHANGED <<term, pendingWipe, left, outcome, lockQueue, inFlight,
                 broken, strays, parked>>
  /\ Recall(FALSE)

(* prompt_injecting: prompts between their start and their return.         *)
Injecting == {p \in Prompts : phase[p] \notin {"idle", "done"}}

(* Mutant of ChordRefused: text owed a wipe does not refuse the chord.     *)
ChordRefusedUnlessWipe ==
  \/ parked
  \/ term.dialog
  \/ Injecting # {}
  \/ inFlight # {}

(* What _send_now_core and send_now refuse before their first await.       *)
ChordRefused ==
  \/ parked
  \/ term.dialog
  \/ Injecting # {}
  \/ inFlight # {}
  \/ pendingWipe > 0

(* A chord that starts is in flight at once, and first in line for the     *)
(* lock with no await in between.  The transcript's evidence of a queue    *)
(* may be old, so it is no guard here.                                     *)
StartChord(c) ==
  /\ phase[c] = "idle"
  /\ ~ChordRefused
  /\ inFlight' = inFlight \cup {c}
  /\ phase' = [phase EXCEPT ![c] = "queued"]
  /\ lockQueue' = Append(lockQueue, c)
  /\ UNCHANGED <<term, pendingWipe, job, left, chars, outcome, broken,
                 strays, parked>>
  /\ Recall(FALSE)

RefuseChord(c) ==
  /\ phase[c] = "idle"
  /\ ChordRefused
  /\ EndOp(c, "refused")
  /\ UNCHANGED <<term, pendingWipe, chars, broken, strays, parked>>
  /\ Recall(FALSE)

(* ---------------------------- up to the lock --------------------------- *)

(* _refuse_parked, before a writer's first await.                          *)
RefuseParked(w) ==
  /\ phase[w] = "ready"
  /\ w \notin Chords
  /\ parked
  /\ EndOp(w, "failed")
  /\ UNCHANGED <<term, pendingWipe, chars, broken, strays, parked>>
  /\ Recall(FALSE)

(* _await_chord: the wait for a chord in flight is over or given up; a     *)
(* prompt has its first look at the gate; the writer asks for the lock.    *)
AskForLock(w) ==
  /\ phase[w] = "ready"
  /\ w \in Chords \/ ~parked
  /\ ~(Gated(w) /\ term.dialog)
  /\ phase' = [phase EXCEPT ![w] = "queued"]
  /\ lockQueue' = Append(lockQueue, w)
  /\ UNCHANGED <<term, pendingWipe, job, left, chars, outcome, inFlight,
                 broken, strays, parked>>
  /\ Recall(FALSE)

(* The first look finds a dialog.                                          *)
FirstLookBlocked(p) ==
  /\ phase[p] = "ready"
  /\ Gated(p)
  /\ term.dialog
  /\ EndOp(p, "dialog")
  /\ UNCHANGED <<term, pendingWipe, chars, broken, strays, parked>>
  /\ Recall(FALSE)

(* Mutant of TakeLock: no count check before the Ctrl+S.                   *)
TakeLockUncounted(w) ==
  /\ phase[w] = "queued"
  /\ HasLock(w)
  /\ ~parked
  /\ ~(Gated(w) /\ term.dialog)
  /\ phase' = [phase EXCEPT ![w] = "hold"]
  /\ left' = [left EXCEPT ![w] = HoldWrites(w)]
  /\ NoteWrite(w)
  /\ UNCHANGED <<term, pendingWipe, job, chars, outcome, lockQueue, inFlight,
                 strays, parked>>
  /\ Recall(WipesShort(w))

(* The lock comes round: the checks made under it, then the count.         *)
TakeLock(w) ==
  /\ phase[w] = "queued"
  /\ HasLock(w)
  /\ ~parked
  /\ ~(Gated(w) /\ term.dialog)
  /\ ~(Op(w) = "CtrlS" /\ w \in broken)
  /\ phase' = [phase EXCEPT ![w] = "hold"]
  /\ left' = [left EXCEPT ![w] = HoldWrites(w)]
  /\ NoteWrite(w)
  /\ UNCHANGED <<term, pendingWipe, job, chars, outcome, lockQueue, inFlight,
                 strays, parked>>
  /\ Recall(WipesShort(w))

(* Mutant of LeaveLock: the early return keeps the lock.                   *)
LeaveLockHeld(w) ==
  /\ phase[w] = "queued"
  /\ HasLock(w)
  /\ parked \/ (Gated(w) /\ term.dialog) \/ (Op(w) = "CtrlS" /\ w \in broken)
  /\ phase' = [phase EXCEPT ![w] = "done"]
  /\ job' = [job EXCEPT ![w] = <<>>]
  /\ outcome' = [outcome EXCEPT ![w] = "failed"]
  /\ UNCHANGED <<term, pendingWipe, left, chars, lockQueue, inFlight, broken,
                 strays, parked>>
  /\ Recall(FALSE)

(* Parked meanwhile, a dialog open again, or the chord's Ctrl+X followed   *)
(* by another write: the hold ends with nothing written.                   *)
LeaveLock(w) ==
  /\ phase[w] = "queued"
  /\ HasLock(w)
  /\ \/ parked /\ EndOp(w, "failed")
     \/ ~parked /\ Gated(w) /\ term.dialog /\ EndOp(w, "dialog")
     \/ ~parked /\ Op(w) = "CtrlS" /\ w \in broken /\ EndOp(w, "failed")
  /\ UNCHANGED <<term, pendingWipe, chars, broken, strays, parked>>
  /\ Recall(FALSE)

(* ---------------------------- under the lock --------------------------- *)

NextWrite(w) == Head(left[w])

(* The look before every piece and before the Enter; a wipe takes none.    *)
LookBlocks(w) == Gated(w) /\ NextWrite(w).key # "KillLine" /\ term.dialog

(* The last Ctrl+U of a wipe is in: nothing is owed any more.              *)
WipedBy(w) ==
  /\ NextWrite(w).key = "KillLine"
  /\ Len(left[w]) = 1 \/ left[w][2].key # "KillLine"

(* One dtach -p write goes out and returns.                                *)
Put(w) ==
  /\ phase[w] = "hold"
  /\ ~LookBlocks(w)
  /\ term.alive
  /\ term' \in Landed(term, NextWrite(w))
  /\ pendingWipe' = IF WipedBy(w) THEN 0 ELSE pendingWipe
  /\ IF Len(left[w]) = 1
       THEN EndOp(w, "ok")
       ELSE /\ left' = [left EXCEPT ![w] = Tail(@)]
            /\ UNCHANGED <<job, phase, outcome, lockQueue, inFlight>>
  /\ UNCHANGED <<chars, broken, strays, parked>>
  /\ Recall(Surfaces(w))

(* The write is refused (dtach exits non-zero), as every one is once the   *)
(* session is gone: the hold ends there.                                   *)
PutFails(w) ==
  /\ phase[w] = "hold"
  /\ ~LookBlocks(w)
  /\ "fail" \in Faults \/ ~term.alive
  /\ EndOp(w, "failed")
  /\ UNCHANGED <<term, pendingWipe, chars, broken, strays, parked>>
  /\ Recall(term.alive /\ LeavesText(w))

(* _run gives the write up after its timeout.  Its dtach -p is not killed. *)
PutTimesOut(w) ==
  /\ phase[w] = "hold"
  /\ ~LookBlocks(w)
  /\ term.alive
  /\ "timeout" \in Faults
  /\ strays' = strays \cup {NextWrite(w)}
  /\ EndOp(w, "failed")
  /\ UNCHANGED <<term, pendingWipe, chars, broken, parked>>
  /\ Recall(TRUE)

(* Mutant of StopTyping: what was typed is not noted.                      *)
StopTypingUnnoted(p) ==
  /\ phase[p] = "hold"
  /\ LookBlocks(p)
  /\ EndOp(p, "dialog")
  /\ UNCHANGED <<term, pendingWipe, chars, broken, strays, parked>>
  /\ Recall(FALSE)

(* _stopped_while_typing: a dialog opened after some pieces.  With none    *)
(* typed yet there is nothing to wipe.                                     *)
StopTyping(p) ==
  /\ phase[p] = "hold"
  /\ LookBlocks(p)
  /\ pendingWipe' = pendingWipe + Typed(p)
  /\ EndOp(p, "dialog")
  /\ UNCHANGED <<term, chars, broken, strays, parked>>
  /\ Recall(FALSE)

(* ---------------------------- everything else -------------------------- *)

Elsewhere == UNCHANGED <<job, phase, left, chars, outcome, lockQueue,
                         inFlight, broken>>

(* A write given up earlier gets through after all, or never does.         *)
StrayLands ==
  /\ \E w \in strays :
       /\ strays' = strays \ {w}
       /\ term' \in Landed(term, w) \cup {term}
  /\ term.alive
  /\ Elsewhere /\ UNCHANGED <<pendingWipe, parked>>
  /\ Recall(FALSE)

(* Claude's turn takes what is queued.                                     *)
TakeQueue ==
  /\ term.alive /\ term.queue # <<>>
  /\ term' = [term EXCEPT !.queue = <<>>]
  /\ Elsewhere /\ UNCHANGED <<pendingWipe, strays, parked>>
  /\ Recall(FALSE)

(* A permission prompt or a question opens, and is answered; nobody does   *)
(* both around the 0.1 s between a chord's two writes.                     *)
OpenDialog ==
  /\ term.alive /\ ~term.dialog
  /\ term' = [term EXCEPT !.dialog = TRUE]
  /\ Elsewhere /\ UNCHANGED <<pendingWipe, strays, parked>>
  /\ Recall(\E w \in Writers : Wiping(w))

CloseDialog ==
  /\ term.alive /\ term.dialog
  /\ \A c \in Chords : ~MidChord(c)
  /\ term' = [term EXCEPT !.dialog = FALSE]
  /\ Elsewhere /\ UNCHANGED <<pendingWipe, strays, parked>>
  /\ Recall(FALSE)

(* The session moves into a background job, and is brought back.           *)
Park ==
  /\ term.alive
  /\ parked' = ~parked
  /\ Elsewhere /\ UNCHANGED <<term, pendingWipe, strays>>
  /\ Recall(FALSE)

(* kill_session: the owed wipe is forgotten first; the process dies, or no *)
(* process could be signalled and it lives on.                             *)
KillSession ==
  /\ term.alive
  /\ \/ "dies" \in Kills /\ term' = [term EXCEPT !.alive = FALSE, !.box = <<>>,
                                       !.queue = <<>>, !.dialog = FALSE]
     \/ "survives" \in Kills /\ UNCHANGED term
  /\ pendingWipe' = 0
  /\ Elsewhere /\ UNCHANGED <<strays, parked>>
  /\ Recall(term'.alive /\ pendingWipe > 0)

Step(w) ==
  \/ RefuseParked(w) \/ AskForLock(w) \/ TakeLock(w) \/ LeaveLock(w)
  \/ Put(w) \/ PutFails(w) \/ PutTimesOut(w)
  \/ FirstLookBlocked(w) \/ StopTyping(w)

Next ==
  \/ \E p \in Prompts : StartPrompt(p)
  \/ \E d \in Clears : StartClear(d)
  \/ \E s \in Stops : StartStop(s)
  \/ \E c \in Chords : StartChord(c) \/ RefuseChord(c)
  \/ \E w \in Writers : Step(w)
  \/ StrayLands \/ TakeQueue \/ OpenDialog \/ CloseDialog \/ Park \/ KillSession

Spec == Init /\ [][Next]_vars

(* Every wait of a writer is bounded in inject.py: the chord's by          *)
(* _CHORD_WAIT_LIMIT, a look by the gate's limit, a write by _run's        *)
(* timeout, and the lock is FIFO.  Claude's side owes nothing.             *)
FairSpec == Spec /\ \A w \in Writers : WF_vars(Step(w))

(* ------------------------------ properties ----------------------------- *)

Ops == {"prompt", "discard", "Escape", "CtrlX", "CtrlS"}

(* Types of the variables of inject.py's module state and of the writers.  *)
StateTypes ==
  /\ term \in Terminal
  /\ pendingWipe \in Nat
  /\ job \in [Writers -> Seq(Ops)]
  /\ phase \in [Writers -> {"idle", "ready", "queued", "hold", "done"}]
  /\ left \in [Writers -> Seq(Write)]
  /\ chars \in [Writers -> Nat]
  /\ outcome \in [Writers -> {"none", "ok", "failed", "dialog", "refused"}]
  /\ lockQueue \in Seq(Writers)
  /\ inFlight \subseteq Chords
  /\ broken \subseteq Chords
  /\ strays \subseteq Write
  /\ parked \in BOOLEAN

TypeOK == StateTypes /\ upset \in BOOLEAN /\ doubts \subseteq Seq(Unit)

(* Claude never receives a message made of two, or a part of one: whatever *)
(* is submitted, by an Enter or by the send-now chord, is one prompt whole *)
(* (the reason for one hold per prompt, for the wipe of a stopped prompt   *)
(* and for the wipe of a surfaced queue), but for what is submitted from   *)
(* when text got out of sight until all is settled again.                  *)
NoGlue ==
  \A s \in term.submitted \ doubts : \E p \in Prompts : s = Text(p)

(* A Ctrl+S without its Ctrl+X right before it would stash the input box:  *)
(* send_now's count check lets none through.                               *)
NoStash == ~term.stashed

(* Text in the box with nobody about to submit or wipe it is owed a wipe,  *)
(* so that the next prompt starts from an empty box.                       *)
Quiet == \A w \in Writers : phase[w] # "hold"
BoxAccounted == Quiet /\ term.alive /\ ~upset => Len(term.box) <= pendingWipe

(* What send_text_and_enter tells its caller is what happened: a prompt    *)
(* held back for a dialog (and typed again later) never reached Claude,    *)
(* not in a later submission either, and a prompt reported sent did.       *)
ReportedTruly ==
  \A p \in Prompts :
    /\ outcome[p] = "ok" => Text(p) \in term.submitted \cup doubts
    /\ outcome[p] = "dialog" => \A s \in term.submitted \ doubts :
         \A i \in 1..Len(s) : s[i][1] # p

(* Every writer that starts returns, whatever the others and the terminal  *)
(* do (no hold of the lock is left behind by an early return).             *)
WritersReturn ==
  \A w \in Writers : phase[w] \in {"ready", "queued"} ~> phase[w] = "done"
=============================================================================
