--------------------------- MODULE AnswerDelivery ---------------------------
(***************************************************************************)
(* How a turn's answer, and the files Claude sent in that turn, reach a    *)
(* chat that Telegram may mute at any moment (bot/notify.py, bot/held.py,  *)
(* bot/outbox.py, the delivered ring of state.py).                         *)
(*                                                                         *)
(* A finish sends the answer.  An answer refused by a mute is kept in the  *)
(* buffer HELD and flushed by the monitor's tick once the mute is over;    *)
(* the turn's files go out after it, in a chain of delivery tasks of the   *)
(* session.  The buffer, the chain and the waiting files are memory only;  *)
(* the ring of delivered digests is saved, so that the next daemon knows   *)
(* what the chat has.                                                      *)
(*                                                                         *)
(* An action is the code between two awaits.                               *)
(***************************************************************************)
EXTENDS Naturals, FiniteSets, FiniteSetsExt, SequencesExt

CONSTANTS
  Turns,       \* the turns that end with an answer, numbered as they end
  Sessions,    \* sessions of one chat
  Owner,       \* the session of each turn
  FileTurns,   \* the turns in which Claude sent files
  Merged,      \* the turns whose card and answer are one message
  Cap,         \* HELD_ANSWER_MAX_PER_CHAT
  MaxAttempts, \* HELD_ANSWER_MAX_ATTEMPTS
  Faults,      \* "rich", "plain", "blocked", "age", "crash"
  MaxMutes,    \* bound: mutes in a behaviour
  MaxRestarts  \* bound: restarts in a behaviour

ASSUME TurnsAssumption == Turns \subseteq Nat \ {0}
ASSUME OwnerAssumption == Owner \in [Turns -> Sessions]
ASSUME BoundsAssumption ==
  /\ Cap \in Nat \ {0}
  /\ MaxAttempts \in Nat \ {0}
  /\ MaxMutes \in Nat
  /\ MaxRestarts \in Nat

VARIABLES
  muted,      \* MUTE.is_muted(chat)
  mutes,      \* how many mutes there were
  fin,        \* where the finish of each turn is
  keyBefore,  \* files_held_before of each finish
  ring,       \* delivered_digests: what this daemon refuses to send again
  confirmed,  \* the ring less pending_digests
  saved,      \* what of it the state file has
  held,       \* HELD: the chat's entries, each with its number
  holds,      \* HELD._seq: the number of the newest entry
  flush,      \* the flush the monitor awaits, or NoFlush
  batches,    \* OUTBOX.batches: turns whose files no delivery has taken
  pend,       \* OUTBOX.pending of each session
  chain,      \* OUTBOX.deliveries of each session, the running task first
  copies,     \* history: how often each answer went into the chat
  told,       \* history: turns whose answer was logged as lost
  sentFiles,  \* history: turns whose files are in the chat
  restarts,   \* how many restarts there were
  dropped,    \* history: turns whose answer a restart took
  forgot      \* history: answers in the chat that a restart kept off the file

muteVars == <<muted, mutes>>
ringVars == <<ring, confirmed, saved>>
fileVars == <<batches, pend, chain, sentFiles>>
lifeVars == <<restarts, dropped, forgot>>
heldVars == <<held, holds>>
vars == <<muteVars, fin, keyBefore, ringVars, heldVars, flush, fileVars, copies,
          told, lifeVars>>

(***************************************************************************)
(* Values.                                                                 *)
(***************************************************************************)
\* "answered" and "unanswered": the answer's send is over, the files' is not.
Sendings == {"merging", "sending", "plain"}
Phases == {"none", "answered", "unanswered", "done"} \cup Sendings
Kinds  == {"merged", "answer"}        \* which of its sends a turn's entry keeps
NoKey  == 0                           \* no entry; else an entry's number
Prompt == 0                           \* files under the prompt; else a turn's answer
NoFlush == [sessions |-> {}, queue |-> {}, phase |-> "idle"]

\* One HeldAnswer of this chat: its number orders the buffer and is its key.
Entry(no, t, kind) == [no |-> no, turn |-> t, kind |-> kind, attempts |-> 0]
Of(s, entries) == {e \in entries : Owner[e.turn] = s}
Numbers(entries) == {e.no : e \in entries}
\* Mutant: the newest entry first.
NewestFirst(e, entries) == e \in entries /\ \A f \in entries : e.no >= f.no
Oldest(e, entries) == e \in entries /\ \A f \in entries : e.no <= f.no

\* HeldAnswers.newest_key
NewestKey(s) == IF Of(s, held) = {} THEN NoKey ELSE Max(Numbers(Of(s, held)))

\* What a session's delivery tasks hold, and what waits for one.
Tasked(s)  == UNION {ToSet(chain[s][i].items) : i \in DOMAIN chain[s]}
Waiting(s) == ToSet(pend[s]) \cup Tasked(s)

\* The answer of t may yet reach the chat.
InHand(t) ==
  \/ fin[t] \in Sendings
  \/ \E e \in held \cup flush.queue : e.turn = t

\* The files of t may yet reach the chat.
FilesInHand(t) == t \in batches \/ \E p \in Waiting(Owner[t]) : p.turn = t

Init ==
  /\ muted = FALSE /\ mutes = 0
  /\ fin = [t \in Turns |-> "none"]
  /\ keyBefore = [t \in Turns |-> NoKey]
  /\ ring = {} /\ confirmed = {} /\ saved = {}
  /\ held = {} /\ holds = 0
  /\ flush = NoFlush
  /\ batches = {}
  /\ pend = [s \in Sessions |-> <<>>]
  /\ chain = [s \in Sessions |-> <<>>]
  /\ copies = [t \in Turns |-> 0] /\ told = {} /\ sentFiles = {}
  /\ restarts = 0 /\ dropped = {} /\ forgot = {}

(***************************************************************************)
(* Telegram's mute.                                                        *)
(***************************************************************************)

\* A call of this chat is answered with a ban: FloodMute.mute.
Ban ==
  /\ mutes < MaxMutes
  /\ muted' = TRUE
  /\ mutes' = mutes + 1

\* A call ends with RichMessageFloodBanned or FloodMuted: the chat is muted, or
\* it meets the ban itself.  (A call that lands is placed before any mute that
\* starts while it is out: a landing asks for ~muted.)
Refused == IF muted THEN UNCHANGED muteVars ELSE Ban

\* Some other call of the chat (a card's edit, a reaction) meets the ban.
MuteStarts ==
  /\ ~muted
  /\ Ban
  /\ UNCHANGED <<fin, keyBefore, ringVars, heldVars, flush, fileVars, copies, told,
                 lifeVars>>

\* FloodMute.is_muted, the first time after the deadline.
MuteLifts ==
  /\ muted
  /\ muted' = FALSE
  /\ UNCHANGED <<mutes, fin, keyBefore, ringVars, heldVars, flush, fileVars, copies,
                 told, lifeVars>>

(***************************************************************************)
(* The buffer.                                                             *)
(***************************************************************************)

\* The entries that go are older than those that stay.
Eldest(gone, entries) ==
  \A e \in gone, f \in entries \ gone : e.no < f.no

\* Mutants: a session's newer answer replaces the one it has; one entry over
\* the cap stays.
HoldNewestWins(t, kind) ==
  /\ holds' = holds + 1
  /\ held' = {e \in held : Owner[e.turn] # Owner[t]} \cup {Entry(holds', t, kind)}
  /\ told' = told
HoldOneOver(t, kind) ==
  /\ Cardinality(held) <= Cap
  /\ holds' = holds + 1
  /\ held' = held \cup {Entry(holds', t, kind)}
  /\ told' = told

\* HeldAnswers.hold: one more entry; those a day old go (expire), then the
\* oldest over the cap, each with a warning.
Hold(t, kind) ==
  \E gone \in SUBSET held :
    /\ Eldest(gone, held)
    /\ Cardinality(held \ gone) < Cap
    /\ \/ gone = {} \/ Cardinality(held \ gone) = Cap - 1
       \/ "age" \in Faults
    /\ holds' = holds + 1
    /\ held' = (held \ gone) \cup {Entry(holds', t, kind)}
    /\ told' = told \cup {e.turn : e \in gone}

\* HeldAnswers.expire on the monitor's tick: an entry a day old goes, with a
\* warning.  The monitor awaits a flush, so none runs.
Expire ==
  /\ "age" \in Faults
  /\ flush = NoFlush
  /\ \E e \in held :
       /\ Oldest(e, held)
       /\ held' = held \ {e}
       /\ told' = told \cup {e.turn}
  /\ UNCHANGED <<muteVars, fin, keyBefore, ringVars, holds, flush, fileVars, copies,
                 lifeVars>>

(***************************************************************************)
(* A finish: the answer, then the files (notify.py, the idle event).       *)
(***************************************************************************)

\* The answer is taken up: its digest is refused from here on (pending), and a
\* merged layout whose card is still there tries one message first.
TakeUp(t) ==
  /\ ring' = ring \cup {t}
  /\ keyBefore' = [keyBefore EXCEPT ![t] = NewestKey(Owner[t])]
  /\ \E first \in {"sending"} \cup (IF t \in Merged THEN {"merging"} ELSE {}) :
       fin' = [fin EXCEPT ![t] = first]

\* A turn ends.  The finishes of a session come one after the other.
EndTurn(t) ==
  /\ fin[t] = "none"
  /\ \A u \in Turns : u < t /\ Owner[u] = Owner[t] => fin[u] = "done"
  /\ TakeUp(t)
  /\ batches' = IF t \in FileTurns THEN batches \cup {t} ELSE batches
  /\ UNCHANGED <<muteVars, confirmed, saved, heldVars, flush, pend, chain, sentFiles,
                 copies, told, lifeVars>>

\* The message is in the chat: confirm_delivered.
AnswerLands(t) ==
  /\ fin[t] \in Sendings
  /\ ~muted
  /\ copies' = [copies EXCEPT ![t] = @ + 1]
  /\ confirmed' = confirmed \cup {t}
  /\ fin' = [fin EXCEPT ![t] = "answered"]
  /\ UNCHANGED <<muteVars, keyBefore, ring, saved, heldVars, flush, fileVars, told,
                 lifeVars>>

\* _send_merged_final meets the mute: it holds the merged text, with no
\* digest, and the plain layout's send follows all the same.
MergeHeld(t) ==
  /\ fin[t] = "merging"
  /\ Refused
  /\ Hold(t, "merged")
  /\ fin' = [fin EXCEPT ![t] = "sending"]
  /\ UNCHANGED <<keyBefore, ringVars, flush, fileVars, copies, lifeVars>>

\* The merged message does not fit, or its edit fails; or the rich answer
\* fails for a reason that is no mute, and its plain text is sent.
FallsBack(t) ==
  /\ "rich" \in Faults
  /\ ~muted
  /\ fin[t] \in {"merging", "sending"}
  /\ fin' = [fin EXCEPT ![t] = IF @ = "merging" THEN "sending" ELSE "plain"]
  /\ UNCHANGED <<muteVars, keyBefore, ringVars, heldVars, flush, fileVars, copies,
                 told, lifeVars>>

AnswerHeld(t) ==
  /\ fin[t] = "sending"
  /\ Refused
  /\ Hold(t, "answer")
  /\ fin' = [fin EXCEPT ![t] = "unanswered"]
  /\ UNCHANGED <<keyBefore, ringVars, flush, fileVars, copies, lifeVars>>

\* The bot is blocked; or no chunk of the plain text lands, which a mute does
\* too.  Each is a warning in the log, and nothing is held.
AnswerLost(t) ==
  /\ \/ "blocked" \in Faults /\ fin[t] = "sending" /\ ~muted /\ UNCHANGED muteVars
     \/ "plain" \in Faults /\ fin[t] = "plain" /\ ~muted /\ UNCHANGED muteVars
     \/ fin[t] = "plain" /\ Refused
  /\ told' = told \cup {t}
  /\ fin' = [fin EXCEPT ![t] = "unanswered"]
  /\ UNCHANGED <<keyBefore, ringVars, heldVars, flush, fileVars, copies, lifeVars>>

\* Mutants: what the session holds is taken for this turn's answer; the held
\* answer is not waited for.
DeliverBehindAny(t) ==
  LET s    == Owner[t]
      item == [turn |-> t, key |-> NewestKey(s), anchor |-> Prompt]
  IN  /\ fin[t] \in {"answered", "unanswered"}
      /\ fin' = [fin EXCEPT ![t] = "done"]
      /\ batches' = batches \ {t}
      /\ chain' = IF t \in batches
                    THEN [chain EXCEPT ![s] = Append(@, [kind |-> "own", items |-> <<item>>])]
                    ELSE chain
      /\ UNCHANGED <<muteVars, keyBefore, ringVars, heldVars, flush, pend, sentFiles,
                     copies, told, lifeVars>>
DeliverAtOnce(t) ==
  LET s    == Owner[t]
      item == [turn |-> t, key |-> NoKey, anchor |-> Prompt]
  IN  /\ fin[t] \in {"answered", "unanswered"}
      /\ fin' = [fin EXCEPT ![t] = "done"]
      /\ batches' = batches \ {t}
      /\ chain' = IF t \in batches
                    THEN [chain EXCEPT ![s] = Append(@, [kind |-> "own", items |-> <<item>>])]
                    ELSE chain
      /\ UNCHANGED <<muteVars, keyBefore, ringVars, heldVars, flush, pend, sentFiles,
                     copies, told, lifeVars>>

\* _deliver_turn_files: the batches are taken now, and so is whether the
\* answer was held; a task of the session's chain does the rest.
DeliverTurnFiles(t) ==
  LET s    == Owner[t]
      now  == NewestKey(s)
      item == [turn   |-> t,
               key    |-> IF now # keyBefore[t] THEN now ELSE NoKey,
               anchor |-> IF fin[t] = "answered" THEN t ELSE Prompt]
  IN  /\ fin[t] \in {"answered", "unanswered"}
      /\ fin' = [fin EXCEPT ![t] = "done"]
      /\ keyBefore' = [keyBefore EXCEPT ![t] = NoKey]
      /\ batches' = batches \ {t}
      /\ chain' = IF t \in batches
                    THEN [chain EXCEPT ![s] = Append(@, [kind |-> "own", items |-> <<item>>])]
                    ELSE chain
      /\ UNCHANGED <<muteVars, ringVars, heldVars, flush, pend, sentFiles, copies, told,
                     lifeVars>>

(***************************************************************************)
(* The files that wait (outbox.py).                                        *)
(***************************************************************************)

\* Outbox.answer_landed and answer_gone.
Resolved(items, k, anchor) ==
  [i \in DOMAIN items |->
     IF items[i].key = k /\ k # NoKey
       THEN [items[i] EXCEPT !.key = NoKey, !.anchor = anchor] ELSE items[i]]

\* Mutant: files behind an answer that is held no more go on waiting.
FilesFlushedIfLanded(items, keys, stopped) ==
  LET due == {i \in DOMAIN items : \A j \in 1 .. i : items[j].key = NoKey}
      n   == Cardinality(due)
  IN  IF stopped \/ n = 0 THEN [pend |-> items, jobs |-> <<>>]
      ELSE [pend |-> SubSeq(items, n + 1, Len(items)),
            jobs |-> <<[kind |-> "due", items |-> SubSeq(items, 1, n)]>>]

\* flush_turn_files, unless the chat is muted or the session's held answers are
\* being flushed ("stopped"): files behind an answer that is held no more go under the
\* prompt; then the ones before the first that still waits are due, taken out
\* of the store, and sent by a task at the end of the chain.
FilesFlushed(items, keys, stopped) ==
  LET known == [i \in DOMAIN items |->
                  IF items[i].key \in keys \cup {NoKey} THEN items[i]
                    ELSE [items[i] EXCEPT !.key = NoKey, !.anchor = Prompt]]
      due   == {i \in DOMAIN known : \A j \in 1 .. i : known[j].key = NoKey}
      n     == Cardinality(due)
  IN  IF stopped THEN [pend |-> items, jobs |-> <<>>]
      ELSE [pend |-> SubSeq(known, n + 1, Len(known)),
            jobs |-> IF n = 0 THEN <<>>
                     ELSE <<[kind |-> "due", items |-> SubSeq(known, 1, n)]>>]

\* The monitor's tick: turn_files_flush.  It comes after the session's held
\* answers, whose flush the tick awaits.
FlushFiles(s) ==
  LET f == FilesFlushed(pend[s], Numbers(held), muted)
  IN  /\ ~muted
      /\ flush = NoFlush
      /\ pend[s] # <<>>
      /\ pend' = [pend EXCEPT ![s] = f.pend]
      /\ chain' = [chain EXCEPT ![s] = @ \o f.jobs]
      /\ UNCHANGED <<muteVars, fin, keyBefore, ringVars, heldVars, flush, batches,
                     sentFiles, copies, told, lifeVars>>

\* _turn_files_now of a turn's own task, once its copies are there and its call
\* is in the transcript: behind the held answer, behind the mute, behind the
\* files that wait already (with a flush), or to the chat.
RunOwn(s) ==
  LET item   == Head(chain[s]).items[1]
      queued == Append(pend[s], [item EXCEPT !.anchor = IF item.key = NoKey THEN @ ELSE Prompt])
      f      == FilesFlushed(queued, Numbers(held), s \in flush.sessions)
  IN  /\ chain[s] # <<>>
      /\ Head(chain[s]).kind = "own"
      /\ \/ /\ item.key # NoKey \/ muted
            /\ pend' = [pend EXCEPT ![s] = queued]
            /\ chain' = [chain EXCEPT ![s] = Tail(@)]
         \/ /\ item.key = NoKey /\ ~muted /\ pend[s] # <<>>
            /\ pend' = [pend EXCEPT ![s] = f.pend]
            /\ chain' = [chain EXCEPT ![s] = Tail(@) \o f.jobs]
         \/ /\ item.key = NoKey /\ ~muted /\ pend[s] = <<>>
            /\ chain' = [chain EXCEPT ![s][1].kind = "due"]
            /\ pend' = pend
      /\ UNCHANGED <<muteVars, fin, keyBefore, ringVars, heldVars, flush, batches,
                     sentFiles, copies, told, lifeVars>>

\* outbox.deliver of the running task's next delivery (a file that fails is a
\* line in the chat, and is settled with it).
FilesSent(s) ==
  LET items == Head(chain[s]).items
  IN  /\ chain[s] # <<>>
      /\ Head(chain[s]).kind = "due"
      /\ ~muted
      /\ sentFiles' = sentFiles \cup {Head(items).turn}
      /\ chain' = IF Len(items) = 1 THEN [chain EXCEPT ![s] = Tail(@)]
                   ELSE [chain EXCEPT ![s][1].items = Tail(@)]
      /\ UNCHANGED <<muteVars, fin, keyBefore, ringVars, heldVars, flush, batches,
                     pend, copies, told, lifeVars>>

\* A mute stops it: requeue_front, requeue_after.
FilesRefused(s) ==
  /\ chain[s] # <<>>
  /\ Head(chain[s]).kind = "due"
  /\ Refused
  /\ pend' = [pend EXCEPT ![s] = Head(chain[s]).items \o @]
  /\ chain' = [chain EXCEPT ![s] = Tail(@)]
  /\ UNCHANGED <<fin, keyBefore, ringVars, heldVars, flush, batches, sentFiles, copies,
                 told, lifeVars>>

(***************************************************************************)
(* The flush of one session's held answers (flush_held_answers).           *)
(***************************************************************************)

\* The entries of now, oldest first; what is held later waits for the next
\* tick.
StartFlush(s) ==
  /\ ~muted
  /\ flush = NoFlush
  /\ Of(s, held) # {}
  /\ flush' = [sessions |-> {s}, queue |-> Of(s, held), phase |-> "rich"]
  /\ UNCHANGED <<muteVars, fin, keyBefore, ringVars, heldVars, fileVars, copies,
                 told, lifeVars>>

\* The loop is done with e.  After the last entry the files that waited follow,
\* in the same call.
Continue(e, items, entries) ==
  \E s \in flush.sessions :
    LET f == FilesFlushed(items, Numbers(entries), muted')
    IN  IF flush.queue # {e}
          THEN /\ flush' = [flush EXCEPT !.queue = @ \ {e}, !.phase = "rich"]
               /\ pend' = [pend EXCEPT ![s] = items]
               /\ chain' = chain
          ELSE /\ flush' = NoFlush
               /\ pend' = [pend EXCEPT ![s] = f.pend]
               /\ chain' = [chain EXCEPT ![s] = @ \o f.jobs]

\* HELD.drop: the entry, unless the cap took it meanwhile.
Without(e) == {f \in held : f.no # e.no}

\* Mutant: a late landing is not confirmed.
ConfirmNothing(e) == confirmed' = confirmed
\* _confirm_held: only the entry with the digests confirms its turn.
ConfirmHeld(e) ==
  confirmed' = IF e.kind = "answer" THEN confirmed \cup {e.turn} ELSE confirmed

\* The entry's message is in the chat, and its files reply to it.
HeldLands(s, e) ==
  /\ flush.phase = "rich"
  /\ ~muted /\ UNCHANGED muteVars
  /\ held' = Without(e)
  /\ copies' = [copies EXCEPT ![e.turn] = @ + 1]
  /\ ConfirmHeld(e)
  /\ Continue(e, Resolved(pend[s], e.no, e.turn), held')
  /\ UNCHANGED <<fin, keyBefore, ring, saved, holds, batches, sentFiles, told,
                 lifeVars>>

\* Muted again: the flush is over, no attempt is counted.  (What waits in the
\* store is flushed in the same call, to no effect: the chat is muted.)
HeldRefused ==
  /\ flush.phase = "rich"
  /\ Refused
  /\ flush' = NoFlush
  /\ UNCHANGED <<fin, keyBefore, ringVars, heldVars, fileVars, copies, told, lifeVars>>

\* Any other failure counts an attempt, and the next entry follows...
HeldFails(s, e) ==
  /\ "rich" \in Faults
  /\ flush.phase = "rich"
  /\ ~muted /\ UNCHANGED muteVars
  /\ e.attempts + 1 < MaxAttempts
  /\ held' = {IF f.no = e.no THEN [f EXCEPT !.attempts = @ + 1] ELSE f : f \in held}
  /\ Continue(e, pend[s], held')
  /\ UNCHANGED <<fin, keyBefore, ringVars, holds, batches, sentFiles, copies, told,
                 lifeVars>>

\* ...or, the last attempt, takes the entry out of the buffer and sends its
\* plain text; its files go under the prompt.
HeldGivenUp(s, e) ==
  /\ "rich" \in Faults
  /\ flush.phase = "rich"
  /\ ~muted
  /\ e.attempts + 1 >= MaxAttempts
  /\ held' = Without(e)
  /\ flush' = [flush EXCEPT !.phase = "plain"]
  /\ pend' = [pend EXCEPT ![s] = Resolved(@, e.no, Prompt)]
  /\ UNCHANGED <<muteVars, fin, keyBefore, ringVars, holds, batches, chain, sentFiles,
                 copies, told, lifeVars>>

HeldPlainLands(s, e) ==
  /\ flush.phase = "plain"
  /\ ~muted /\ UNCHANGED muteVars
  /\ copies' = [copies EXCEPT ![e.turn] = @ + 1]
  /\ ConfirmHeld(e)
  /\ Continue(e, pend[s], held)
  /\ UNCHANGED <<fin, keyBefore, ring, saved, heldVars, batches, sentFiles, told,
                 lifeVars>>

\* No chunk of the plain text lands (a mute that starts now does that too):
\* lost, with a warning.
HeldPlainFails(s, e) ==
  /\ flush.phase = "plain"
  /\ \/ "plain" \in Faults /\ ~muted /\ UNCHANGED muteVars
     \/ Refused
  /\ told' = told \cup {e.turn}
  /\ Continue(e, pend[s], held)
  /\ UNCHANGED <<fin, keyBefore, ringVars, heldVars, batches, sentFiles, copies,
                 lifeVars>>

(***************************************************************************)
(* The state file, and the next daemon.                                    *)
(***************************************************************************)

\* The monitor's tick saves the registry.
Save ==
  /\ saved # confirmed
  /\ saved' = confirmed
  /\ UNCHANGED <<muteVars, fin, keyBefore, ring, confirmed, heldVars, flush, fileVars,
                 copies, told, lifeVars>>

\* What is out to Telegram.
Out == {t \in Turns : fin[t] \in Sendings}
         \cup {e.turn : e \in {f \in flush.queue : Oldest(f, flush.queue)}}

\* The daemon stops (it saves first, unless it crashes) and starts.  Memory is
\* gone: the buffer, the tasks and the files; a message that was out may have
\* landed with nobody to note it.  Only the ring comes back.
Restart ==
  /\ restarts < MaxRestarts
  /\ restarts' = restarts + 1
  /\ \E file \in {confirmed} \cup (IF "crash" \in Faults THEN {saved} ELSE {}),
        landed \in {{}} \cup (IF muted THEN {} ELSE {{t} : t \in Out}) :
       /\ ring' = file /\ confirmed' = file /\ saved' = file
       /\ copies' = [t \in Turns |-> copies[t] + IF t \in landed THEN 1 ELSE 0]
       /\ forgot' = forgot \cup landed \cup (confirmed \ file)
       /\ dropped' = dropped \cup {t \in Turns : InHand(t)}
  /\ fin' = [t \in Turns |-> IF fin[t] = "none" THEN "none" ELSE "done"]
  /\ keyBefore' = [t \in Turns |-> NoKey]
  /\ held' = {} /\ holds' = 0
  /\ flush' = NoFlush
  /\ batches' = {}
  /\ pend' = [s \in Sessions |-> <<>>]
  /\ chain' = [s \in Sessions |-> <<>>]
  /\ UNCHANGED <<muteVars, told, sentFiles>>

\* Mutant: the ring is not asked.
IdleAgainAnyway(t) ==
  /\ fin[t] = "done"
  /\ \A u \in Turns : u > t /\ Owner[u] = Owner[t] => fin[u] = "none"
  /\ TakeUp(t)
  /\ UNCHANGED <<muteVars, confirmed, saved, heldVars, flush, fileVars, copies, told,
                 lifeVars>>

\* Claude's idle Notification (or a repeated Stop) on an idle session: the
\* newest answer is finished again unless the ring has it.
IdleAgain(t) ==
  /\ fin[t] = "done"
  /\ t \notin ring
  /\ \A u \in Turns : u > t /\ Owner[u] = Owner[t] => fin[u] = "none"
  /\ TakeUp(t)
  /\ UNCHANGED <<muteVars, confirmed, saved, heldVars, flush, fileVars, copies, told,
                 lifeVars>>

-----------------------------------------------------------------------------
Finish(t) ==
  \/ AnswerLands(t) \/ MergeHeld(t) \/ FallsBack(t) \/ AnswerHeld(t)
  \/ AnswerLost(t) \/ DeliverTurnFiles(t)

Flush ==
  \/ HeldRefused
  \/ \E s \in flush.sessions, e \in flush.queue :
       /\ Oldest(e, flush.queue)
       /\ \/ HeldLands(s, e) \/ HeldFails(s, e) \/ HeldGivenUp(s, e)
          \/ HeldPlainLands(s, e) \/ HeldPlainFails(s, e)
Deliver(s) == RunOwn(s) \/ FilesSent(s) \/ FilesRefused(s)

Next ==
  \/ MuteStarts \/ MuteLifts \/ Expire \/ Save \/ Restart \/ Flush
  \/ \E t \in Turns : EndTurn(t) \/ IdleAgain(t) \/ Finish(t)
  \/ \E s \in Sessions : StartFlush(s) \/ FlushFiles(s) \/ Deliver(s)

Spec == Init /\ [][Next]_vars

\* A mute has a deadline; every request has a timeout; the event loop runs its
\* tasks; the monitor's tick comes back to every session.
Fairness ==
  /\ WF_vars(MuteLifts)
  /\ WF_vars(Flush)
  /\ \A t \in Turns : WF_vars(Finish(t))
  /\ \A s \in Sessions : /\ WF_vars(StartFlush(s))
                         /\ WF_vars(FlushFiles(s))
                         /\ WF_vars(Deliver(s))

LiveSpec == Spec /\ Fairness

(***************************************************************************)
(* Properties.                                                             *)
(***************************************************************************)
Item == [turn : Turns, key : Nat, anchor : Turns \cup {Prompt}]
HeldEntry == [no : Nat \ {0}, turn : Turns, kind : Kinds,
              attempts : 0 .. MaxAttempts - 1]

\* Every variable keeps its type, the buffer its cap, and a number names one
\* entry.
TypeOK ==
  /\ muted \in BOOLEAN /\ mutes \in 0 .. MaxMutes
  /\ fin \in [Turns -> Phases]
  /\ keyBefore \in [Turns -> 0 .. holds]
  /\ confirmed \subseteq ring /\ ring \subseteq Turns /\ saved \subseteq ring
  /\ held \subseteq HeldEntry /\ Cardinality(held) <= Cap
  /\ \A e, f \in held : e.no <= holds /\ (e.no = f.no => e = f)
  /\ flush.sessions \subseteq Sessions /\ flush.queue \subseteq HeldEntry
  /\ flush.phase \in {"idle", "rich", "plain"}
  /\ batches \subseteq FileTurns
  /\ pend \in [Sessions -> Seq(Item)]
  /\ chain \in [Sessions -> Seq([kind : {"own", "due"}, items : Seq(Item) \ {<<>>}])]
  /\ copies \in [Turns -> Nat] /\ told \subseteq Turns /\ sentFiles \subseteq FileTurns
  /\ restarts \in 0 .. MaxRestarts /\ dropped \subseteq Turns /\ forgot \subseteq Turns

\* No answer leaves the daemon unnoticed: one whose turn has ended is on its
\* way, in the chat, logged as lost (a cap, the age, a refused plain text, a
\* block) or went with a restart.
NothingVanishes ==
  \A t \in Turns : fin[t] # "none" =>
    InHand(t) \/ copies[t] > 0 \/ t \in told \cup dropped

\* An answer comes once, over mutes, flushes, idle notifications and restarts,
\* unless a restart kept its landing off the file.  (The merged layout is left
\* out: refused twice, by the merged send and by the fallback, it holds two
\* entries of one turn.)
AnswerOnce == \A t \in Turns \ (Merged \cup forgot) : copies[t] <= 1

\* Files wait behind the answer of another turn only when that is an older
\* answer of their session whose rich send failed (a younger one of the flush
\* then went before it); and they never hang under another session's answer or
\* a later turn's.
FilesWaitForOwn ==
  \A s \in Sessions : \A p \in Waiting(s) :
    /\ \A e \in held : e.no = p.key =>
         /\ Owner[e.turn] = s /\ e.turn <= p.turn
         /\ e.turn < p.turn => e.attempts > 0
    /\ p.anchor # Prompt => Owner[p.anchor] = s /\ p.anchor <= p.turn

\* A flush sends the held answers of a session oldest first: one lands before
\* an older one only when the older one's rich send has failed.
LateInOrder ==
  [][\A e, f \in held :
       /\ e.no < f.no /\ Owner[e.turn] = Owner[f.turn]
       /\ restarts' = restarts
       /\ f.no \notin Numbers(held') /\ copies'[f.turn] > copies[f.turn]
       => e.attempts > 0]_vars

\* The files of a turn go to the chat only after its answer, or when the answer
\* was taken out of the buffer: never while it is out or held.  (An entry the cap
\* or the last attempt took out may still be on its way, in the flush that had it
\* in hand; its files no longer wait for it.)
FilesAfterAnswer ==
  [][\A t \in sentFiles' \ sentFiles :
       \/ copies[t] > 0
       \/ fin[t] \notin Sendings /\ \A e \in held : e.turn # t]_vars

\* Every answer the daemon has, and every file, is settled in the end: mutes
\* lift, the flush's attempts are bounded, nothing waits for what is gone.
EverythingSettles ==
  \A t \in Turns : /\ InHand(t) ~> ~InHand(t)
                   /\ FilesInHand(t) ~> ~FilesInHand(t)

(***************************************************************************)
(* The promise.                                                            *)
(***************************************************************************)
Fate(t) ==
  IF fin[t] = "none" THEN "none"
  ELSE IF copies[t] > 0 THEN "delivered"
  ELSE IF InHand(t) THEN "owed" ELSE "lost"

Promise == INSTANCE AnswerPromise
             WITH fate <- [t \in Turns |-> Fate(t)], known <- ring

\* Deliveries, mutes, flushes and restarts implement the promise.
KeepsPromise == Promise!Spec

=============================================================================
