------------------------------ MODULE TurnCards ------------------------------
(***************************************************************************)
(* How the daemon turns the messages of one session into turns, and each   *)
(* turn into one busy card and one answer (state.py, bot/notify.py,        *)
(* bot/animation.py, bot/handlers.py, dtach/hook_receiver.py).             *)
(*                                                                         *)
(* Claude Code runs one prompt at a time and queues what is typed          *)
(* meanwhile.  Its hooks reach the daemon as datagrams, in the order they  *)
(* were sent, each handled by a task of its own; the Stop hook's task is   *)
(* the turn's finish, which is out for as long as Telegram makes it wait.  *)
(* So the card requests of a newer turn, that turn's own hooks and even    *)
(* its finish meet the older finish on the way: the finish gate, the card  *)
(* lock and the hold of the turn's hooks keep them apart.                  *)
(*                                                                         *)
(* A turn is ordinary: no background job, no deferred or owed card, no     *)
(* compaction, no prompt on a human, no message absorbed mid-turn.         *)
(* An action is the code between two awaits.                               *)
(***************************************************************************)
EXTENDS Integers, FiniteSets, Sequences

CONSTANTS
  Messages,  \* how many messages are sent; a run is named by its message
  MaxTools,  \* bound: tool calls in a run
  MaxMishaps, \* bound: card sends that fail, and finishes whose gate somebody
              \* stops waiting for, together
  Races      \* those that may happen: "stop_while_typing", "late_return",
             \* "quick_next"

ASSUME MessagesAssumption == Messages \in Nat \ {0}
ASSUME BoundsAssumption == MaxTools \in Nat /\ MaxMishaps \in Nat

VARIABLES
  typed,     \* how many messages Telegram's handler has taken
  sending,   \* the message being injected, or 0 (one handler at a time)
  reached,   \* whether Claude has its text
  run,       \* the prompt Claude runs, or 0
  used,      \* the tool calls of that run
  box,       \* Claude's queue
  mail,      \* datagrams on their way to the daemon
  status,    \* sess.status
  turns,     \* what each turn was begun for; its length is turn_seq
  closed,    \* closed_turn_seq
  trigger,   \* trigger_msg_id
  queued,    \* queued_targets
  reclaim,   \* job_reclaim_pending
  hold,      \* turn_state_hold_for, or 0
  waiting,   \* events in _hold_for_turn_state, in the order they came
  busy,      \* busy_msg_id: 0 for None, the claim -1, or a card
  cardTurn,  \* card_turn_seq, 0 for None
  rows,      \* tool_history: whose tool calls the card state has
  gate,      \* the finish that owns finish_gate, or 0
  fins,      \* the finishes that are out
  requests,  \* the card requests that are out
  cards,     \* history: the cards sent into the chat
  answers,   \* history: the answers, the messages they went under, their turns
  gaveUp,    \* history: finishes somebody stopped waiting for
  spoilt     \* history: the messages a race has come before the Stop of

claudeVars == <<reached, run, used, box>>
turnVars == <<status, turns, closed, reclaim>>
holdVars == <<hold, waiting>>
cardVars == <<busy, cardTurn, rows, cards>>
finishVars == <<gate, fins, gaveUp, answers>>
vars == <<typed, sending, spoilt, claudeVars, mail, turnVars, trigger, queued,
          holdVars, cardVars, finishVars, requests>>

Msgs == 1 .. Messages
Claim == -1
Turn == Len(turns)

\* requests: why it was made, whether it waited for a gate, and where it is
Why == {"hook", "sent", "popped"}
Request == [why: Why, msg: Msgs, turn: Nat, gate: Msgs \cup {0},
            at: {"gated", "enter", "lock", "settling", "sending"}]
Finish == [run: Msgs, turn: Nat, target: Msgs \cup {0}, prev: Msgs \cup {0},
           popped: Msgs \cup {0}, card: Nat,
           at: {"gate", "lock", "card", "answer", "popping"}]
Event == [kind: {"prompt", "tool", "stop"}, run: Msgs]
Waiter == [event: Event, held: Nat, free: BOOLEAN]
Card == [turn: Nat, state: {"live", "over", "lost"}, by: Nat]

Init ==
  /\ typed = 0 /\ sending = 0 /\ reached = FALSE
  /\ run = 0 /\ used = 0 /\ box = <<>> /\ mail = <<>>
  /\ status = "idle" /\ turns = <<>> /\ closed = 0 /\ reclaim = FALSE
  /\ trigger = 0 /\ queued = <<>>
  /\ hold = 0 /\ waiting = <<>>
  /\ busy = 0 /\ cardTurn = 0 /\ rows = {} /\ cards = <<>>
  /\ gate = 0 /\ fins = {} /\ gaveUp = {} /\ answers = {}
  /\ requests = {} /\ spoilt = {}

-----------------------------------------------------------------------------
(* The lock, the gate and the hold.                                        *)

\* animate_lock.locked(): a card step is at an await inside it.
Locked == \E q \in requests : q.at \in {"settling", "sending"}

\* A request that finds the lock free goes on with no await.
Entering == \E q \in requests : q.at = "enter"

\* Mutant: nobody waits for a finish that is out.
GateSetAlways(f) == TRUE

\* The gate of a finish is set: it has released it, or is over.
GateSet(f) == ~ \E g \in fins : g.run = f /\ g.at # "popping"

\* finishing_turn
FinishingTurn == (CHOOSE f \in fins : f.run = gate).turn

\* turn_state_held
Held == hold # 0 /\ hold = Turn /\ cardTurn # Turn

Freed(w) == [i \in DOMAIN w |-> [w[i] EXCEPT !.free = TRUE]]

\* Mutant: the popped turn's hooks are not held.
HoldNothing(n, w) == waiting' = w /\ UNCHANGED hold

\* hold_turn_state of the newest of n turns, the events in w waiting.
HoldNewest(n, w) ==
  /\ hold' = n
  /\ waiting' = IF hold \in {0, n} THEN w ELSE Freed(w)

\* Mutant: only the hold of an older turn is released.
ReleaseOlder(t) ==
  IF hold # 0 /\ hold < t
  THEN hold' = 0 /\ waiting' = Freed(waiting)
  ELSE UNCHANGED holdVars

\* release_turn_state
Release(t) ==
  IF hold # 0 /\ hold <= t
  THEN hold' = 0 /\ waiting' = Freed(waiting)
  ELSE UNCHANGED holdVars

-----------------------------------------------------------------------------
(* Card requests: _send_busy_and_animate.                                  *)

\* The call for the current one of the turns ts, the events in w waiting
\* (the popped turn's call comes from OpenPopped).
Ask(why, m, ts, w) ==
  LET t == Len(ts)
      gated == gate # 0 /\ FinishingTurn < t /\ cardTurn # t
      q == [why |-> why, msg |-> m, turn |-> t,
            gate |-> IF gated THEN gate ELSE 0,
            at |-> IF gated THEN "gated" ELSE IF Locked THEN "lock" ELSE "enter"]
  IN /\ requests' = requests \cup {q}
     /\ IF gated THEN HoldNewest(t, w) ELSE waiting' = w /\ UNCHANGED hold

Move(q, at) == requests' = (requests \ {q}) \cup {[q EXCEPT !.at = at]}

\* What runs after the step returned: a gated request's finally, and the
\* finally of _open_popped_turn.
Return(q) ==
  /\ requests' = requests \ {q}
  /\ IF q.gate # 0 \/ q.why = "popped" THEN Release(q.turn)
     ELSE UNCHANGED holdVars

\* The bound on what goes wrong.
MishapLeft ==
  Cardinality(gaveUp) + Cardinality({k \in DOMAIN cards : cards[k].state = "lost"})
    < MaxMishaps

\* _wait_finish_gate of a gated request.
GateOpens(q) ==
  /\ q.at = "gated" /\ ~ Entering
  /\ \/ GateSet(q.gate) /\ UNCHANGED gaveUp
     \/ /\ ~ GateSet(q.gate) /\ MishapLeft
        /\ gaveUp' = gaveUp \cup {q.gate}
  /\ Move(q, IF Locked THEN "lock" ELSE "enter")
  /\ UNCHANGED <<typed, sending, spoilt, claudeVars, mail, turnVars, trigger,
                 queued, holdVars, cardVars, gate, fins, answers>>

\* The request may run its step under the lock.
Enters(q) ==
  /\ q \in requests
  /\ q.at = "enter" \/ (q.at = "lock" /\ ~ Entering)
  /\ ~ Locked

Stale(q) == q.turn # Turn \/ q.turn <= closed
SameTurn(q) == q.turn = cardTurn

\* The turn is over or replaced, its card is there, its card was lost and
\* it does not run, or another turn's card is being animated.
Dropped(q) ==
  \/ Stale(q)
  \/ SameTurn(q) /\ (busy # 0 \/ status # "busy")
  \/ ~ SameTurn(q) /\ busy # 0 /\ ~ reclaim

Drop(q) ==
  /\ Enters(q)
  /\ Dropped(q)
  /\ Return(q)
  /\ UNCHANGED <<typed, sending, spoilt, claudeVars, mail, turnVars, trigger,
                 queued, cardVars, finishVars>>

\* The card was lost: it is sent again, without the reset.
SendAgain(q) ==
  /\ Enters(q)
  /\ ~ Dropped(q) /\ SameTurn(q)
  /\ busy' = Claim
  /\ Move(q, "sending")
  /\ UNCHANGED <<typed, sending, spoilt, claudeVars, mail, turnVars, trigger,
                 queued, holdVars, cardTurn, rows, cards, finishVars>>

\* An older turn's card is still up: its last edit goes out first.
Supersede(q) ==
  /\ Enters(q)
  /\ ~ Dropped(q) /\ ~ SameTurn(q) /\ busy # 0
  /\ reclaim' = FALSE
  /\ Move(q, "settling")
  /\ UNCHANGED <<typed, sending, spoilt, claudeVars, mail, status, turns,
                 closed, trigger, queued, holdVars, cardVars, finishVars>>

\* The turn-start reset: the claim, a clean card state that is this turn's,
\* the turn's held events let go, and then the card's send.
Reset(q) ==
  /\ busy' = Claim
  /\ rows' = {}
  /\ reclaim' = FALSE
  /\ cardTurn' = q.turn
  /\ Release(q.turn)
  /\ Move(q, "sending")

StartTurn(q) ==
  /\ Enters(q)
  /\ ~ Dropped(q) /\ ~ SameTurn(q) /\ busy = 0
  /\ Reset(q)
  /\ UNCHANGED <<typed, sending, spoilt, claudeVars, mail, status, turns,
                 closed, trigger, queued, cards, finishVars>>

\* Its last edit returned, for the turn by; it may have failed.
Over(k, by) == [cards EXCEPT ![k].state = "over", ![k].by = by]

\* Mutant: the older card is dropped with no last edit.
SupersededForgets(q) ==
  /\ q.at = "settling" /\ ~ Entering
  /\ Reset(q)
  /\ UNCHANGED <<typed, sending, spoilt, claudeVars, mail, status, turns,
                 closed, trigger, queued, cards, finishVars>>

\* _close_superseded_card returned.  A finish's edit of the same card holds
\* the card-edit lock and clears busy_msg_id before this one's turn.
Superseded(q) ==
  /\ q.at = "settling" /\ ~ Entering
  /\ ~ \E f \in fins : f.at = "card"
  /\ IF busy = 0 THEN UNCHANGED cards
     ELSE cards' = Over(busy, cards[busy].turn)
  /\ Reset(q)
  /\ UNCHANGED <<typed, sending, spoilt, claudeVars, mail, status, turns,
                 closed, trigger, queued, finishVars>>

\* _open_busy_card: send_busy returned.
Sent(q) ==
  /\ q.at = "sending" /\ ~ Entering
  /\ \/ /\ cards' = Append(cards, [turn |-> q.turn, state |-> "live", by |-> 0])
        /\ busy' = Len(cards) + 1
     \/ /\ MishapLeft
        /\ cards' = Append(cards, [turn |-> q.turn, state |-> "lost", by |-> 0])
        /\ busy' = 0
  /\ Return(q)
  /\ UNCHANGED <<typed, sending, spoilt, claudeVars, mail, turnVars, trigger,
                 queued, cardTurn, rows, finishVars>>

-----------------------------------------------------------------------------
(* The races, by which the daemon comes to see the turns otherwise than    *)
(* Claude runs them: from there on it may take one message for another.    *)

Stopped == {f.run : f \in fins} \cup {a.run : a \in answers}

\* The race is there: whose Stop has not come may be mistaken, and so may m.
Spoils(race, m) ==
  /\ race \in Races
  /\ spoilt' = spoilt \cup {m} \cup (Msgs \ Stopped)

-----------------------------------------------------------------------------
(* A message from Telegram: _send_text_to.  Updates are handled one at a   *)
(* time.                                                                   *)

\* _adopt_trigger: only a message that starts a turn moves the target.
AdoptTrigger ==
  /\ ~ Entering
  /\ sending = 0 /\ typed < Messages
  /\ IF \E i \in DOMAIN mail : mail[i].kind = "prompt"
     THEN Spoils("quick_next", typed + 1) ELSE UNCHANGED spoilt
  /\ typed' = typed + 1 /\ sending' = typed + 1 /\ reached' = FALSE
  /\ trigger' = IF status = "busy" THEN trigger ELSE typed + 1
  /\ UNCHANGED <<run, used, box, mail, turnVars, queued, holdVars, cardVars,
                 finishVars, requests>>

\* Claude has the text: it runs it, or queues it; either way its hook says so.
Reaches ==
  /\ sending # 0 /\ ~ reached /\ ~ Entering
  /\ reached' = TRUE
  /\ mail' = Append(mail, [kind |-> "prompt", run |-> sending])
  /\ IF run = 0 THEN run' = sending /\ used' = 0 /\ UNCHANGED box
     ELSE box' = Append(box, sending) /\ UNCHANGED <<run, used>>
  /\ UNCHANGED <<typed, sending, spoilt, turnVars, trigger, queued, holdVars,
                 cardVars, finishVars, requests>>

\* transition(BUSY): the turns after it, and its marks.
TurnsAfter(m) == IF status = "busy" THEN turns ELSE Append(turns, m)

ToBusy(m) ==
  /\ turns' = TurnsAfter(m)
  /\ status' = "busy"
  /\ reclaim' = (reclaim \/ status # "busy")

\* The injection and the reaction returned: transition and
\* _card_for_injected.
Handed ==
  /\ reached /\ sending # 0 /\ ~ Entering
  /\ IF status = "busy" \/ trigger = sending THEN UNCHANGED spoilt
     ELSE Spoils("stop_while_typing", sending)
  /\ sending' = 0
  /\ ToBusy(sending)
  /\ Ask("sent", sending, TurnsAfter(sending), waiting)
  /\ UNCHANGED <<typed, claudeVars, mail, closed, trigger, queued, cardVars,
                 finishVars>>

-----------------------------------------------------------------------------
(* Claude: a run's tool calls, and its end.  It pops its queue with no     *)
(* hook.                                                                   *)

Tool ==
  /\ run # 0 /\ used < MaxTools /\ ~ Entering
  /\ used' = used + 1
  /\ mail' = Append(mail, [kind |-> "tool", run |-> run])
  /\ UNCHANGED <<typed, sending, spoilt, reached, run, box, turnVars, trigger,
                 queued, holdVars, cardVars, finishVars, requests>>

End ==
  /\ run # 0 /\ ~ Entering
  /\ mail' = Append(mail, [kind |-> "stop", run |-> run])
  /\ used' = 0
  /\ IF box = <<>> THEN run' = 0 /\ UNCHANGED box
     ELSE run' = Head(box) /\ box' = Tail(box)
  /\ UNCHANGED <<typed, sending, spoilt, reached, turnVars, trigger, queued,
                 holdVars, cardVars, finishVars, requests>>

-----------------------------------------------------------------------------
(* The hook receiver.  Each handler is given the event, the events that    *)
(* wait behind it, and the turn it was held for, or 0.                     *)

\* queue_pickup, then UserPromptSubmit: a message typed into a running turn
\* is a queued target, one that starts a turn takes the target and asks for
\* the card.
Prompt(e, w) ==
  /\ e.kind = "prompt"
  /\ IF status = "busy"
     THEN /\ queued' = IF e.run = trigger THEN queued ELSE Append(queued, e.run)
          /\ waiting' = w
          /\ UNCHANGED <<turnVars, trigger, hold, requests>>
     ELSE /\ trigger' = e.run
          /\ ToBusy(e.run)
          /\ Ask("hook", e.run, TurnsAfter(e.run), w)
          /\ UNCHANGED <<closed, queued>>
  /\ UNCHANGED <<cardVars, finishVars, spoilt>>

\* PreToolUse: the session is BUSY, and the card state gets a row.
PreToolUse(e, w, held) ==
  /\ e.kind = "tool"
  /\ ToBusy(e.run)
  /\ rows' = rows \cup
       {[run |-> e.run, stray |-> held # 0 /\ held # Len(TurnsAfter(e.run))]}
  /\ waiting' = w
  /\ UNCHANGED <<closed, trigger, queued, hold, busy, cardTurn, cards,
                 finishVars, requests, spoilt>>

\* Stop: the session is IDLE and the turn's finish begins.  It reads the
\* turn and its target, takes the gate, and takes the oldest queued message
\* for the turn Claude runs now, whose hooks are held.
Stop(e, w) ==
  LET next == IF queued = <<>> THEN 0 ELSE Head(queued)
  IN /\ e.kind = "stop"
     /\ IF sending = e.run THEN Spoils("late_return", e.run)
        ELSE UNCHANGED spoilt
     /\ fins' = fins \cup
          {[run |-> e.run, turn |-> Turn, target |-> trigger, prev |-> gate,
            popped |-> next, card |-> 0,
            at |-> IF gate = 0 THEN "lock" ELSE "gate"]}
     /\ gate' = e.run
     /\ IF next = 0
        THEN /\ status' = "idle"
             /\ waiting' = w
             /\ UNCHANGED <<turns, reclaim, trigger, queued, hold>>
        ELSE /\ status' = "busy" /\ reclaim' = TRUE
             /\ turns' = Append(turns, next)
             /\ trigger' = next /\ queued' = Tail(queued)
             /\ HoldNewest(Turn + 1, w)
     /\ UNCHANGED <<closed, cardVars, gaveUp, answers, requests>>

Handle(e, w, held) ==
  /\ Prompt(e, w) \/ PreToolUse(e, w, held) \/ Stop(e, w)
  /\ UNCHANGED <<typed, sending, claudeVars>>

\* Events let go run before anything newer.
NoneFree == ~ \E i \in DOMAIN waiting : waiting[i].free

\* A datagram: a turn's own events wait while its card state is another's.
Arrives ==
  /\ mail # <<>> /\ NoneFree /\ ~ Entering
  /\ mail' = Tail(mail)
  /\ LET e == Head(mail) IN
     IF e.kind # "prompt" /\ Held
     THEN /\ waiting' = Append(waiting, [event |-> e, held |-> hold, free |-> FALSE])
          /\ UNCHANGED <<typed, sending, spoilt, claudeVars, turnVars, trigger,
                         queued, hold, cardVars, finishVars, requests>>
     ELSE Handle(e, waiting, 0)

LetGo ==
  /\ ~ NoneFree /\ ~ Entering
  /\ Handle(Head(waiting).event, Tail(waiting), Head(waiting).held)
  /\ UNCHANGED mail

-----------------------------------------------------------------------------
(* The finish.                                                             *)

Goes(f, at) == fins' = (fins \ {f}) \cup {[f EXCEPT !.at = at]}

\* It waits for the older finish it found on the gate.
FinishGate(f) ==
  /\ f.at = "gate" /\ ~ Entering
  /\ \/ GateSet(f.prev) /\ UNCHANGED gaveUp
     \/ /\ ~ GateSet(f.prev) /\ MishapLeft
        /\ gaveUp' = gaveUp \cup {f.prev}
  /\ Goes(f, "lock")
  /\ UNCHANGED <<typed, sending, spoilt, claudeVars, mail, turnVars, trigger,
                 queued, holdVars, cardVars, gate, answers, requests>>

\* Mutant: the turn after it is closed too.
CloseTurnOneOver(f) ==
  /\ f.at = "lock" /\ ~ Locked /\ ~ Entering
  /\ closed' = f.turn + 1
  /\ fins' = (fins \ {f}) \cup
       {[f EXCEPT !.card = busy, !.at = IF busy = 0 THEN "answer" ELSE "card"]}
  /\ UNCHANGED <<typed, sending, spoilt, claudeVars, mail, status, turns,
                 reclaim, trigger, queued, holdVars, cardVars, gate, answers,
                 gaveUp, requests>>

\* close_turn, under the card's lock; then the card is looked at.
CloseTurn(f) ==
  /\ f.at = "lock" /\ ~ Locked /\ ~ Entering
  /\ closed' = IF f.turn > closed THEN f.turn ELSE closed
  /\ fins' = (fins \ {f}) \cup
       {[f EXCEPT !.card = busy, !.at = IF busy = 0 THEN "answer" ELSE "card"]}
  /\ UNCHANGED <<typed, sending, spoilt, claudeVars, mail, status, turns,
                 reclaim, trigger, queued, holdVars, cardVars, gate, answers,
                 gaveUp, requests>>

\* The card's last edit returned; whether it went through or not, the card
\* is forgotten.  Another finish waiting to edit it finds none.
SettleCard(f) ==
  /\ f.at = "card" /\ ~ Entering
  /\ cards' = Over(f.card, f.turn)
  /\ busy' = 0
  /\ fins' = {IF g.at = "card" THEN [g EXCEPT !.at = "answer"] ELSE g : g \in fins}
  /\ UNCHANGED <<typed, sending, spoilt, claudeVars, mail, turnVars, trigger,
                 queued, holdVars, cardTurn, rows, gate, gaveUp, answers,
                 requests>>

\* Mutant: the target is cleared, whoever's it is by now.
TargetCleared(f) == 0

\* The target is done with, unless it is a newer turn's.
TargetAfter(f) ==
  IF Turn = f.turn /\ trigger = f.target THEN 0 ELSE trigger

\* The answer is out: the target goes, and _release_finish_gate.
Answered(f) ==
  /\ f.at = "answer" /\ ~ Entering
  /\ answers' = answers \cup {[run |-> f.run, under |-> f.target, turn |-> f.turn]}
  /\ trigger' = TargetAfter(f)
  /\ gate' = IF gate = f.run THEN 0 ELSE gate
  /\ IF f.popped = 0 THEN fins' = fins \ {f} ELSE Goes(f, "popping")
  /\ UNCHANGED <<typed, sending, spoilt, claudeVars, mail, turnVars, queued,
                 holdVars, cardVars, gaveUp, requests>>

\* _open_popped_turn, after its reaction.
OpenPopped(f) ==
  /\ f.at = "popping" /\ ~ Entering
  /\ fins' = fins \ {f}
  /\ requests' = requests \cup
       {[why |-> "popped", msg |-> f.popped, turn |-> f.turn + 1, gate |-> 0,
         at |-> IF Locked THEN "lock" ELSE "enter"]}
  /\ UNCHANGED <<typed, sending, spoilt, claudeVars, mail, turnVars, trigger,
                 queued, holdVars, cardVars, gate, gaveUp, answers>>

-----------------------------------------------------------------------------
RequestStep(q) ==
  \/ GateOpens(q) \/ Drop(q) \/ SendAgain(q) \/ Supersede(q)
  \/ StartTurn(q) \/ Superseded(q) \/ Sent(q)

FinishStep(f) ==
  \/ FinishGate(f) \/ CloseTurn(f) \/ SettleCard(f) \/ Answered(f)
  \/ OpenPopped(f)

Next ==
  \/ AdoptTrigger \/ Reaches \/ Handed
  \/ Tool \/ End
  \/ Arrives \/ LetGo
  \/ \E q \in requests : RequestStep(q)
  \/ \E f \in fins : FinishStep(f)

Spec == Init /\ [][Next]_vars

\* What goes on by itself: Claude's runs end, and no task of the daemon
\* stops for good (a call to Telegram returns, whatever it returns).
GoesOn ==
  \/ Reaches \/ Handed \/ End \/ Arrives \/ LetGo
  \/ \E q \in requests : RequestStep(q)
  \/ \E f \in fins : FinishStep(f)

LiveSpec == Spec /\ WF_vars(GoesOn)

-----------------------------------------------------------------------------
\* The types; a closed turn is one that was begun, and so is the turn of a
\* hold, of the card state and of a card.
StateTypes ==
  /\ typed \in 0 .. Messages /\ sending \in 0 .. Messages
  /\ reached \in BOOLEAN
  /\ run \in 0 .. Messages /\ used \in 0 .. MaxTools
  /\ box \in Seq(Msgs) /\ mail \in Seq(Event)
  /\ status \in {"idle", "busy"}
  /\ turns \in Seq(Msgs) /\ closed \in 0 .. Turn
  /\ trigger \in 0 .. Messages /\ queued \in Seq(Msgs)
  /\ reclaim \in BOOLEAN
  /\ hold \in 0 .. Turn /\ waiting \in Seq(Waiter)
  /\ busy \in 0 .. Len(cards) \cup {Claim}
  /\ cardTurn \in 0 .. Turn
  /\ rows \subseteq [run : Msgs, stray : BOOLEAN]
  /\ gate \in 0 .. Messages /\ fins \subseteq Finish
  /\ requests \subseteq Request
  /\ cards \in Seq(Card)
  /\ answers \subseteq [run : Msgs, under : 0 .. Messages, turn : Nat]
  /\ gaveUp \subseteq Msgs

TypeOK == StateTypes /\ spoilt \subseteq Msgs

\* A card shows a running turn: its last edit has not gone out.
Live(k) == k \in DOMAIN cards /\ cards[k].state = "live"

\* The chat never has two running cards: whatever requests and finishes are
\* out, a card is claimed or settled before another one is sent
\* (animation.py _send_busy_and_animate, _close_superseded_card).
OneLiveCard == \A k, l \in DOMAIN cards : Live(k) /\ Live(l) => k = l

\* A turn has one card, though its hook, its handler and the finish before it
\* may each ask for one, and though its finish may be over before they get to
\* it; not so once a finish was not waited for: then an older finish may take
\* the newer turn's card from it.
OneCardPerTurn ==
  gaveUp = {} =>
    \A k, l \in {i \in DOMAIN cards : cards[i].state # "lost"} :
      cards[k].turn = cards[l].turn => k = l

\* The card state has tool calls of its own turn only: a popped run's hooks
\* come before its card, while the older turn's state is still up, and wait
\* (hook_receiver.py _hold_for_turn_state).  A stray row is one whose event
\* was held for one turn and let go under another; nothing looks again.  Not
\* so once a finish was not waited for: a card request may then be dropped,
\* and its hold let go, with an older turn's card still up.  Nor after a race,
\* which may begin a turn no prompt runs for.
OwnRows ==
  gaveUp = {} /\ spoilt = {} =>
    \A row \in rows :
      row.stray \/ (cardTurn # 0 /\ row.run = turns[cardTurn])

\* A card's last edit is made by its own turn's finish, or for its own turn
\* by the request that replaces it: the finish of an older turn never ends a
\* newer turn's card, unless somebody stopped waiting for it.
OwnCard ==
  \A k \in DOMAIN cards : cards[k].by \in {0, cards[k].turn} \/ gaveUp # {}

\* Every answer goes under the message that was sent for it, though the
\* target is one field that the next message, the next prompt hook and the
\* pop of a queued message move while the finish is out (notify.py on_event).
\* A race may only mislead the answers of runs whose Stop comes after it: a
\* finish that is out already keeps the target it has read.
AnswerUnderOwn == \A a \in answers : a.under = a.run \/ a.run \in spoilt

\* What notify.py:4181-4182 says of every answer: this turn's still belongs
\* under this turn's message.
EveryAnswerUnderOwn == \A a \in answers : a.under = a.run

\* The answers come in the order of the messages: a finish that finds another
\* one out waits for its gate, and so does one that finds that one waiting
\* (notify.py on_event, finish_gate), as long as there was no race.
AnswersInOrder ==
  gaveUp = {} /\ spoilt = {} =>
    \A a \in answers : \A m \in 1 .. a.run : \E b \in answers : b.run = m

\* What the chat promises, before a race and after, is what TurnPromise says
\* (animation.py _send_busy_and_animate, notify.py on_event).
Chat == INSTANCE TurnPromise WITH patient <- gaveUp = {}
KeepsChatPromise == Chat!Spec

\* The chat settles: every message taken is answered, and no card is left
\* running.  No request may be let through after its turn's end.
TurnsSettle ==
  []<>(/\ \A m \in 1 .. typed : \E a \in answers : a.run = m
       /\ \A k \in DOMAIN cards : ~ Live(k))
=============================================================================
