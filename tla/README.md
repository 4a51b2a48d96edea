# TLA+ models of aipager

aipager lets a person drive Claude Code sessions from Telegram. One asyncio
daemon types into the terminals of detached (`dtach`) Claude Code processes,
hears of what happens in them by hook datagrams, and shows it in the chat.
What is hard in it is not any one computation: it is that several coroutines,
hook processes, Claude Code itself and a person at the terminal act on the same
session at the same time, and that the daemon can only ever guess what is on
the screen. These modules are about that.

Line numbers below are of the sources under `src/aipager/`.

## 1. The system

### Components

| component | state it keeps | operations | talks to |
|---|---|---|---|
| daemon (`cli/daemon.py`, `bot/lifecycle.py`) | the event loop, the instance lock | start, stop, restart | everything below |
| session registry (`state.py`) | `TrackedSession`: status, turn and queue records, open prompts; the state file | `transition`, `save_if_dirty`, prompt and queue records | shared by all coroutines, no lock |
| hook receiver (`dtach/hook_receiver.py`) | nothing of its own | one handler per hook event, each datagram in a task of its own | registry, bot |
| hooks (`dtach/notify_hook.py`, `enforce.py`) | one process per event | gate pass, request and reply wait, notes, spill | Claude Code, receiver, typing gate |
| terminal writer (`dtach/inject.py`) | per session: write lock, chord in flight, pending wipe, gate holds | prompts, keys, chords, wipes, kill | `dtach -p` processes |
| typing gate (`dtach/typing_gate.py`) | a folder: the `typing` marker, `pass-*` stamps | `begin`, `end`, `fresh_passes`; `pass_gate` | writer on one side, hooks on the other |
| queued lines (`bot/send_now.py`) | timers, lines, owed deletes | arm, send, drop, delete, press | registry, Telegram, Claude's queue records |
| prompts (`bot/callbacks.py`, `prompt_stack.py`, `bot/auth.py`) | the registry's prompt records | raise, tap, refuse, close | hook's reply socket, writer |
| busy card (`bot/animation.py`, `bot/notify.py`) | the card's message, its lock, the finish gate, the card state | ask for a card, send, supersede, settle | Telegram, registry |
| answers (`bot/notify.py`, `bot/held.py`, `bot/outbox.py`) | held answers, file batches, the delivered ring | finish a turn, hold, flush, deliver files | Telegram, flood control |
| flood control (`bot/flood*.py`, `flood_policy.py`) | budgets, mutes, a state file | pace, mute, persist | every Telegram call |
| monitor (`session_monitor.py`) | watchdog counters | a tick every 2 s: save, flush, demote, watch | registry, bot |
| Mini App and tunnel (`miniapp/`) | a web server; the tunnel process and its record | stop/send from a page; spawn, probe, hand over | the same operations, in their own tasks |
| update and restart (`self_update.py`, `self_restart.py`, `bot/update_flow.py`) | the update job, a file lock | idle gate, install, restart | registry, bot |
| reports, language, setup, policy, wizard, commands | files and tables | mostly sequential | - |

`PROJECT.json` lists every component with what is modelled of it.

Telegram's updates are handled one at a time. That serialises taps and messages
with each other, not with hook handlers, the monitor's tick, timers, the Mini
App's requests, deferred tasks, or an update's own awaits: an operation that
awaits can find everything changed after it. There is no lock per session but
the writer's, and that one covers single writes (prompts hold it whole).

### What makes each part correct

- *Typing gate*: a key is never typed when the dialog of a tool call that was
  just let through may be on its way; and the gate makes neither side wait for
  ever.
- *Terminal writer*: what Claude receives is what one person sent, whole and
  alone; what a broken-off operation left in the box is owed a wipe.
- *Queued lines*: a line in the chat is always owed a delete, a press leaves no
  line of what it answered, and a line does not outlive its message's wait.
- *Open prompts*: keys meet the dialog they were meant for, no dialog loses its
  record, a refusal that may be typed is.
- *Turns and cards*: one running card; a turn has one card, its own tool calls
  on it, and its answer under its own message, however many finishes, card
  requests and hooks of other turns are out; and the chat settles.
- *Answers*: every answer is delivered once, in order, or its loss is said; its
  files come after it.
- *Registry and lifecycle*: no event is lost to a debounce, a carry or a
  demotion; the state file is one that can be resumed from.
- *Update, tunnel*: never two installers, nor two owners of a tunnel, nor none.

## 2. Modules

| module | models | lines |
|---|---|---|
| `TypingGate` | the gate protocol between hooks and writers, in discrete time | 510 |
| `TypingGateProofs` | five theorems about it | 700 |
| `TerminalWriter` | prompts, chords, clears and Stop on one terminal, write by write | 560 |
| `TerminalWriterProofs` | five theorems | 3140 |
| `QueuedLines` | the lines under queued messages, their timers, sends, deletes, restart | 600 |
| `QueuedLinesProofs` | five theorems | 1310 |
| `LinePromise` | abstract: one line a message, owed a delete from its post on, let go before it is deleted | 90 |
| `OpenPrompts` | several permission prompts open at once | 530 |
| `OpenPromptsProofs` | four theorems | 3110 |
| `TurnCards` | messages to turns, turns to cards and answers: handler, hooks, finishes, card requests | 600 |
| `TurnCardsProofs` | eight theorems | 7160 |
| `TurnPromise` | abstract: turns, the one running card, one answer a message, in order while nothing goes wrong | 90 |
| `AnswerPromise` | abstract: an answer is owed, then delivered or given up | 60 |
| `AnswerDelivery` | answers and files under mutes: the buffer, the flush, the delivery chain, the ring, restarts | 660 |
| `AnswerDeliveryProofs` | six theorems | 2830 |
| `AnswerPromiseProofs` | `AnswerDelivery` implements `AnswerPromise` | 260 |
| `TunnelManager` | the Mini App's tunnel over several daemons: loop, stop, hand-over, guard, button | 420 |
| `TunnelManagerProofs` | three theorems | 950 |
| `MC*` | symmetry sets and small instances for the checker | |

`TunnelManager` stands alone: a tunnel has nothing to do with a session. The
others are six views of one session that meet at stated interfaces. `TypingGate`
has the timing of one look and one write; its `KeySafe` is what lets
`TerminalWriter` take a look and the write after it as one step, with no dialog
in between. `TerminalWriter` shows what a key does among other writes, which
`OpenPrompts`, `QueuedLines` and `TurnCards` take as one step (`TakeKey`, the
chord's answer, `Reaches`). `QueuedLines` and `OpenPrompts` share `TrackedSession`
only through the status: a queue settles at a turn's end, a wait ends with the
last prompt. `TurnCards` decides when a turn ends and under which message its
answer goes; its step `Answered` is the whole of `AnswerDelivery`, which starts
where a finish has its text in hand.

### Correspondence to the code

In each module an action is the code between two awaits (or one process's step
between two file accesses, in `TypingGate`); what the code reads before an await
and uses after it is a variable (`known`, `tap`, `task`, `left`, ...).

**TypingGate.** `marker` is the time the marker file still gates, `stamp` the age
of a hook's file, `hookPc` and `sendPc` program counters, `spent` the time in the
current look, write or gap, `lockQueue` the write lock. `unread` and `vouched`
say whether the last key was read and whether a proper look preceded it. Clock
readings are replaced by ages and remaining times, capped where nothing tells
larger values apart, so behaviours are unbounded in length with no counter.

**TerminalWriter.** `term` is Claude Code's input box, queue, Ctrl+X prefix and
dialog, as the comments of `inject.py` record them. `job` is the list of lock
holds a writer has left and `phase` where it is in the first; `pendingWipe` is
`_PENDING_WIPE`, `inFlight`/`broken` the chord's bookkeeping, `strays` writes that
timed out while their process lives. `upset` and `doubts` are histories: from a
step of the code that loses track of text in the box, until the box is empty and
nobody writes, `upset` holds, and the messages typed or handed over go to `doubts`.

**QueuedLines.** `task[m]` is where `_queued_line_timer(m)` and the send it
shields are; `targets`, `lines`, `timers`, `owed`, `presser`/`after` the session's
fields (a press stamp against arm times is the set of messages armed after it,
empty while there is no stamp);
`saved` and `boot` the state file and the start-up pass; `calls` the delete calls
out. `held`, `named`, `take` are Claude's queue and its unread records, `up` the
lines really in the chat, `lost` the lines a named fault took from the daemon.

**OpenPrompts.** `dialogs` is Claude's stack, `hook` each prompt's hook process,
`mail` the datagrams; `card`, `extra`, `waiting`, `order` the records behind
`open_prompts()`, `refusal` how far a due refusal got, `first` a refusal typed with
no record, `tap` the tap between its awaits. `known` remembers which dialogs the
daemon knew of when it chose to type.

**TurnCards.** `turns` holds what each turn was begun for, so that its length is
`turn_seq`; `closed` is `closed_turn_seq`, `trigger` and `queued` the reply
targets. `busy` is `busy_msg_id` with its claim -1, `cardTurn` and `rows` the
card state's turn and tool calls, `gate` and `hold` the finish gate and the held
turn. A member of `fins` is an `on_event` task of a Stop, a member of `requests` a
call of `_send_busy_and_animate`; `at` says at which await it is. `mail` is the
datagrams not yet read, `waiting` the handlers in `_hold_for_turn_state`. A
request that finds the lock free goes on with no await (`Entering`): no other
step happens before it is through. `cards`, `answers`, `gaveUp` are histories,
and so is `spoilt`: the messages whose Stop had not been handled when a race came.

**AnswerDelivery.** `fin[t]` is where the finish of turn t is among its sends;
`held` is the chat's part of `HELD`, an entry's `no` its sequence number; `flush`
is the flush the monitor awaits, with the queue it read before its first
await; `keyBefore[t]` is `files_held_before`; `batches`, `pend`, `chain` are the
outbox of a session; `ring`, `confirmed`, `saved` the delivered digests in memory,
without the pending ones, and on disk. `copies`, `told`, `sentFiles`, `dropped`,
`forgot` are histories.

**TunnelManager.** A number stands for a cloudflared: its process, pid and
address. `loop` is what the supervision task waits for, `cur` the tunnel an
adoption or a launch holds in a local, `proc` and `told` are `_proc` and its
`_stopping`; `daemon` says at which await a stop is. `slot`, `last`, `pubs` and
`button` are the address handed out, the one last published, the publishes in
flight and what the chat shows; `record` is `TUNNEL_STATE_FILE`, `guards` the shell
scripts of kept tunnels. `unsaved` and `stray` are histories.

## 3. What is checked

| run | instance | shows |
|---|---|---|
| `typing_gate` | 1 hook (whose slot is reused for later calls), 2 writers, times of 1-7 ticks | no key meets a dialog just let through; marker kept and released; nobody waits for ever |
| `terminal_safety` | 2 prompts of 2 pieces, 1 chord, 1 clear, 1 Stop, writes that are refused, a kill that may fail | messages whole, box accounted for, reports true while no text is out of sight; nothing stashed |
| `terminal_live` | a prompt, a chord and a Stop, every fault | every writer returns |
| `queued` | 2 messages, 1 press, every teardown, 1 restart, every fault | lines owed, tracked lines up, nothing of a pressed queue left once the press was answered |
| `queued_live` | 2 messages, 1 press, 1 further turn | a line goes once its message was taken; implements `LinePromise` |
| `open_prompts` | 3 prompts of every kind, rules that may deny any, reply sockets that may fail to open; 2 when one is answered in the terminal | keys meet their dialog, dialogs keep their records, refusals are woken |
| `answers` | 3 turns of 2 sessions of one chat, buffer of 2, 2 attempts, 2 mutes, every fault, 1 restart or crash | no answer vanishes or comes twice, late answers in order, files after their own answer; implements `AnswerPromise` |
| `answers_live` | 3 turns of one session, one merged, 2 with files, 2 mutes | every answer and file in hand is settled |
| `turn_cards` | 3 messages, 1 tool call a run, 1 lost card or finish given up | one running card, rows and answers with their own turn; everything settles; implements `TurnPromise`: one card a turn, ended by its own finish, answers in the order of the messages |
| `tunnel` | 2 tunnels, 3 daemons, crashes, every fault | public tunnels accounted for, the button true, a kept tunnel taken over or ended |
| `prompts_late_tap`, `turn_cards_typed_over` | small | the code and its docs disagree (section 6) |

### Why the bounds are enough

- *typing gate*: the hazard needs one hook whose stamp-then-read crosses one
  writer's mark-then-look; a second writer is needed for the shared marker. A
  second hook adds a second stamp a look must also wait out, which is the same
  quantified condition; the theorems cover any number.
- *terminal*: a glued message needs a writer that leaves text, one that submits
  and one between. Two prompts of two pieces put up to four units into the queue and
  the box; `MaxPresses` 4 wipes them all, but a discard sized when the queue held
  one prompt, with `MinPresses` 1, may be too small once it holds both, so an
  undersized wipe is reachable. The run is without "timeout" (with it the
  Ctrl+S of section 5 is reachable); the theorems about text bound nothing.
- *queued lines*: two messages make a batch delete and a "kept" and a "dropped"
  line; one restart is one more pass over the same saved list; a second press,
  which overwrites the first one's stamp, is covered by the theorem. `MaxTurns` 1
  lets a queue outlive its turn. `queued_live` checks `LinePromise` with no fault and
  no restart; `KeepsLinePromise` added to `QueuedLines.cfg` checks it with every fault
  and a restart, in five minutes, and the theorem says it of any of them.
- *open prompts*: three is the least with a promoted prompt that has another one
  behind it, and with a verdict about two others. `MaxByHand` bounds to two the
  prompts of a behaviour in which the person answers one in the terminal; it
  bounds nothing else.

- *turns*: three messages make a finish that waits for an older finish while a
  third turn's card request waits for a gate; a tool call a run makes the events
  that must be held. `MaxMishaps` 1: a lost card or a finish given up switches a path
  or an exemption on once; with both in one behaviour the run holds too, in more
  than twice the time, and the theorems bound neither. The run has no race:
  under races `TurnsSettle` fails ("late_return" leaves a turn nobody ends), and
  what the safety properties say of messages no race has spoilt is checked in full.
  With `Races` set to all three in `TurnCards.cfg` and without `TurnsSettle` they
  hold too (3 messages with no tool call and no mishap, or with one mishap; 2
  with one of each), and the theorems say it for any number.
- *answers*: three turns with a buffer of two make the cap drop an entry, two of
  them in one session an older and a younger entry; two mutes make one that
  comes during the flush the first one's end began; two attempts are a first
  and a last.

- *tunnel*: two make a kept tunnel and the one launched in its place, or two
  launches; three daemons keep one tunnel twice, with two guards, and still have
  one that takes it over.

Deadlock is checked for `TypingGate`, which never stops. The other runs say
`CHECK_DEADLOCK FALSE`: their sets of messages, turns, prompts and writers are
finite and a behaviour ends when each is done.

### Fairness

Weak fairness of a hook's and a writer's own steps: they are processes or
coroutines on an event loop that never blocks. Strong fairness of a send's last
write in `TypingGate`: a send makes finitely many writes, which the model's loop
over pieces abstracts. Strong fairness of `Tick`, which other steps may disable
but never for ever. `QueuedLines` assumes sends, deletes, taps, the watcher and
the card's tick go on, a teardown that began ends, and turns end (strongly:
they may be resumed). `TerminalWriter` assumes only weak fairness of each
writer's step: each waits on the FIFO lock or on a `dtach -p` with a time limit.
`TurnCards` assumes that something of what goes on by itself goes on (`GoesOn`:
Claude's run ends, a datagram is read, a task of the daemon takes its next step);
its bounds make every such step one of finitely many, so no finer fairness is
needed. `AnswerDelivery` assumes that mutes lift, that finishes, the flush and
the delivery tasks go on, and that the monitor's tick comes back to every session.
`TunnelManager` assumes that the loop, a stop that began, publishes and guards go
on and that a process told to end ends; no daemon need start or stop.
Nothing is assumed of a person, of Claude asking, or of a fault not happening.

## 4. What is proved

Every safety property a passing run checks, and every type invariant, is also a
theorem TLAPS proves for every value of the constants; so are the refinements of
`AnswerPromise`, `TurnPromise` and `LinePromise`. The invariants each proof needs
were checked by TLC on the runs' instances before they were proved.

- `TypingGateProofs`: `TypeCorrect`, `KeysAreSafe`, `MarkerStaysUp`,
  `UnseenIsFresh`, `MarkerIsHeld`. They rest on the assumption `GateTiming`,
  which with the code's numbers is 2.5 + 5 + 1 + 5 + 0.15 < 15 s.
  `KeySafe` is not inductive: the proof adds that each timed step is within its
  limit (`InTime`), that what is left of the marker covers the rest of the send
  (`Covered`), that a call not yet drawn has a young stamp (`StampYoung`), that
  from the look until the marker goes no gated call is on its way (`Shielded`),
  and whose key is unread (`KeyOwner`). `StampYoung` is why the order "stamp, then
  read the marker" matters, `Covered` why the marker is renewed at each look.
- `TerminalWriterProofs`: `TypeCorrect` and `ChordNeverStashes` (no lone Ctrl+S,
  when no write times out). The invariant says of each job which holds may be
  left and what its next writes are (`JobShape`, `HoldShape`), and that the
  Ctrl+X of a chord in flight is still pending unless another write was counted
  (`ChordShape`). `MessagesStayWhole`, `LeftoversOwed` and `ReportsAreTrue` follow
  the text (`TextInv`), with every fault, every kill and any number of Stops:
  while nobody types, the box holds at most what is owed a wipe; in a wipe, no
  more than its Ctrl+U still to come take; after it, the pieces its prompt has
  typed and nothing else; and before a chord's Ctrl+S nothing (`BoxInv`). This is
  said while no text is out of sight (`Calm`). A step that loses track of text
  raises `upset`, which falls when the box is empty, nobody writes and no write
  that timed out is left: then `BoxInv` holds again, whatever the box was before.
  What the histories exempt is listed in section 5, each with the step that
  raises it; with any of these left out of `Recall`, TLC finds `BoxAccounted` broken.
- `QueuedLinesProofs`: `EveryLineIsOwed` (with `ArmedOnce`: a message is armed
  once, so no second coroutine posts a line over the first),
  `PressClearsTheQueue` and `TrackedLinesUp`, for every set of faults. `TrackInv`
  adds for the last that a line which is tracked, owed, saved, in a call or left to
  the start-up pass is of a message whose coroutine is over (`AnsweredFirst`),
  unless a tap on the line itself came first. `TypeCorrect` needs what the
  recursive `Without` returns: were some kept prefix no list of messages, the
  least such prefix would be one entry longer than a list of messages.
  `LinePromiseKept` maps every step of a timer, a send, a delete, a press, a
  teardown or a restart to a step of `LinePromise`: a delete is of lines that
  are not tracked or were pressed (`TrackedUp`), a restart leaves owed what was saved
  of posted lines (`AnsweredFirst`, `LinesOwed`). That no line comes twice
  (`LineOnce`: a line that was up or pressed is one whose coroutine has posted it)
  follows from the promise's own steps.
- `OpenPromptsProofs`: `TypeCorrect`, `KeysLand`, `DialogsOnRecord` and
  `RefusalsWoken`, for any finite set of prompts: the place of a record is the
  greatest stamp so far and one more, which an infinite set need not have. The
  invariant follows a prompt from its request datagram over its record to its
  end: one that its hook or a person may still answer has a record once its
  request was handled (`Recorded`), and what is over stays over (`Ended`); of two
  dialogs, what the first one came with was sent, and so handled, before what the
  second one came with (`InOrder`), so the key typed for a prompt meets its dialog
  before those the verdict knew of (`KeysAhead`); and a due refusal that may be
  typed is not alone: another that may be, or its key, is on the way (`Woken`).
- `AnswerDeliveryProofs`: `AnswersDoNotVanish` and `AnswersComeOnce` say where an
  answer can be: with its finish, in the buffer, or in the queue of the running
  flush (`Queued`, `Spent`); a number names one entry in both (`Numbered`); and
  outside the merged layout an answer is in one place, and in none once it is in
  the chat. `TypeCorrect`, `FilesWait`, `LateAnswersInOrder` and `FilesComeAfter`
  rest on a second invariant, `FInv`: of one session's entries an older one has
  failed no less often than a younger one, and more often once a flush left it
  behind (`ByAge`, `LeftBehind`). So while a finish runs, an entry of its own turn
  is newer than the key it read before, and an older one is no newer, unless it
  failed (`KeyKept`); the files wait for what that key names (`FilesKnown`).
- `AnswerPromiseProofs`: `PromiseKept`, that the deliveries implement
  `AnswerPromise`: each step takes an answer up, brings one to the chat, or takes
  answers out of hand, and a restart keeps only what is in the chat as known.
- `TurnCardsProofs`, six arguments:
  - `TypeCorrect` and `OneCardRuns`, under every race: a live card is the one
    `busy_msg_id` names, a finish that edits a card edits that one, and the claim
    stands exactly while a request is at its send, of which the card lock lets in
    one (`CardInv`); the types need that no request or finish is of a turn that
    has not begun (`Begun`).
  - `EditsOwnCard` and `OneCardEach`, under every race (`OrderInv`): a run ends
    once, so a finish is known by its run; the finishes out form a chain of rising
    turns, each behind the one it found on the gate, and only the first goes on;
    no request and no card state is of a later turn than a finish still to come.
    So a finish that looks at the card finds its own turn's or none: a turn not
    closed still has its finish out, and a closed turn's card is being edited.
  - `RowsAreOwn`, until the first race: Claude's runs follow the messages and
    their hooks reach the daemon in line, so there are S and P with the daemon at
    the turn of run S + 1, or idle after S, the prompts S + 2 to P its queued
    targets, the later ones and the events of later runs still under way
    (`LineInv`). A Stop therefore finds its own message as the target
    (`AnswerInv`). Rows need besides that the held events all wait for the running
    turn's card state or all go on (`HoldLine`), and that this state is set, its
    hooks are held, or its request goes on at once (`StateHeld`).
  - `AnswersUnderOwn`, whatever races come: a race breaks that line for good, but
    a finish keeps the target it was begun with, and a run ends once, so the
    answers of the runs whose Stop was handled before it are still their own
    (`StoppedOwn`).
  - `AnswersComeInOrder`, until the first race: besides, turn t is then message
    t's, and so is the finish of turn t, wherever it is (`TurnsOwn`, `FinsOwn`); a
    turn whose Stop was handled is answered or has a finish that has yet to answer
    (`AllFinished`), so that the first finish of the chain, the only one that may
    answer, is the oldest without an answer.
  - `ChatPromiseKept`, under every race: a step of the handler, of a hook, of a
    card request or of a finish is one step of `TurnPromise` or none. It needs of
    every mode that the card `busy_msg_id` names is a running one (`SlotLive`),
    that a finish past `close_turn` is of a closed turn (`PastClosed`), that past
    its card no card of its turn or an older one runs (`PastSettled`), and that
    the run of a finish still to answer has no answer (`AnsweredOver`).
- `TunnelManagerProofs`: `TypeCorrect`, `NoneForgotten` (`Accounted`) and
  `ButtonIsTrue`, for every set of faults. What the record names changes under
  the guard, the stop and the next daemon, so the invariant says of each running
  tunnel why it is accounted for (`OwnedInv`), that the record and the daemon do
  not hold two running ones (`RecordInv`), and that a guard about to remove the
  record removes only that of the tunnel it ends (`StrikeInv`, from the tokens of
  `TokenInv`). For the button (`ButtonInv`): what was published last is shown or
  last in flight, and what that is follows from where the loop is.

`EditsOwnCard`, `OneCardEach` and `AnswersComeInOrder` state `OwnCard`,
`OneCardPerTurn` and `AnswersInOrder`, which no run lists: they follow from
`TurnPromise`, and the run checks that.

Only model-checked is all liveness: `HooksGoOn`, `SendsEnd`, `WritersReturn`,
`LineEnds`, `EverythingSettles`, `TurnsSettle`, `KeptEnds`. Fairness and ENABLED are
outside the prover. Proved only under a condition on the constants is
`ChordNeverStashes` (no timed-out write; with one, `NoStash` fails); its run has
the same condition. What the other theorems exempt they exempt by a history, of
what happened in a behaviour: `upset` and `doubts`, `spoilt`, `gaveUp`, `lost`,
`missed`, `dropped` and `byHand`, `forgot`, `unsaved` and `stray` (section 5).

## 5. Assumptions and known deviations

What a model leaves out, and how to see it when it is a constant:

*TypingGate.* A clock stepping back; a write reported as failed that lands later;
the kill chord's longer gap (up to 2.5 s). Hooks that were "capped" or met an
"error", and looks that gave up at the hard limit or could not write the
marker, are outside `KeySafe`, as the code's notes say.

*TerminalWriter.* Text gets out of sight (`upset`), and messages are exempted
(`doubts`), from: a refused write with pieces or a surfaced queue behind it
(`inject.py:847`: no wipe is owed), a write that timed out (its `dtach -p` may
still write, line 291), a Stop's Escape that surfaces a queue
(`session_ops.py:2513`: its wipe is a hold of its own), a kill the session
survives with a wipe owed (1307), a dialog that opens inside a wipe and takes the
rest of it, and a wipe that is too short when it begins: capped by `MaxPresses`,
or sized before the queue grew (1033). All of them but the timed-out write are in
the passing run, `terminal_safety`. With "timeout" in its `Faults` `NoStash`
fails: a late write comes without its count. A dialog is assumed to take every
key, and nobody to answer one within a chord's 0.1 s. Not modelled:
`request_wipe`, `press_mode_cycle`, `press_kill_agents`, `press_key_in_dialog`,
`press_enter_gated`, relaunch.

*QueuedLines.* `lost` exempts from `LinesOwed` the lines that a lost answer
(`send_now.py:262`), a delete failing on the network (467, 596) or a restart
before a save took. A tap answered "sent" while another chord is in flight
keeps its own tracked line; a shielded send records its line though the turn
ended (it is owed all the same); Stop sets IDLE past `transition()`, so a press's
stamp stands into the next turn. One chat; messages with distinct texts; a
take's record is read before its turn ends.

*OpenPrompts.* Datagrams arrive in order and are not lost (`GRACE`,
`prompt_stack.py:32`, is for a lost one); a hook that gave up takes no decision;
the settle time of a refusal is long enough, but an answer given to a hook while
the refusal reads Claude's queue is not waited out (`auth.py:910`). The first
prompt of a wait is drawn on the card. What the two properties about dialogs do
not cover: `KeysMeetTheirDialog` speaks of the dialogs the daemon knew of when it
chose to type (`known`), so not of one that opens, is told of or is answered
through its hook after that; and not of the keys of a prompt that a key was for,
or met, by mistake before (`missed`) or that was answered in the terminal
(`byHand`: until its PostToolUse a tap on it types into the next dialog,
docs/commands.md:490-492). `DialogOnRecord` exempts `missed`, and the prompts
whose record went when the wait ended for another one's answer or by a blind
refusal (`dropped`: section 6, and `auth.py:764`). Not modelled: questions, the
Notification fallback, the carry over Stop, a restart, a prompt first sent as its
own message, a countdown's expiry.

*TurnCards.* A turn is ordinary: no background job, no lazy, deferred or owed
card, no compaction, no prompt on a person, no message absorbed mid-turn, no Stop
tap, no re-anchored card, no orphan sweep, no IDLE debounce. The hold's own
timeout (`TURN_STATE_HOLD_SECONDS`, 60 s) is longer than the gate's (30 s) and is
left out. Held events are let go in the order they came, before newer datagrams
(asyncio from Python 3.12; on 3.10 and 3.11 `wait_for` wakes some loop iterations
later and a newer datagram may overtake, hook_receiver.py:900). Whether a card's
last edit went through is not told apart: the code clears `busy_msg_id` either way
(notify.py:4545-4571), so a failed one leaves a card with a Stop button that
nothing settles.

`Races` are out of the passing run (section 3), and real:
"stop_while_typing" (section 6); "late_return", a Stop handled before the
handler's await returns, whose message then begins a turn that nobody ends
(handlers.py:2652-2656); and "quick_next", a next message that takes the target
while the previous prompt's datagram is in flight. After one, the answers of runs
whose Stop is still to come (`spoilt`) may go under another message, and the model
does not say when targets and turns match again. `AnswerUnderOwn` and
`TurnPromise` exempt those, `OwnRows` and the order of answers end with the first
race.

After a gate was given up (30 s), an older finish may settle the newer turn's
card, and that turn's card may come twice: `OwnCard` and `OneCardPerTurn` exempt
`gaveUp`. So does `OwnRows`: with two finishes given up, a request that settles an
older card may reset the card state while the newer turn's own request, its gate
given up too, is dropped because a card is already animated (state and card are
then the older turn's); its return releases the hold, and the newer turn's tool
call is a row of the older card. An event held for one turn and let go under
another is not looked at again (hook_receiver.py:1044): its tool call goes on the
old card state, and `OwnRows` exempts it as a `stray`.

*AnswerDelivery.* One chat. The merged layout refused twice holds one answer
twice (notify.py:1081, 1113, 5043, where held.py:131 says one entry per turn);
`AnswerOnce` is about the others. Due files are taken out of the store for the
flush, and a younger turn's own task may pass them (notify.py:2341). When an older
entry's rich send fails and a younger one lands, files may wait behind, or reply
to, the older turn's answer: `FilesWaitForOwn` exempts entries with an attempt.
A mute between a rich send and its plain fallback loses the answer with a
warning; a cap drop during a flush tells of a loss though the flush then
delivers. The last attempt drops its entry before its plain text goes, and files
no longer wait for it. Not modelled: copies of files, sizes and media, jobs'
interim answers, failed turns.

*TunnelManager.* One daemon at a time (the instance lock) and no other public
address, so the publishes' drop rule (`lifecycle.py:1723`) is never used. The
checks of an adoption are one answer ("unproven" lets them fail); a running
tunnel's command line can be read, a reboot does not happen. SIGKILL ends a
process, a record can always be removed, a publish always goes out. A guard
needs less time from its look to its kill than a launch takes; within that, it
may strike a tunnel a daemon has just claimed. `Accounted` exempts `stray`: a
crash during discovery, or of a daemon whose record write failed, leaves a
cloudflared nothing names. Not modelled: the fast and slow budgets and /app's wake
(one wait), the download, the status shown, uninstall's own kill, a lost cancel
(Python 3.10, 3.11), which `_wait_bounded` and `stop()` make up for.

## 6. Where code and docs disagree

Two are runs in which the checker finds the promise broken:

1. `prompts_late_tap`: a tap on the card's prompt, closed by its own PostToolUse
   while the tap's toast is awaited, ends the wait of every other prompt
   (`callbacks.py:2391`, 2504); their buttons are dead from then on.
2. `turn_cards_typed_over`: a message is taken while a turn runs, so it does not
   move the target; that turn's Stop is handled before the injection returns, so
   the message begins a turn of its own (`handlers.py:2655`), and its answer goes
   under no message.

Read in the code, at the same kind of place, and not run:

- Stop's Escapes and its wipe are separate lock holds (`session_ops.py:2513`); a
  prompt between them is glued to the surfaced queue.
- A piece that fails stays in the box with no wipe owed (`inject.py:847`), and
  heads the next prompt.
- A turn's end before the press's answer clears the stamp the keep rule reads
  (`send_now.py:759`).
- `/clearqueue` and the watcher may both leave the last line of an emptied
  queue (`session_ops.py:4258`).
- A stop while the kept tunnel is being checked kills nothing, though `stop()` says
  anything not kept is killed (`tunnel_manager.py:897-901`): the tunnel is no
  `_proc` yet. Its guard ends it; one a crash left has none and stays public until
  the next daemon.
- The deviations of the merged layout and of due files named in section 5.

## 7. Plan

In this order, the most concurrent part first:

1. `TurnCards` with what an ordinary turn leaves out: background jobs and their
   deferred cards, the IDLE debounce, the monitor's demotions, the carry over
   Claude's Stop. The proofs' invariants say where that will hurt: `OrderInv` needs
   one finish a run, `LineInv` one turn a message.
2. `HeldBackEnter` and `ModeSwitch`: a decision taken before an awaited key and
   carried out after it.
3. `UpdateGate`: the idle gate against taps and turns, and the restart behind it.
4. Hooks' delivery: spilled payloads, lost and reordered datagrams, and
   `OpenPrompts` over that channel.
5. Abstract specifications with a refinement proof, as `AnswerPromise`,
   `TurnPromise` and `LinePromise` have: that `TerminalWriter`'s prompts implement
   "one message at a time" while no text is out of sight, and that a dialog of
   `OpenPrompts` is answered once, by its own key or by nobody.

Not planned: formatting, language, setup, the policy tables and the wizard,
which are sequential functions of one input.

## 8. Running

    tlc -workers 2 -config OpenPrompts.cfg MCOpenPrompts
    tlapm TypingGateProofs.tla

Every run ends within about four minutes on two cores. `PROJECT.json` maps each
definition to its lines, lists runs, theorems, hazards, and for each property
one mutant: a definition changed as a plausible bug would, defined beside the
original in the module, under which the run must find that property broken.
