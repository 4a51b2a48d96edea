----------------------------- MODULE QueuedLines -----------------------------
(***************************************************************************)
(* The "Queued" reply lines of one session (aipager/bot/send_now.py): a    *)
(* message sent while a turn runs waits in Claude Code's queue, and a line *)
(* with a Send now button stands under it until Claude takes it.           *)
(*                                                                         *)
(* The daemon is one event loop, so an action is the code from one await   *)
(* to the next.  External are Claude Code (its queue and the records it    *)
(* writes to the transcript) and Telegram (the lines really in the chat).  *)
(* One chat, messages with distinct texts, at most one line per message:   *)
(* a message is armed once and its timer ends after one line.              *)
(***************************************************************************)
EXTENDS Naturals, Sequences, Functions

CONSTANTS
  Msgs,           \* messages sent while a turn runs
  Taps,           \* presses of Send now, and /now commands
  Teardowns,      \* what may tear the queue down: "stop", "clear", "end"
  MaxRestarts,    \* bound: daemon restarts
  MaxTurns,       \* bound: turns started by a fresh prompt
  Faults          \* which of AllFaults may happen

AllFaults == {"mute",            \* Telegram mutes the chat, or refuses twice
              "restart_unsaved", \* restart with a line sent or owed, unsaved
              "lost_reply",      \* a line is posted, its answer times out
              "delete_error",    \* a delete fails on the network
              "api_error",       \* a turn ends on an API error
              "escape"}          \* Escape at the terminal empties the queue

Now == "now"      \* what a /now is for, instead of a message
NoTap == "none"

ASSUME Domains ==
  /\ Faults \subseteq AllFaults
  /\ Teardowns \subseteq {"stop", "clear", "end"}
  /\ MaxRestarts \in Nat /\ MaxTurns \in Nat
  /\ NoTap \notin Taps /\ Now \notin Msgs

VARIABLES
  status,     \* TrackedSession.status: "BUSY", "IDLE", "GONE"
  targets,    \* queued_targets: picked-up messages, fate unknown, in order
  lines,      \* queued_lines: messages with a recorded line
  timers,     \* queued_line_timers: messages with a pending timer
  task,       \* per message: where its line's coroutine is
  presser,    \* the tap behind send_now_pressed_at, NoTap for 0.0
  after,      \* messages armed after that press, none with no press
  taps,       \* per tap: what it is for and how far it got
  watch,      \* is the queue watcher running?
  owed,       \* registry.queued_line_deletes
  calls,      \* delete calls in flight
  saved,      \* owed, as in the state file
  boot,       \* lines the startup pass still has to delete
  teardown,   \* a Stop, /clearqueue or session end between its awaits
  held,       \* Claude Code's queue, in order
  named,      \* unread transcript records that name a message
  take,       \* is a nameless dequeue record unread?
  sent,       \* messages Claude Code has queued, ever
  picked,     \* messages whose pick-up hook arrived
  up,         \* messages whose line is in the chat
  muted,
  lost,       \* history: lines a named fault took out of the daemon's sight
  restarts, turns

daemon == <<targets, lines, timers, task, presser, after, taps, watch,
            owed, calls, boot, teardown>>
claude == <<held, named, take, sent>>
history == <<lost, restarts, turns>>
vars == <<status, daemon, saved, claude, picked, up, muted, history>>

(* The stages of _queued_line_timer and the send it shields: waiting for   *)
(* evidence, send task created, send out, waiting out a small 429, ready   *)
(* again, second send out, line in the chat but its answer not read yet.   *)
Stages == {"none", "waiting", "ready", "out", "pause", "ready2", "out2",
           "landed", "over"}

Pressed == presser # NoTap
Inflight == \E t \in Taps : taps[t].at = "chord"

\* _pressed_since_armed: the press stamp is not older than m's arm time.
Stale(m) == Pressed /\ m \notin after

Held(m) == m \in Range(held)
Target(m) == m \in Range(targets)
Out(m) == task[m] \in {"out", "out2", "landed"}

Call(ms, n) == [lines |-> ms, attempt |-> n]

------------------------------------------------------------------------------
(* Dropping lines.  Each operator says what the variables become.          *)

\* _delete_queued_lines_later: owed first, then one call, none while muted.
DeleteLater(ms) ==
  /\ owed' = owed \cup ms
  /\ calls' = IF ms = {} \/ muted THEN calls ELSE calls \cup {Call(ms, 1)}

\* A cancelled timer ends at once; a send it shielded goes on.
Cancelled(ms) ==
  [m \in Msgs |-> IF m \in ms \cap timers /\ task[m] = "waiting"
                  THEN "over" ELSE task[m]]

\* _drop_queued_lines
DropLines(ms) ==
  /\ timers' = timers \ ms
  /\ task' = Cancelled(ms)
  /\ lines' = lines \ ms
  /\ DeleteLater(lines \cap ms)

(* Mutant of Sync: only pending timers are looked at.                      *)
SyncTimersOnly(ts) == DropLines(timers \ Range(ts))

\* _sync_queued_lines, with ts the targets that are left
Sync(ts) == DropLines((lines \cup timers) \ Range(ts))

Rest(s) == IF s = <<>> THEN s ELSE Tail(s)

\* The entries of s that are not in ms.  A recursive function, for the proofs.
Without(s, ms) ==
  LET kept[i \in 0 .. Len(s)] ==
        IF i = 0 THEN <<>>
        ELSE IF s[i] \in ms THEN kept[i - 1] ELSE Append(kept[i - 1], s[i])
  IN  kept[Len(s)]

(* _scan_queue_operations: a record that names a message takes its target; *)
(* a nameless dequeue takes the oldest while a press stands.  That the     *)
(* record is read within SEND_NOW_DEQUEUE_WINDOW is assumed.               *)
Scanned ==
  LET rest == Without(targets, named)
  IN IF take /\ Pressed THEN Rest(rest) ELSE rest

RecordsRead == named' = {} /\ take' = FALSE

------------------------------------------------------------------------------
Idle == [for |-> Now, at |-> "idle"]

Fresh ==
  /\ targets = <<>> /\ lines = {} /\ timers = {}
  /\ task = [m \in Msgs |-> "none"]
  /\ presser = NoTap /\ after = {}
  /\ taps = [t \in Taps |-> Idle]
  /\ watch = FALSE /\ calls = {} /\ teardown = "none"

Init ==
  /\ Fresh
  /\ status = "BUSY" /\ owed = {} /\ saved = {} /\ boot = {}
  /\ held = <<>> /\ named = {} /\ take = FALSE /\ sent = {}
  /\ picked = {} /\ up = {} /\ muted = FALSE
  /\ lost = {} /\ restarts = 0 /\ turns = 0

------------------------------------------------------------------------------
(* Claude Code: external.                                                  *)

\* A message typed mid-turn is queued: its enqueue record is written.
Enqueue(m) ==
  /\ status = "BUSY" /\ m \notin sent
  /\ sent' = sent \cup {m} /\ held' = Append(held, m)
  /\ UNCHANGED <<status, daemon, saved, named, take, picked, up, muted, history>>

\* The running turn absorbs the oldest message, with a record that names it.
Absorb ==
  /\ status = "BUSY" /\ held # <<>>
  /\ named' = named \cup {Head(held)} /\ held' = Tail(held)
  /\ UNCHANGED <<status, daemon, saved, take, sent, picked, up, muted, history>>

\* A Send now that cancels the step: the oldest is taken, with no name.
TakeNow ==
  /\ status = "BUSY" /\ Pressed /\ held # <<>> /\ ~take
  /\ take' = TRUE /\ held' = Tail(held)
  /\ UNCHANGED <<status, daemon, saved, named, sent, picked, up, muted, history>>

\* Escape at the terminal: popAll, one record per message.
Escape ==
  /\ "escape" \in Faults /\ status # "GONE" /\ held # <<>>
  /\ named' = named \cup Range(held) /\ held' = <<>>
  /\ UNCHANGED <<status, daemon, saved, take, sent, picked, up, muted, history>>

(* A turn ends.  The finish path reads the records, pops the oldest target *)
(* as the next turn, and syncs, all before its first await; Claude Code    *)
(* pops its own oldest.  Assumed: the watcher has read a Send now's take   *)
(* (a quarter of a second) before that turn ends.                          *)
TurnEnds ==
  /\ status = "BUSY" /\ teardown # "stop" /\ ~take
  /\ presser' = NoTap /\ after' = {}
  /\ \E failed \in {FALSE} \cup {e \in {TRUE} : "api_error" \in Faults} :
       LET ts == IF failed THEN Without(targets, named)
                 ELSE Rest(Without(targets, named))
       IN /\ targets' = ts
          /\ status' = IF ~failed /\ Without(targets, named) # <<>>
                       THEN "BUSY" ELSE "IDLE"
          /\ held' = IF failed THEN held ELSE Rest(held)
          /\ Sync(ts)
  /\ RecordsRead
  /\ UNCHANGED <<taps, watch, saved, boot, teardown, sent, picked, up, muted,
                 history>>

StartTurn ==
  /\ status = "IDLE" /\ teardown = "none" /\ turns < MaxTurns
  /\ status' = "BUSY" /\ turns' = turns + 1
  /\ UNCHANGED <<daemon, saved, claude, picked, up, muted, lost, restarts>>

------------------------------------------------------------------------------
(* The line of one message.                                                *)

\* queue_pickup while a turn runs: the message becomes a target and is armed.
PickUp(m) ==
  /\ status = "BUSY" /\ m \notin picked
  /\ picked' = picked \cup {m}
  /\ targets' = Append(targets, m)
  /\ timers' = timers \cup {m}
  /\ task' = [task EXCEPT ![m] = "waiting"]
  /\ after' = IF Pressed THEN after \cup {m} ELSE {}
  /\ watch' = TRUE
  /\ UNCHANGED <<status, lines, presser, taps, owed, calls, boot, teardown,
                 saved, claude, up, muted, history>>

\* The wait for evidence is bounded: it may end with or without it.
EvidenceWaited(m) ==
  /\ task[m] = "waiting"
  /\ task' = [task EXCEPT ![m] = "ready"]
  /\ UNCHANGED <<status, targets, lines, timers, presser, after, taps, watch,
                 owed, calls, boot, teardown, saved, claude, picked, up, muted,
                 history>>

(* Mutant of Wanted: a press while the send was out is not looked at.      *)
WantedThoughPressed(m) == Target(m) /\ Held(m)

\* The checks of _send_queued_line_checked, before the send and after it.
Wanted(m) == Target(m) /\ ~Stale(m) /\ Held(m)
MaySend(m) == status # "GONE" /\ m \notin lines /\ Wanted(m)

\* A line's coroutine ends: _queued_line_timer forgets its own timer.
LineOver(m) ==
  /\ task' = [task EXCEPT ![m] = "over"]
  /\ timers' = timers \ {m}

SendLine(m) ==
  /\ task[m] \in {"ready", "ready2"}
  /\ IF MaySend(m)
     THEN /\ task' = [task EXCEPT ![m] = IF @ = "ready" THEN "out" ELSE "out2"]
          /\ UNCHANGED timers
     ELSE LineOver(m)
  /\ UNCHANGED <<status, targets, lines, presser, after, taps, watch, owed,
                 calls, boot, teardown, saved, claude, picked, up, muted,
                 history>>

\* Telegram posts the line.
LineLands(m) ==
  /\ task[m] \in {"out", "out2"} /\ ~muted
  /\ up' = up \cup {m}
  /\ \/ task' = [task EXCEPT ![m] = "landed"] /\ UNCHANGED <<timers, lost>>
     \/ "lost_reply" \in Faults /\ LineOver(m) /\ lost' = lost \cup {m}
  /\ UNCHANGED <<status, targets, lines, presser, after, taps, watch, owed,
                 calls, boot, teardown, saved, claude, picked, muted, restarts,
                 turns>>

\* A mute, or a second or ban-sized 429, refuses it; a first small one waits.
LineRefused(m) ==
  /\ task[m] \in {"out", "out2"}
  /\ \/ LineOver(m)
     \/ /\ task[m] = "out" /\ ~muted
        /\ task' = [task EXCEPT ![m] = "pause"] /\ UNCHANGED timers
  /\ UNCHANGED <<status, targets, lines, presser, after, taps, watch, owed,
                 calls, boot, teardown, saved, claude, picked, up, muted,
                 history>>

PauseEnds(m) ==
  /\ task[m] = "pause"
  /\ task' = [task EXCEPT ![m] = "ready2"]
  /\ UNCHANGED <<status, targets, lines, timers, presser, after, taps, watch,
                 owed, calls, boot, teardown, saved, claude, picked, up, muted,
                 history>>

(* Mutant of Owe: a posted line is not recorded as owed.                   *)
OweNothing(m) == owed

\* _owe_line_delete, as soon as the line's id is known
Owe(m) == owed \cup {m}

(* Mutant of LineAnswered: a line dropped while it was sent stays recorded. *)
LineAnsweredKept(m) ==
  /\ task[m] = "landed"
  /\ LineOver(m)
  /\ owed' = Owe(m)
  /\ lines' = lines \cup {m}
  /\ calls' = IF Wanted(m) \/ muted THEN calls ELSE calls \cup {Call({m}, 1)}
  /\ UNCHANGED <<status, targets, presser, after, taps, watch, boot, teardown,
                 saved, claude, picked, up, muted, history>>

\* The send's answer: recorded, owed, and dropped at once if stale by now.
LineAnswered(m) ==
  /\ task[m] = "landed"
  /\ LineOver(m)
  /\ owed' = Owe(m)
  /\ IF Wanted(m)
     THEN lines' = lines \cup {m} /\ UNCHANGED calls
     ELSE /\ UNCHANGED lines
          /\ calls' = IF muted THEN calls ELSE calls \cup {Call({m}, 1)}
  /\ UNCHANGED <<status, targets, presser, after, taps, watch, boot, teardown,
                 saved, claude, picked, up, muted, history>>

------------------------------------------------------------------------------
(* Deletes.                                                                *)

\* The message is gone, now or already; no longer owed.
DeleteLands(c) ==
  /\ c \in calls
  /\ up' = up \ c.lines
  /\ owed' = owed \ c.lines
  /\ calls' = calls \ {c}
  /\ UNCHANGED <<status, targets, lines, timers, task, presser, after, taps,
                 watch, boot, teardown, saved, claude, picked, muted, history>>

(* Mutant of DeleteSlowed: every 429 is waited out, not the first only.    *)
DeleteSlowedAlways(c) ==
  /\ c \in calls
  /\ calls' = (calls \ {c}) \cup {Call(c.lines, c.attempt + 1)}
  /\ UNCHANGED <<status, targets, lines, timers, task, presser, after, taps,
                 watch, owed, boot, teardown, saved, claude, picked, up, muted,
                 history>>

\* A first small 429 is waited out once.
DeleteSlowed(c) ==
  /\ c \in calls /\ c.attempt = 1
  /\ calls' = (calls \ {c}) \cup {Call(c.lines, c.attempt + 1)}
  /\ UNCHANGED <<status, targets, lines, timers, task, presser, after, taps,
                 watch, owed, boot, teardown, saved, claude, picked, up, muted,
                 history>>

\* Refused by a mute or a second 429: owed until the next start.
DeleteRefused(c) ==
  /\ c \in calls
  /\ "mute" \in Faults
  /\ muted \/ c.attempt = 2
  /\ calls' = calls \ {c}
  /\ UNCHANGED <<status, targets, lines, timers, task, presser, after, taps,
                 watch, owed, boot, teardown, saved, claude, picked, up, muted,
                 history>>

\* Any other failure is taken for a message already gone.
DeleteFails(c) ==
  /\ c \in calls
  /\ "delete_error" \in Faults
  /\ owed' = owed \ c.lines
  /\ calls' = calls \ {c}
  /\ lost' = lost \cup c.lines
  /\ UNCHANGED <<status, targets, lines, timers, task, presser, after, taps,
                 watch, boot, teardown, saved, claude, picked, up, muted,
                 restarts, turns>>

\* _delete_owed_queued_lines: each line a previous run left, once.
BootDelete(m) ==
  /\ m \in boot
  /\ boot' = boot \ {m}
  /\ \/ ~muted /\ up' = up \ {m} /\ owed' = owed \ {m} /\ UNCHANGED lost
     \/ muted /\ UNCHANGED <<up, owed, lost>>
     \/ /\ "delete_error" \in Faults /\ ~muted
        /\ owed' = owed \ {m} /\ lost' = lost \cup {m} /\ UNCHANGED up
  /\ UNCHANGED <<status, targets, lines, timers, task, presser, after, taps,
                 watch, calls, teardown, saved, claude, picked, muted, restarts,
                 turns>>

------------------------------------------------------------------------------
(* What takes targets, and with them their lines.                          *)

\* The card's tick.  A muted chat's tick does nothing.
CardTick ==
  /\ status = "BUSY" /\ ~muted
  /\ targets' = Scanned /\ Sync(Scanned) /\ RecordsRead
  /\ UNCHANGED <<status, presser, after, taps, watch, boot, teardown, saved,
                 held, sent, picked, up, muted, history>>

\* A new sentence is placed: the records are read, and nothing is synced.
PlaceSentence ==
  /\ status = "BUSY" /\ (named # {} \/ take)
  /\ targets' = Scanned /\ RecordsRead
  /\ UNCHANGED <<status, lines, timers, task, presser, after, taps, watch,
                 owed, calls, boot, teardown, saved, held, sent, picked, up,
                 muted, history>>

NothingToWatch ==
  \/ status = "GONE"
  \/ targets = <<>>
  \/ status # "BUSY" /\ lines = {} /\ timers = {}

QueueWatch ==
  /\ watch
  /\ IF NothingToWatch
     THEN /\ watch' = FALSE
          /\ UNCHANGED <<targets, lines, timers, task, owed, calls, named,
                         take>>
     ELSE targets' = Scanned /\ Sync(Scanned) /\ RecordsRead /\ UNCHANGED watch
  /\ UNCHANGED <<status, presser, after, taps, boot, teardown, saved, held,
                 sent, picked, up, muted, history>>

\* _settle_queued_targets: the records are read if the message hook is live
\* and no background job waits; no line is synced.
Settle ==
  \/ targets' = Scanned /\ RecordsRead
  \/ UNCHANGED <<targets, named, take>>

\* Stop, /clearqueue and a session's end settle, await, and then discard.
TeardownBegins(kind) ==
  /\ teardown = "none" /\ status # "GONE"
  /\ kind = "stop" => status = "BUSY"
  /\ teardown' = kind
  /\ status' = IF kind = "end" THEN "GONE" ELSE status
  /\ Settle
  /\ UNCHANGED <<lines, timers, task, presser, after, taps, watch, owed,
                 calls, boot, saved, held, sent, picked, up, muted, history>>

\* With nothing held and nothing waiting, /clearqueue returns untouched.
ClearRefused ==
  /\ teardown = "clear" /\ held = <<>>
  /\ teardown' = "none"
  /\ UNCHANGED <<status, targets, lines, timers, task, presser, after, taps,
                 watch, owed, calls, boot, saved, claude, picked, up, muted,
                 history>>

\* The queue is wiped in the terminal and every target forgotten.  Stop sets
\* the status itself, past SessionRegistry.transition.
TeardownEnds ==
  /\ teardown # "none"
  /\ teardown' = "none"
  /\ status' = IF teardown = "stop" THEN "IDLE" ELSE status
  /\ targets' = <<>> /\ Sync(<<>>)
  /\ held' = <<>> /\ named' = named \cup Range(held)
  /\ UNCHANGED <<presser, after, taps, watch, boot, saved, take, sent, picked,
                 up, muted, history>>

------------------------------------------------------------------------------
(* Send now.                                                               *)

(* _send_now_core: the tap of the line under m, or /now.  Refusals (an     *)
(* open dialog, a parked session, a prompt being typed) change nothing and *)
(* leave the tap to be tried again.                                        *)
Candidates(m) == IF m = Now THEN Range(targets) ELSE Range(targets) \cap {m}

Tap(t, m) ==
  /\ taps[t].at = "idle" /\ status # "GONE"
  /\ m = Now \/ m \in up
  /\ IF Candidates(m) \cap Range(held) = {}
     THEN /\ m # Now
          /\ taps' = [taps EXCEPT ![t] = [for |-> m, at |-> "taken"]]
          /\ UNCHANGED <<presser, after>>
     ELSE IF Inflight
     THEN /\ taps' = [taps EXCEPT ![t] = [for |-> m, at |-> "sent"]]
          /\ UNCHANGED <<presser, after>>
     ELSE /\ taps' = [taps EXCEPT ![t] = [for |-> m, at |-> "chord"]]
          /\ presser' = t /\ after' = {}
  /\ UNCHANGED <<status, targets, lines, timers, task, watch, owed, calls,
                 boot, teardown, saved, claude, picked, up, muted, history>>

\* inject.send_now returns; a failure leaves every line as it is.
ChordEnds(t) ==
  /\ taps[t].at = "chord"
  /\ \E r \in {"sent", "failed"} : taps' = [taps EXCEPT ![t].at = r]
  /\ UNCHANGED <<status, targets, lines, timers, task, presser, after, watch,
                 owed, calls, boot, teardown, saved, claude, picked, up, muted,
                 history>>

\* Armed after the press: not part of the queue it answered for.
Keep(t) ==
  IF taps[t].at = "taken" \/ ~Pressed THEN {} ELSE Range(targets) \cap after

\* The tap's own line, when the daemon does not track it, goes by its id.
Tapped(t) == {taps[t].for} \cap (up \ lines)

(* _drop_tapped_line and _drop_all_queued_lines, after the tap's answer.   *)
(* The line_armed marks are left out: only _arm_queued_lines reads them,   *)
(* for a target made in the same step.                                     *)
TapAnswered(t) ==
  /\ taps[t].at \in {"sent", "taken"}
  /\ taps' = [taps EXCEPT ![t].at = IF @ = "sent" THEN "done" ELSE "over"]
  /\ LET gone == (lines \cup timers) \ Keep(t)
         batches == {lines \cap gone, Tapped(t)} \ {{}}
     IN /\ timers' = timers \ gone
        /\ task' = Cancelled(gone)
        /\ lines' = lines \ gone
        /\ owed' = owed \cup UNION batches
        /\ calls' = IF muted THEN calls
                    ELSE calls \cup {Call(b, 1) : b \in batches}
  /\ UNCHANGED <<status, targets, presser, after, watch, boot, teardown,
                 saved, claude, picked, up, muted, history>>

------------------------------------------------------------------------------
(* The process around it.                                                  *)

MuteChanges ==
  /\ "mute" \in Faults
  /\ muted' = ~muted
  /\ UNCHANGED <<status, daemon, saved, claude, picked, up, history>>

\* SessionMonitor saves a dirty registry each tick; the state file is left
\* alone once no restart is left to read it.
Save ==
  /\ restarts < MaxRestarts /\ saved # owed
  /\ saved' = owed
  /\ UNCHANGED <<status, daemon, claude, picked, up, muted, history>>

\* A restart forgets everything but the state file.
Restart ==
  /\ restarts < MaxRestarts
  /\ \/ "restart_unsaved" \in Faults /\ lost' = lost \cup (up \ saved)
     \/ owed \subseteq saved /\ (\A m \in Msgs : ~Out(m)) /\ UNCHANGED lost
  /\ restarts' = restarts + 1
  /\ owed' = saved /\ boot' = saved
  /\ targets' = <<>> /\ lines' = {} /\ timers' = {}
  /\ task' = [m \in Msgs |-> IF task[m] = "none" THEN "none" ELSE "over"]
  /\ presser' = NoTap /\ after' = {} /\ calls' = {}
  /\ taps' = [t \in Taps |-> IF taps[t].at = "idle" THEN Idle
                             ELSE [taps[t] EXCEPT !.at = "over"]]
  /\ watch' = FALSE /\ teardown' = "none"
  /\ named' = {} /\ take' = FALSE
  /\ UNCHANGED <<status, saved, held, sent, picked, up, muted, turns>>

------------------------------------------------------------------------------
LineStep(m) ==
  EvidenceWaited(m) \/ SendLine(m) \/ LineLands(m) \/ LineRefused(m)
    \/ PauseEnds(m) \/ LineAnswered(m)

DeleteStep(c) ==
  DeleteLands(c) \/ DeleteSlowed(c) \/ DeleteRefused(c) \/ DeleteFails(c)

Next ==
  \/ \E m \in Msgs : Enqueue(m) \/ PickUp(m) \/ LineStep(m) \/ BootDelete(m)
  \/ Absorb \/ TakeNow \/ Escape \/ TurnEnds \/ StartTurn
  \/ \E c \in calls : DeleteStep(c)
  \/ CardTick \/ PlaceSentence \/ QueueWatch
  \/ \E k \in Teardowns : TeardownBegins(k)
  \/ ClearRefused \/ TeardownEnds
  \/ \E t \in Taps : ChordEnds(t) \/ TapAnswered(t)
                     \/ \E m \in Msgs \cup {Now} : Tap(t, m)
  \/ MuteChanges \/ Save \/ Restart

Spec == Init /\ [][Next]_vars

(* The event loop runs every coroutine it holds; a turn ends some day; a   *)
(* started delete or send is answered.  Nothing is assumed of prompts,     *)
(* taps, teardowns begun, saves or restarts.                               *)
Fairness ==
  /\ \A m \in Msgs : WF_vars(LineStep(m)) /\ WF_vars(BootDelete(m))
  /\ \A ms \in SUBSET Msgs : \A n \in {1, 2} : WF_vars(DeleteStep(Call(ms, n)))
  /\ \A t \in Taps : WF_vars(ChordEnds(t) \/ TapAnswered(t))
  /\ WF_vars(QueueWatch) /\ WF_vars(CardTick) /\ SF_vars(TurnEnds)
  /\ WF_vars(ClearRefused \/ TeardownEnds)

FairSpec == Spec /\ Fairness

------------------------------------------------------------------------------
\* Every variable of the model stays in its range: the queue's records of
\* state.py, the coroutines of send_now.py, and Claude Code's queue.
TypeOK ==
  /\ status \in {"BUSY", "IDLE", "GONE"}
  /\ targets \in Seq(Msgs) /\ held \in Seq(Msgs)
  /\ lines \subseteq Msgs /\ timers \subseteq Msgs /\ after \subseteq Msgs
  /\ task \in [Msgs -> Stages]
  /\ presser \in Taps \cup {NoTap}
  /\ taps \in [Taps -> [for : Msgs \cup {Now},
                        at : {"idle", "chord", "sent", "taken", "failed",
                              "done", "over"}]]
  /\ watch \in BOOLEAN /\ take \in BOOLEAN /\ muted \in BOOLEAN
  /\ calls \subseteq [lines : SUBSET Msgs, attempt : {1, 2}]
  /\ owed \subseteq Msgs /\ saved \subseteq Msgs /\ boot \subseteq Msgs
  /\ teardown \in Teardowns \cup {"none"}
  /\ named \subseteq Msgs /\ sent \subseteq Msgs /\ picked \subseteq Msgs
  /\ up \subseteq Msgs /\ lost \subseteq Msgs
  /\ restarts \in 0 .. MaxRestarts /\ turns \in 0 .. MaxTurns

(* Every line in the chat is owed a delete, in the daemon that runs now,   *)
(* from the moment the send that posted it returns (send_now.py:23-25),    *)
(* but for the lines that a lost answer, a delete that failed on the       *)
(* network or a restart before a save has taken from it.                   *)
LinesOwed == \A m \in up : task[m] = "landed" \/ m \in owed \/ m \in lost

(* Once the tap that pressed was answered, no line of the queue it pressed *)
(* is left with the daemon, however late that line's own send came back    *)
(* (the rule of _drop_all_queued_lines and of the check after a send).     *)
AnsweredQueueClear ==
  \A m \in lines : Pressed /\ taps[presser].at = "done" => ~Stale(m)

(* A line the daemon tracks is in the chat: no delete, by its id or in a   *)
(* batch, late or retried, has taken it or is about to, but by a tap on    *)
(* that line itself (which may come before the send's own answer).         *)
TrackedLineUp ==
  \A m \in lines :
    \/ m \in up /\ m \notin boot /\ \A c \in calls : m \notin c.lines
    \/ \E t \in Taps : taps[t].for = m

(* What the lines promise: each comes once, stays owed and goes but by     *)
(* being let go, over every retry, late answer and restart (LinePromise;   *)
(* send_now.py _send_queued_line, _drop_queued_lines,                      *)
(* _delete_owed_queued_lines).  A line is owed from the moment it lands.   *)
Settled == {m \in Msgs : task[m] \in {"landed", "over"}}
Debt == owed \cup {m \in Msgs : task[m] = "landed"}
PressedLines == Msgs \cap {taps[t].for : t \in Taps}
Lines == INSTANCE LinePromise
           WITH may <- Msgs \ Settled, tracked <- lines, debt <- Debt,
                tapped <- PressedLines
KeepsLinePromise == Lines!Spec

(* A line whose message has left Claude Code's queue leaves the chat       *)
(* ("the line goes the moment Claude takes the message", send_now.py:12).  *)
LineEnds == \A m \in Msgs : (m \in up /\ ~Held(m)) ~> (m \notin up)
==============================================================================
