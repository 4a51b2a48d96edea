----------------------------- MODULE TypingGate -----------------------------
(***************************************************************************)
(* The typing gate (aipager/dtach/typing_gate.py and the gated writers of  *)
(* aipager/dtach/inject.py) of one dtach session.                          *)
(*                                                                         *)
(* Two sides meet in a folder: the daemon, whose writers type keys into    *)
(* the session, and the PreToolUse hooks, each of which lets one tool call *)
(* of Claude Code go on.  Claude Code draws the permission dialog of a     *)
(* call right after its hook returned, and the daemon hears of it a moment *)
(* later, so a key typed in between answers a dialog nobody has seen.  The *)
(* daemon writes the typing marker and then looks at the hooks' stamps; a  *)
(* hook writes its stamp and then looks at the marker.                     *)
(*                                                                         *)
(* Time is discrete.  Instead of clock readings the state has ages and     *)
(* time left, each capped where nothing tells larger values apart, so the  *)
(* state space is finite with no bound on the length of a behaviour.  Tick *)
(* is disabled while something that takes bounded time is due.             *)
(***************************************************************************)
EXTENDS Integers, Sequences

CONSTANTS
  Hooks,          \* PreToolUse hooks that can overlap within FreshWindow
  Writers,        \* writers to the session's terminal that can overlap
  FreshWindow,    \* GATE_FRESH_SECONDS
  WaitLimit,      \* GATE_WAIT_LIMIT_SECONDS
  MinPassAge,     \* GATE_MIN_PASS_AGE
  HardLimit,      \* GATE_WAIT_HARD_LIMIT
  AfterEnter,     \* GATE_AFTER_ENTER_SECONDS, and MODE_PRESS_GAP
  KeyGap,         \* the longest pause between two writes of one send: a
                  \* prompt's settle delay, KILL_AGENTS_PRESS_GAP
  MarkerTTL,      \* MARKER_TTL_SECONDS
  HookCap,        \* HOOK_WAIT_CAP_SECONDS
  WriteTime,      \* _run's timeout: how long one `dtach -p` may take
  DialogLatency,  \* external: from a hook's stamp until the daemon knows of
                  \* the dialog of its call, or the call drew none
  ReadLatency     \* external: from a key's write until Claude Code reads it

(***************************************************************************)
(* What inject.py's gate note relies on: 0.175 s <= 0.3 s <= 1 s, and a    *)
(* marker that outlasts one look, the kill chord's two presses with their  *)
(* gap, and the moment after (2.5 + 5 + 1 + 5 + 0.15 < 15 s).              *)
(***************************************************************************)
ASSUME GateTiming ==
  /\ {FreshWindow, WaitLimit, MinPassAge, HardLimit, AfterEnter, KeyGap,
      MarkerTTL, HookCap, WriteTime, DialogLatency, ReadLatency} \subseteq Nat
  /\ 0 < DialogLatency
  /\ DialogLatency <= MinPassAge
  /\ MinPassAge <= FreshWindow
  /\ WaitLimit <= HardLimit
  /\ 0 < HookCap
  /\ 0 < ReadLatency
  /\ ReadLatency <= AfterEnter
  /\ AfterEnter <= KeyGap
  /\ HardLimit + WriteTime + KeyGap + WriteTime + AfterEnter < MarkerTTL

VARIABLES
  marker,     \* time the `typing` marker still gates; 0: none, or expired
  hookPc,     \* where each hook is, and then what its tool call draws
  stamp,      \* age of the hook's `pass-*` stamp; FreshWindow: not fresh
  held,       \* how long the hook has waited at the marker; -1: it has not
  passage,    \* what pass_gate returned for the hook's call
  sendPc,     \* where each writer is
  spent,      \* how long the writer's current look, write or gap has lasted
  unsure,     \* the writer's last look vouches for nothing: its marker could
              \* not be written, or it gave up waiting at HardLimit
  lockQueue,  \* the session's write lock: its holder, then the FIFO waiters
  unread,     \* time left for Claude Code to read the last key; 0: all read
  vouched     \* a look vouched for every key not read yet

hookVars == <<hookPc, stamp, held, passage>>
sendVars == <<sendPc, spent, unsure, lockQueue>>
keyVars == <<unread, vouched>>
vars == <<marker, hookVars, sendVars, keyVars>>

HookStates == {"idle", "stamping", "stamped", "sleeping", "passed", "drawn", "open"}
GatedStates == {"look1", "queued", "look", "writing", "settle", "gap", "second",
                "ending"}
SendStates == {"idle", "plainQueued", "plain"} \cup GatedStates
Passages   == {"none", "passed", "waited", "capped", "error"}

Init ==
  /\ marker = 0
  /\ hookPc = [h \in Hooks |-> "idle"]
  /\ stamp = [h \in Hooks |-> FreshWindow]
  /\ held = [h \in Hooks |-> -1]
  /\ passage = [h \in Hooks |-> "none"]
  /\ sendPc = [w \in Writers |-> "idle"]
  /\ spent = [w \in Writers |-> 0]
  /\ unsure = [w \in Writers |-> FALSE]
  /\ lockQueue = <<>>
  /\ unread = 0
  /\ vouched = TRUE

-----------------------------------------------------------------------------
(* The hook's side: typing_gate.pass_gate, and Claude Code after it. *)

\* A new tool call's PreToolUse hook starts.  A slot whose last stamp is
\* still fresh is not reused: another call is another slot.
StartHook(h) ==
  /\ hookPc[h] = "idle"
  /\ stamp[h] = FreshWindow
  /\ hookPc' = [hookPc EXCEPT ![h] = "stamping"]
  /\ UNCHANGED <<marker, stamp, held, passage, sendVars, keyVars>>

\* The stamp is written before the marker is read.
WriteStamp(h) ==
  /\ hookPc[h] = "stamping"
  /\ hookPc' = [hookPc EXCEPT ![h] = "stamped"]
  /\ stamp' = [stamp EXCEPT ![h] = 0]
  /\ UNCHANGED <<marker, held, passage, sendVars, keyVars>>

LetThrough(h, how) ==
  /\ hookPc' = [hookPc EXCEPT ![h] = "passed"]
  /\ passage' = [passage EXCEPT ![h] = how]
  /\ UNCHANGED <<stamp, held>>

\* Mutant: the cap starts again at every look.
ReadMarkerCapRestarts(h) ==
  /\ hookPc[h] = "stamped"
  /\ \/ /\ marker = 0
        /\ LetThrough(h, "passed")
     \/ /\ marker > 0
        /\ hookPc' = [hookPc EXCEPT ![h] = "sleeping"]
        /\ held' = [held EXCEPT ![h] = 0]
        /\ stamp' = [stamp EXCEPT ![h] = FreshWindow]
        /\ UNCHANGED passage
  /\ UNCHANGED <<marker, sendVars, keyVars>>

\* The marker is not live: the call goes on and its stamp stays.  A live one:
\* the first look starts the hook's cap; past the cap it goes on with its
\* fresh stamp; before it, it takes the stamp back and sleeps.
ReadMarker(h) ==
  /\ hookPc[h] = "stamped"
  /\ \/ /\ marker = 0
        /\ LetThrough(h, IF held[h] = -1 THEN "passed" ELSE "waited")
     \/ /\ marker > 0
        /\ held[h] = HookCap
        /\ LetThrough(h, "capped")
     \/ /\ marker > 0
        /\ held[h] < HookCap
        /\ hookPc' = [hookPc EXCEPT ![h] = "sleeping"]
        /\ held' = [held EXCEPT ![h] = IF @ = -1 THEN 0 ELSE @]
        /\ stamp' = [stamp EXCEPT ![h] = FreshWindow]
        /\ UNCHANGED passage
  /\ UNCHANGED <<marker, sendVars, keyVars>>

WakeHook(h) ==
  /\ hookPc[h] = "sleeping"
  /\ hookPc' = [hookPc EXCEPT ![h] = "stamping"]
  /\ UNCHANGED <<marker, stamp, held, passage, sendVars, keyVars>>

\* A folder or a stamp file the hook cannot use: it goes on at once, unstamped.
HookError(h) ==
  /\ hookPc[h] = "stamping"
  /\ LetThrough(h, "error")
  /\ UNCHANGED <<marker, sendVars, keyVars>>

\* External: Claude Code draws the call's permission dialog.
DrawDialog(h) ==
  /\ hookPc[h] = "passed"
  /\ hookPc' = [hookPc EXCEPT ![h] = "drawn"]
  /\ UNCHANGED <<marker, stamp, held, passage, sendVars, keyVars>>

\* The dialog's datagram arrives: from here on the dialog probe says open.
HearOfDialog(h) ==
  /\ hookPc[h] = "drawn"
  /\ hookPc' = [hookPc EXCEPT ![h] = "open"]
  /\ UNCHANGED <<marker, stamp, held, passage, sendVars, keyVars>>

\* External: the call needs no dialog, or its dialog was answered.
CallGoesOn(h) ==
  /\ hookPc[h] \in {"passed", "open"}
  /\ hookPc' = [hookPc EXCEPT ![h] = "idle"]
  /\ held' = [held EXCEPT ![h] = -1]
  /\ passage' = [passage EXCEPT ![h] = "none"]
  /\ UNCHANGED <<marker, stamp, sendVars, keyVars>>

HookStep(h) ==
  \/ StartHook(h) \/ WriteStamp(h) \/ ReadMarker(h) \/ WakeHook(h)
  \/ HookError(h) \/ DrawDialog(h) \/ HearOfDialog(h) \/ CallGoesOn(h)

-----------------------------------------------------------------------------
(* The daemon's side: _gate_begin, _await_quiet_gate and _gate_finish as    *)
(* send_text_and_enter, press_enter_gated, press_mode_cycle and             *)
(* press_kill_agents call them, and the writers that take no part.          *)

DialogKnown == \E h \in Hooks : hookPc[h] = "open"

FreshPasses(window) == {h \in Hooks : stamp[h] < window}

HoldsMarker(w) == sendPc[w] \in GatedStates

HoldsLock(w) == lockQueue # <<>> /\ Head(lockQueue) = w

Goto(w, pc) ==
  /\ sendPc' = [sendPc EXCEPT ![w] = pc]
  /\ spent' = [spent EXCEPT ![w] = 0]

\* typing_gate.begin, or a write of the marker that failed.
MarkTyping(w) ==
  \/ /\ marker' = MarkerTTL
     /\ unsure' = [unsure EXCEPT ![w] = FALSE]
  \/ /\ UNCHANGED marker
     /\ unsure' = [unsure EXCEPT ![w] = TRUE]

\* Mutant: the marker is left to its expiry.
GateEndKeepsMarker(w) ==
  /\ Goto(w, "idle")
  /\ unsure' = [unsure EXCEPT ![w] = FALSE]
  /\ UNCHANGED marker

\* _gate_end: the marker goes with the last send that holds it.
GateEnd(w) ==
  /\ Goto(w, "idle")
  /\ unsure' = [unsure EXCEPT ![w] = FALSE]
  /\ marker' = IF \E v \in Writers \ {w} : HoldsMarker(v) THEN marker ELSE 0

\* `async with` is left: only the holder gives the lock back.
ReleaseLock(w) == HoldsLock(w) /\ lockQueue' = Tail(lockQueue)

\* _gate_begin, then the first look, before the write lock is asked for.
StartSend(w) ==
  /\ sendPc[w] = "idle"
  /\ MarkTyping(w)
  /\ Goto(w, "look1")
  /\ UNCHANGED <<hookVars, lockQueue, keyVars>>

\* When a look's wait is over: no fresh stamp; or past WaitLimit and none so
\* young that its dialog may be drawing; or past HardLimit.
Quiet == FreshPasses(FreshWindow) = {}
Settled(w) == spent[w] >= WaitLimit /\ FreshPasses(MinPassAge) = {}
GaveUp(w) == spent[w] >= WaitLimit /\ spent[w] >= HardLimit

\* Mutant: the look asks the dialog probe only.
LookOverProbeOnly(w) == ~DialogKnown

LookOver(w) == ~DialogKnown /\ (Quiet \/ Settled(w) \/ GaveUp(w))

FirstLookClear(w) ==
  /\ sendPc[w] = "look1"
  /\ LookOver(w)
  /\ Goto(w, "queued")
  /\ lockQueue' = Append(lockQueue, w)
  /\ UNCHANGED <<marker, hookVars, unsure, keyVars>>

FirstLookBlocked(w) ==
  /\ sendPc[w] = "look1"
  /\ DialogKnown
  /\ GateEnd(w)
  /\ UNCHANGED <<hookVars, lockQueue, keyVars>>

\* Mutant: the second look does not renew the marker.
TakeLockNotRenewed(w) ==
  /\ sendPc[w] = "queued"
  /\ HoldsLock(w)
  /\ Goto(w, "look")
  /\ UNCHANGED <<marker, unsure, hookVars, lockQueue, keyVars>>

\* The lock is this writer's: the marker is renewed and it looks again.
TakeLock(w) ==
  /\ sendPc[w] = "queued"
  /\ HoldsLock(w)
  /\ MarkTyping(w)
  /\ Goto(w, "look")
  /\ UNCHANGED <<hookVars, lockQueue, keyVars>>

\* Nothing more is typed: the session was parked meanwhile, a mode switch is
\* no longer wanted, a kill chord's second press is no longer allowed.
GiveUpSend(w) ==
  /\ sendPc[w] \in {"queued", "look", "settle", "gap"}
  /\ sendPc[w] = "gap" => spent[w] >= AfterEnter
  /\ GateEnd(w)
  /\ ReleaseLock(w)
  /\ UNCHANGED <<hookVars, keyVars>>

LookClear(w) ==
  /\ sendPc[w] = "look"
  /\ LookOver(w)
  /\ Goto(w, "writing")
  /\ unsure' = [unsure EXCEPT ![w] = @ \/ (GaveUp(w) /\ ~Quiet /\ ~Settled(w))]
  /\ UNCHANGED <<marker, hookVars, lockQueue, keyVars>>

\* Mutant: a stopped send keeps the lock.
LookBlockedKeepsLock(w) ==
  /\ sendPc[w] = "look"
  /\ DialogKnown
  /\ GateEnd(w)
  /\ UNCHANGED <<hookVars, lockQueue, keyVars>>

\* DIALOG_BEFORE_TYPING or DIALOG_WHILE_TYPING.
LookBlocked(w) ==
  /\ sendPc[w] = "look"
  /\ DialogKnown
  /\ GateEnd(w)
  /\ ReleaseLock(w)
  /\ UNCHANGED <<hookVars, keyVars>>

\* A piece of a prompt is in.  It answers no dialog: it is never one character.
PieceWritten(w) ==
  /\ sendPc[w] = "writing"
  /\ Goto(w, "settle")
  /\ UNCHANGED <<marker, hookVars, unsure, lockQueue, keyVars>>

\* A key is in.  Either another follows after a gap, or it was the last: the
\* lock goes, and the marker AfterEnter later.
KeyWritten(w) ==
  /\ \/ /\ sendPc[w] = "writing"
        /\ Goto(w, "gap")
        /\ UNCHANGED lockQueue
     \/ /\ sendPc[w] \in {"writing", "second"}
        /\ Goto(w, "ending")
        /\ ReleaseLock(w)
  /\ unread' = ReadLatency
  /\ vouched' = (vouched /\ ~unsure[w])
  /\ UNCHANGED <<marker, hookVars, unsure>>

WriteFails(w) ==
  /\ sendPc[w] \in {"writing", "second"}
  /\ GateEnd(w)
  /\ ReleaseLock(w)
  /\ UNCHANGED <<hookVars, keyVars>>

\* Before every further piece, Enter or Shift+Tab: the whole look, renewed.
LookAgain(w) ==
  /\ \/ sendPc[w] = "settle"
     \/ sendPc[w] = "gap" /\ spent[w] >= AfterEnter
  /\ MarkTyping(w)
  /\ Goto(w, "look")
  /\ UNCHANGED <<hookVars, lockQueue, keyVars>>

\* The kill chord's second press: may_press is asked again, no look is taken.
PressAgain(w) ==
  /\ sendPc[w] = "gap"
  /\ spent[w] >= AfterEnter
  /\ ~DialogKnown
  /\ Goto(w, "second")
  /\ UNCHANGED <<marker, hookVars, unsure, lockQueue, keyVars>>

DelayedGateEnd(w) ==
  /\ sendPc[w] = "ending"
  /\ spent[w] = AfterEnter
  /\ GateEnd(w)
  /\ UNCHANGED <<hookVars, lockQueue, keyVars>>

\* A writer that takes no part in the gate (a Stop's Escape, a discard's
\* hundreds of Ctrl+U writes): it holds the lock for as long as it takes.
StartPlain(w) ==
  /\ sendPc[w] = "idle"
  /\ Goto(w, "plainQueued")
  /\ lockQueue' = Append(lockQueue, w)
  /\ UNCHANGED <<marker, hookVars, unsure, keyVars>>

TakeLockPlain(w) ==
  /\ sendPc[w] = "plainQueued"
  /\ HoldsLock(w)
  /\ Goto(w, "plain")
  /\ UNCHANGED <<marker, hookVars, unsure, lockQueue, keyVars>>

EndPlain(w) ==
  /\ sendPc[w] = "plain"
  /\ Goto(w, "idle")
  /\ ReleaseLock(w)
  /\ UNCHANGED <<marker, hookVars, unsure, keyVars>>

SendStep(w) ==
  \/ StartSend(w) \/ FirstLookClear(w) \/ FirstLookBlocked(w) \/ TakeLock(w)
  \/ GiveUpSend(w) \/ LookClear(w) \/ LookBlocked(w) \/ PieceWritten(w)
  \/ KeyWritten(w) \/ WriteFails(w) \/ LookAgain(w) \/ PressAgain(w)
  \/ DelayedGateEnd(w) \/ StartPlain(w) \/ TakeLockPlain(w) \/ EndPlain(w)

\* External: Claude Code reads the keys in its input.
ReadKeys ==
  /\ unread > 0
  /\ unread' = 0
  /\ vouched' = TRUE
  /\ UNCHANGED <<marker, hookVars, sendVars>>

-----------------------------------------------------------------------------
(* Time. *)

\* How long a state of a writer lasts at most.  A writer waiting for the lock,
\* or a plain one, takes as long as it takes.
Bound(w) ==
  CASE sendPc[w] \in {"look1", "look"}     -> HardLimit
    [] sendPc[w] \in {"writing", "second"} -> WriteTime
    [] sendPc[w] \in {"settle", "gap"}     -> KeyGap
    [] sendPc[w] = "ending"                -> AfterEnter
    [] OTHER                               -> 0

Timed(w) == sendPc[w] \in GatedStates \ {"queued"}

\* A hook between its stamp and the daemon's knowing of its dialog.
InLatency(h) == /\ hookPc[h] \in {"stamped", "passed", "drawn"}
                /\ passage[h] # "error"

\* A hook that has met the marker and not gone on yet.
Waiting(h) == held[h] >= 0 /\ hookPc[h] \in {"stamping", "stamped", "sleeping"}

MayTick ==
  /\ unread # 1
  /\ \A w \in Writers : Timed(w) => spent[w] < Bound(w)
  /\ \A h \in Hooks :
       /\ hookPc[h] # "stamping"
       /\ InLatency(h) => stamp[h] + 1 < DialogLatency
       /\ hookPc[h] = "sleeping" => held[h] < HookCap

\* Mutant: an expired marker counts on below zero.
TickPastExpiry ==
  /\ MayTick
  /\ marker' = marker - 1
  /\ UNCHANGED <<hookVars, sendVars, keyVars>>

Tick ==
  /\ MayTick
  /\ marker' = IF marker > 0 THEN marker - 1 ELSE 0
  /\ stamp' = [h \in Hooks |-> IF stamp[h] < FreshWindow THEN stamp[h] + 1
                                                          ELSE stamp[h]]
  /\ held' = [h \in Hooks |-> IF Waiting(h) /\ held[h] < HookCap
                              THEN held[h] + 1 ELSE held[h]]
  /\ spent' = [w \in Writers |-> IF Timed(w) THEN spent[w] + 1 ELSE spent[w]]
  /\ unread' = IF unread > 0 THEN unread - 1 ELSE 0
  /\ UNCHANGED <<hookPc, passage, sendPc, unsure, lockQueue, vouched>>

Next ==
  \/ \E h \in Hooks : HookStep(h)
  \/ \E w \in Writers : SendStep(w)
  \/ ReadKeys
  \/ Tick

Spec == Init /\ [][Next]_vars

(***************************************************************************)
(* Fairness.  Hooks are processes of their own and writers tasks of the    *)
(* daemon's loop: each takes its next step.  A tool call, a send or a      *)
(* plain writer need never start, and a dialog need never be answered.     *)
(* A send has finitely many writes, so one of them is its last.  Time goes *)
(* on: no hook or writer steps for ever within one tick.                   *)
(***************************************************************************)
HookRuns(h) == HookStep(h) /\ hookPc[h] \notin {"idle", "open"}

LastWrite(w) == /\ KeyWritten(w) \/ WriteFails(w)
                /\ sendPc'[w] \in {"ending", "idle"}

Fairness ==
  /\ \A h \in Hooks : WF_vars(HookRuns(h))
  /\ \A w \in Writers : /\ WF_vars(SendStep(w) /\ sendPc[w] # "idle")
                        /\ SF_vars(LastWrite(w))
  /\ WF_vars(ReadKeys)
  /\ SF_vars(Tick)

FairSpec == Spec /\ Fairness

-----------------------------------------------------------------------------
(* What the gate promises. *)

\* The marker, the stamps, the hooks, the writers and the key on its way stay
\* in their ranges: no age passes its cap and no state is left out.
TypeOK ==
  /\ marker \in 0..MarkerTTL
  /\ hookPc \in [Hooks -> HookStates]
  /\ stamp \in [Hooks -> 0..FreshWindow]
  /\ held \in [Hooks -> -1..HookCap]
  /\ passage \in [Hooks -> Passages]
  /\ sendPc \in [Writers -> SendStates]
  /\ spent \in [Writers -> Nat]
  /\ unsure \in [Writers -> BOOLEAN]
  /\ lockQueue \in Seq(Writers)
  /\ unread \in 0..ReadLatency
  /\ vouched \in BOOLEAN

\* A call whose dialog is on its way or on screen, and that the gate took:
\* neither held past its hook's cap nor outside the gate by an error.
GatedDialog(h) == /\ hookPc[h] \in {"passed", "drawn", "open"}
                  /\ passage[h] \notin {"capped", "error"}

\* "No dialog takes a prompt's keys" (inject.py's gate note): from the moment
\* a look is clear until Claude Code has read the key, no call that the gate
\* took can have its dialog drawn, known or not, unless the look gave up at
\* HardLimit or its marker could not be written.
KeySafe ==
  (\/ unread > 0 /\ vouched
   \/ \E w \in Writers : sendPc[w] \in {"writing", "second"} /\ ~unsure[w])
  => \A h \in Hooks : ~GatedDialog(h)

\* What the looks rest on: while the daemon cannot know yet of the dialog of a
\* call the gate stamped (even one held past its hook's cap), its stamp is
\* fresh, whatever it waited for in between, so a look that waited properly
\* is not over.
FreshWhileUnseen ==
  \A h \in Hooks :
    hookPc[h] \in {"stamped", "passed", "drawn"} /\ passage[h] # "error"
      => h \in FreshPasses(MinPassAge)

\* _gate_end: the marker never goes while another send still holds it, and a
\* marker left behind by nobody is gone (only a send in progress keeps one).
MarkerHeld == marker > 0 => \E w \in Writers : HoldsMarker(w)

\* The marker is up whenever a send may write or has a key unread, however
\* long it waited for the lock: it is renewed at each look, and its expiry
\* outlasts a look, the chord's two writes and the moment after.
MarkerUp ==
  \A w \in Writers :
    sendPc[w] \in {"look", "writing", "settle", "gap", "second", "ending"}
      => marker > 0 \/ unsure[w]

\* Neither side waits on the other for ever: a hook held at the marker goes
\* on (the gate never wedges Claude Code), and a send that has begun ends.
HooksGoOn == \A h \in Hooks : hookPc[h] = "stamping" ~> hookPc[h] \in {"passed", "idle"}
SendsEnd == \A w \in Writers : sendPc[w] = "look1" ~> sendPc[w] = "idle"
=============================================================================
