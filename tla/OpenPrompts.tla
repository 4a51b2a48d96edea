---------------------------- MODULE OpenPrompts ----------------------------
(***************************************************************************)
(* Several permission prompts of one session open at once.  Claude Code    *)
(* queues their dialogs and gives every key to the first; each prompt's    *)
(* PermissionRequest hook waits a while for a decision and then gives up;  *)
(* the daemon learns of both by datagrams and keeps a record per prompt:   *)
(* the busy card's, and one per message under it.  A tap is answered       *)
(* through the waiting hook, or typed when the prompt is certainly the one *)
(* shown first (prompt_stack.keys_verdict); a refusal the rules call for   *)
(* waits for the same verdict (auth._run_due_auto_denies).                 *)
(*                                                                         *)
(* Claude Code and the hook's process are external.  Datagrams are handled *)
(* in the order they were sent, a timeout datagram is not lost, and a hook *)
(* that sent one takes no decision any more.  Every prompt is of its own   *)
(* asker, and the first prompt of a wait is drawn on the busy card.        *)
(***************************************************************************)
EXTENDS Naturals, Sequences, FiniteSetsExt

CONSTANTS Prompts,      \* the prompts of the session, a set of model values
          NoPrompt,     \* none of them
          MayDeny,      \* those whose tool the running turn's rules may deny
          Faults,       \* which of FaultNames may happen
          MaxByHand     \* a bound: how many prompts are asked in all when one
                        \* of them is answered in the terminal

\* "terminal": a person answers the dialog on screen in the terminal.
\* "no_channel": a hook fails to open its reply socket.
FaultNames == {"terminal", "no_channel"}

\* A prompt of Claude's own or of a foreground agent; Claude's own Bash
\* prompt in Full access or Auto; a background agent's; an agent's whose
\* launch aipager did not see.
Kinds == {"ordinary", "countdown", "background", "unplaced"}

ASSUME PromptsAssumption == IsFiniteSet(Prompts)
ASSUME NoPromptAssumption == NoPrompt \notin Prompts
ASSUME MayDenyAssumption == MayDeny \subseteq Prompts
ASSUME FaultsAssumption == Faults \subseteq FaultNames
ASSUME MaxByHandAssumption == MaxByHand \in Nat

VARIABLES
  kind,       \* [Prompts -> Kinds], of a prompt asked
  hook,       \* [Prompts -> "idle", "parked", "answered", "left"]
  dialogs,    \* the dialogs in the terminal, the one shown first
  ran,        \* prompts answered, whose tool may still report its end
  byHand,     \* history: prompts answered in the terminal
  mail,       \* datagrams to the daemon
  order,      \* tool_info["order"] of a record: when it arrived, when its hook
              \* gave up (0: not), and whether it had a request id
  waiting,    \* the session is INTERACTIVE
  card,       \* pending_permission: the prompt on the busy card
  extra,      \* the prompts with a message of their own (or a due refusal)
  refusal,    \* [Prompts -> "none", "due", "settle", "reading", "typing"]
  first,      \* prompts whose refusal is typed with no record (_auto_deny)
  tap,        \* the tap being handled
  known,      \* history: the dialogs the daemon knew of at the verdict
  missed,     \* history: what a key was for and what it met, when not the same
  dropped     \* history: prompts whose record went with the end of another

vars == <<kind, hook, dialogs, ran, byHand, mail, order, waiting, card,
          extra, refusal, first, tap, known, missed, dropped>>

claude == <<hook, dialogs, ran, byHand>>          \* external
records == <<waiting, card, extra>>
history == <<missed, dropped>>

NoTap == [for |-> NoPrompt, phase |-> "none", onCard |-> FALSE]
NoOrder == [arrived |-> 0, timedOut |-> 0, channel |-> FALSE]

Message(what, p) == [what |-> what, for |-> p, channel |-> FALSE]
Request(p, channel) == [what |-> "request", for |-> p, channel |-> channel]

Up == {dialogs[i] : i \in DOMAIN dialogs}

\* time.monotonic() when a datagram is handled: later than every stamp.
Now == 1 + Max({order[p].arrived : p \in Prompts}
               \cup {order[p].timedOut : p \in Prompts})

\* state.py: open_prompts
Open == IF waiting THEN extra \cup ({card} \ {NoPrompt}) ELSE {}

----------------------------------------------------------------------------
(* prompt_stack.py: is p certainly the dialog shown first?                 *)

\* place: a prompt's own dialog raced its hook, or entered once it gave up.
Parked(p) == order[p].channel /\ order[p].timedOut = 0

CertainlyAbsent(p) == kind[p] = "background" /\ Parked(p)

MayBeAbsent(p) == kind[p] \in {"background", "unplaced"} /\ order[p].timedOut = 0

\* When it entered the terminal: after Lo, before Hi (of one that is there).
Lo(p) == IF kind[p] = "background" /\ order[p].timedOut > 0
         THEN order[p].timedOut
         ELSE order[p].arrived

\* Mutant: a dialog that may wait for its hook is taken to be there at once.
HiAtArrival(p) == order[p].arrived

Hi(p) == IF kind[p] \in {"background", "unplaced"}
         THEN order[p].timedOut
         ELSE order[p].arrived

\* keys_verdict = "yes".  With no other prompt open it always is.
OnTop(p) ==
  LET others == Open \ {p}
      there == {q \in others : ~CertainlyAbsent(q)}
  IN  \/ others = {}
      \/ /\ \A q \in others \cup {p} : kind[q] # "countdown"
         /\ \/ there = {}
            \/ /\ ~MayBeAbsent(p)
               /\ \A q \in there : Hi(p) < Lo(q)

\* What the daemon has been told of, all of it handled.
Told(p) == \A i \in DOMAIN mail : mail[i].for # p

\* The dialogs behind the records the verdict goes by.
KnownToDaemon == {q \in Open \cap Up : Told(q)}

\* And for a refusal, which waits out the settle time first, those a hook
\* decision was just given for.
KnownToRefusal == {q \in Up : Told(q) /\ (q \in Open \/ hook[q] = "answered")}

----------------------------------------------------------------------------
\* Every variable of the model stays in its range: the prompts' records, the
\* hooks, the dialogs and the datagrams of hook_receiver.py and state.py.
TypeOK ==
  /\ kind \in [Prompts -> Kinds]
  /\ hook \in [Prompts -> {"idle", "parked", "answered", "left"}]
  /\ dialogs \in Seq(Prompts)
  /\ ran \subseteq Prompts
  /\ byHand \subseteq Prompts
  /\ mail \in Seq([what : {"request", "timeout", "report"}, for : Prompts,
                   channel : BOOLEAN])
  /\ order \in [Prompts -> [arrived : Nat, timedOut : Nat, channel : BOOLEAN]]
  /\ waiting \in BOOLEAN
  /\ card \in Prompts \cup {NoPrompt}
  /\ extra \subseteq Prompts
  /\ refusal \in [Prompts -> {"none", "due", "settle", "reading", "typing"}]
  /\ first \subseteq Prompts
  /\ tap \in [for : Prompts \cup {NoPrompt}, phase : {"none", "key", "toast"},
              onCard : BOOLEAN]
  /\ known \in [Prompts -> SUBSET Prompts]
  /\ missed \subseteq Prompts
  /\ dropped \subseteq Prompts

Init ==
  /\ kind = [p \in Prompts |-> "ordinary"]
  /\ hook = [p \in Prompts |-> "idle"]
  /\ dialogs = <<>>
  /\ ran = {}
  /\ byHand = {}
  /\ mail = <<>>
  /\ order = [p \in Prompts |-> NoOrder]
  /\ waiting = FALSE
  /\ card = NoPrompt
  /\ extra = {}
  /\ refusal = [p \in Prompts |-> "none"]
  /\ first = {}
  /\ tap = NoTap
  /\ known = [p \in Prompts |-> {}]
  /\ missed = {}
  /\ dropped = {}

----------------------------------------------------------------------------
(* Claude Code and the hooks it starts.                                    *)

Asked == {p \in Prompts : hook[p] # "idle"}

Enter(p) == dialogs' = IF kind'[p] = "countdown"
                       THEN <<p>> \o dialogs
                       ELSE Append(dialogs, p)

\* An unplaced prompt is a foreground agent's or a background agent's.
EntersAtOnce(p) == kind'[p] # "background"
EntersLater(p) == kind'[p] \in {"background", "unplaced"}

\* A tool call asks, and its PermissionRequest hook tells the daemon.
Ask(p) ==
  /\ hook[p] = "idle"
  /\ byHand # {} => Cardinality(Asked) < MaxByHand
  /\ \E k \in Kinds : kind' = [kind EXCEPT ![p] = k]
  /\ \/ /\ hook' = [hook EXCEPT ![p] = "parked"]
        /\ mail' = Append(mail, Request(p, TRUE))
        /\ \/ EntersAtOnce(p) /\ Enter(p)
           \/ EntersLater(p) /\ UNCHANGED dialogs
     \/ /\ "no_channel" \in Faults
        /\ hook' = [hook EXCEPT ![p] = "left"]
        /\ mail' = Append(mail, Request(p, FALSE))
        /\ Enter(p)
  /\ UNCHANGED <<ran, byHand, order, records, refusal, first, tap, known,
                 history>>

\* The hook's wait ends with no decision: Claude shows its own dialog.
HookGivesUp(p) ==
  /\ hook[p] = "parked"
  /\ UNCHANGED kind
  /\ hook' = [hook EXCEPT ![p] = "left"]
  /\ IF p \in Up THEN UNCHANGED dialogs ELSE Enter(p)
  /\ mail' = Append(mail, Message("timeout", p))
  /\ UNCHANGED <<ran, byHand, order, records, refusal, first, tap,
                 known, history>>

Removed(i) == [j \in 1..(Len(dialogs) - 1) |->
                 IF j < i THEN dialogs[j] ELSE dialogs[j + 1]]

\* Claude Code reads the hook's answer and closes the dialog.
HookAnswerRead(p) ==
  /\ hook[p] = "answered"
  /\ hook' = [hook EXCEPT ![p] = "left"]
  /\ IF p \in Up
     THEN \E i \in DOMAIN dialogs : dialogs[i] = p /\ dialogs' = Removed(i)
     ELSE UNCHANGED dialogs
  /\ ran' = ran \cup {p}
  /\ UNCHANGED <<kind, byHand, mail, order, records, refusal, first, tap,
                 known, history>>

\* A key: the dialog shown first takes it (and its hook, if one still waits,
\* is over with it).
TakeKey ==
  /\ dialogs' = IF dialogs = <<>> THEN <<>> ELSE Tail(dialogs)
  /\ ran' = IF dialogs = <<>> THEN ran ELSE ran \cup {Head(dialogs)}
  /\ hook' = IF dialogs = <<>> THEN hook
             ELSE [hook EXCEPT ![Head(dialogs)] = "left"]

\* A key that met another dialog: what it was for, and what it met.
Missed(p) == IF dialogs # <<>> /\ Head(dialogs) # p THEN {p, Head(dialogs)} ELSE {}

AnswerInTerminal ==
  /\ "terminal" \in Faults
  /\ Cardinality(Asked) <= MaxByHand
  /\ dialogs # <<>>
  /\ TakeKey
  /\ byHand' = byHand \cup {Head(dialogs)}
  /\ UNCHANGED <<kind, mail, order, records, refusal, first, tap,
                 known, history>>

\* The tool's PostToolUse (or its owner's next PreToolUse).
Report(p) ==
  /\ p \in ran
  /\ ran' = ran \ {p}
  /\ mail' = Append(mail, Message("report", p))
  /\ UNCHANGED <<kind, hook, dialogs, byHand, order, records, refusal,
                 first, tap, known, history>>

----------------------------------------------------------------------------
(* The daemon: the records, and what ends a wait or goes on with it.       *)

\* A refusal whose record is gone is not typed, unless its key is out.
Cleared(ps) ==
  [p \in Prompts |-> IF p \in ps /\ refusal[p] # "typing" THEN "none"
                                                          ELSE refusal[p]]

\* A prompt's order is part of its record.
OrderOnRecord(f) ==
  order' = [p \in Prompts |-> IF p \in extra' \cup {card'} THEN f[p] ELSE NoOrder]

\* transition(BUSY): the prompts of the wait go with it.
EndWait ==
  /\ waiting' = FALSE
  /\ extra' = {}
  /\ OrderOnRecord(order)
  /\ refusal' = Cleared(extra)

\* _run_due_auto_denies, up to its first await: a due refusal that is now
\* certainly on top waits out the settle time.
RunDueRefusals(from) ==
  LET ready == {r \in extra' : from[r] = "due" /\ OnTop(r)'}
  IN  IF waiting' /\ ready # {}
      THEN \E r \in ready : refusal' = [from EXCEPT ![r] = "settle"]
      ELSE refusal' = from

\* close_prompts for p, then BUSY when none is left, else what waited
\* behind it.
ClosePrompt(p) ==
  /\ card' = IF card = p THEN NoPrompt ELSE card
  /\ IF Open \ {p} = {}
     THEN EndWait
     ELSE /\ extra' = extra \ {p}
          /\ UNCHANGED waiting
          /\ OrderOnRecord(order)
          /\ RunDueRefusals(Cleared({p}))

Receive(what, p) ==
  /\ mail # <<>>
  /\ Head(mail).what = what
  /\ Head(mail).for = p
  /\ mail' = Tail(mail)

\* Mutant: the decision is recorded where the hook's state is.
DecisionAsState(p) == hook' = [hook EXCEPT ![p] = "allow"]

\* The decision reaches a hook that still waits.
SendDecision(p) == hook' = [hook EXCEPT ![p] = "answered"]

\* _raise_prompt, the first of a wait: drawn on the card, unless the rules
\* deny its tool.
OpenFirst(p, stamped) ==
  /\ ~waiting
  /\ extra' = {}
  /\ UNCHANGED refusal
  /\ \/ /\ waiting' = TRUE
        /\ card' = p
        /\ UNCHANGED <<hook, first>>
     \/ /\ p \in MayDeny
        /\ hook[p] = "parked"
        /\ SendDecision(p)
        /\ card' = NoPrompt
        /\ UNCHANGED <<waiting, first>>
     \/ /\ p \in MayDeny
        /\ hook[p] # "parked"
        /\ first' = first \cup {p}
        /\ waiting' = TRUE
        /\ UNCHANGED <<hook, card>>
  /\ OrderOnRecord(stamped)

\* _on_extra_prompt: one more message, a hook decision, or a refusal that
\* is due.
OpenExtra(p, stamped) ==
  /\ waiting
  /\ UNCHANGED <<waiting, card, first>>
  /\ \/ /\ extra' = extra \cup {p}
        /\ OrderOnRecord(stamped)
        /\ UNCHANGED <<hook, refusal>>
     \/ /\ p \in MayDeny
        /\ hook[p] = "parked"
        /\ SendDecision(p)
        /\ UNCHANGED <<extra, order, refusal>>
     \/ /\ p \in MayDeny
        /\ hook[p] # "parked"
        /\ extra' = extra \cup {p}
        /\ OrderOnRecord(stamped)
        /\ UNCHANGED hook
        /\ RunDueRefusals([refusal EXCEPT ![p] = "due"])

HandleRequest(p) ==
  /\ Receive("request", p)
  /\ UNCHANGED <<kind, dialogs, ran, byHand, tap, known, history>>
  /\ LET stamped == [order EXCEPT ![p] = [arrived |-> Now, timedOut |-> 0,
                                          channel |-> Head(mail).channel]]
     IN  OpenFirst(p, stamped) \/ OpenExtra(p, stamped)

\* Mutant: only a close wakes the refusals that wait.
TimeoutWakesNothing(p) ==
  /\ Receive("timeout", p)
  /\ order' = IF p \in extra \cup {card}
              THEN [order EXCEPT ![p].timedOut = Now]
              ELSE order
  /\ UNCHANGED <<kind, claude, records, refusal, first, tap, known, history>>

HandleTimeout(p) ==
  /\ Receive("timeout", p)
  /\ order' = IF p \in extra \cup {card}
              THEN [order EXCEPT ![p].timedOut = Now]
              ELSE order
  /\ UNCHANGED <<kind, claude, records, first, tap, known, history>>
  /\ RunDueRefusals(refusal)

\* Mutant: any tool's end closes the card's prompt, as with one prompt.
ReportClosesTheCard(p) ==
  /\ Receive("report", p)
  /\ UNCHANGED <<kind, claude, first, tap, known, history>>
  /\ IF card \in Open THEN ClosePrompt(card)
                      ELSE UNCHANGED <<records, order, refusal>>

\* PostToolUse closes the prompt of its call, and only that one.
HandleReport(p) ==
  /\ Receive("report", p)
  /\ UNCHANGED <<kind, claude, first, tap, known, history>>
  /\ IF p \in Open THEN ClosePrompt(p) ELSE UNCHANGED <<records, order, refusal>>

\* _auto_deny with no hook that waits: Claude's queue is read, the Escape
\* goes to whatever is on screen, and the session is BUSY after it.
FirstRefusalLands(p) ==
  /\ p \in first
  /\ first' = first \ {p}
  /\ TakeKey
  /\ card' = NoPrompt
  /\ IF waiting
     THEN EndWait
     ELSE UNCHANGED <<waiting, extra, refusal>> /\ OrderOnRecord(order)
  /\ dropped' = dropped \cup Open
  /\ missed' = missed \cup Missed(p)
  /\ UNCHANGED <<kind, byHand, mail, tap, known>>

----------------------------------------------------------------------------
(* A tap on Allow or Deny (callbacks.py), one at a time.                   *)

Tap(p) ==
  /\ tap = NoTap
  /\ p \in Open
  /\ refusal[p] = "none"
  /\ \/ /\ hook[p] = "parked"
        /\ SendDecision(p)
        /\ tap' = [for |-> p, phase |-> "toast", onCard |-> card = p]
        /\ UNCHANGED known
     \/ /\ hook[p] # "parked"
        /\ OnTop(p)
        /\ tap' = [for |-> p, phase |-> "key", onCard |-> card = p]
        /\ known' = [known EXCEPT ![p] = KnownToDaemon]
        /\ UNCHANGED hook
  /\ UNCHANGED <<kind, dialogs, ran, byHand, mail, order, records,
                 refusal, first, history>>

TapKeyLands ==
  /\ tap.phase = "key"
  /\ TakeKey
  /\ tap' = [tap EXCEPT !.phase = "toast"]
  /\ missed' = missed \cup Missed(tap.for)
  /\ known' = [known EXCEPT ![tap.for] = {}]
  /\ UNCHANGED <<kind, byHand, mail, order, records, refusal, first,
                 dropped>>

\* The toast was answered.  The card's prompt, when its record went
\* meanwhile, is taken for a message with no prompt: BUSY.
TapEnds ==
  /\ tap.phase = "toast"
  /\ tap' = NoTap
  /\ UNCHANGED <<kind, claude, mail, first, known, missed>>
  /\ \/ /\ tap.for \in Open \/ card = tap.for
        /\ ClosePrompt(tap.for)
        /\ UNCHANGED dropped
     \/ /\ tap.for \notin Open /\ card # tap.for
        /\ UNCHANGED card
        /\ IF tap.onCard \/ Open = {}
           THEN /\ EndWait
                /\ dropped' = dropped \cup Open
           ELSE /\ UNCHANGED <<waiting, extra, order, dropped>>
                /\ RunDueRefusals(refusal)

----------------------------------------------------------------------------
(* A due refusal (auth.py, _run_due_auto_denies after its awaits).         *)

MayType(r) == waiting /\ r \in extra /\ OnTop(r)

BackToDue(r) ==
  /\ refusal' = [refusal EXCEPT ![r] = "due"]
  /\ UNCHANGED known

\* Claude Code closes an answered dialog within AUTO_DENY_SETTLE_SECONDS.
Settled == \A p \in Up : hook[p] # "answered"

\* The last open prompt's refusal reads Claude's queue before its key.
RefusalSettles(r) ==
  /\ refusal[r] = "settle"
  /\ Settled
  /\ \/ ~MayType(r) /\ BackToDue(r)
     \/ /\ MayType(r)
        /\ refusal' = [refusal EXCEPT ![r] = IF Open = {r} THEN "reading"
                                                           ELSE "typing"]
        /\ known' = [known EXCEPT ![r] = KnownToRefusal]
  /\ UNCHANGED <<kind, claude, mail, order, records, first, tap,
                 history>>

\* The same checks again, but for the settle time.
QueueRead(r) ==
  /\ refusal[r] = "reading"
  /\ \/ ~MayType(r) /\ BackToDue(r)
     \/ /\ MayType(r)
        /\ refusal' = [refusal EXCEPT ![r] = "typing"]
        /\ known' = [known EXCEPT ![r] = @ \cup KnownToDaemon]
  /\ UNCHANGED <<kind, claude, mail, order, records, first, tap,
                 history>>

RefusalLands(r) ==
  /\ refusal[r] = "typing"
  /\ TakeKey
  /\ UNCHANGED <<kind, byHand, mail, card, first, tap, dropped>>
  /\ missed' = missed \cup Missed(r)
  /\ known' = [known EXCEPT ![r] = {}]
  /\ extra' = extra \ {r}
  /\ waiting' = (Open \ {r} # {})
  /\ OrderOnRecord(order)
  /\ RunDueRefusals([refusal EXCEPT ![r] = "none"])

----------------------------------------------------------------------------
Next ==
  \/ \E p \in Prompts :
       \/ Ask(p)
       \/ HookGivesUp(p)
       \/ HookAnswerRead(p)
       \/ Report(p)
       \/ HandleRequest(p)
       \/ HandleTimeout(p)
       \/ HandleReport(p)
       \/ FirstRefusalLands(p)
       \/ Tap(p)
       \/ RefusalSettles(p)
       \/ QueueRead(p)
       \/ RefusalLands(p)
  \/ TapKeyLands
  \/ TapEnds
  \/ AnswerInTerminal

Spec == Init /\ [][Next]_vars

----------------------------------------------------------------------------
\* A key for a prompt never lands in the dialog of another one the daemon
\* knew of when it chose to type: a tap's after the verdict alone, a
\* refusal's also in one it had just answered through its hook.  Nothing is
\* said of a dialog the daemon did not know of then, nor of the key of a
\* prompt that a key already missed or that was answered in the terminal.
KeyOut(p) == refusal[p] = "typing" \/ (tap.for = p /\ tap.phase = "key")

KeysMeetTheirDialog ==
  \A p \in Prompts :
    KeyOut(p) /\ p \notin missed \cup byHand /\ dialogs # <<>> => Head(dialogs) \notin known[p] \ {p}

\* Every dialog in the terminal the daemon was told of has its record (or
\* its refusal on the way), unless a key for it met another dialog, or the
\* end of another answer dropped it.
DialogOnRecord ==
  \A p \in Up \ (missed \cup dropped) :
    hook[p] # "answered" /\ Told(p) => p \in Open \cup first

\* A refusal that may be typed is not left waiting: every event that makes
\* the verdict "yes" runs it.
RefusalWoken ==
  waiting =>
    \A r \in extra : refusal[r] = "due" /\ OnTop(r)
                       => \E s \in extra : refusal[s] \in {"settle", "reading", "typing"}

\* docs: the session shows as waiting until the last prompt is answered.
WaitsUntilAnswered ==
  \A p \in Up \ missed : Told(p) /\ hook[p] # "answered" => waiting

=============================================================================
