---------------------------- MODULE TunnelManager ----------------------------
(***************************************************************************)
(* The Mini App's public tunnel over several lives of the daemon           *)
(* (miniapp/tunnel_manager.py, cli/daemon.py, bot/lifecycle.py).           *)
(*                                                                         *)
(* cloudflared runs detached.  A planned restart leaves it running, names  *)
(* it in a record with a token, and starts a guard that ends it when no    *)
(* daemon takes it over in time.  The next daemon adopts it when it passes *)
(* every check, else ends it and launches another.  The supervision loop   *)
(* launches, probes, publishes the address on the chat's button and holds  *)
(* the tunnel; a stop cancels it at whatever it waits for.                 *)
(*                                                                         *)
(* A tunnel stands for its process, its pid and its address.  One daemon   *)
(* at a time (the instance lock); no other public address is configured.   *)
(* An action is the code between two awaits.                               *)
(***************************************************************************)
EXTENDS Naturals, Sequences

CONSTANTS
  MaxTunnels,  \* bound: cloudflareds started
  MaxStarts,   \* bound: daemons started
  Faults       \* "exit", "unproven", "record", "guard", "crash"

ASSUME BoundsAssumption == MaxTunnels \in Nat /\ MaxStarts \in Nat

VARIABLES
  daemon,    \* "down", "up", or where its stop is: "settling", "killing", "leaving"
  starts,    \* how many daemons were started; also numbers their tokens
  planned,   \* the stop is a planned restart
  loop,      \* what the supervision loop waits for
  cur,       \* the tunnel that loop launches or checks, or 0
  proc,      \* self._proc, or 0
  told,      \* proc._stopping
  slot,      \* current_url and the managed slot, or 0
  last,      \* _last_published, with whether there is one (_published)
  pubs,      \* publishes of the button in flight, in order
  button,    \* the address on the chat's button, or 0
  record,    \* TUNNEL_STATE_FILE: its tunnel (0: no file) and token (0: claimed)
  guards,    \* the guards of kept tunnels
  used,      \* how many cloudflareds were started
  up,        \* those that run
  ending,    \* those that got a signal
  unsaved,   \* history: those whose record could not be written
  stray      \* history: those a crash left with no record

stopVars == <<daemon, starts, planned>>
loopVars == <<loop, cur, proc, told>>
buttonVars == <<slot, last, pubs, button>>
fileVars == <<record, guards>>
runVars == <<used, up, ending>>
history == <<unsaved, stray>>
vars == <<stopVars, loopVars, buttonVars, fileVars, runVars, history>>

Tunnels == 1 .. MaxTunnels
NoRecord == [tunnel |-> 0, token |-> 0]
Claimed(t) == [tunnel |-> t, token |-> 0]

\* Mutant: a new manager takes "no address" for what the button shows.
PublishedNothing == [made |-> TRUE, url |-> 0]

NotPublished == [made |-> FALSE, url |-> 0]

Init ==
  /\ daemon = "down" /\ starts = 0 /\ planned = FALSE
  /\ loop = "none" /\ cur = 0 /\ proc = 0 /\ told = FALSE
  /\ slot = 0 /\ last = NotPublished /\ pubs = <<>> /\ button = 0
  /\ record = NoRecord /\ guards = {}
  /\ used = 0 /\ up = {} /\ ending = {}
  /\ unsaved = {} /\ stray = {}

-----------------------------------------------------------------------------
(* The button: publishes run one at a time, in the order they began.       *)

Publish(url, source) == [url |-> url, source |-> source]

\* The manager's own publish is still in flight.
Publishing == \E i \in DOMAIN pubs : pubs[i].source = "manager"

\* _start_publish
StartPublish(url) ==
  /\ pubs' = Append(pubs, Publish(url, "manager"))
  /\ last' = [made |-> TRUE, url |-> url]

Published ==
  /\ pubs # <<>>
  /\ button' = Head(pubs).url
  /\ pubs' = Tail(pubs)
  /\ UNCHANGED <<stopVars, loopVars, slot, last, fileVars, runVars, history>>

-----------------------------------------------------------------------------
(* The daemon starts.  The button is cleared, unless a kept tunnel's own   *)
(* first answer is to come; with no Mini App server there is no manager.   *)

Start(managed) ==
  /\ daemon = "down" /\ starts < MaxStarts
  /\ daemon' = "up" /\ starts' = starts + 1
  /\ loop' = IF managed THEN "adopt" ELSE "none"
  /\ last' = NotPublished
  /\ pubs' = IF managed /\ record # NoRecord THEN <<>>
             ELSE <<Publish(0, "startup")>>
  /\ UNCHANGED <<planned, cur, proc, told, slot, button, fileVars, runVars, history>>

-----------------------------------------------------------------------------
(* The supervision loop.                                                   *)

\* _hold begins: the address is verified, handed out and published.
Hold(t) ==
  /\ loop' = "hold" /\ cur' = 0 /\ proc' = t /\ told' = FALSE
  /\ slot' = t
  /\ StartPublish(t)
  /\ UNCHANGED button

\* An attempt is over: _set_url("") and the wait before the next one.
Failed ==
  /\ cur' = 0 /\ proc' = 0 /\ told' = FALSE
  /\ slot' = 0
  /\ UNCHANGED button
  /\ IF last.made /\ last.url = 0 THEN loop' = "waiting" /\ UNCHANGED <<last, pubs>>
     ELSE IF Publishing THEN loop' = "publishing" /\ UNCHANGED <<last, pubs>>
     ELSE loop' = "clearing" /\ StartPublish(0)

\* _delete_record of a tunnel: another one's record stays.
RecordWithout(t) == IF record.tunnel = t THEN NoRecord ELSE record

\* SIGTERM
Told(t) == ending' = ending \cup {t}

\* It exited meanwhile, or the wait is over and it gets SIGKILL.
Gone(t) == up' = up \ {t} /\ UNCHANGED <<used, ending>>

\* _adopt_kept_tunnel up to its first await: only a running process proven
\* to be the recorded cloudflared is looked at further.
Adopt ==
  /\ loop = "adopt"
  /\ IF record.tunnel \in up
     THEN loop' = "checking" /\ cur' = record.tunnel /\ UNCHANGED record
     ELSE loop' = "launch" /\ record' = NoRecord /\ UNCHANGED cur
  /\ UNCHANGED <<stopVars, proc, told, buttonVars, guards, runVars, history>>

\* It reports the recorded address, the address answers, and the record is
\* claimed.
Adopted ==
  /\ loop = "checking"
  /\ record' = Claimed(cur)
  /\ Hold(cur)
  /\ UNCHANGED <<stopVars, guards, runVars, history>>

\* A check failed, or the claim could not be written: the tunnel is ended
\* first.
Refused ==
  /\ loop = "checking"
  /\ \/ ("unproven" \in Faults \/ cur \notin up) /\ loop' = "refusing"
     \/ "record" \in Faults /\ loop' = "unclaimed"
  /\ Told(cur)
  /\ UNCHANGED <<stopVars, cur, proc, told, buttonVars, fileVars, used, up, history>>

\* _stop_tunnel is through.
Ended ==
  /\ loop \in {"refusing", "unclaimed"}
  /\ Gone(cur)
  /\ record' = IF loop = "refusing" THEN NoRecord ELSE record
  /\ loop' = "launch" /\ cur' = 0
  /\ UNCHANGED <<stopVars, proc, told, buttonVars, guards, history>>

\* spawn_and_discover_url
Launch ==
  /\ loop = "launch" /\ used < MaxTunnels
  /\ used' = used + 1 /\ up' = up \cup {used + 1}
  /\ loop' = "discover" /\ cur' = used + 1
  /\ UNCHANGED <<stopVars, proc, told, buttonVars, fileVars, ending, history>>

\* No binary, or it cannot be started.
NoLaunch ==
  /\ loop = "launch"
  /\ Failed
  /\ UNCHANGED <<stopVars, fileVars, runVars, history>>

\* It reports its address: recorded, as far as the disk lets, and probed.
\* That takes longer than a guard needs from its look to its kill.
Discovered ==
  /\ loop = "discover" /\ \A g \in guards : g.at = "asleep"
  /\ \/ record' = Claimed(cur) /\ UNCHANGED unsaved
     \/ "record" \in Faults /\ unsaved' = unsaved \cup {cur} /\ UNCHANGED record
  /\ loop' = "probe" /\ proc' = cur /\ cur' = 0 /\ told' = FALSE
  /\ UNCHANGED <<stopVars, buttonVars, guards, runVars, stray>>

\* No address in time, or it exited: killed and reaped.
Undiscovered ==
  /\ loop = "discover"
  /\ Gone(cur)
  /\ Failed
  /\ UNCHANGED <<stopVars, fileVars, history>>

Answered ==
  /\ loop = "probe"
  /\ Hold(proc)
  /\ UNCHANGED <<stopVars, fileVars, runVars, history>>

\* The address does not answer: _kill_proc.
Unanswered ==
  /\ loop = "probe"
  /\ Told(proc)
  /\ loop' = "kill" /\ told' = TRUE
  /\ UNCHANGED <<stopVars, cur, proc, buttonVars, fileVars, used, up, history>>

Killed ==
  /\ loop = "kill"
  /\ Gone(proc)
  /\ record' = RecordWithout(proc)
  /\ Failed
  /\ UNCHANGED <<stopVars, guards, history>>

\* Tunnel.wait sees its exit, during the probe, the publish or after it.
\* The record goes on naming it.
Exited ==
  /\ loop \in {"probe", "hold"} /\ proc \notin up
  /\ Failed
  /\ UNCHANGED <<stopVars, fileVars, runVars, history>>

\* _set_url("") behind a publish that was still going out.
Clear ==
  /\ loop = "publishing" /\ ~ Publishing
  /\ StartPublish(0)
  /\ loop' = "clearing"
  /\ UNCHANGED <<stopVars, cur, proc, told, slot, button, fileVars, runVars, history>>

Cleared ==
  /\ loop = "clearing" /\ ~ Publishing
  /\ loop' = "waiting"
  /\ UNCHANGED <<stopVars, cur, proc, told, buttonVars, fileVars, runVars, history>>

\* The backoff, the slow wait or /app's wake is over.
Again ==
  /\ loop = "waiting"
  /\ loop' = "launch"
  /\ UNCHANGED <<stopVars, cur, proc, told, buttonVars, fileVars, runVars, history>>

-----------------------------------------------------------------------------
(* The stop.                                                               *)

\* Mutant: a launch that is cut short is left running.
StopLeavesLaunch(keep) ==
  /\ daemon = "up"
  /\ daemon' = "settling" /\ planned' = keep
  /\ loop' = "none" /\ cur' = 0
  /\ UNCHANGED <<starts, proc, told, buttonVars, fileVars, runVars, history>>

\* The loop is cancelled where it is; only a launch has something to undo.
Stop(keep) ==
  /\ daemon = "up"
  /\ daemon' = "settling" /\ planned' = keep
  /\ up' = IF loop = "discover" THEN up \ {cur} ELSE up
  /\ loop' = "none" /\ cur' = 0
  /\ UNCHANGED <<starts, proc, told, buttonVars, fileVars, used, ending, history>>

\* A planned restart keeps a running tunnel nobody has told to end.
Keeps == planned /\ proc \in up /\ ~ told

\* Mutant: the tunnel is kept with no guard.
KeepUnguarded ==
  /\ daemon = "settling" /\ Keeps
  /\ record' = [tunnel |-> proc, token |-> starts]
  /\ daemon' = "leaving" /\ proc' = 0
  /\ UNCHANGED <<starts, planned, loop, cur, told, buttonVars, guards, runVars, history>>

Keep ==
  /\ daemon = "settling" /\ Keeps
  /\ record' = [tunnel |-> proc, token |-> starts]
  /\ guards' = guards \cup {[tunnel |-> proc, token |-> starts, at |-> "asleep"]}
  /\ daemon' = "leaving" /\ proc' = 0
  /\ UNCHANGED <<starts, planned, loop, cur, told, buttonVars, runVars, history>>

\* Mutant: the stop signals without looking whether there is a tunnel.
StopKillsUnlooked ==
  /\ daemon = "settling" /\ ~ Keeps
  /\ Told(proc)
  /\ daemon' = "killing"
  /\ UNCHANGED <<starts, planned, loopVars, buttonVars, fileVars, used, up, history>>

\* Not kept: no record could be written, or, with the record written, no
\* guard started.
StopKills ==
  /\ daemon = "settling"
  /\ \/ ~ Keeps /\ UNCHANGED record
     \/ Keeps /\ "record" \in Faults /\ UNCHANGED record
     \/ Keeps /\ "guard" \in Faults /\ record' = [tunnel |-> proc, token |-> starts]
  /\ IF proc \in up THEN Told(proc) /\ UNCHANGED <<used, up>> ELSE UNCHANGED runVars
  /\ daemon' = "killing"
  /\ UNCHANGED <<starts, planned, loopVars, buttonVars, guards, history>>

\* With no tunnel of its own it leaves the record alone.
StopKilled ==
  /\ daemon = "killing"
  /\ Gone(proc)
  /\ record' = IF proc = 0 THEN record ELSE RecordWithout(proc)
  /\ daemon' = "leaving" /\ proc' = 0
  /\ UNCHANGED <<starts, planned, loop, cur, told, buttonVars, guards, history>>

Forget ==
  /\ loop' = "none" /\ cur' = 0 /\ proc' = 0 /\ told' = FALSE
  /\ slot' = 0 /\ last' = NotPublished /\ pubs' = <<>>
  /\ planned' = FALSE /\ daemon' = "down"

Leave ==
  /\ daemon = "leaving"
  /\ Forget
  /\ UNCHANGED <<starts, button, fileVars, runVars, history>>

\* Nothing of the daemon runs any more; its tunnel does.
Crash ==
  /\ "crash" \in Faults /\ daemon # "down"
  /\ Forget
  /\ stray' = stray \cup (IF loop = "discover" THEN {cur} ELSE {}) \cup (unsaved \cap {proc})
  /\ UNCHANGED <<starts, button, fileVars, runVars, unsaved>>

-----------------------------------------------------------------------------
(* The guard, a shell script of its own, and cloudflared.                  *)

\* The handover time is over: a record without its token is left alone.
Awake(g) ==
  /\ g.at = "asleep"
  /\ guards' = (guards \ {g}) \cup
       (IF record.tunnel # 0 /\ record.token = g.token
        THEN {[g EXCEPT !.at = "matched"]} ELSE {})
  /\ UNCHANGED <<stopVars, loopVars, buttonVars, record, runVars, history>>

\* It ends what it was started for, if that still runs.
Strike(g) ==
  /\ g.at = "matched"
  /\ guards' = guards \ {g}
  /\ IF g.tunnel \in up
     THEN Told(g.tunnel) /\ record' = NoRecord /\ UNCHANGED <<used, up>>
     ELSE UNCHANGED <<record, runVars>>
  /\ UNCHANGED <<stopVars, loopVars, buttonVars, history>>

\* A signal ends it, or it exits by itself.
Exit(t) ==
  /\ t \in ending \/ "exit" \in Faults
  /\ up' = up \ {t}
  /\ UNCHANGED <<stopVars, loopVars, buttonVars, fileVars, used, ending, history>>

-----------------------------------------------------------------------------
LoopStep ==
  \/ Adopt \/ Adopted \/ Refused \/ Ended
  \/ Launch \/ NoLaunch \/ Discovered \/ Undiscovered
  \/ Answered \/ Unanswered \/ Killed \/ Exited
  \/ Clear \/ Cleared \/ Again

StopStep == Keep \/ StopKills \/ StopKilled \/ Leave

GuardStep == \E g \in guards : Awake(g) \/ Strike(g)

Next ==
  \/ \E managed \in BOOLEAN : Start(managed)
  \/ Published
  \/ LoopStep
  \/ \E keep \in BOOLEAN : Stop(keep)
  \/ StopStep \/ Crash
  \/ GuardStep
  \/ \E t \in up : Exit(t)

Spec == Init /\ [][Next]_vars

\* The loop and the stop wait for bounded times only, a guard wakes up, a
\* process that was told to end ends.  Nothing makes a daemon start or stop.
Fairness ==
  /\ WF_vars(LoopStep) /\ WF_vars(StopStep) /\ WF_vars(Published)
  /\ WF_vars(GuardStep)
  /\ WF_vars(\E t \in up \cap ending : Exit(t))

LiveSpec == Spec /\ Fairness

-----------------------------------------------------------------------------
Waits == {"none", "adopt", "checking", "refusing", "unclaimed", "launch", "discover",
          "probe", "kill", "hold", "publishing", "clearing", "waiting"}

\* Types; only started tunnels run or are named.
TypeOK ==
  /\ daemon \in {"down", "up", "settling", "killing", "leaving"}
  /\ starts \in 0 .. MaxStarts /\ planned \in BOOLEAN
  /\ loop \in Waits /\ cur \in 0 .. used /\ proc \in 0 .. used /\ told \in BOOLEAN
  /\ slot \in 0 .. used /\ button \in 0 .. used
  /\ last \in [made : BOOLEAN, url : 0 .. used]
  /\ pubs \in Seq([url : 0 .. used, source : {"manager", "startup"}])
  /\ record \in [tunnel : 0 .. used, token : 0 .. starts]
  /\ guards \subseteq [tunnel : 1 .. used, token : 1 .. starts, at : {"asleep", "matched"}]
  /\ used \in 0 .. MaxTunnels
  /\ up \subseteq 1 .. used /\ ending \subseteq 1 .. used
  /\ unsaved \subseteq 1 .. used /\ stray \subseteq 1 .. used

\* The tunnel the daemon has in hand.
InHand == IF cur # 0 THEN cur ELSE proc

\* There is at most one public tunnel that nobody has told to end, and it is
\* the one the daemon has in hand, or with none in hand the one the record
\* names, which the next daemon or the guard will find: over restarts, stops
\* at any await, refused adoptions and failed writes.  (Not those a crash left
\* before they were recorded; a launch the crash cut is one.)
Accounted ==
  \A t \in up \ (ending \cup stray) :
    IF InHand # 0 THEN t = InHand ELSE t = record.tunnel

\* The button says what the loop found, whatever the last daemon left on it
\* and whatever publishes were in flight: none while the loop waits between
\* two tries, and the address in hand once its publish is out.
ButtonTells ==
  /\ loop = "waiting" => button = 0
  /\ loop = "hold" /\ pubs = <<>> => button = proc /\ slot = proc

\* A tunnel kept for a restart is taken over or ends: it does not stay public
\* for ever when no daemon comes, or one comes that has no use for it.
KeptEnds ==
  \A t \in Tunnels :
    (t \in up /\ daemon = "leaving" /\ record = [tunnel |-> t, token |-> starts])
      ~> (t \notin up \/ proc = t)
=============================================================================
