------------------------- MODULE TunnelManagerProofs -------------------------
(***************************************************************************)
(* TunnelManager for every number of tunnels and daemons and every set of  *)
(* faults: its types, that every public tunnel is accounted for, and that  *)
(* the button tells what the loop found.                                   *)
(*                                                                         *)
(* Accounted is not inductive: which tunnel the record names changes under *)
(* the guard, the stop and the next daemon.  OwnedInv says of each running *)
(* tunnel why it is accounted for; RecordInv that the record and the       *)
(* tunnel in hand do not name two running ones; StrikeInv, with the tokens *)
(* of TokenInv, that a guard about to remove the record removes none but   *)
(* that of the tunnel it ends.                                             *)
(*                                                                         *)
(* ButtonTells has an invariant of its own, below: what was published last *)
(* is on the button or last in flight, and what that is where the loop is. *)
(***************************************************************************)
EXTENDS TunnelManager, SequenceTheorems, TLAPS

\* Where the loop looks at the recorded tunnel.
Looking == {"checking", "refusing", "unclaimed"}

\* What the loop and the stop have in hand, and that it was told to end where
\* they wait for its end.
HandInv ==
  /\ loop # "none" => daemon = "up"
  /\ cur # 0 <=> loop \in Looking \cup {"discover"}
  /\ daemon # "down" => starts # 0
  /\ loop \in {"probe", "kill", "hold"} => proc # 0
  /\ proc # 0 => loop \in {"probe", "kill", "hold"} \/ daemon \in {"settling", "killing"}
  /\ loop \in {"refusing", "unclaimed"} => cur \in ending
  /\ loop = "kill" => proc \in ending
  /\ daemon = "killing" => proc \notin up \ ending

\* A running tunnel the record names is the one in hand, once the loop has
\* looked at it.
RecordInv ==
  /\ loop \in Looking => record.tunnel \in {0, cur}
  /\ (loop \in Waits \ (Looking \cup {"none", "adopt"}) \/ proc # 0) /\ record.tunnel \in up
       => record.tunnel = proc

\* Why a running tunnel is accounted for.
OwnedInv ==
  \A t \in up \ (ending \cup stray) :
    \/ t = record.tunnel
    \/ loop = "discover" /\ t = cur
    \/ t = proc /\ t \in unsaved

\* A guard about to strike: the record names nothing else that runs, nor has
\* the daemon anything else in hand.
StrikeInv ==
  \A g \in guards : g.at = "matched" /\ g.tunnel \in up =>
    /\ record.tunnel \in up => record.tunnel = g.tunnel
    /\ loop \in Looking => cur = g.tunnel
    /\ proc # 0 => proc = g.tunnel

\* A token is one kept tunnel's, and one daemon's.
TokenInv ==
  /\ \A g \in guards : g.token = record.token => g.tunnel = record.tunnel
  /\ daemon \in {"up", "settling"} => \A g \in guards : g.token # starts

IInv == TypeOK /\ HandInv /\ RecordInv /\ OwnedInv /\ StrikeInv /\ TokenInv

-----------------------------------------------------------------------------
(* Types: the publishes, then the parts of TypeOK.                         *)

Publishes(n) == Seq([url : 0 .. n, source : {"manager", "startup"}])

\* A publish stays one while tunnels are started.
LEMMA PublishesGrow ==
  ASSUME NEW n \in Nat, NEW p \in Publishes(n)
  PROVE  p \in Publishes(n + 1)
<1>. DEFINE S == [url : 0 .. n, source : {"manager", "startup"}]
            T == [url : 0 .. n + 1, source : {"manager", "startup"}]
<1>1. S \subseteq T
  OBVIOUS
<1>2. p \in [1 .. Len(p) -> S] /\ Len(p) \in Nat
  BY LenProperties DEF Publishes
<1>. HIDE DEF S, T
<1>3. p \in [1 .. Len(p) -> T]
  BY <1>1, <1>2
<1>4. p \in Seq(T)
  BY <1>2, <1>3, SeqDef
<1>. QED  BY <1>4 DEF T, Publishes

\* A step leaves publishes of known tunnels in flight.
LEMMA PublishesStep ==
  ASSUME TypeOK, Next
  PROVE  pubs' \in Publishes(used)
<1>1. /\ used \in Nat /\ slot \in 0 .. used /\ proc \in 0 .. used /\ cur \in 0 .. used
      /\ pubs \in Publishes(used)
  BY BoundsAssumption DEF TypeOK, Publishes
<1>2. ASSUME NEW t \in 0 .. used, StartPublish(t)
      PROVE  pubs' \in Publishes(used)
  BY <1>1, <1>2, AppendProperties DEF StartPublish, Publish, Publishes
<1>3. ASSUME Failed
      PROVE  pubs' \in Publishes(used)
  BY <1>1, <1>2, <1>3 DEF Failed
<1>4. CASE pubs' = pubs
  BY <1>1, <1>4
<1>5. CASE Published
  BY <1>1, <1>5, HeadTailProperties DEF Published, Publishes
<1>6. ASSUME NEW managed \in BOOLEAN, Start(managed)
      PROVE  pubs' \in Publishes(used)
  <2>1. <<>> \in Publishes(used) /\ <<Publish(0, "startup")>> \in Publishes(used)
    BY <1>1 DEF Publishes, Publish
  <2>. QED  BY <1>6, <2>1 DEF Start
<1>7. CASE Adopted \/ Answered
  BY <1>1, <1>2, <1>7 DEF Adopted, Answered, Hold
<1>8. CASE NoLaunch \/ Undiscovered \/ Killed \/ Exited
  BY <1>3, <1>8 DEF NoLaunch, Undiscovered, Killed, Exited
<1>9. CASE Clear
  BY <1>1, <1>2, <1>9 DEF Clear
<1>10. CASE Leave \/ Crash
  <2>1. <<>> \in Publishes(used)
    BY DEF Publishes
  <2>. QED  BY <1>10, <2>1 DEF Leave, Crash, Forget
<1>11. CASE \/ Adopt \/ Refused \/ Ended \/ Launch \/ Discovered \/ Unanswered \/ Cleared \/ Again
  BY <1>4, <1>11 DEF Adopt, Refused, Ended, Launch, Discovered, Unanswered, Cleared,
    Again, buttonVars
<1>12. CASE (\E keep \in BOOLEAN : Stop(keep)) \/ Keep \/ StopKills \/ StopKilled
  BY <1>4, <1>12 DEF Stop, Keep, StopKills, StopKilled, buttonVars
<1>13. CASE GuardStep \/ \E t \in up : Exit(t)
  BY <1>4, <1>13 DEF GuardStep, Awake, Strike, Exit, buttonVars
<1>. QED
  BY <1>5, <1>6, <1>7, <1>8, <1>9, <1>10, <1>11, <1>12, <1>13 DEF Next, LoopStep, StopStep

DaemonOK ==
  /\ daemon \in {"down", "up", "settling", "killing", "leaving"}
  /\ starts \in 0 .. MaxStarts /\ planned \in BOOLEAN
  /\ loop \in Waits /\ told \in BOOLEAN

RunOK ==
  /\ cur \in 0 .. used /\ proc \in 0 .. used
  /\ used \in 0 .. MaxTunnels
  /\ up \subseteq 1 .. used /\ ending \subseteq 1 .. used
  /\ unsaved \subseteq 1 .. used /\ stray \subseteq 1 .. used

ButtonOK ==
  /\ slot \in 0 .. used /\ button \in 0 .. used
  /\ last \in [made : BOOLEAN, url : 0 .. used]

FileOK ==
  /\ record \in [tunnel : 0 .. used, token : 0 .. starts]
  /\ guards \subseteq [tunnel : 1 .. used, token : 1 .. starts, at : {"asleep", "matched"}]

\* A value of last stays one while tunnels are started.
LEMMA LastTyped ==
  ASSUME NEW n \in Nat
  PROVE  /\ \A u \in 0 .. n : [made |-> TRUE, url |-> u] \in [made : BOOLEAN, url : 0 .. n]
         /\ NotPublished \in [made : BOOLEAN, url : 0 .. n]
         /\ [made : BOOLEAN, url : 0 .. n] \subseteq [made : BOOLEAN, url : 0 .. n + 1]
BY DEF NotPublished

\* The stop's and the loop's own state.
LEMMA DaemonStep ==
  ASSUME DaemonOK, Next
  PROVE  DaemonOK'
<1>. USE BoundsAssumption DEF DaemonOK, Waits
<1>1. ASSUME NEW managed \in BOOLEAN, Start(managed)
      PROVE  DaemonOK'
  BY <1>1 DEF Start, Publish, NotPublished, fileVars, runVars, history
<1>2. CASE Adopt \/ Adopted \/ Refused \/ Ended
  BY <1>2 DEF Adopt, stopVars, buttonVars, runVars, history, Adopted, Hold, Claimed,
    StartPublish, Publish, Refused, Told, fileVars, Ended, Gone
<1>3. CASE Launch \/ Discovered \/ Answered \/ Unanswered
  BY <1>3 DEF Launch, stopVars, buttonVars, fileVars, history, Discovered, Claimed,
    runVars, Answered, Hold, StartPublish, Publish, Unanswered, Told
<1>4. CASE NoLaunch \/ Undiscovered \/ Killed \/ Exited
  BY <1>4 DEF NoLaunch, Failed, stopVars, fileVars, runVars, history, StartPublish,
    Publishing, Publish, Undiscovered, Gone, Killed, RecordWithout, Exited
<1>5. CASE Clear \/ Cleared \/ Again
  BY <1>5 DEF Clear, StartPublish, Publishing, stopVars, fileVars, runVars, history,
    Publish, Cleared, buttonVars, Again
<1>6. ASSUME NEW keep \in BOOLEAN, Stop(keep)
      PROVE  DaemonOK'
  BY <1>6 DEF Stop, buttonVars, fileVars, history
<1>7. CASE Keep \/ StopKills \/ StopKilled
  BY <1>7 DEF Keep, Keeps, buttonVars, runVars, history, StopKills, Told, loopVars,
    StopKilled, Gone, RecordWithout
<1>8. CASE Leave \/ Crash
  BY <1>8 DEF Leave, Forget, fileVars, runVars, history, NotPublished, Crash
<1>9. CASE Published \/ (\E g \in guards : Awake(g)) \/ (\E g \in guards : Strike(g))
          \/ (\E t \in up : Exit(t))
  BY <1>9 DEF Published, stopVars, loopVars, fileVars, runVars, history, Awake,
    buttonVars, Strike, Told, Exit
<1>. QED
  BY <1>1, <1>2, <1>3, <1>4, <1>5, <1>6, <1>7, <1>8, <1>9
    DEF Next, LoopStep, StopStep, GuardStep

\* Only started tunnels run, end or are in hand.
LEMMA RunStep ==
  ASSUME RunOK, FileOK, HandInv, Next
  PROVE  RunOK'
<1>. USE BoundsAssumption DEF RunOK, HandInv, Looking
<1>1. CASE Adopt
  BY <1>1 DEF Adopt, FileOK, buttonVars, runVars, history, stopVars
<1>2. CASE Adopted \/ Ended
  BY <1>2 DEF Adopted, Hold, Claimed, stopVars, runVars, history, StartPublish, Publish,
    Ended, Gone, buttonVars
<1>3. CASE Refused
  BY <1>3 DEF Refused, Told, stopVars, buttonVars, fileVars, history
<1>4. CASE Launch
  BY <1>4 DEF Launch, stopVars, buttonVars, fileVars, history
<1>5. CASE Discovered
  <2>1. /\ cur \in 1 .. used /\ cur' = 0 /\ proc' = cur /\ stray' = stray
        /\ unsaved' = unsaved \/ unsaved' = unsaved \cup {cur}
        /\ used' = used /\ up' = up /\ ending' = ending
    BY <1>5 DEF Discovered, runVars
  <2>. QED  BY <2>1
<1>6. CASE Unanswered
  BY <1>6 DEF Unanswered, Told, stopVars, buttonVars, fileVars, history
<1>7. CASE NoLaunch \/ Undiscovered \/ Killed \/ Exited
  BY <1>7 DEF NoLaunch, Failed, stopVars, fileVars, runVars, history, StartPublish,
    Publishing, Publish, Undiscovered, Gone, Killed, RecordWithout, Exited
<1>8. ASSUME NEW keep \in BOOLEAN, Stop(keep)
      PROVE  RunOK'
  BY <1>8 DEF Stop, buttonVars, fileVars, history
<1>9. CASE Keep \/ StopKilled
  BY <1>9 DEF Keep, Keeps, buttonVars, runVars, history, StopKilled, Gone, RecordWithout
<1>10. CASE StopKills
  BY <1>10 DEF StopKills, Told, Keeps, loopVars, buttonVars, runVars, history
<1>11. CASE Leave
  BY <1>11 DEF Leave, Forget, fileVars, runVars, history, NotPublished
<1>12. CASE Crash
  BY <1>12 DEF Crash, Forget, fileVars, runVars, NotPublished
<1>13. ASSUME NEW g \in guards, Strike(g)
      PROVE  RunOK'
  BY <1>13 DEF Strike, Told, FileOK, stopVars, loopVars, buttonVars, runVars, history
<1>14. ASSUME NEW t \in up, Exit(t)
      PROVE  RunOK'
  BY <1>14 DEF Exit, stopVars, loopVars, buttonVars, fileVars, history
<1>15. CASE (\E managed \in BOOLEAN : Start(managed)) \/ Published \/ Answered \/ Clear
          \/ Cleared \/ Again \/ (\E g \in guards : Awake(g))
  BY <1>15 DEF Start, Publish, NotPublished, fileVars, runVars, history, Published,
    stopVars, loopVars, Answered, Hold, StartPublish, Clear, Publishing, Cleared,
    buttonVars, Again, Awake
<1>. QED
  BY <1>1, <1>2, <1>3, <1>4, <1>5, <1>6, <1>7, <1>8, <1>9, <1>10, <1>11, <1>12, <1>13,
    <1>14, <1>15
    DEF Next, LoopStep, StopStep, GuardStep

\* The slot, the button and what was last published.
LEMMA ButtonStep ==
  ASSUME ButtonOK, RunOK, pubs \in Publishes(used), Next
  PROVE  ButtonOK'
<1>. USE BoundsAssumption DEF ButtonOK, RunOK
<1>1. ASSUME NEW managed \in BOOLEAN, Start(managed)
      PROVE  ButtonOK'
  <2>1. used \in Nat /\ used' = used /\ last' = NotPublished /\ UNCHANGED <<slot, button>>
    BY <1>1 DEF Start, runVars
  <2>. QED  BY <2>1, LastTyped
<1>2. CASE Published
  <2>1. Head(pubs) \in [url : 0 .. used, source : {"manager", "startup"}]
    BY <1>2, HeadTailProperties DEF Published, Publishes
  <2>2. /\ used' = used /\ last' = last /\ slot' = slot /\ button' = Head(pubs).url
    BY <1>2 DEF Published, runVars
  <2>. QED  BY <2>1, <2>2
<1>3. CASE Adopted \/ Answered
  <2>1. PICK t \in 0 .. used : Hold(t) /\ used' = used
    BY <1>3 DEF Adopted, Answered, runVars
  <2>2. /\ used \in Nat /\ slot' = t /\ button' = button
        /\ last' = [made |-> TRUE, url |-> t]
    BY <2>1 DEF Hold, StartPublish
  <2>. QED  BY <2>1, <2>2, LastTyped
<1>4. CASE NoLaunch \/ Undiscovered \/ Killed \/ Exited
  <2>1. /\ used \in Nat /\ slot' = 0 /\ button' = button /\ used' = used
        /\ last' = last \/ last' = [made |-> TRUE, url |-> 0]
    BY <1>4 DEF NoLaunch, Undiscovered, Killed, Exited, Failed, StartPublish, Gone, runVars
  <2>2. CASE last' = last
    BY <2>1, <2>2
  <2>3. CASE last' = [made |-> TRUE, url |-> 0]
    BY <2>1, <2>3, LastTyped
  <2>. QED  BY <2>1, <2>2, <2>3
<1>5. CASE Clear
  <2>1. /\ used \in Nat /\ used' = used /\ UNCHANGED <<slot, button>>
        /\ last' = [made |-> TRUE, url |-> 0]
    BY <1>5 DEF Clear, StartPublish, runVars
  <2>. QED  BY <2>1, LastTyped
<1>6. CASE Leave \/ Crash
  <2>1. used \in Nat /\ used' = used /\ last' = NotPublished /\ slot' = 0 /\ button' = button
    BY <1>6 DEF Leave, Crash, Forget, runVars
  <2>. QED  BY <2>1, LastTyped
<1>7. CASE Launch
  <2>1. used \in Nat /\ used' = used + 1 /\ UNCHANGED <<slot, button, last>>
    BY <1>7 DEF Launch, buttonVars
  <2>. QED  BY <2>1, LastTyped
<1>8. CASE Adopt \/ Refused \/ Ended \/ Discovered \/ Unanswered \/ Cleared \/ Again
          \/ (\E keep \in BOOLEAN : Stop(keep)) \/ Keep \/ StopKills \/ StopKilled
          \/ (\E g \in guards : Awake(g)) \/ (\E g \in guards : Strike(g))
          \/ (\E t \in up : Exit(t))
  BY <1>8 DEF Adopt, stopVars, buttonVars, runVars, history, Refused, Told, fileVars,
    Ended, Gone, Discovered, Claimed, Unanswered, Cleared, Publishing, Again, Stop,
    Keep, Keeps, StopKills, loopVars, StopKilled, RecordWithout, Awake, Strike, Exit
<1>. QED
  BY <1>1, <1>2, <1>3, <1>4, <1>5, <1>6, <1>7, <1>8
    DEF Next, LoopStep, StopStep, GuardStep

\* The record and the guards name started tunnels and daemons.
LEMMA FileStep ==
  ASSUME FileOK, RunOK, HandInv, DaemonOK, Next
  PROVE  FileOK'
<1>. USE BoundsAssumption DEF FileOK, RunOK, HandInv, DaemonOK, NoRecord, Waits, Looking
<1>1. ASSUME NEW managed \in BOOLEAN, Start(managed)
      PROVE  FileOK'
  BY <1>1 DEF Start, Publish, NotPublished, fileVars, runVars, history
<1>2. CASE Adopt \/ Ended
  BY <1>2 DEF Adopt, stopVars, buttonVars, runVars, history, Ended, Gone
<1>3. CASE Adopted \/ Discovered
  BY <1>3 DEF Adopted, Hold, Claimed, stopVars, runVars, history, StartPublish, Publish,
    Discovered, buttonVars
<1>4. CASE Launch
  BY <1>4 DEF Launch, stopVars, buttonVars, fileVars, history
<1>5. CASE Killed \/ StopKilled
  BY <1>5 DEF Killed, Failed, Gone, RecordWithout, stopVars, history, StartPublish,
    Publishing, Publish, StopKilled, buttonVars
<1>6. CASE Keep
  <2>1. /\ used' = used /\ starts' = starts /\ proc \in 1 .. used /\ starts \in 0 .. MaxStarts
        /\ record' = [tunnel |-> proc, token |-> starts]
        /\ guards' = guards \cup {[tunnel |-> proc, token |-> starts, at |-> "asleep"]}
    BY <1>6 DEF Keep, Keeps, DaemonOK, runVars
  <2>2. starts # 0
    BY <1>6 DEF Keep
  <2>. QED  BY <2>1, <2>2
<1>7. CASE StopKills
  BY <1>7 DEF StopKills, Told, Keeps, loopVars, buttonVars, runVars, history
<1>8. ASSUME NEW g \in guards, Awake(g)
      PROVE  FileOK'
  BY <1>8 DEF Awake, stopVars, loopVars, buttonVars, runVars, history
<1>9. ASSUME NEW g \in guards, Strike(g)
      PROVE  FileOK'
  BY <1>9 DEF Strike, Told, stopVars, loopVars, buttonVars, runVars, history
<1>10. CASE Published \/ Refused \/ NoLaunch \/ Undiscovered \/ Answered \/ Unanswered
          \/ Exited \/ Clear \/ Cleared \/ Again \/ (\E keep \in BOOLEAN : Stop(keep))
          \/ Leave \/ Crash \/ (\E t \in up : Exit(t))
  BY <1>10 DEF Published, stopVars, loopVars, fileVars, runVars, history, Refused, Told,
    buttonVars, NoLaunch, Failed, StartPublish, Publishing, Publish, Undiscovered, Gone,
    Answered, Hold, Unanswered, Exited, Clear, Cleared, Again, Stop, Leave, Forget,
    NotPublished, Crash, Exit
<1>. QED
  BY <1>1, <1>2, <1>3, <1>4, <1>5, <1>6, <1>7, <1>8, <1>9, <1>10
    DEF Next, LoopStep, StopStep, GuardStep

\* TypeOK by its parts.
LEMMA TypeParts ==
  TypeOK <=> DaemonOK /\ RunOK /\ ButtonOK /\ pubs \in Publishes(used) /\ FileOK
BY DEF TypeOK, DaemonOK, RunOK, ButtonOK, Publishes, FileOK

\* A step starts at most one tunnel.
LEMMA UsedStep ==
  ASSUME Next
  PROVE  used' \in {used, used + 1}
<1>1. CASE Launch
  BY <1>1 DEF Launch
<1>2. CASE ~ Launch
  BY <1>2 DEF Next, LoopStep, StopStep, GuardStep, Start, Published, Adopt, Adopted,
    Refused, Ended, NoLaunch, Discovered, Undiscovered, Answered, Unanswered, Killed,
    Exited, Clear, Cleared, Again, Stop, Keep, StopKills, StopKilled, Leave, Crash, Awake,
    Strike, Exit, Told, Gone, runVars
<1>. QED  BY <1>1, <1>2

\* A step keeps the types.
LEMMA TypeStep ==
  ASSUME TypeOK, HandInv, Next
  PROVE  TypeOK'
<1>1. DaemonOK /\ RunOK /\ ButtonOK /\ pubs \in Publishes(used) /\ FileOK
  BY TypeParts
<1>2. used \in Nat /\ used' \in {used, used + 1}
  BY <1>1, UsedStep, BoundsAssumption DEF RunOK
<1>3. pubs' \in Publishes(used')
  BY <1>2, PublishesStep, PublishesGrow
<1>4. DaemonOK' /\ RunOK' /\ ButtonOK' /\ FileOK'
  BY <1>1, DaemonStep, RunStep, ButtonStep, FileStep
<1>. QED
  BY <1>3, <1>4 DEF TypeOK, DaemonOK, RunOK, ButtonOK, Publishes, FileOK

-----------------------------------------------------------------------------
(* The parts of the inductive invariant.                                   *)

\* What is in hand fits where the loop and the stop wait.
LEMMA HandStep ==
  ASSUME TypeOK, HandInv, Next
  PROVE  HandInv'
<1>. USE BoundsAssumption DEF TypeOK, HandInv, Waits, Looking
<1>1. ASSUME NEW managed \in BOOLEAN, Start(managed)
      PROVE  HandInv'
  BY <1>1 DEF Start, Publish, NotPublished, fileVars, runVars, history
<1>2. CASE Adopt
  BY <1>2 DEF Adopt, stopVars, buttonVars, runVars, history
<1>3. CASE Adopted
  BY <1>3 DEF Adopted, Hold, Claimed, stopVars, runVars, history, StartPublish, Publish
<1>4. CASE Refused \/ Ended
  BY <1>4 DEF Refused, Told, stopVars, buttonVars, fileVars, history, Ended, Gone
<1>5. CASE Launch
  BY <1>5 DEF Launch, stopVars, buttonVars, fileVars, history
<1>6. CASE NoLaunch \/ Undiscovered \/ Killed \/ Exited
  BY <1>6 DEF NoLaunch, Failed, stopVars, fileVars, runVars, history, StartPublish,
    Publishing, Publish, Undiscovered, Gone, Killed, RecordWithout, Exited
<1>7. CASE Discovered
  BY <1>7 DEF Discovered, Claimed, stopVars, buttonVars, runVars
<1>8. CASE Answered
  BY <1>8 DEF Answered, Hold, stopVars, fileVars, runVars, history, StartPublish,
    Publish
<1>9. CASE Unanswered
  BY <1>9 DEF Unanswered, Told, stopVars, buttonVars, fileVars, history
<1>10. CASE Clear \/ Cleared \/ Again \/ Published
  BY <1>10 DEF Clear, StartPublish, Publishing, stopVars, fileVars, runVars, history,
    Publish, Cleared, buttonVars, Again, Published, loopVars
<1>11. ASSUME NEW keep \in BOOLEAN, Stop(keep)
      PROVE  HandInv'
  BY <1>11 DEF Stop, buttonVars, fileVars, history
<1>12. CASE Keep
  BY <1>12 DEF Keep, Keeps, buttonVars, runVars, history
<1>13. CASE StopKills
  BY <1>13 DEF StopKills, Told, Keeps, loopVars, buttonVars, runVars, history
<1>14. CASE StopKilled
  BY <1>14 DEF StopKilled, Gone, RecordWithout, buttonVars, history
<1>15. CASE Leave
  BY <1>15 DEF Leave, Forget, fileVars, runVars, history, NotPublished
<1>16. CASE Crash
  BY <1>16 DEF Crash, Forget, fileVars, runVars, NotPublished
<1>17. ASSUME NEW g \in guards, Awake(g)
      PROVE  HandInv'
  BY <1>17 DEF Awake, stopVars, loopVars, buttonVars, runVars, history
<1>18. ASSUME NEW g \in guards, Strike(g)
      PROVE  HandInv'
  BY <1>18 DEF Strike, Told, stopVars, loopVars, buttonVars, runVars, history
<1>19. ASSUME NEW t \in up, Exit(t)
      PROVE  HandInv'
  BY <1>19 DEF Exit, stopVars, loopVars, buttonVars, fileVars, history
<1>. QED
  BY <1>1, <1>2, <1>3, <1>4, <1>5, <1>6, <1>7, <1>8, <1>9, <1>10, <1>11, <1>12, <1>13,
    <1>14, <1>15, <1>16, <1>17, <1>18, <1>19
    DEF Next, LoopStep, StopStep, GuardStep

\* The record names no running tunnel beside the one in hand.
LEMMA RecordStep ==
  ASSUME TypeOK, HandInv, RecordInv, StrikeInv, Next
  PROVE  RecordInv'
<1>. USE BoundsAssumption DEF TypeOK, HandInv, RecordInv, Waits, Looking, NoRecord
<1>1. ASSUME NEW managed \in BOOLEAN, Start(managed)
      PROVE  RecordInv'
  BY <1>1 DEF Start, Publish, NotPublished, fileVars, runVars, history
<1>2. CASE Adopt
  BY <1>2 DEF Adopt, stopVars, buttonVars, runVars, history
<1>3. CASE Adopted
  BY <1>3 DEF Adopted, Hold, Claimed, stopVars, runVars, history, StartPublish, Publish
<1>4. CASE Refused \/ Ended
  BY <1>4 DEF Refused, Told, stopVars, buttonVars, fileVars, history, Ended, Gone
<1>5. CASE Launch
  BY <1>5 DEF Launch, stopVars, buttonVars, fileVars, history
<1>6. CASE NoLaunch \/ Undiscovered \/ Killed \/ Exited
  BY <1>6 DEF NoLaunch, Failed, stopVars, fileVars, runVars, history, StartPublish,
    Publishing, Publish, Undiscovered, Gone, Killed, RecordWithout, Exited
<1>7. CASE Discovered
  BY <1>7 DEF Discovered, Claimed, stopVars, buttonVars, runVars
<1>8. CASE Answered
  BY <1>8 DEF Answered, Hold, stopVars, fileVars, runVars, history, StartPublish,
    Publish
<1>9. CASE Unanswered
  BY <1>9 DEF Unanswered, Told, stopVars, buttonVars, fileVars, history
<1>10. CASE Clear \/ Cleared \/ Again \/ Published
  BY <1>10 DEF Clear, StartPublish, Publishing, stopVars, fileVars, runVars, history,
    Publish, Cleared, buttonVars, Again, Published, loopVars
<1>11. ASSUME NEW keep \in BOOLEAN, Stop(keep)
      PROVE  RecordInv'
  BY <1>11 DEF Stop, buttonVars, fileVars, history
<1>12. CASE Keep
  BY <1>12 DEF Keep, Keeps, buttonVars, runVars, history
<1>13. CASE StopKills
  BY <1>13 DEF StopKills, Told, Keeps, loopVars, buttonVars, runVars, history
<1>14. CASE StopKilled
  BY <1>14 DEF StopKilled, Gone, RecordWithout, buttonVars, history
<1>15. CASE Leave
  BY <1>15 DEF Leave, Forget, fileVars, runVars, history, NotPublished
<1>16. CASE Crash
  BY <1>16 DEF Crash, Forget, fileVars, runVars, NotPublished
<1>17. ASSUME NEW g \in guards, Awake(g)
      PROVE  RecordInv'
  BY <1>17 DEF Awake, stopVars, loopVars, buttonVars, runVars, history
<1>18. ASSUME NEW g \in guards, Strike(g)
      PROVE  RecordInv'
  BY <1>18 DEF Strike, Told, StrikeInv, stopVars, loopVars, buttonVars, runVars, history
<1>19. ASSUME NEW t \in up, Exit(t)
      PROVE  RecordInv'
  BY <1>19 DEF Exit, stopVars, loopVars, buttonVars, fileVars, history
<1>. QED
  BY <1>1, <1>2, <1>3, <1>4, <1>5, <1>6, <1>7, <1>8, <1>9, <1>10, <1>11, <1>12, <1>13,
    <1>14, <1>15, <1>16, <1>17, <1>18, <1>19
    DEF Next, LoopStep, StopStep, GuardStep

\* Every running tunnel stays accounted for.
LEMMA OwnedStep ==
  ASSUME TypeOK, HandInv, RecordInv, OwnedInv, StrikeInv, Next
  PROVE  OwnedInv'
<1>. USE BoundsAssumption DEF TypeOK, HandInv, RecordInv, OwnedInv, StrikeInv, Waits,
    Looking, NoRecord
<1>1. ASSUME NEW managed \in BOOLEAN, Start(managed)
      PROVE  OwnedInv'
  BY <1>1 DEF Start, Publish, NotPublished, fileVars, runVars, history
<1>2. CASE Adopt
  BY <1>2 DEF Adopt, stopVars, buttonVars, runVars, history
<1>3. CASE Adopted
  BY <1>3 DEF Adopted, Hold, Claimed, stopVars, runVars, history, StartPublish, Publish
<1>4. CASE Refused
  BY <1>4 DEF Refused, Told, stopVars, buttonVars, fileVars, history
<1>5. CASE Ended
  BY <1>5 DEF Ended, Gone, stopVars, buttonVars, history
<1>6. CASE Launch
  BY <1>6 DEF Launch, stopVars, buttonVars, fileVars, history
<1>7. CASE NoLaunch
  BY <1>7 DEF NoLaunch, Failed, stopVars, fileVars, runVars, history, StartPublish,
    Publishing, Publish
<1>8. CASE Undiscovered
  BY <1>8 DEF Undiscovered, Failed, Gone, stopVars, fileVars, history, StartPublish,
    Publishing, Publish
<1>9. CASE Killed
  BY <1>9 DEF Killed, Failed, Gone, RecordWithout, stopVars, history, StartPublish,
    Publishing, Publish
<1>10. CASE Exited
  BY <1>10 DEF Exited, Failed, stopVars, fileVars, runVars, history, StartPublish,
    Publishing, Publish
<1>11. CASE Discovered
  BY <1>11 DEF Discovered, Claimed, stopVars, buttonVars, runVars
<1>12. CASE Answered
  BY <1>12 DEF Answered, Hold, stopVars, fileVars, runVars, history, StartPublish,
    Publish
<1>13. CASE Unanswered
  BY <1>13 DEF Unanswered, Told, stopVars, buttonVars, fileVars, history
<1>14. CASE Clear
  BY <1>14 DEF Clear, StartPublish, Publishing, stopVars, fileVars, runVars, history,
    Publish
<1>15. CASE Cleared \/ Again
  BY <1>15 DEF Cleared, Publishing, stopVars, buttonVars, fileVars, runVars, history,
    Again
<1>16. CASE Published
  BY <1>16 DEF Published, stopVars, loopVars, fileVars, runVars, history
<1>17. ASSUME NEW keep \in BOOLEAN, Stop(keep)
      PROVE  OwnedInv'
  BY <1>17 DEF Stop, buttonVars, fileVars, history
<1>18. CASE Keep
  BY <1>18 DEF Keep, Keeps, buttonVars, runVars, history
<1>19. CASE StopKills
  <2>1. /\ up' = up /\ ending \subseteq ending' /\ (proc \in up => proc \in ending')
        /\ UNCHANGED <<loop, cur, proc, unsaved, stray>>
    BY <1>19 DEF StopKills, Told, runVars, loopVars, history
  <2>2. record' = record \/ proc \in up
    BY <1>19 DEF StopKills, Keeps
  <2>. QED  BY <2>1, <2>2
<1>20. CASE StopKilled
  BY <1>20 DEF StopKilled, Gone, RecordWithout, buttonVars, history
<1>21. CASE Leave
  BY <1>21 DEF Leave, Forget, fileVars, runVars, history, NotPublished
<1>22. CASE Crash
  <2>. SUFFICES ASSUME NEW t \in up \ (ending \cup stray'), t # record.tunnel
               PROVE  FALSE
    BY <1>22 DEF Crash, fileVars, runVars
  <2>1. (loop = "discover" /\ t = cur) \/ (t = proc /\ t \in unsaved)
    BY <1>22 DEF Crash
  <2>. QED  BY <1>22, <2>1 DEF Crash
<1>23. ASSUME NEW g \in guards, Awake(g)
      PROVE  OwnedInv'
  BY <1>23 DEF Awake, stopVars, loopVars, buttonVars, runVars, history
<1>24. ASSUME NEW g \in guards, Strike(g)
      PROVE  OwnedInv'
  <2>1. CASE g.tunnel \in up
    <3>1. /\ up' = up /\ ending' = ending \cup {g.tunnel} /\ stray' = stray
          /\ UNCHANGED <<loop, cur, proc, unsaved>>
      BY <1>24, <2>1 DEF Strike, Told, loopVars, history
    <3>2. \A t \in up \ (ending \cup {g.tunnel} \cup stray) : t # record.tunnel
      BY <1>24, <2>1 DEF Strike
    <3>. QED  BY <3>1, <3>2
  <2>2. CASE g.tunnel \notin up
    BY <1>24, <2>2 DEF Strike, stopVars, loopVars, runVars, history
  <2>. QED  BY <2>1, <2>2
<1>25. ASSUME NEW t \in up, Exit(t)
      PROVE  OwnedInv'
  BY <1>25 DEF Exit, stopVars, loopVars, buttonVars, fileVars, history
<1>. QED
  BY <1>1, <1>2, <1>3, <1>4, <1>5, <1>6, <1>7, <1>8, <1>9, <1>10, <1>11, <1>12, <1>13,
    <1>14, <1>15, <1>16, <1>17, <1>18, <1>19, <1>20, <1>21, <1>22, <1>23, <1>24, <1>25
    DEF Next, LoopStep, StopStep, GuardStep

\* A guard about to strike stays the record's.
LEMMA StrikeStep ==
  ASSUME TypeOK, HandInv, RecordInv, StrikeInv, TokenInv, Next
  PROVE  StrikeInv'
<1>. USE BoundsAssumption DEF TypeOK, HandInv, RecordInv, StrikeInv, TokenInv, Waits,
    Looking, NoRecord
<1>1. ASSUME NEW managed \in BOOLEAN, Start(managed)
      PROVE  StrikeInv'
  BY <1>1 DEF Start, Publish, NotPublished, fileVars, runVars, history
<1>2. CASE Adopt
  BY <1>2 DEF Adopt, stopVars, buttonVars, runVars, history
<1>3. CASE Adopted
  BY <1>3 DEF Adopted, Hold, Claimed, stopVars, runVars, history, StartPublish, Publish
<1>4. CASE Refused \/ Ended
  BY <1>4 DEF Refused, Told, stopVars, buttonVars, fileVars, history, Ended, Gone
<1>5. CASE Launch
  BY <1>5 DEF Launch, stopVars, buttonVars, fileVars, history
<1>6. CASE NoLaunch \/ Undiscovered \/ Killed \/ Exited
  BY <1>6 DEF NoLaunch, Failed, stopVars, fileVars, runVars, history, StartPublish,
    Publishing, Publish, Undiscovered, Gone, Killed, RecordWithout, Exited
<1>7. CASE Discovered
  BY <1>7 DEF Discovered, Claimed, stopVars, buttonVars, runVars
<1>8. CASE Answered
  BY <1>8 DEF Answered, Hold, stopVars, fileVars, runVars, history, StartPublish,
    Publish
<1>9. CASE Unanswered
  BY <1>9 DEF Unanswered, Told, stopVars, buttonVars, fileVars, history
<1>10. CASE Clear \/ Cleared \/ Again \/ Published
  BY <1>10 DEF Clear, StartPublish, Publishing, stopVars, fileVars, runVars, history,
    Publish, Cleared, buttonVars, Again, Published, loopVars
<1>11. ASSUME NEW keep \in BOOLEAN, Stop(keep)
      PROVE  StrikeInv'
  BY <1>11 DEF Stop, buttonVars, fileVars, history
<1>12. CASE Keep
  BY <1>12 DEF Keep, Keeps, buttonVars, runVars, history
<1>13. CASE StopKills
  BY <1>13 DEF StopKills, Told, Keeps, loopVars, buttonVars, runVars, history
<1>14. CASE StopKilled
  BY <1>14 DEF StopKilled, Gone, RecordWithout, buttonVars, history
<1>15. CASE Leave
  BY <1>15 DEF Leave, Forget, fileVars, runVars, history, NotPublished
<1>16. CASE Crash
  BY <1>16 DEF Crash, Forget, fileVars, runVars, NotPublished
<1>17. ASSUME NEW g \in guards, Awake(g)
      PROVE  StrikeInv'
  BY <1>17 DEF Awake, stopVars, loopVars, buttonVars, runVars, history
<1>18. ASSUME NEW g \in guards, Strike(g)
      PROVE  StrikeInv'
  BY <1>18 DEF Strike, Told, stopVars, loopVars, buttonVars, runVars, history
<1>19. ASSUME NEW t \in up, Exit(t)
      PROVE  StrikeInv'
  BY <1>19 DEF Exit, stopVars, loopVars, buttonVars, fileVars, history
<1>. QED
  BY <1>1, <1>2, <1>3, <1>4, <1>5, <1>6, <1>7, <1>8, <1>9, <1>10, <1>11, <1>12, <1>13,
    <1>14, <1>15, <1>16, <1>17, <1>18, <1>19
    DEF Next, LoopStep, StopStep, GuardStep

\* Tokens stay unique.
LEMMA TokenStep ==
  ASSUME TypeOK, HandInv, TokenInv, Next
  PROVE  TokenInv'
<1>. USE BoundsAssumption DEF TypeOK, HandInv, TokenInv, NoRecord
<1>1. ASSUME NEW managed \in BOOLEAN, Start(managed)
      PROVE  TokenInv'
  BY <1>1 DEF Start, Publish, NotPublished, fileVars, runVars, history
<1>2. CASE Adopt
  BY <1>2 DEF Adopt, stopVars, buttonVars, runVars, history
<1>3. CASE Adopted
  BY <1>3 DEF Adopted, Hold, Claimed, stopVars, runVars, history, StartPublish, Publish
<1>4. CASE Refused \/ Ended
  BY <1>4 DEF Refused, Told, stopVars, buttonVars, fileVars, history, Ended, Gone
<1>5. CASE Launch
  BY <1>5 DEF Launch, stopVars, buttonVars, fileVars, history
<1>6. CASE NoLaunch \/ Undiscovered \/ Killed \/ Exited
  BY <1>6 DEF NoLaunch, Failed, stopVars, fileVars, runVars, history, StartPublish,
    Publishing, Publish, Undiscovered, Gone, Killed, RecordWithout, Exited
<1>7. CASE Discovered
  BY <1>7 DEF Discovered, Claimed, stopVars, buttonVars, runVars
<1>8. CASE Answered
  BY <1>8 DEF Answered, Hold, stopVars, fileVars, runVars, history, StartPublish,
    Publish
<1>9. CASE Unanswered
  BY <1>9 DEF Unanswered, Told, stopVars, buttonVars, fileVars, history
<1>10. CASE Clear \/ Cleared \/ Again \/ Published
  BY <1>10 DEF Clear, StartPublish, Publishing, stopVars, fileVars, runVars, history,
    Publish, Cleared, buttonVars, Again, Published, loopVars
<1>11. ASSUME NEW keep \in BOOLEAN, Stop(keep)
      PROVE  TokenInv'
  BY <1>11 DEF Stop, buttonVars, fileVars, history
<1>12. CASE Keep
  BY <1>12 DEF Keep, Keeps, buttonVars, runVars, history
<1>13. CASE StopKills
  BY <1>13 DEF StopKills, Told, Keeps, loopVars, buttonVars, runVars, history
<1>14. CASE StopKilled
  BY <1>14 DEF StopKilled, Gone, RecordWithout, buttonVars, history
<1>15. CASE Leave
  BY <1>15 DEF Leave, Forget, fileVars, runVars, history, NotPublished
<1>16. CASE Crash
  BY <1>16 DEF Crash, Forget, fileVars, runVars, NotPublished
<1>17. ASSUME NEW g \in guards, Awake(g)
      PROVE  TokenInv'
  BY <1>17 DEF Awake, stopVars, loopVars, buttonVars, runVars, history
<1>18. ASSUME NEW g \in guards, Strike(g)
      PROVE  TokenInv'
  BY <1>18 DEF Strike, Told, stopVars, loopVars, buttonVars, runVars, history
<1>19. ASSUME NEW t \in up, Exit(t)
      PROVE  TokenInv'
  BY <1>19 DEF Exit, stopVars, loopVars, buttonVars, fileVars, history
<1>. QED
  BY <1>1, <1>2, <1>3, <1>4, <1>5, <1>6, <1>7, <1>8, <1>9, <1>10, <1>11, <1>12, <1>13,
    <1>14, <1>15, <1>16, <1>17, <1>18, <1>19
    DEF Next, LoopStep, StopStep, GuardStep

-----------------------------------------------------------------------------
(* The theorems.                                                           *)

LEMMA Inductive ==
  ASSUME IInv, [Next]_vars
  PROVE  IInv'
<1>1. CASE Next
  BY <1>1, TypeStep, HandStep, RecordStep, OwnedStep, StrikeStep, TokenStep DEF IInv
<1>2. CASE UNCHANGED vars
  BY <1>2 DEF IInv, TypeOK, HandInv, RecordInv, OwnedInv, StrikeInv, TokenInv, vars,
    stopVars, loopVars, buttonVars, fileVars, runVars, history
<1>. QED  BY <1>1, <1>2

LEMMA InitIInv == Init => IInv
<1>. SUFFICES ASSUME Init PROVE IInv
  OBVIOUS
<1>1. used = 0 /\ slot = 0 /\ button = 0 /\ last = NotPublished
  BY DEF Init
<1>2. DaemonOK /\ RunOK
  <2>1. MaxStarts \in Nat /\ MaxTunnels \in Nat
    BY BoundsAssumption
  <2>2. planned \in BOOLEAN /\ told \in BOOLEAN
    BY Zenon DEF Init
  <2>3. daemon = "down" /\ starts = 0 /\ loop = "none"
    BY DEF Init
  <2>4. DaemonOK
    BY <2>1, <2>2, <2>3 DEF DaemonOK, Waits
  <2>5. RunOK
    BY <2>1 DEF Init, RunOK
  <2>. QED  BY <2>4, <2>5
<1>3. FileOK
  BY BoundsAssumption DEF Init, FileOK, NoRecord
<1>4. ButtonOK
  BY <1>1, LastTyped DEF ButtonOK
<1>5. pubs \in Publishes(used)
  BY DEF Init, Publishes
<1>6. TypeOK
  BY <1>2, <1>3, <1>4, <1>5, TypeParts
<1>. QED
  BY <1>6 DEF Init, IInv, HandInv, RecordInv, OwnedInv, StrikeInv, TokenInv, Looking, Waits

LEMMA Invariance == Spec => []IInv
BY InitIInv, Inductive, PTL DEF Spec

\* The variables keep their types, and only started tunnels run or are named,
\* whatever the stops, crashes and faults.
THEOREM TypeCorrect == Spec => []TypeOK
<1>1. IInv => TypeOK
  BY DEF IInv
<1>. QED  BY <1>1, Invariance, PTL

\* A public tunnel nobody told to end is the one the daemon has in hand, or
\* with none in hand the one the record names: stop() at any await, a refused
\* or cut adoption, a write that failed and a guard that strikes late leave no
\* other behind.
THEOREM NoneForgotten == Spec => []Accounted
<1>1. IInv => Accounted
  BY DEF IInv, TypeOK, HandInv, RecordInv, OwnedInv, Accounted, InHand, Waits, Looking
<1>. QED  BY <1>1, Invariance, PTL

-----------------------------------------------------------------------------
(* The button.  What the manager published last is on the button, or the   *)
(* last of the publishes in flight: they land in the order they began, the *)
(* startup's before any of the manager's.                                  *)

ShowsLast ==
  last.made => IF pubs = <<>> THEN button = last.url
               ELSE pubs[Len(pubs)] = Publish(last.url, "manager")

Nothing == last.made /\ last.url = 0

\* What the loop has published where it waits.
PublishedInv ==
  /\ loop \in {"adopt"} \cup Looking => ~ last.made
  /\ loop \in {"launch", "discover", "probe", "kill"} => ~ last.made \/ (Nothing /\ pubs = <<>>)
  /\ loop = "waiting" => Nothing /\ pubs = <<>>
  /\ loop = "clearing" => Nothing
  /\ loop = "hold" => last.made /\ last.url = proc /\ slot = proc

ButtonInv == ShowsLast /\ PublishedInv

\* A publish that begins is the last one in flight.
LEMMA StartPublishShows ==
  ASSUME NEW n \in Nat, pubs \in Publishes(n), NEW t \in 0 .. n, StartPublish(t)
  PROVE  /\ ShowsLast' /\ last' = [made |-> TRUE, url |-> t]
         /\ pubs' # <<>>
<1>. DEFINE p == Publish(t, "manager")
            S == [url : 0 .. n, source : {"manager", "startup"}]
<1>1. p \in S /\ pubs \in Seq(S)
  BY DEF Publish, Publishes
<1>2. pubs' = Append(pubs, p) /\ last' = [made |-> TRUE, url |-> t]
  BY DEF StartPublish
<1>. HIDE DEF p, S
<1>3. Len(pubs') = Len(pubs) + 1 /\ pubs'[Len(pubs) + 1] = p /\ Len(pubs) \in Nat
  BY <1>1, <1>2, AppendProperties, LenProperties
<1>4. pubs' # <<>> /\ pubs'[Len(pubs')] = p
  BY <1>1, <1>2, <1>3, AppendProperties
<1>5. last'.url = t /\ p = Publish(last'.url, "manager")
  BY <1>2 DEF p
<1>. QED  BY <1>2, <1>4, <1>5 DEF ShowsLast

\* With what it published last on the way, the manager is publishing.
LEMMA StillPublishing ==
  ASSUME NEW n \in Nat, pubs \in Publishes(n), ShowsLast, last.made, ~ Publishing
  PROVE  pubs = <<>> /\ button = last.url
<1>1. ASSUME pubs # <<>> PROVE Publishing
  <2>1. Len(pubs) \in DOMAIN pubs
    BY <1>1, LenProperties, EmptySeq DEF Publishes
  <2>2. pubs[Len(pubs)].source = "manager"
    BY <1>1 DEF ShowsLast, Publish
  <2>. QED  BY <2>1, <2>2 DEF Publishing
<1>. QED  BY <1>1 DEF ShowsLast

LEMMA PublishedShows ==
  ASSUME NEW n \in Nat, pubs \in Publishes(n), ShowsLast, Published
  PROVE  ShowsLast'
<1>. DEFINE S == [url : 0 .. n, source : {"manager", "startup"}]
<1>1. pubs \in Seq(S) /\ pubs # <<>> /\ pubs' = Tail(pubs) /\ button' = Head(pubs).url
      /\ last' = last
  BY DEF Published, Publishes
<1>. HIDE DEF S
<1>2. /\ Len(pubs') = Len(pubs) - 1 /\ Len(pubs) \in Nat \ {0} /\ Head(pubs) = pubs[1]
      /\ \A i \in 1 .. Len(pubs') : pubs'[i] = pubs[i + 1]
  BY <1>1, HeadTailProperties, LenProperties, EmptySeq
<1>3. CASE Len(pubs) = 1
  <2>1. pubs' = <<>>
    BY <1>1, <1>2, <1>3, HeadTailProperties, EmptySeq
  <2>2. last.made => Head(pubs) = Publish(last.url, "manager")
    BY <1>1, <1>2, <1>3 DEF ShowsLast
  <2>3. Publish(last.url, "manager").url = last.url
    BY DEF Publish
  <2>. QED  BY <1>1, <2>1, <2>2, <2>3 DEF ShowsLast
<1>4. CASE Len(pubs) # 1
  <2>1. Len(pubs') \in 1 .. Len(pubs') /\ pubs'[Len(pubs')] = pubs[Len(pubs)]
    BY <1>2, <1>4
  <2>2. pubs' # <<>>
    BY <2>1, EmptySeq
  <2>. QED  BY <1>1, <2>1, <2>2 DEF ShowsLast
<1>. QED  BY <1>3, <1>4

LEMMA ButtonInvStep ==
  ASSUME TypeOK, HandInv, ButtonInv, Next
  PROVE  ButtonInv'
<1>0. /\ used \in Nat /\ slot \in 0 .. used /\ proc \in 0 .. used /\ cur \in 0 .. used
      /\ pubs \in Publishes(used) /\ last.made \in BOOLEAN
      /\ NotPublished.made = FALSE
  BY BoundsAssumption DEF TypeOK, Publishes, NotPublished
<1>f. ASSUME Failed, loop \in {"launch", "discover", "probe", "kill", "hold"}
      PROVE  ButtonInv'
  <2>1. CASE Nothing
    <3>1. UNCHANGED <<last, pubs, button>> /\ loop' = "waiting"
      BY <1>f, <2>1 DEF Failed, Nothing
    <3>2. pubs = <<>>
      <4>1. loop # "hold"
        BY <2>1 DEF Nothing, ButtonInv, PublishedInv, HandInv
      <4>. QED  BY <1>f, <2>1, <4>1 DEF ButtonInv, PublishedInv, Nothing
    <3>. QED  BY <2>1, <3>1, <3>2 DEF ButtonInv, ShowsLast, PublishedInv, Nothing, Looking
  <2>2. CASE ~ Nothing /\ Publishing
    <3>1. UNCHANGED <<last, pubs, button>> /\ loop' = "publishing"
      BY <1>f, <2>2 DEF Failed, Nothing
    <3>. QED  BY <3>1 DEF ButtonInv, ShowsLast, PublishedInv, Looking
  <2>3. CASE ~ Nothing /\ ~ Publishing
    <3>1. loop' = "clearing" /\ StartPublish(0)
      BY <1>f, <2>3 DEF Failed, Nothing
    <3>2. ShowsLast' /\ last' = [made |-> TRUE, url |-> 0]
      BY <1>0, <3>1, StartPublishShows
    <3>3. Nothing'
      BY <3>2 DEF Nothing
    <3>. QED  BY <3>1, <3>2, <3>3 DEF ButtonInv, PublishedInv, Looking
  <2>. QED  BY <2>1, <2>2, <2>3
<1>h. ASSUME NEW t \in 0 .. used, Hold(t) PROVE ButtonInv'
  <2>1. loop' = "hold" /\ proc' = t /\ slot' = t /\ StartPublish(t)
    BY <1>h DEF Hold
  <2>2. ShowsLast' /\ last' = [made |-> TRUE, url |-> t]
    BY <1>0, <2>1, StartPublishShows
  <2>3. last'.made /\ last'.url = t
    BY <2>2
  <2>. QED  BY <2>1, <2>2, <2>3 DEF ButtonInv, PublishedInv, Looking
<1>s. ASSUME UNCHANGED <<last, pubs, button>>, loop' = "none" PROVE ButtonInv'
  BY <1>s DEF ButtonInv, ShowsLast, PublishedInv, Looking
<1>q. ASSUME UNCHANGED <<loop, last, pubs, button, slot>>, loop = "hold" => proc' = proc
      PROVE  ButtonInv'
  BY <1>q DEF ButtonInv, ShowsLast, PublishedInv, Nothing, Looking
<1>1. ASSUME NEW managed \in BOOLEAN, Start(managed)
      PROVE  ButtonInv'
  <2>1. ~ last'.made /\ loop' \in {"none", "adopt"}
    BY <1>0, <1>1 DEF Start
  <2>. QED  BY <2>1 DEF ButtonInv, ShowsLast, PublishedInv, Looking
<1>2. CASE Published
  <2>1. ShowsLast'
    BY <1>0, <1>2, PublishedShows DEF ButtonInv
  <2>2. pubs # <<>> /\ UNCHANGED <<loop, proc, slot, last>>
    BY <1>2 DEF Published, loopVars
  <2>. QED  BY <2>1, <2>2 DEF ButtonInv, PublishedInv, Nothing, Looking
<1>3. CASE Adopted \/ Answered
  BY <1>0, <1>3, <1>h DEF Adopted, Answered
<1>4. CASE NoLaunch \/ Undiscovered \/ Killed \/ Exited
  BY <1>4, <1>f DEF NoLaunch, Undiscovered, Killed, Exited
<1>5. CASE Adopt \/ Refused \/ Ended
  <2>1. /\ loop \in {"adopt"} \cup Looking /\ UNCHANGED <<last, pubs, button>>
        /\ loop' \in {"launch"} \cup Looking
    BY <1>5 DEF Adopt, Refused, Ended, buttonVars, Looking
  <2>. QED  BY <2>1 DEF ButtonInv, ShowsLast, PublishedInv, Looking
<1>6. CASE Launch \/ Discovered \/ Unanswered
  <2>1. /\ loop \in {"launch", "discover", "probe"} /\ UNCHANGED <<last, pubs, button>>
        /\ loop' \in {"discover", "probe", "kill"}
    BY <1>6 DEF Launch, Discovered, Unanswered, buttonVars
  <2>. QED  BY <2>1 DEF ButtonInv, ShowsLast, PublishedInv, Nothing, Looking
<1>7. CASE Clear
  <2>1. StartPublish(0) /\ loop' = "clearing"
    BY <1>7 DEF Clear
  <2>2. ShowsLast' /\ last' = [made |-> TRUE, url |-> 0]
    BY <1>0, <2>1, StartPublishShows
  <2>3. Nothing'
    BY <2>2 DEF Nothing
  <2>. QED  BY <2>1, <2>2, <2>3 DEF ButtonInv, PublishedInv, Looking
<1>8. CASE Cleared
  <2>1. /\ loop = "clearing" /\ ~ Publishing /\ loop' = "waiting"
        /\ UNCHANGED <<last, pubs, button>>
    BY <1>8 DEF Cleared, buttonVars
  <2>2. Nothing /\ pubs = <<>>
    BY <1>0, <2>1, StillPublishing DEF ButtonInv, PublishedInv, Nothing
  <2>. QED  BY <2>1, <2>2 DEF ButtonInv, ShowsLast, PublishedInv, Nothing, Looking
<1>9. CASE Again
  <2>1. loop = "waiting" /\ loop' = "launch" /\ UNCHANGED <<last, pubs, button>>
    BY <1>9 DEF Again, buttonVars
  <2>. QED  BY <2>1 DEF ButtonInv, ShowsLast, PublishedInv, Nothing, Looking
<1>10. ASSUME NEW keep \in BOOLEAN, Stop(keep)
      PROVE  ButtonInv'
  BY <1>10, <1>s DEF Stop, buttonVars
<1>11. CASE Keep \/ StopKills \/ StopKilled
  <2>1. loop # "hold" /\ UNCHANGED <<loop, last, pubs, button, slot>>
    BY <1>11 DEF Keep, StopKills, StopKilled, HandInv, buttonVars, loopVars
  <2>. QED  BY <2>1, <1>q
<1>12. CASE Leave \/ Crash
  <2>1. ~ last'.made /\ loop' = "none"
    BY <1>0, <1>12 DEF Leave, Crash, Forget
  <2>. QED  BY <2>1 DEF ButtonInv, ShowsLast, PublishedInv, Looking
<1>13. CASE GuardStep \/ \E t \in up : Exit(t)
  BY <1>13, <1>q DEF GuardStep, Awake, Strike, Exit, loopVars, buttonVars
<1>. QED
  BY <1>1, <1>2, <1>3, <1>4, <1>5, <1>6, <1>7, <1>8, <1>9, <1>10, <1>11, <1>12, <1>13
    DEF Next, LoopStep, StopStep

\* While the loop waits between two tries the button shows nothing, and once
\* the publish of the address in hand is out it shows that address: whatever
\* the last daemon left on it and whatever was in flight.
THEOREM ButtonIsTrue == Spec => []ButtonTells
<1>1. Init => ButtonInv
  BY DEF Init, ButtonInv, ShowsLast, PublishedInv, NotPublished, Looking
<1>2. IInv /\ ButtonInv /\ [Next]_vars => ButtonInv'
  <2>1. CASE UNCHANGED vars
    BY <2>1 DEF ButtonInv, ShowsLast, PublishedInv, Nothing, Looking, vars, loopVars, buttonVars
  <2>. QED  BY <2>1, ButtonInvStep DEF IInv
<1>3. IInv /\ ButtonInv => ButtonTells
  BY DEF ButtonInv, ShowsLast, PublishedInv, Nothing, ButtonTells
<1>. QED  BY <1>1, <1>2, <1>3, Invariance, PTL DEF Spec
=============================================================================
