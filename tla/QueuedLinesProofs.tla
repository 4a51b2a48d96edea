-------------------------- MODULE QueuedLinesProofs --------------------------
(***************************************************************************)
(* QueuedLines, for any number of messages and taps and every set of       *)
(* faults: every line in the chat is owed a delete unless a named fault    *)
(* took it, no line outlives the press that was answered for it, the lines *)
(* the daemon tracks are in the chat, and the steps of the queue are those *)
(* of LinePromise. Every variable keeps its type, though a scan takes any  *)
(* number of targets at once: the entries kept by the recursive Without    *)
(* are shown to be messages by taking a least index for which they are     *)
(* not.                                                                    *)
(***************************************************************************)
EXTENDS QueuedLines, SequenceTheorems, WellFoundedInduction, TLAPS

\* What the line invariants need of TypeOK.
LineTypes ==
  /\ task \in [Msgs -> Stages]
  /\ taps \in [Taps -> [for : Msgs \cup {Now},
                        at : {"idle", "chord", "sent", "taken", "failed",
                              "done", "over"}]]
  /\ up \subseteq Msgs /\ lines \subseteq Msgs
  /\ presser \in Taps \cup {NoTap}

------------------------------------------------------------------------------
(* Dropping lines only removes them, owes what it removes, and moves no    *)
(* coroutine but from waiting to over.                                     *)
LEMMA DropFacts ==
  ASSUME LineTypes, NEW ms, DropLines(ms)
  PROVE  /\ lines' \subseteq lines
         /\ owed \subseteq owed'
         /\ task' \in [Msgs -> Stages]
         /\ \A m \in Msgs : task[m] = "landed" => task'[m] = "landed"
BY DEF DropLines, DeleteLater, Cancelled, LineTypes, Stages

(* The end of one message's coroutine leaves the others where they were.   *)
LEMMA OverFacts ==
  ASSUME LineTypes, NEW m \in Msgs, LineOver(m)
  PROVE  /\ task' \in [Msgs -> Stages]
         /\ \A k \in Msgs \ {m} : task'[k] = task[k]
BY DEF LineOver, LineTypes, Stages

------------------------------------------------------------------------------
(* LineTypes is kept by every step.                                        *)
LEMMA TypesInit == Init => LineTypes
BY Domains DEF Init, Fresh, Idle, LineTypes, Stages

LEMMA TypesNext == LineTypes /\ [Next]_vars => LineTypes'
<1> SUFFICES ASSUME LineTypes, [Next]_vars PROVE LineTypes'
  OBVIOUS
<1>1. CASE UNCHANGED vars
  BY <1>1 DEF vars, daemon, LineTypes
<1>2. ASSUME NEW m \in Msgs,
             Enqueue(m) \/ PickUp(m) \/ LineStep(m) \/ BootDelete(m)
      PROVE  LineTypes'
  <2>1. CASE Enqueue(m)
    BY <2>1 DEF Enqueue, daemon, LineTypes
  <2>2. CASE PickUp(m)
    BY <2>2 DEF PickUp, LineTypes, Stages
  <2>3. CASE EvidenceWaited(m)
    BY <2>3 DEF EvidenceWaited, LineTypes, Stages
  <2>4. CASE SendLine(m)
    BY <2>4 DEF SendLine, LineOver, LineTypes, Stages
  <2>5. CASE LineLands(m)
    BY <2>5 DEF LineLands, LineOver, LineTypes, Stages
  <2>6. CASE LineRefused(m)
    BY <2>6 DEF LineRefused, LineOver, LineTypes, Stages
  <2>7. CASE PauseEnds(m)
    BY <2>7 DEF PauseEnds, LineTypes, Stages
  <2>8. CASE LineAnswered(m)
    BY <2>8 DEF LineAnswered, LineOver, LineTypes, Stages
  <2>9. CASE BootDelete(m)
    BY <2>9 DEF BootDelete, LineTypes
  <2> QED
    BY <1>2, <2>1, <2>2, <2>3, <2>4, <2>5, <2>6, <2>7, <2>8, <2>9 DEF LineStep
<1>3. CASE Absorb \/ TakeNow \/ Escape \/ StartTurn \/ MuteChanges \/ Save
  BY <1>3 DEF Absorb, TakeNow, Escape, StartTurn, MuteChanges, Save, daemon,
              LineTypes
<1>4. CASE TurnEnds
  <2>1. PICK ts : Sync(ts)
    BY <1>4 DEF TurnEnds
  <2> QED
    BY <1>4, <2>1, DropFacts DEF TurnEnds, Sync, LineTypes
<1>5. ASSUME NEW c \in calls, DeleteStep(c) PROVE LineTypes'
  BY <1>5 DEF DeleteStep, DeleteLands, DeleteSlowed, DeleteRefused,
              DeleteFails, LineTypes
<1>6. CASE CardTick
  BY <1>6, DropFacts DEF CardTick, Sync, LineTypes
<1>7. CASE PlaceSentence
  BY <1>7 DEF PlaceSentence, LineTypes
<1>8. CASE QueueWatch
  <2>1. CASE NothingToWatch
    BY <1>8, <2>1 DEF QueueWatch, LineTypes
  <2>2. CASE ~NothingToWatch
    BY <1>8, <2>2, DropFacts DEF QueueWatch, Sync, LineTypes
  <2> QED
    BY <2>1, <2>2
<1>9. ASSUME NEW k \in Teardowns, TeardownBegins(k) PROVE LineTypes'
  BY <1>9 DEF TeardownBegins, LineTypes
<1>10. CASE ClearRefused
  BY <1>10 DEF ClearRefused, LineTypes
<1>11. CASE TeardownEnds
  BY <1>11, DropFacts DEF TeardownEnds, Sync, LineTypes
<1>12. ASSUME NEW t \in Taps, ChordEnds(t) PROVE LineTypes'
  BY <1>12 DEF ChordEnds, LineTypes
<1>13. ASSUME NEW t \in Taps, TapAnswered(t) PROVE LineTypes'
  <2>1. task' \in [Msgs -> Stages]
    BY <1>13 DEF TapAnswered, Cancelled, LineTypes, Stages
  <2>2. lines' \subseteq lines
    BY <1>13 DEF TapAnswered
  <2>3. taps' \in [Taps -> [for : Msgs \cup {Now},
                            at : {"idle", "chord", "sent", "taken", "failed",
                                  "done", "over"}]]
    BY <1>13 DEF TapAnswered, LineTypes
  <2> QED
    BY <1>13, <2>1, <2>2, <2>3 DEF TapAnswered, LineTypes
<1>14. ASSUME NEW t \in Taps, NEW m \in Msgs \cup {Now}, Tap(t, m)
       PROVE  LineTypes'
  <2>1. \A a \in {"taken", "sent", "chord"} :
          [taps EXCEPT ![t] = [for |-> m, at |-> a]] \in
            [Taps -> [for : Msgs \cup {Now},
                      at : {"idle", "chord", "sent", "taken", "failed",
                            "done", "over"}]]
    BY DEF LineTypes
  <2> QED
    BY <1>14, <2>1 DEF Tap, LineTypes
<1>15. CASE Restart
  BY <1>15 DEF Restart, Idle, LineTypes, Stages
<1> QED
  BY <1>1, <1>2, <1>3, <1>4, <1>5, <1>6, <1>7, <1>8, <1>9, <1>10, <1>11,
     <1>12, <1>13, <1>14, <1>15 DEF Next

------------------------------------------------------------------------------
(* A message gets its line's coroutine once, when its hook arrives.        *)
ArmedOnce == \A m \in Msgs : m \in picked \/ task[m] = "none"

OwedInv == LineTypes /\ ArmedOnce /\ LinesOwed

LEMMA OwedInit == Init => OwedInv
BY TypesInit DEF Init, Fresh, OwedInv, ArmedOnce, LinesOwed

(* A step that posts nothing, settles nothing and ends no coroutine that   *)
(* has an answer to read keeps OwedInv.                                    *)
Harmless ==
  /\ up' = up /\ owed \subseteq owed' /\ lost' = lost
  /\ picked' = picked
  /\ \A m \in Msgs : /\ task[m] = "landed" => task'[m] = "landed"
                     /\ task[m] = "none" => task'[m] = "none"

LEMMA HarmlessKeeps == OwedInv /\ Harmless /\ LineTypes' => OwedInv'
BY DEF OwedInv, Harmless, LineTypes, ArmedOnce, LinesOwed

LEMMA DropHarmless ==
  ASSUME LineTypes, NEW ms, DropLines(ms), UNCHANGED <<up, lost, picked>>
  PROVE  Harmless
BY DEF DropLines, DeleteLater, Cancelled, LineTypes, Harmless

LEMMA OwedNext == OwedInv /\ [Next]_vars => OwedInv'
<1> SUFFICES ASSUME OwedInv, [Next]_vars PROVE OwedInv'
  OBVIOUS
<1>t. LineTypes /\ LineTypes'
  BY TypesNext DEF OwedInv
<1>h. Harmless => OwedInv'
  BY <1>t, HarmlessKeeps
<1>1. CASE UNCHANGED vars
  BY <1>1, <1>h DEF vars, daemon, history, Harmless
<1>2. ASSUME NEW m \in Msgs,
             Enqueue(m) \/ PickUp(m) \/ LineStep(m) \/ BootDelete(m)
      PROVE  OwedInv'
  <2>1. CASE Enqueue(m)
    BY <2>1, <1>h DEF Enqueue, daemon, history, Harmless
  <2>2. CASE PickUp(m)
    <3>1. task[m] = "none"
      BY <2>2 DEF PickUp, OwedInv, ArmedOnce
    <3> QED
      BY <2>2, <3>1, <1>t DEF PickUp, OwedInv, ArmedOnce, LinesOwed, LineTypes,
                              history
  <2>3. CASE EvidenceWaited(m)
    BY <2>3, <1>h, <1>t DEF EvidenceWaited, LineTypes, history, Harmless
  <2>4. CASE SendLine(m)
    BY <2>4, <1>h, <1>t DEF SendLine, LineOver, LineTypes, history, Harmless
  <2>5. CASE LineLands(m)
    BY <2>5, <1>t DEF LineLands, LineOver, OwedInv, ArmedOnce, LinesOwed,
                      LineTypes
  <2>6. CASE LineRefused(m)
    BY <2>6, <1>h, <1>t DEF LineRefused, LineOver, LineTypes, history, Harmless
  <2>7. CASE PauseEnds(m)
    BY <2>7, <1>h, <1>t DEF PauseEnds, LineTypes, history, Harmless
  <2>8. CASE LineAnswered(m)
    BY <2>8, <1>t DEF LineAnswered, LineOver, Owe, OwedInv, ArmedOnce,
                      LinesOwed, LineTypes, history
  <2>9. CASE BootDelete(m)
    BY <2>9, <1>t DEF BootDelete, OwedInv, ArmedOnce, LinesOwed
  <2> QED
    BY <1>2, <2>1, <2>2, <2>3, <2>4, <2>5, <2>6, <2>7, <2>8, <2>9 DEF LineStep
<1>3. CASE Absorb \/ TakeNow \/ Escape \/ StartTurn \/ MuteChanges \/ Save
  BY <1>3, <1>h DEF Absorb, TakeNow, Escape, StartTurn, MuteChanges, Save,
                    daemon, history, Harmless
<1>4. CASE TurnEnds
  <2>1. PICK ts : Sync(ts)
    BY <1>4 DEF TurnEnds
  <2> QED
    BY <1>4, <2>1, <1>h, <1>t, DropHarmless DEF TurnEnds, Sync, history
<1>5. ASSUME NEW c \in calls, DeleteStep(c) PROVE OwedInv'
  <2>1. CASE DeleteLands(c) \/ DeleteFails(c)
    BY <2>1, <1>t DEF DeleteLands, DeleteFails, OwedInv, ArmedOnce, LinesOwed,
                      history
  <2>2. CASE DeleteSlowed(c) \/ DeleteRefused(c)
    BY <2>2, <1>h DEF DeleteSlowed, DeleteRefused, history, Harmless
  <2> QED
    BY <1>5, <2>1, <2>2 DEF DeleteStep
<1>6. CASE CardTick
  BY <1>6, <1>h, <1>t, DropHarmless DEF CardTick, Sync, history
<1>7. CASE PlaceSentence
  BY <1>7, <1>h DEF PlaceSentence, history, Harmless
<1>8. CASE QueueWatch
  <2>1. CASE NothingToWatch
    BY <1>8, <2>1, <1>h DEF QueueWatch, history, Harmless
  <2>2. CASE ~NothingToWatch
    BY <1>8, <2>2, <1>h, <1>t, DropHarmless DEF QueueWatch, Sync, history
  <2> QED
    BY <2>1, <2>2
<1>9. ASSUME NEW k \in Teardowns, TeardownBegins(k) PROVE OwedInv'
  BY <1>9, <1>h DEF TeardownBegins, history, Harmless
<1>10. CASE ClearRefused
  BY <1>10, <1>h DEF ClearRefused, history, Harmless
<1>11. CASE TeardownEnds
  BY <1>11, <1>h, <1>t, DropHarmless DEF TeardownEnds, Sync, history
<1>12. ASSUME NEW t \in Taps, ChordEnds(t) PROVE OwedInv'
  BY <1>12, <1>h DEF ChordEnds, history, Harmless
<1>13. ASSUME NEW t \in Taps, TapAnswered(t) PROVE OwedInv'
  <2>1. \A m \in Msgs : /\ task[m] = "landed" => task'[m] = "landed"
                        /\ task[m] = "none" => task'[m] = "none"
    BY <1>13, <1>t DEF TapAnswered, Cancelled, LineTypes
  <2>2. owed \subseteq owed' /\ up' = up /\ lost' = lost /\ picked' = picked
    BY <1>13 DEF TapAnswered, history
  <2> QED
    BY <2>1, <2>2, <1>h DEF Harmless
<1>14. ASSUME NEW t \in Taps, NEW m \in Msgs \cup {Now}, Tap(t, m)
       PROVE  OwedInv'
  BY <1>14, <1>h DEF Tap, history, Harmless
<1>15. CASE Restart
  <2>1. \A m \in Msgs : task'[m] = IF task[m] = "none" THEN "none" ELSE "over"
    BY <1>15 DEF Restart
  <2>2. ArmedOnce'
    BY <1>15, <2>1 DEF Restart, OwedInv, ArmedOnce
  <2>3. \A m \in up : m \in saved \/ m \in lost'
    BY <1>15, <1>t DEF Restart, OwedInv, LinesOwed, Out, LineTypes
  <2> QED
    BY <1>15, <2>2, <2>3, <1>t DEF Restart, OwedInv, LinesOwed
<1> QED
  BY <1>1, <1>2, <1>3, <1>4, <1>5, <1>6, <1>7, <1>8, <1>9, <1>10, <1>11,
     <1>12, <1>13, <1>14, <1>15 DEF Next

(* Every line in the chat is owed a delete, unless its send lost its       *)
(* answer, its delete failed on the network, or the daemon restarted       *)
(* before the registry was saved.                                          *)
THEOREM EveryLineIsOwed == Spec => []LinesOwed
<1>1. OwedInv => LinesOwed
  BY DEF OwedInv
<1> QED
  BY OwedInit, OwedNext, <1>1, PTL DEF Spec

------------------------------------------------------------------------------
(* Once a press was answered, the lines left are of messages armed after   *)
(* it: the sends and retries that come back later are dropped.             *)
ClearInv == LineTypes /\ AnsweredQueueClear

\* A step that adds no line and answers no press, and takes no arming back.
Calm ==
  /\ lines' \subseteq lines
  /\ presser' = NoTap \/ (presser' = presser /\ after \subseteq after')
  /\ \A t \in Taps : taps'[t].at = "done" => taps[t].at = "done"

LEMMA CalmKeeps == ClearInv /\ Calm /\ LineTypes' => ClearInv'
BY Domains DEF ClearInv, Calm, LineTypes, AnsweredQueueClear, Pressed, Stale

LEMMA ClearNext == ClearInv /\ [Next]_vars => ClearInv'
<1> SUFFICES ASSUME ClearInv, [Next]_vars PROVE ClearInv'
  OBVIOUS
<1>t. LineTypes /\ LineTypes'
  BY TypesNext DEF ClearInv
<1>c. Calm => ClearInv'
  BY <1>t, CalmKeeps
<1>d. ASSUME NEW ms, DropLines(ms), UNCHANGED taps,
             presser' = NoTap \/ UNCHANGED <<presser, after>>
      PROVE  ClearInv'
  BY <1>d, <1>t, <1>c, DropFacts DEF Calm
<1>1. CASE UNCHANGED vars
  BY <1>1, <1>c DEF vars, daemon, Calm
<1>2. ASSUME NEW m \in Msgs,
             Enqueue(m) \/ PickUp(m) \/ LineStep(m) \/ BootDelete(m)
      PROVE  ClearInv'
  <2>1. CASE Enqueue(m)
    BY <2>1, <1>c DEF Enqueue, daemon, Calm
  <2>2. CASE PickUp(m)
    BY <2>2, <1>c DEF PickUp, Pressed, Calm
  <2>3. CASE EvidenceWaited(m) \/ SendLine(m) \/ LineLands(m)
               \/ LineRefused(m) \/ PauseEnds(m)
    BY <2>3, <1>c DEF EvidenceWaited, SendLine, LineLands, LineRefused,
                      PauseEnds, Calm
  <2>4. CASE LineAnswered(m)
    <3>1. lines' \subseteq lines \/ (lines' = lines \cup {m} /\ ~Stale(m))
      BY <2>4 DEF LineAnswered, Wanted
    <3>2. UNCHANGED <<presser, after, taps>>
      BY <2>4 DEF LineAnswered
    <3> QED
      BY <3>1, <3>2, <1>t DEF ClearInv, AnsweredQueueClear, Stale, Pressed
  <2>5. CASE BootDelete(m)
    BY <2>5, <1>c DEF BootDelete, Calm
  <2> QED
    BY <1>2, <2>1, <2>2, <2>3, <2>4, <2>5 DEF LineStep
<1>3. CASE Absorb \/ TakeNow \/ Escape \/ StartTurn \/ MuteChanges \/ Save
  BY <1>3, <1>c DEF Absorb, TakeNow, Escape, StartTurn, MuteChanges, Save,
                    daemon, Calm
<1>4. CASE TurnEnds
  <2>1. PICK ts : Sync(ts)
    BY <1>4 DEF TurnEnds
  <2> QED
    BY <1>4, <2>1, <1>d DEF TurnEnds, Sync
<1>5. ASSUME NEW c \in calls, DeleteStep(c) PROVE ClearInv'
  BY <1>5, <1>c DEF DeleteStep, DeleteLands, DeleteSlowed, DeleteRefused,
                    DeleteFails, Calm
<1>6. CASE CardTick
  BY <1>6, <1>d DEF CardTick, Sync
<1>7. CASE PlaceSentence
  BY <1>7, <1>c DEF PlaceSentence, Calm
<1>8. CASE QueueWatch
  <2>1. CASE NothingToWatch
    BY <1>8, <2>1, <1>c DEF QueueWatch, Calm
  <2>2. CASE ~NothingToWatch
    BY <1>8, <2>2, <1>d DEF QueueWatch, Sync
  <2> QED
    BY <2>1, <2>2
<1>9. ASSUME NEW k \in Teardowns, TeardownBegins(k) PROVE ClearInv'
  BY <1>9, <1>c DEF TeardownBegins, Calm
<1>10. CASE ClearRefused
  BY <1>10, <1>c DEF ClearRefused, Calm
<1>11. CASE TeardownEnds
  BY <1>11, <1>d DEF TeardownEnds, Sync
<1>12. ASSUME NEW t \in Taps, ChordEnds(t) PROVE ClearInv'
  <2>1. \A u \in Taps : taps'[u].at = "done" => taps[u].at = "done"
    BY <1>12, <1>t DEF ChordEnds, LineTypes
  <2> QED
    BY <1>12, <2>1, <1>c DEF ChordEnds, Calm
<1>13. ASSUME NEW t \in Taps, TapAnswered(t) PROVE ClearInv'
  <2>1. lines' \subseteq Keep(t)
    BY <1>13 DEF TapAnswered
  <2>2. Keep(t) \subseteq after
    BY DEF Keep
  <2>3. UNCHANGED <<presser, after>>
    BY <1>13 DEF TapAnswered
  <2> QED
    BY <2>1, <2>2, <2>3, <1>t DEF ClearInv, AnsweredQueueClear, Stale
<1>14. ASSUME NEW t \in Taps, NEW m \in Msgs \cup {Now}, Tap(t, m)
       PROVE  ClearInv'
  <2>1. PICK a \in {"taken", "sent", "chord"} :
          taps' = [taps EXCEPT ![t] = [for |-> m, at |-> a]]
    BY <1>14 DEF Tap
  <2>2. \A u \in Taps : taps'[u].at = "done" => taps[u].at = "done"
    BY <2>1, <1>t DEF LineTypes
  <2>3. taps'[t].at # "done"
    BY <2>1, <1>t DEF LineTypes
  <2>4. CASE UNCHANGED <<presser, after>>
    BY <1>14, <2>2, <2>4, <1>c DEF Tap, Calm
  <2>5. CASE presser' = t
    BY <1>14, <2>3, <2>5, <1>t DEF ClearInv, AnsweredQueueClear
  <2> QED
    BY <1>14, <2>4, <2>5 DEF Tap
<1>15. CASE Restart
  BY <1>15, <1>t DEF Restart, ClearInv, AnsweredQueueClear
<1> QED
  BY <1>1, <1>2, <1>3, <1>4, <1>5, <1>6, <1>7, <1>8, <1>9, <1>10, <1>11,
     <1>12, <1>13, <1>14, <1>15 DEF Next

(* Once the tap that pressed was answered, no line of the queue it pressed *)
(* is left with the daemon, for any interleaving of sends, retries, later  *)
(* presses, turn ends and restarts.                                        *)
THEOREM PressClearsTheQueue == Spec => []AnsweredQueueClear
<1>1. Init => ClearInv
  BY TypesInit DEF Init, Fresh, ClearInv, AnsweredQueueClear
<1>2. ClearInv => AnsweredQueueClear
  BY DEF ClearInv
<1> QED
  BY <1>1, ClearNext, <1>2, PTL DEF Spec

------------------------------------------------------------------------------
(* A message has one line, and its deletes come after the line's answer:   *)
(* a line that is tracked, owed, saved, of a call or of the startup pass   *)
(* is one whose coroutine is over.  Only a tap on the line itself, which   *)
(* goes by the line's id, can have it deleted before.                      *)
TappedMsgs   == {taps[t].for : t \in Taps}
BeingDeleted == boot \cup UNION {c.lines : c \in calls}
Handled      == lines \cup owed \cup saved \cup BeingDeleted

TapTypes == /\ \A t \in Taps : taps[t].at = "idle" => taps[t].for = Now
            /\ \A c \in calls : c.lines \subseteq Msgs

AnsweredFirst == \A m \in Msgs : m \in Handled => task[m] = "over" \/ m \in TappedMsgs
LandedUp      == \A m \in Msgs : task[m] = "landed" => m \in up \/ m \in TappedMsgs
TrackedUp     == \A m \in lines : m \in up \ BeingDeleted \/ m \in TappedMsgs

TrackInv == OwedInv /\ TapTypes /\ AnsweredFirst /\ LandedUp /\ TrackedUp

(* A step that tracks no line anew, deletes only what was tracked or owed  *)
(* or tapped, and begins no coroutine again.                               *)
Steady ==
  /\ lines' \subseteq lines /\ TappedMsgs \subseteq TappedMsgs'
  /\ Handled' \subseteq Handled \cup TappedMsgs'
  /\ BeingDeleted' \cap lines' \subseteq BeingDeleted \cup TappedMsgs'
  /\ up \ BeingDeleted \subseteq up'
  /\ \A m \in Msgs : /\ task[m] = "over" => task'[m] = "over"
                     /\ task'[m] = "landed" => task[m] = "landed" \/ m \in up'

LEMMA SteadyKeeps ==
  ASSUME TrackInv, OwedInv', TapTypes', Steady PROVE TrackInv'
<1>1. AnsweredFirst'
  BY DEF TrackInv, Steady, AnsweredFirst
<1>2. LandedUp'
  BY DEF TrackInv, Steady, LandedUp, AnsweredFirst, Handled
<1>3. lines \subseteq Msgs
  BY DEF TrackInv, OwedInv, LineTypes
<1>4. TrackedUp'
  BY <1>3 DEF TrackInv, Steady, TrackedUp
<1> QED BY <1>1, <1>2, <1>4 DEF TrackInv

LEMMA DropSteady ==
  ASSUME TrackInv, NEW ms, DropLines(ms), UNCHANGED <<taps, up, saved, boot>>
  PROVE  Steady /\ TapTypes'
<1>1. LineTypes
  BY DEF TrackInv, OwedInv
<1>2. calls' \subseteq calls \cup {Call(lines \cap ms, 1)} /\ owed' = owed \cup (lines \cap ms)
      /\ lines' = lines \ ms
  BY DEF DropLines, DeleteLater
<1>3. BeingDeleted' \subseteq BeingDeleted \cup (lines \cap ms)
  BY <1>2 DEF BeingDeleted, Call
<1>4. \A m \in Msgs : /\ task[m] = "over" => task'[m] = "over"
                      /\ task'[m] = "landed" => task[m] = "landed"
  BY <1>1 DEF DropLines, Cancelled, LineTypes
<1>5. TappedMsgs' = TappedMsgs
  BY DEF TappedMsgs
<1>6. Handled' \subseteq Handled
  BY <1>2, <1>3 DEF Handled
<1>7. TapTypes'
  BY <1>1, <1>2 DEF TapTypes, TrackInv, Call, LineTypes
<1> QED BY <1>2, <1>3, <1>4, <1>5, <1>6, <1>7 DEF Steady

LEMMA TrackNext == TrackInv /\ [Next]_vars => TrackInv'
<1> SUFFICES ASSUME TrackInv, [Next]_vars PROVE TrackInv'
  OBVIOUS
<1>t. LineTypes /\ LineTypes' /\ OwedInv' /\ OwedInv
  BY OwedNext, TypesNext DEF OwedInv, TrackInv
<1>s. Steady /\ TapTypes' => TrackInv'
  BY <1>t, SteadyKeeps
<1>d. ASSUME NEW ms, DropLines(ms), UNCHANGED <<taps, up, saved, boot>>
      PROVE  TrackInv'
  BY <1>d, <1>s, DropSteady
<1>q. ASSUME UNCHANGED <<lines, owed, boot, calls, task, taps, up>>,
             saved' = saved \/ saved' = owed
      PROVE  TrackInv'
  BY <1>q, <1>s DEF Steady, TapTypes, TrackInv, Handled, BeingDeleted, TappedMsgs
<1>1. CASE UNCHANGED vars
  BY <1>1, <1>q DEF vars, daemon
<1>2. ASSUME NEW m \in Msgs,
             Enqueue(m) \/ PickUp(m) \/ LineStep(m) \/ BootDelete(m)
      PROVE  TrackInv'
  <2>1. CASE Enqueue(m)
    BY <2>1, <1>q DEF Enqueue, daemon
  <2>t. ASSUME UNCHANGED <<lines, owed, saved, boot, calls, taps>>, up \subseteq up',
               \A k \in Msgs \ {m} : task'[k] = task[k],
               task[m] # "over", task'[m] = "landed" => m \in up'
        PROVE  TrackInv'
    <3>1. Handled' = Handled /\ BeingDeleted' = BeingDeleted /\ TappedMsgs' = TappedMsgs
      BY <2>t DEF Handled, BeingDeleted, TappedMsgs
    <3>2. TapTypes'
      BY <2>t DEF TrackInv, TapTypes
    <3> QED BY <2>t, <3>1, <3>2, <1>s DEF Steady
  <2>2. CASE PickUp(m)
    <3>1. task[m] = "none"
      BY <2>2, <1>t DEF PickUp, OwedInv, ArmedOnce
    <3> QED BY <2>2, <3>1, <2>t, <1>t DEF PickUp, LineTypes
  <2>3. CASE EvidenceWaited(m) \/ SendLine(m) \/ LineRefused(m) \/ PauseEnds(m)
    <3>1. /\ UNCHANGED <<lines, owed, saved, boot, calls, taps, up>>
          /\ task[m] # "over"
      BY <2>3 DEF EvidenceWaited, SendLine, LineRefused, PauseEnds
    <3>2. task'[m] # "landed" /\ \A k \in Msgs \ {m} : task'[k] = task[k]
      BY <2>3, <1>t DEF EvidenceWaited, SendLine, LineRefused, PauseEnds, LineOver, LineTypes
    <3> QED BY <3>1, <3>2, <2>t
  <2>4. CASE LineLands(m)
    <3>1. /\ UNCHANGED <<lines, owed, saved, boot, calls, taps>>
          /\ task[m] # "over" /\ up' = up \cup {m}
          /\ \A k \in Msgs \ {m} : task'[k] = task[k]
      BY <2>4, <1>t DEF LineLands, LineOver, LineTypes
    <3> QED BY <3>1, <2>t
  <2>5. CASE LineAnswered(m)
    <3>1. /\ UNCHANGED <<saved, boot, taps, up>>
          /\ owed' = owed \cup {m}
          /\ lines' \subseteq lines \cup {m} /\ calls' \subseteq calls \cup {Call({m}, 1)}
          /\ lines' = lines \/ calls' = calls
      BY <2>5 DEF LineAnswered, Owe
    <3>2. /\ task[m] = "landed" /\ task'[m] = "over"
          /\ \A k \in Msgs \ {m} : task'[k] = task[k]
      BY <2>5, <1>t DEF LineAnswered, LineOver, LineTypes
    <3>3. BeingDeleted' \subseteq BeingDeleted \cup {m} /\ (calls' = calls => BeingDeleted' = BeingDeleted)
      BY <3>1 DEF BeingDeleted, Call
    <3>4. Handled' \subseteq Handled \cup {m} /\ TappedMsgs' = TappedMsgs
      BY <3>1, <3>3 DEF Handled, TappedMsgs
    <3>5. AnsweredFirst' /\ LandedUp'
      BY <3>1, <3>2, <3>4 DEF TrackInv, AnsweredFirst, LandedUp
    <3>6. m \notin Handled \/ m \in TappedMsgs
      BY <3>2 DEF TrackInv, AnsweredFirst
    <3>7. m \in up \/ m \in TappedMsgs
      BY <3>2 DEF TrackInv, LandedUp
    <3>8. TrackedUp'
      BY <3>1, <3>3, <3>4, <3>6, <3>7 DEF TrackInv, TrackedUp, Handled
    <3>9. TapTypes'
      BY <3>1 DEF TrackInv, TapTypes, Call
    <3> QED BY <3>5, <3>8, <3>9, <1>t DEF TrackInv
  <2>6. CASE BootDelete(m)
    <3>1. /\ UNCHANGED <<lines, saved, calls, task, taps>>
          /\ boot' \subseteq boot /\ owed' \subseteq owed /\ m \in boot
          /\ up \ {m} \subseteq up'
      BY <2>6 DEF BootDelete
    <3>2. BeingDeleted' \subseteq BeingDeleted /\ m \in BeingDeleted /\ TappedMsgs' = TappedMsgs
      BY <3>1 DEF BeingDeleted, TappedMsgs
    <3>3. Handled' \subseteq Handled
      BY <3>1, <3>2 DEF Handled
    <3>4. up' \subseteq up /\ TapTypes'
      BY <2>6, <3>1 DEF BootDelete, TrackInv, TapTypes
    <3> QED BY <3>1, <3>2, <3>3, <3>4, <1>s DEF Steady
  <2> QED
    BY <1>2, <2>1, <2>2, <2>3, <2>4, <2>5, <2>6 DEF LineStep
<1>3. CASE Absorb \/ TakeNow \/ Escape \/ StartTurn \/ MuteChanges \/ Save
  BY <1>3, <1>q DEF Absorb, TakeNow, Escape, StartTurn, MuteChanges, Save,
                    daemon
<1>4. CASE TurnEnds
  <2>1. PICK ts : Sync(ts)
    BY <1>4 DEF TurnEnds
  <2> QED
    BY <1>4, <2>1, <1>d DEF TurnEnds, Sync
<1>5. ASSUME NEW c \in calls, DeleteStep(c) PROVE TrackInv'
  <2>1. /\ UNCHANGED <<lines, saved, boot, task, taps>>
        /\ owed' \subseteq owed /\ up \ c.lines \subseteq up' /\ up' \subseteq up
        /\ calls' \subseteq calls \cup {Call(c.lines, c.attempt + 1)}
    BY <1>5 DEF DeleteStep, DeleteLands, DeleteSlowed, DeleteRefused, DeleteFails
  <2>2. BeingDeleted' \subseteq BeingDeleted /\ c.lines \subseteq BeingDeleted
        /\ TappedMsgs' = TappedMsgs
    BY <2>1 DEF BeingDeleted, TappedMsgs, Call
  <2>3. Handled' \subseteq Handled
    BY <2>1, <2>2 DEF Handled
  <2>4. TapTypes'
    BY <2>1 DEF TrackInv, TapTypes, Call
  <2> QED BY <2>1, <2>2, <2>3, <2>4, <1>s DEF Steady
<1>6. CASE CardTick
  BY <1>6, <1>d DEF CardTick, Sync
<1>7. CASE PlaceSentence
  BY <1>7, <1>q DEF PlaceSentence
<1>8. CASE QueueWatch
  <2>1. CASE NothingToWatch
    BY <1>8, <2>1, <1>q DEF QueueWatch
  <2>2. CASE ~NothingToWatch
    BY <1>8, <2>2, <1>d DEF QueueWatch, Sync
  <2> QED
    BY <2>1, <2>2
<1>9. ASSUME NEW k \in Teardowns, TeardownBegins(k) PROVE TrackInv'
  BY <1>9, <1>q DEF TeardownBegins
<1>10. CASE ClearRefused
  BY <1>10, <1>q DEF ClearRefused
<1>11. CASE TeardownEnds
  BY <1>11, <1>d DEF TeardownEnds, Sync
<1>12. ASSUME NEW t \in Taps, ChordEnds(t) PROVE TrackInv'
  <2>1. PICK r \in {"sent", "failed"} : taps' = [taps EXCEPT ![t].at = r]
    BY <1>12 DEF ChordEnds
  <2>2. \A u \in Taps : taps'[u].for = taps[u].for /\ (taps'[u].at = "idle" => taps[u].at = "idle")
    BY <2>1, <1>t DEF LineTypes
  <2>3. /\ UNCHANGED <<lines, owed, saved, boot, calls, task, up>>
    BY <1>12 DEF ChordEnds
  <2>4. TappedMsgs' = TappedMsgs
    BY <2>2 DEF TappedMsgs
  <2>5. TapTypes'
    BY <2>2, <2>3 DEF TrackInv, TapTypes
  <2>6. Handled' = Handled /\ BeingDeleted' = BeingDeleted
    BY <2>3 DEF Handled, BeingDeleted
  <2> QED BY <2>3, <2>4, <2>5, <2>6, <1>s DEF Steady
<1>13. ASSUME NEW t \in Taps, TapAnswered(t) PROVE TrackInv'
  <2>1. PICK gone, batches :
          /\ batches = {lines \cap gone, Tapped(t)} \ {{}}
          /\ task' = Cancelled(gone) /\ lines' = lines \ gone
          /\ owed' = owed \cup UNION batches
          /\ calls' \subseteq calls \cup {Call(b, 1) : b \in batches}
    BY <1>13 DEF TapAnswered
  <2>2. /\ UNCHANGED <<saved, boot, up>> /\ taps[t].at # "idle"
        /\ taps' = [taps EXCEPT ![t].at = IF @ = "sent" THEN "done" ELSE "over"]
    BY <1>13 DEF TapAnswered
  <2>3. \A u \in Taps : taps'[u].for = taps[u].for /\ (taps'[u].at = "idle" => taps[u].at = "idle")
    BY <2>2, <1>t DEF LineTypes
  <2>4. TappedMsgs' = TappedMsgs
    BY <2>3 DEF TappedMsgs
  <2>5. Tapped(t) \subseteq TappedMsgs /\ Tapped(t) \subseteq Msgs
    BY <1>t DEF Tapped, TappedMsgs, LineTypes
  <2>6. UNION batches \subseteq (lines \cap gone) \cup TappedMsgs
        /\ \A b \in batches : b \subseteq Msgs
    BY <2>1, <2>5, <1>t DEF LineTypes
  <2>7. BeingDeleted' \subseteq BeingDeleted \cup UNION batches
    BY <2>1, <2>2 DEF BeingDeleted, Call
  <2>8. Handled' \subseteq Handled \cup TappedMsgs
    BY <2>1, <2>2, <2>6, <2>7 DEF Handled
  <2>9. TapTypes'
    BY <2>1, <2>3, <2>6 DEF TrackInv, TapTypes, Call
  <2>10. \A m \in Msgs : /\ task[m] = "over" => task'[m] = "over"
                         /\ task'[m] = "landed" => task[m] = "landed"
    BY <2>1, <1>t DEF Cancelled, LineTypes
  <2> QED BY <2>1, <2>2, <2>4, <2>6, <2>7, <2>8, <2>9, <2>10, <1>s DEF Steady
<1>14. ASSUME NEW t \in Taps, NEW m \in Msgs \cup {Now}, Tap(t, m)
       PROVE  TrackInv'
  <2>1. PICK a \in {"taken", "sent", "chord"} :
          taps' = [taps EXCEPT ![t] = [for |-> m, at |-> a]]
    BY <1>14 DEF Tap
  <2>2. /\ UNCHANGED <<lines, owed, saved, boot, calls, task, up>> /\ taps[t].at = "idle"
    BY <1>14 DEF Tap
  <2>3. taps[t].for = Now
    BY <2>2 DEF TrackInv, TapTypes
  <2>4. \A u \in Taps \ {t} : taps'[u] = taps[u]
    BY <2>1, <1>t DEF LineTypes
  <2>5. taps'[t].at # "idle"
    BY <2>1, <1>t DEF LineTypes
  <2>6. TappedMsgs \subseteq TappedMsgs' \cup {Now}
    BY <2>3, <2>4 DEF TappedMsgs
  <2>7. TapTypes'
    BY <2>2, <2>4, <2>5 DEF TrackInv, TapTypes
  <2>8. Handled' = Handled /\ BeingDeleted' = BeingDeleted
    BY <2>2 DEF Handled, BeingDeleted
  <2>9. AnsweredFirst' /\ LandedUp'
    BY <2>2, <2>6, <2>8, Domains DEF TrackInv, AnsweredFirst, LandedUp
  <2>10. TrackedUp'
    BY <2>2, <2>6, <2>8, <1>t, Domains DEF TrackInv, TrackedUp, LineTypes
  <2> QED BY <2>7, <2>9, <2>10, <1>t DEF TrackInv
<1>15. CASE Restart
  <2>1. /\ owed' = saved /\ boot' = saved /\ lines' = {} /\ calls' = {}
        /\ saved' = saved /\ up' = up
        /\ task' = [m \in Msgs |-> IF task[m] = "none" THEN "none" ELSE "over"]
    BY <1>15 DEF Restart
  <2>2. \A u \in Taps : taps'[u].for = taps[u].for /\ (taps'[u].at = "idle" => taps'[u].for = Now)
    BY <1>15, <1>t DEF Restart, Idle, LineTypes, TrackInv, TapTypes
  <2>3. TappedMsgs' = TappedMsgs
    BY <2>2 DEF TappedMsgs
  <2>4. BeingDeleted' = saved /\ Handled' = saved
    BY <2>1 DEF BeingDeleted, Handled
  <2>5. TapTypes'
    BY <2>1, <2>2 DEF TapTypes
  <2>6. AnsweredFirst' /\ LandedUp' /\ TrackedUp'
    BY <2>1, <2>3, <2>4 DEF TrackInv, AnsweredFirst, LandedUp, TrackedUp, Handled
  <2> QED BY <2>5, <2>6, <1>t DEF TrackInv
<1> QED
  BY <1>1, <1>2, <1>3, <1>4, <1>5, <1>6, <1>7, <1>8, <1>9, <1>10, <1>11,
     <1>12, <1>13, <1>14, <1>15 DEF Next

(* A line the daemon tracks is in the chat, and no delete has it in hand,  *)
(* but by a tap on that line itself.                                       *)
THEOREM TrackedLinesUp == Spec => []TrackedLineUp
<1>1. Init => TrackInv
  BY OwedInit DEF Init, Fresh, Idle, TrackInv, TapTypes, AnsweredFirst, LandedUp,
                  TrackedUp, Handled, BeingDeleted, TappedMsgs
<1>2. TrackInv => TrackedLineUp
  BY DEF TrackInv, TrackedUp, TrackedLineUp, BeingDeleted, TappedMsgs
<1> QED
  BY <1>1, TrackNext, <1>2, PTL DEF Spec

------------------------------------------------------------------------------
(* The types of all variables.  The targets are the only hard part.        *)

\* A set of naturals has a least one: induction, for a fact about one set.
LEMMA Least ==
  ASSUME NEW S \in SUBSET Nat, S # {}
  PROVE  \E n \in S : \A k \in S : ~ (k < n)
<1>1. \E n \in S : \A k \in S : ~ (<<k, n>> \in OpToRel(<, Nat))
  BY NatLessThanWellFounded, WFMin, Zenon
<1>2. \A k, n \in Nat : k < n => <<k, n>> \in OpToRel(<, Nat)
  BY DEF OpToRel
<1>. QED  BY <1>1, <1>2

\* The recursion of Without: its step, and the functions that follow it.
KeptStep(s, ms, f, i) ==
  IF i = 0 THEN <<>> ELSE IF s[i] \in ms THEN f[i - 1] ELSE Append(f[i - 1], s[i])
KeptUpTo(s, ms, n, f) == f = [i \in 0 .. n |-> KeptStep(s, ms, f, i)]

\* There is such a function, up to every n.
LEMMA KeptExists ==
  ASSUME NEW s, NEW ms, NEW n \in Nat
  PROVE  \E f : KeptUpTo(s, ms, n, f)
<1>. DEFINE Bad == {k \in Nat : ~ \E f : KeptUpTo(s, ms, k, f)}
<1>1. SUFFICES ASSUME Bad # {} PROVE FALSE
  OBVIOUS
<1>2. PICK k \in Bad : \A j \in Bad : ~ (j < k)
  <2>1. Bad \in SUBSET Nat
    OBVIOUS
  <2>. HIDE DEF Bad
  <2>. QED  BY <1>1, <2>1, Least
<1>3. k # 0
  <2>1. KeptUpTo(s, ms, 0, [i \in 0 .. 0 |-> <<>>])
    BY DEF KeptUpTo, KeptStep
  <2>. QED  BY <2>1
<1>4. PICK f : KeptUpTo(s, ms, k - 1, f)
  <2>1. k - 1 \in Nat /\ k - 1 < k
    BY <1>2, <1>3
  <2>2. k - 1 \notin Bad
    <3>. HIDE DEF Bad
    <3>. QED  BY <1>2, <2>1
  <2>. QED  BY <2>1, <2>2
<1>. DEFINE g == [i \in 0 .. k |-> IF i = k THEN KeptStep(s, ms, f, k) ELSE f[i]]
<1>5. \A i \in 0 .. k : g[i] = KeptStep(s, ms, g, i)
  <2>1. ASSUME NEW i \in 0 .. k PROVE KeptStep(s, ms, g, i) = KeptStep(s, ms, f, i)
    BY <1>3 DEF KeptStep
  <2>2. \A i \in 0 .. k - 1 : f[i] = KeptStep(s, ms, f, i)
    BY <1>4 DEF KeptUpTo
  <2>. QED  BY <2>1, <2>2
<1>6. KeptUpTo(s, ms, k, g)
  BY <1>5 DEF KeptUpTo
<1>. QED  BY <1>2, <1>6

\* Leaving entries out makes no others.
LEMMA WithoutTyped ==
  ASSUME NEW T, NEW s \in Seq(T), NEW ms
  PROVE  Without(s, ms) \in Seq(T)
<1>. DEFINE kept == CHOOSE f : KeptUpTo(s, ms, Len(s), f)
<1>1. Len(s) \in Nat /\ \A i \in 1 .. Len(s) : s[i] \in T
  BY LenProperties, ElementOfSeq
<1>2. PICK n : n = Len(s) /\ n \in Nat
  BY <1>1
<1>3. Without(s, ms) = kept[n]
  BY <1>2 DEF Without, KeptUpTo, KeptStep
<1>4. KeptUpTo(s, ms, n, kept)
  <2>1. \E f : KeptUpTo(s, ms, n, f)
    BY <1>2, KeptExists
  <2>. QED  BY <1>2, <2>1
<1>. HIDE DEF kept
<1>5. \A i \in 0 .. n : kept[i] = KeptStep(s, ms, kept, i)
  BY <1>4 DEF KeptUpTo
<1>. DEFINE Bad == {i \in 0 .. n : kept[i] \notin Seq(T)}
<1>6. ASSUME Bad # {} PROVE FALSE
  <2>1. PICK k \in Bad : \A j \in Bad : ~ (j < k)
    <3>1. Bad \in SUBSET Nat
      BY <1>2
    <3>. HIDE DEF Bad
    <3>. QED  BY <1>6, <3>1, Least
  <2>2. k \in 0 .. n /\ k \in Nat /\ kept[k] \notin Seq(T)
    BY <1>2, <2>1
  <2>3. kept[k] = KeptStep(s, ms, kept, k)
    BY <1>5, <2>2
  <2>4. k # 0
    BY <2>2, <2>3 DEF KeptStep
  <2>5. kept[k - 1] \in Seq(T)
    <3>1. k - 1 \in 0 .. n /\ k - 1 < k
      BY <1>2, <2>2, <2>4
    <3>. QED  BY <2>1, <3>1
  <2>6. s[k] \in T
    BY <1>1, <1>2, <2>2, <2>4
  <2>. QED  BY <2>2, <2>3, <2>4, <2>5, <2>6, AppendProperties DEF KeptStep
<1>7. kept[n] \in Seq(T)
  BY <1>2, <1>6
<1>. QED  BY <1>3, <1>7

LEMMA RestTyped ==
  ASSUME NEW T, NEW s \in Seq(T)
  PROVE  Rest(s) \in Seq(T)
BY HeadTailProperties DEF Rest

LEMMA ScannedTyped ==
  ASSUME targets \in Seq(Msgs)
  PROVE  Scanned \in Seq(Msgs)
BY WithoutTyped, RestTyped DEF Scanned

\* The line types aside, TypeOK is about Claude Code's queue and the targets
\* read from it, and about what is to be deleted.
QueueTypes ==
  /\ status \in {"BUSY", "IDLE", "GONE"}
  /\ targets \in Seq(Msgs) /\ held \in Seq(Msgs)
  /\ take \in BOOLEAN /\ teardown \in Teardowns \cup {"none"}
  /\ named \subseteq Msgs /\ sent \subseteq Msgs /\ picked \subseteq Msgs
  /\ restarts \in 0 .. MaxRestarts /\ turns \in 0 .. MaxTurns
DeleteTypes ==
  /\ timers \subseteq Msgs /\ after \subseteq Msgs
  /\ watch \in BOOLEAN /\ muted \in BOOLEAN
  /\ calls \subseteq [lines : SUBSET Msgs, attempt : {1, 2}]
  /\ owed \subseteq Msgs /\ saved \subseteq Msgs /\ boot \subseteq Msgs
  /\ lost \subseteq Msgs

LEMMA TypeParts == TypeOK <=> LineTypes /\ QueueTypes /\ DeleteTypes
BY DEF TypeOK, LineTypes, QueueTypes, DeleteTypes

LEMMA QueueTyped ==
  ASSUME QueueTypes, [Next]_vars
  PROVE  QueueTypes'
<1>0. /\ Scanned \in Seq(Msgs) /\ \A ms : Without(targets, ms) \in Seq(Msgs)
      /\ \A s \in Seq(Msgs) : Rest(s) \in Seq(Msgs)
  BY ScannedTyped, WithoutTyped, RestTyped DEF QueueTypes
<1>1. /\ Range(held) \subseteq Msgs /\ <<>> \in Seq(Msgs)
      /\ held # <<>> => Head(held) \in Msgs /\ Tail(held) \in Seq(Msgs)
  <2>1. \A i \in DOMAIN held : held[i] \in Msgs
    BY ElementOfSeq, LenProperties DEF QueueTypes
  <2>. QED  BY <2>1, EmptySeq, HeadTailProperties DEF QueueTypes, Range
<1>2. ASSUME NEW m \in Msgs,
             Enqueue(m) \/ PickUp(m) \/ LineStep(m) \/ BootDelete(m)
      PROVE  QueueTypes'
  <2>1. CASE Enqueue(m)
    BY <2>1 DEF Enqueue, daemon, history, QueueTypes
  <2>2. CASE PickUp(m)
    BY <2>2 DEF PickUp, claude, history, QueueTypes
  <2>3. CASE LineStep(m)
    BY <2>3 DEF LineStep, EvidenceWaited, SendLine, LineLands, LineRefused, PauseEnds,
                LineAnswered, claude, history, QueueTypes
  <2>4. CASE BootDelete(m)
    BY <2>4 DEF BootDelete, claude, QueueTypes
  <2>. QED  BY <1>2, <2>1, <2>2, <2>3, <2>4
<1>3. CASE Absorb \/ TakeNow \/ Escape
  <2>1. CASE Absorb
    BY <1>1, <2>1 DEF Absorb, daemon, history, QueueTypes
  <2>2. CASE TakeNow
    BY <1>1, <2>2 DEF TakeNow, daemon, history, QueueTypes
  <2>3. CASE Escape
    BY <1>1, <2>3 DEF Escape, daemon, history, QueueTypes
  <2>. QED  BY <1>3, <2>1, <2>2, <2>3
<1>4. CASE TurnEnds
  BY <1>0, <1>4 DEF TurnEnds, RecordsRead, history, QueueTypes
<1>5. CASE StartTurn
  BY <1>5, Domains DEF StartTurn, daemon, claude, QueueTypes
<1>6. ASSUME NEW c \in calls, DeleteStep(c) PROVE QueueTypes'
  BY <1>6 DEF DeleteStep, DeleteLands, DeleteSlowed, DeleteRefused, DeleteFails, claude,
              history, QueueTypes
<1>7. CASE CardTick \/ PlaceSentence \/ QueueWatch
  BY <1>0, <1>7 DEF CardTick, PlaceSentence, QueueWatch, RecordsRead, history, QueueTypes
<1>8. ASSUME NEW k \in Teardowns, TeardownBegins(k) PROVE QueueTypes'
  BY <1>0, <1>8 DEF TeardownBegins, Settle, RecordsRead, history, QueueTypes
<1>9. CASE ClearRefused \/ TeardownEnds
  BY <1>1, <1>9 DEF ClearRefused, TeardownEnds, claude, history, QueueTypes
<1>10. ASSUME NEW t \in Taps,
              ChordEnds(t) \/ TapAnswered(t) \/ \E m \in Msgs \cup {Now} : Tap(t, m)
       PROVE  QueueTypes'
  BY <1>10 DEF ChordEnds, TapAnswered, Tap, claude, history, QueueTypes
<1>11. CASE MuteChanges \/ Save
  BY <1>11 DEF MuteChanges, Save, daemon, claude, history, QueueTypes
<1>12. CASE Restart
  <2>1. targets' \in Seq(Msgs) /\ held' \in Seq(Msgs)
    BY <1>1, <1>12 DEF Restart, QueueTypes
  <2>2. restarts' \in 0 .. MaxRestarts
    BY <1>12, Domains DEF Restart, QueueTypes
  <2>. QED  BY <1>12, <2>1, <2>2 DEF Restart, QueueTypes
<1>13. CASE UNCHANGED vars
  BY <1>13 DEF vars, daemon, claude, history, QueueTypes
<1>. QED  BY <1>2, <1>3, <1>4, <1>5, <1>6, <1>7, <1>8, <1>9, <1>10, <1>11, <1>12, <1>13 DEF Next

\* Dropping lines owes lines, and calls for lines.
LEMMA DropTyped ==
  ASSUME LineTypes, DeleteTypes, NEW ms, DropLines(ms)
  PROVE  /\ timers' \subseteq Msgs /\ owed' \subseteq Msgs
         /\ calls' \subseteq [lines : SUBSET Msgs, attempt : {1, 2}]
BY DEF DropLines, DeleteLater, Call, LineTypes, DeleteTypes

LEMMA DeletesTyped ==
  ASSUME LineTypes, DeleteTypes, [Next]_vars
  PROVE  DeleteTypes'
<1>1. ASSUME NEW m \in Msgs,
             Enqueue(m) \/ PickUp(m) \/ LineStep(m) \/ BootDelete(m)
      PROVE  DeleteTypes'
  <2>1. CASE Enqueue(m)
    BY <2>1 DEF Enqueue, daemon, history, DeleteTypes
  <2>2. CASE PickUp(m)
    BY <2>2 DEF PickUp, history, DeleteTypes
  <2>3. CASE EvidenceWaited(m) \/ SendLine(m) \/ LineLands(m) \/ LineRefused(m) \/ PauseEnds(m)
    BY <2>3 DEF EvidenceWaited, SendLine, LineLands, LineRefused, PauseEnds, LineOver,
                history, DeleteTypes
  <2>4. CASE LineAnswered(m)
    BY <2>4 DEF LineAnswered, LineOver, Owe, Call, history, DeleteTypes
  <2>5. CASE BootDelete(m)
    BY <2>5 DEF BootDelete, DeleteTypes
  <2>. QED  BY <1>1, <2>1, <2>2, <2>3, <2>4, <2>5 DEF LineStep
<1>2. CASE Absorb \/ TakeNow \/ Escape \/ StartTurn
  BY <1>2 DEF Absorb, TakeNow, Escape, StartTurn, daemon, history, DeleteTypes
<1>3. ASSUME NEW ms, DropLines(ms),
             UNCHANGED <<saved, boot, muted, lost>>, watch' \in BOOLEAN,
             after' \in {after, {}}
      PROVE  DeleteTypes'
  BY <1>3, DropTyped DEF DeleteTypes
<1>4. CASE TurnEnds
  <2>1. PICK ts : Sync(ts)
    BY <1>4 DEF TurnEnds
  <2>. QED  BY <1>3, <1>4, <2>1 DEF TurnEnds, Sync, history, DeleteTypes
<1>5. ASSUME NEW c \in calls, DeleteStep(c) PROVE DeleteTypes'
  <2>1. /\ c.lines \subseteq Msgs /\ c.attempt \in {1, 2}
        /\ c.attempt = 1 => Call(c.lines, c.attempt + 1) \in [lines : SUBSET Msgs, attempt : {1, 2}]
    BY DEF DeleteTypes, Call
  <2>. QED  BY <1>5, <2>1 DEF DeleteStep, DeleteLands, DeleteSlowed, DeleteRefused,
                              DeleteFails, history, DeleteTypes
<1>6. CASE CardTick
  BY <1>3, <1>6 DEF CardTick, Sync, history, DeleteTypes
<1>7. CASE PlaceSentence
  BY <1>7 DEF PlaceSentence, history, DeleteTypes
<1>8. CASE QueueWatch
  <2>1. CASE NothingToWatch
    BY <1>8, <2>1 DEF QueueWatch, history, DeleteTypes
  <2>2. CASE ~ NothingToWatch
    BY <1>3, <1>8, <2>2 DEF QueueWatch, Sync, history, DeleteTypes
  <2>. QED  BY <2>1, <2>2
<1>9. ASSUME NEW k \in Teardowns, TeardownBegins(k) PROVE DeleteTypes'
  BY <1>9 DEF TeardownBegins, history, DeleteTypes
<1>10. CASE ClearRefused
  BY <1>10 DEF ClearRefused, history, DeleteTypes
<1>11. CASE TeardownEnds
  BY <1>3, <1>11 DEF TeardownEnds, Sync, history, DeleteTypes
<1>12. ASSUME NEW t \in Taps, ChordEnds(t) PROVE DeleteTypes'
  BY <1>12 DEF ChordEnds, history, DeleteTypes
<1>13. ASSUME NEW t \in Taps, TapAnswered(t) PROVE DeleteTypes'
  <2>1. PICK gone, batches :
          /\ batches = {lines \cap gone, Tapped(t)} \ {{}}
          /\ timers' = timers \ gone /\ owed' = owed \cup UNION batches
          /\ calls' = IF muted THEN calls ELSE calls \cup {Call(b, 1) : b \in batches}
    BY <1>13 DEF TapAnswered
  <2>2. batches \subseteq SUBSET Msgs
    BY <2>1 DEF Tapped, LineTypes
  <2>3. timers' \subseteq Msgs /\ owed' \subseteq Msgs
    BY <2>1, <2>2 DEF DeleteTypes
  <2>4. calls' \subseteq [lines : SUBSET Msgs, attempt : {1, 2}]
    BY <2>1, <2>2 DEF DeleteTypes, Call
  <2>. QED  BY <1>13, <2>3, <2>4 DEF TapAnswered, history, DeleteTypes
<1>14. ASSUME NEW t \in Taps, NEW m \in Msgs \cup {Now}, Tap(t, m) PROVE DeleteTypes'
  BY <1>14 DEF Tap, history, DeleteTypes
<1>15. CASE MuteChanges \/ Save
  BY <1>15 DEF MuteChanges, Save, daemon, history, DeleteTypes
<1>16. CASE Restart
  BY <1>16 DEF Restart, LineTypes, DeleteTypes
<1>17. CASE UNCHANGED vars
  BY <1>17 DEF vars, daemon, history, DeleteTypes
<1>. QED  BY <1>1, <1>2, <1>4, <1>5, <1>6, <1>7, <1>8, <1>9, <1>10, <1>11, <1>12, <1>13,
             <1>14, <1>15, <1>16, <1>17 DEF Next

\* Every variable keeps its type (QueuedLines.TypeOK): the targets stay a
\* list of messages, whatever the scans take from it and whoever settles it.
THEOREM TypeCorrect == Spec => []TypeOK
<1>1. Init => LineTypes /\ QueueTypes /\ DeleteTypes
  <2>1. <<>> \in Seq(Msgs)
    BY EmptySeq
  <2>2. Init => QueueTypes
    <3>1. 0 \in 0 .. MaxRestarts /\ 0 \in 0 .. MaxTurns
      BY Domains
    <3>. QED  BY <2>1, <3>1 DEF Init, Fresh, QueueTypes
  <2>3. Init => DeleteTypes
    BY DEF Init, Fresh, DeleteTypes
  <2>. QED  BY <2>2, <2>3, TypesInit
<1>2. (LineTypes /\ QueueTypes /\ DeleteTypes) /\ [Next]_vars
        => (LineTypes /\ QueueTypes /\ DeleteTypes)'
  BY TypesNext, QueueTyped, DeletesTyped
<1>. QED  BY <1>1, <1>2, TypeParts, PTL DEF Spec

------------------------------------------------------------------------------
(* The lines keep their promise.                                           *)

\* A message whose line was in the chat, or pressed, gets no other one.
LineOnce == up \subseteq Settled /\ PressedLines \subseteq Settled

LineInv == TrackInv /\ TypeOK /\ LineOnce

LEMMA PressedAre == PressedLines = Msgs \cap TappedMsgs
BY DEF PressedLines, TappedMsgs

\* A step of the promise leaves no message with a line to come that had one.
LEMMA OnceKept ==
  ASSUME LineOnce, up \subseteq Msgs, up' \subseteq Msgs, Lines!Next
  PROVE  LineOnce'
<1>1. (Msgs \ Settled)' \subseteq Msgs \ Settled
      /\ up' \cap (Msgs \ Settled)' = {} /\ PressedLines' \cap (Msgs \ Settled)' = {}
  <2>1. up \cap (Msgs \ Settled) = {} /\ PressedLines \cap (Msgs \ Settled) = {}
    BY DEF LineOnce
  <2>2. CASE Lines!LetGo \/ Lines!Restart
    BY <2>1, <2>2 DEF Lines!LetGo, Lines!Restart
  <2>3. ASSUME NEW m \in Msgs, Lines!Post(m) \/ Lines!Track(m) \/ Lines!Press(m)
        PROVE  <1>1!:
    BY <2>1, <2>3 DEF Lines!Post, Lines!Track, Lines!Press
  <2>4. ASSUME NEW gone \in SUBSET Msgs, Lines!Remove(gone) \/ Lines!Lose(gone)
        PROVE  <1>1!:
    BY <2>1, <2>4 DEF Lines!Remove, Lines!Lose
  <2> QED BY <2>2, <2>3, <2>4 DEF Lines!Next
<1>2. PressedLines' \subseteq Msgs
  BY DEF PressedLines
<1> QED BY <1>1, <1>2 DEF LineOnce

\* Lines are let go, or nothing is said of them.
LEMMA LinesLetGo ==
  ASSUME UNCHANGED <<up, lost, taps>>, lines' \subseteq lines,
         owed \cup (lines \ lines') \subseteq owed',
         owed' \subseteq owed \cup (lines \ lines') \cup up,
         \A m \in Msgs : /\ task[m] = "over" => task'[m] = "over"
                         /\ task'[m] = "landed" <=> task[m] = "landed"
  PROVE  Lines!LetGo
<1>1. Settled \subseteq Settled' /\ PressedLines' = PressedLines
  BY DEF Settled, PressedLines
<1>2. /\ Debt \cup (lines \ lines') \subseteq Debt'
      /\ Debt' \subseteq Debt \cup (lines \ lines') \cup up
  BY DEF Debt
<1> QED BY <1>1, <1>2 DEF Lines!LetGo

LEMMA LinesDropped ==
  ASSUME LineTypes, NEW ms, DropLines(ms), UNCHANGED <<up, lost, taps>>
  PROVE  Lines!LetGo
<1>1. lines' = lines \ ms /\ owed' = owed \cup (lines \cap ms)
  BY DEF DropLines, DeleteLater
<1>2. \A m \in Msgs : /\ task[m] = "over" => task'[m] = "over"
                      /\ task'[m] = "landed" <=> task[m] = "landed"
  BY DEF DropLines, Cancelled, LineTypes
<1> QED BY <1>1, <1>2, LinesLetGo

\* The coroutine of one line.
LEMMA LineStepKeeps ==
  ASSUME LineInv, NEW m \in Msgs, LineStep(m) \/ PickUp(m) \/ Enqueue(m)
  PROVE  Lines!Next
<1>0. LineTypes /\ TrackInv /\ task \in [Msgs -> Stages] /\ ArmedOnce
  BY DEF LineInv, TrackInv, OwedInv, LineTypes
<1>g. ASSUME UNCHANGED <<up, lost, taps, lines, owed>>,
             \A k \in Msgs \ {m} : task'[k] = task[k],
             task[m] \notin {"over", "landed"}, task'[m] # "landed"
      PROVE  Lines!Next
  <2>1. Lines!LetGo
    BY <1>g, LinesLetGo
  <2>. QED  BY <2>1 DEF Lines!Next
<1>1. CASE EvidenceWaited(m) \/ SendLine(m) \/ LineRefused(m) \/ PauseEnds(m)
  <2>1. /\ UNCHANGED <<up, lost, taps, lines, owed>>
        /\ task[m] \notin {"over", "landed"}
    BY <1>1 DEF EvidenceWaited, SendLine, LineRefused, PauseEnds, history
  <2>2. task'[m] # "landed" /\ \A k \in Msgs \ {m} : task'[k] = task[k]
    BY <1>0, <1>1 DEF EvidenceWaited, SendLine, LineRefused, PauseEnds, LineOver
  <2>. QED  BY <2>1, <2>2, <1>g
<1>2. CASE PickUp(m)
  <2>1. UNCHANGED <<up, lost, taps, lines, owed>> /\ task[m] = "none"
    BY <1>0, <1>2 DEF PickUp, history, ArmedOnce
  <2>2. task'[m] # "landed" /\ \A k \in Msgs \ {m} : task'[k] = task[k]
    BY <1>0, <1>2 DEF PickUp
  <2>. QED  BY <2>1, <2>2, <1>g
<1>3. CASE Enqueue(m)
  <2>1. UNCHANGED <<up, lost, taps, lines, owed, task>>
    BY <1>3 DEF Enqueue, daemon, history
  <2>2. Lines!LetGo
    BY <2>1, LinesLetGo
  <2>. QED  BY <2>2 DEF Lines!Next
<1>4. CASE LineLands(m)
  <2>1. /\ up' = up \cup {m} /\ UNCHANGED <<taps, lines, owed>>
        /\ task[m] \in {"out", "out2"}
        /\ \A k \in Msgs \ {m} : task'[k] = task[k]
        /\ \/ task'[m] = "landed" /\ lost' = lost
           \/ task'[m] = "over" /\ lost' = lost \cup {m}
    BY <1>0, <1>4 DEF LineLands, LineOver
  <2>2. m \in Msgs \ Settled /\ Settled' = Settled \cup {m} /\ PressedLines' = PressedLines
    BY <2>1 DEF Settled, PressedLines
  <2>3. \/ Debt' = Debt \cup {m} /\ lost' = lost
        \/ Debt' = Debt /\ lost' = lost \cup {m}
    BY <2>1 DEF Debt
  <2>4. Lines!Post(m)
    BY <2>1, <2>2, <2>3 DEF Lines!Post
  <2>. QED  BY <2>4 DEF Lines!Next
<1>5. CASE LineAnswered(m)
  <2>1. /\ UNCHANGED <<up, lost, taps>> /\ owed' = owed \cup {m}
        /\ task[m] = "landed" /\ task'[m] = "over"
        /\ \A k \in Msgs \ {m} : task'[k] = task[k]
        /\ lines' = lines \cup {m} \/ lines' = lines
    BY <1>0, <1>5 DEF LineAnswered, LineOver, Owe, history
  <2>2. Settled' = Settled /\ PressedLines' = PressedLines /\ Debt' = Debt
    BY <2>1 DEF Settled, PressedLines, Debt
  <2>3. m \in Debt /\ m \in up \cup PressedLines
    BY <1>0, <2>1, PressedAre DEF Debt, TrackInv, LandedUp
  <2>4. CASE lines' = lines \cup {m}
    <3>1. Lines!Track(m)
      BY <2>1, <2>2, <2>3, <2>4 DEF Lines!Track
    <3>. QED  BY <3>1 DEF Lines!Next
  <2>5. CASE lines' = lines
    <3>1. Lines!LetGo
      BY <2>1, <2>2, <2>5 DEF Lines!LetGo
    <3>. QED  BY <3>1 DEF Lines!Next
  <2>. QED  BY <2>1, <2>4, <2>5
<1>. QED  BY <1>1, <1>2, <1>3, <1>4, <1>5 DEF LineStep

\* A delete takes or loses what is not tracked, or was pressed.
LEMMA DeletesKeep ==
  ASSUME LineInv, NEW gone \in SUBSET Msgs, gone \subseteq BeingDeleted,
         UNCHANGED <<lines, task, taps>>,
         \/ up' = up \ gone /\ owed' = owed \ gone /\ lost' = lost
         \/ up' = up /\ owed' = owed \ gone /\ lost' = lost \cup gone
         \/ up' = up /\ owed' = owed /\ lost' = lost
  PROVE  Lines!Next
<1>1. Settled' = Settled /\ PressedLines' = PressedLines
  BY DEF Settled, PressedLines
<1>2. gone \cap lines \subseteq PressedLines
  BY PressedAre DEF LineInv, TrackInv, TrackedUp
<1>3. Lines!Free(gone)
  BY <1>2 DEF Lines!Free
<1>4. CASE up' = up /\ owed' = owed /\ lost' = lost
  <2>1. Lines!LetGo
    BY <1>4, LinesLetGo
  <2>. QED  BY <2>1 DEF Lines!Next
<1>5. CASE owed' = owed \ gone
  <2>1. Debt \ gone \subseteq Debt' /\ Debt' \subseteq Debt
    BY <1>5 DEF Debt
  <2>2. Lines!Settled(gone)
    BY <2>1 DEF Lines!Settled
  <2>3. CASE up' = up \ gone /\ lost' = lost
    <3>1. Lines!Remove(gone)
      BY <1>1, <1>3, <2>2, <2>3 DEF Lines!Remove
    <3>. QED  BY <3>1 DEF Lines!Next
  <2>4. CASE up' = up /\ lost' = lost \cup gone
    <3>1. Lines!Lose(gone)
      BY <1>1, <1>3, <2>2, <2>4 DEF Lines!Lose
    <3>. QED  BY <3>1 DEF Lines!Next
  <2>. QED  BY <1>4, <2>3, <2>4
<1>. QED  BY <1>4, <1>5

LEMMA DeleteStepKeeps ==
  ASSUME LineInv, NEW c \in calls, DeleteStep(c) PROVE Lines!Next
<1>1. c.lines \in SUBSET Msgs /\ c.lines \subseteq BeingDeleted
  BY DEF LineInv, TrackInv, TapTypes, BeingDeleted
<1>2. /\ UNCHANGED <<lines, task, taps>>
      /\ \/ up' = up \ c.lines /\ owed' = owed \ c.lines /\ lost' = lost
         \/ up' = up /\ owed' = owed \ c.lines /\ lost' = lost \cup c.lines
         \/ up' = up /\ owed' = owed /\ lost' = lost
  BY DEF DeleteStep, DeleteLands, DeleteSlowed, DeleteRefused, DeleteFails, history
<1>. QED  BY <1>1, <1>2, DeletesKeep

LEMMA BootDeleteKeeps ==
  ASSUME LineInv, NEW m \in Msgs, BootDelete(m) PROVE Lines!Next
<1>1. {m} \in SUBSET Msgs /\ {m} \subseteq BeingDeleted
  BY DEF BootDelete, BeingDeleted
<1>2. /\ UNCHANGED <<lines, task, taps>>
      /\ \/ up' = up \ {m} /\ owed' = owed \ {m} /\ lost' = lost
         \/ up' = up /\ owed' = owed \ {m} /\ lost' = lost \cup {m}
         \/ up' = up /\ owed' = owed /\ lost' = lost
  BY DEF BootDelete, history
<1>. QED  BY <1>1, <1>2, DeletesKeep

\* Dropping and keeping lines, and the tap's answer.
LEMMA TapAnsweredKeeps ==
  ASSUME LineInv, NEW t \in Taps, TapAnswered(t) PROVE Lines!Next
<1>0. LineTypes
  BY DEF LineInv, TrackInv, OwedInv
<1>1. PICK gone, batches :
        /\ batches = {lines \cap gone, Tapped(t)} \ {{}}
        /\ task' = Cancelled(gone) /\ lines' = lines \ gone
        /\ owed' = owed \cup UNION batches
  BY DEF TapAnswered
<1>2. /\ UNCHANGED <<up, lost>>
      /\ taps' = [taps EXCEPT ![t].at = IF @ = "sent" THEN "done" ELSE "over"]
  BY DEF TapAnswered, history
<1>3. \A u \in Taps : taps'[u].for = taps[u].for
  BY <1>0, <1>2 DEF LineTypes
<1>4. PressedLines' = PressedLines
  BY <1>3 DEF PressedLines
<1>5. Settled \subseteq Settled'
  BY <1>0, <1>1 DEF Settled, Cancelled, LineTypes
<1>6. /\ {m \in Msgs : task'[m] = "landed"} = {m \in Msgs : task[m] = "landed"}
  BY <1>0, <1>1 DEF Cancelled, LineTypes
<1>7. UNION batches = (lines \cap gone) \cup Tapped(t) /\ Tapped(t) \subseteq up
  BY <1>1 DEF Tapped
<1>8. /\ Debt \cup (lines \ lines') \subseteq Debt'
      /\ Debt' \subseteq Debt \cup (lines \ lines') \cup up
  BY <1>1, <1>6, <1>7 DEF Debt
<1>9. Lines!LetGo
  BY <1>1, <1>2, <1>4, <1>5, <1>8 DEF Lines!LetGo
<1>. QED  BY <1>9 DEF Lines!Next

\* A press of a line's button is one of a line in the chat; /now is of none.
LEMMA TapKeeps ==
  ASSUME LineInv, NEW t \in Taps, NEW m \in Msgs \cup {Now}, Tap(t, m)
  PROVE  Lines!Next
<1>0. LineTypes /\ TapTypes
  BY DEF LineInv, TrackInv, OwedInv
<1>1. PICK a : taps' = [taps EXCEPT ![t] = [for |-> m, at |-> a]]
  BY DEF Tap
<1>2. /\ UNCHANGED <<lines, owed, task, up, lost>> /\ taps[t].for = Now
      /\ m = Now \/ m \in up
  BY <1>0 DEF Tap, TapTypes, history
<1>3. \A u \in Taps : taps'[u].for = IF u = t THEN m ELSE taps[u].for
  BY <1>0, <1>1 DEF LineTypes
<1>4. PressedLines' = PressedLines \cup (Msgs \cap {m})
  BY <1>2, <1>3, Domains DEF PressedLines
<1>5. Settled' = Settled /\ Debt' = Debt
  BY <1>2 DEF Settled, Debt
<1>6. CASE m = Now
  <2>1. PressedLines' = PressedLines
    BY <1>4, <1>6, Domains
  <2>2. Lines!LetGo
    BY <1>2, <1>5, <2>1 DEF Lines!LetGo
  <2>. QED  BY <2>2 DEF Lines!Next
<1>7. CASE m # Now
  <2>1. m \in Msgs /\ PressedLines' = PressedLines \cup {m}
    BY <1>4, <1>7
  <2>2. Lines!Press(m)
    BY <1>2, <1>5, <1>7, <2>1 DEF Lines!Press
  <2>. QED  BY <2>1, <2>2 DEF Lines!Next
<1>. QED  BY <1>6, <1>7

LEMMA ChordEndsKeeps ==
  ASSUME LineInv, NEW t \in Taps, ChordEnds(t) PROVE Lines!Next
<1>0. LineTypes
  BY DEF LineInv, TrackInv, OwedInv
<1>1. PICK r : taps' = [taps EXCEPT ![t].at = r]
  BY DEF ChordEnds
<1>2. UNCHANGED <<lines, owed, task, up, lost>>
  BY DEF ChordEnds, history
<1>3. \A u \in Taps : taps'[u].for = taps[u].for
  BY <1>0, <1>1 DEF LineTypes
<1>4. PressedLines' = PressedLines /\ Settled' = Settled /\ Debt' = Debt
  BY <1>2, <1>3 DEF PressedLines, Settled, Debt
<1>5. Lines!LetGo
  BY <1>2, <1>4 DEF Lines!LetGo
<1>. QED  BY <1>5 DEF Lines!Next

\* A new daemon owes what was saved, of lines that were posted; what it does
\* not owe, a restart at the wrong moment lost.
LEMMA RestartKeeps ==
  ASSUME LineInv, Restart PROVE Lines!Next
<1>0. LineTypes /\ TapTypes /\ AnsweredFirst /\ LinesOwed /\ saved \subseteq Msgs /\ LineOnce
  BY DEF LineInv, TrackInv, OwedInv, TypeOK
<1>1. /\ lines' = {} /\ owed' = saved /\ UNCHANGED up
      /\ task' = [m \in Msgs |-> IF task[m] = "none" THEN "none" ELSE "over"]
  BY DEF Restart
<1>2. \A u \in Taps : taps'[u].for = taps[u].for
  BY <1>0 DEF Restart, Idle, LineTypes, TapTypes
<1>3. PressedLines' = PressedLines
  BY <1>2 DEF PressedLines
<1>4. Settled \subseteq Settled' /\ Debt' = saved
  BY <1>0, <1>1 DEF Settled, Debt
<1>5. saved \subseteq Settled
  <2>1. \A m \in saved : task[m] = "over" \/ m \in PressedLines
    BY <1>0, PressedAre DEF AnsweredFirst, Handled
  <2>. QED  BY <1>0, <2>1 DEF Settled, LineOnce
<1>6. lost' = lost \/ lost' = lost \cup (up \ saved)
  BY DEF Restart
<1>7. up \subseteq saved \cup lost'
  <2>1. CASE owed \subseteq saved /\ (\A m \in Msgs : ~Out(m)) /\ lost' = lost
    BY <1>0, <2>1 DEF LinesOwed, Out, LineTypes
  <2>. QED  BY <2>1 DEF Restart
<1>8. Lines!Restart
  <2>1. (Msgs \ Settled)' \subseteq Msgs \ Settled
    BY <1>4
  <2>2. Debt' \subseteq Msgs \ (Msgs \ Settled)
    BY <1>0, <1>4, <1>5
  <2>3. lost' \in {lost, lost \cup (up \ Debt')} /\ up \subseteq Debt' \cup lost'
    BY <1>4, <1>6, <1>7
  <2>. QED  BY <1>1, <1>3, <2>1, <2>2, <2>3 DEF Lines!Restart
<1>. QED  BY <1>8 DEF Lines!Next

\* Every step of the queue is one of the promise, or changes nothing of it.
LEMMA LinesStep == LineInv /\ [Next]_vars => Lines!Next
<1>. SUFFICES ASSUME LineInv, [Next]_vars PROVE Lines!Next
  OBVIOUS
<1>0. LineTypes
  BY DEF LineInv, TrackInv, OwedInv
<1>g. Lines!LetGo => Lines!Next
  BY DEF Lines!Next
<1>s. ASSUME UNCHANGED <<up, lost, taps, lines, owed, task>> PROVE Lines!Next
  BY <1>s, <1>g, LinesLetGo
<1>d. ASSUME NEW ms, DropLines(ms), UNCHANGED <<up, lost, taps>> PROVE Lines!Next
  BY <1>d, <1>0, <1>g, LinesDropped
<1>1. CASE UNCHANGED vars
  BY <1>1, <1>s DEF vars, daemon, history
<1>2. CASE Absorb \/ TakeNow \/ Escape \/ StartTurn \/ MuteChanges \/ Save
  BY <1>2, <1>s DEF Absorb, TakeNow, Escape, StartTurn, MuteChanges, Save,
                    daemon, history
<1>3. CASE TurnEnds
  <2>1. PICK ts : Sync(ts)
    BY <1>3 DEF TurnEnds
  <2>. QED  BY <1>3, <2>1, <1>d DEF TurnEnds, Sync, history
<1>4. CASE CardTick
  BY <1>4, <1>d DEF CardTick, Sync, history
<1>5. CASE PlaceSentence
  BY <1>5, <1>s DEF PlaceSentence, history
<1>6. CASE QueueWatch
  <2>1. CASE NothingToWatch
    BY <1>6, <2>1, <1>s DEF QueueWatch, history
  <2>2. CASE ~NothingToWatch
    BY <1>6, <2>2, <1>d DEF QueueWatch, Sync, history
  <2>. QED  BY <2>1, <2>2
<1>7. ASSUME NEW k \in Teardowns, TeardownBegins(k) PROVE Lines!Next
  BY <1>7, <1>s DEF TeardownBegins, history
<1>8. CASE ClearRefused
  BY <1>8, <1>s DEF ClearRefused, history
<1>9. CASE TeardownEnds
  BY <1>9, <1>d DEF TeardownEnds, Sync, history
<1>. QED
  BY <1>1, <1>2, <1>3, <1>4, <1>5, <1>6, <1>7, <1>8, <1>9, LineStepKeeps,
     BootDeleteKeeps, DeleteStepKeeps, ChordEndsKeeps, TapAnsweredKeeps,
     TapKeeps, RestartKeeps DEF Next

LEMMA LinesStart == Init => Lines!Init /\ LineOnce
BY Domains DEF Init, Fresh, Idle, Lines!Init, LineOnce, Settled, Debt, PressedLines

\* The lines keep their promise (QueuedLines.KeepsLinePromise, LinePromise): a
\* message gets one line at most, however often the daemon restarts; a line in
\* the chat is owed a delete or lost by a named fault; and no delete takes a
\* line that is still tracked, but one whose own button was pressed.
THEOREM LinePromiseKept == Spec => KeepsLinePromise
<1>1. Init => TrackInv
  BY OwedInit DEF Init, Fresh, Idle, TrackInv, TapTypes, AnsweredFirst, LandedUp,
                  TrackedUp, Handled, BeingDeleted, TappedMsgs
<1>2. Spec => []TrackInv
  BY <1>1, TrackNext, PTL DEF Spec
<1>3. TrackInv /\ TypeOK /\ TypeOK' /\ LineOnce /\ [Next]_vars => LineOnce'
  <2>1. TypeOK /\ TypeOK' => up \subseteq Msgs /\ up' \subseteq Msgs
    BY DEF TypeOK
  <2>. QED  BY <2>1, LinesStep, OnceKept DEF LineInv
<1>4. Spec => [](TrackInv /\ TypeOK /\ LineOnce)
  BY <1>2, <1>3, TypeCorrect, LinesStart, PTL DEF Spec
<1>5. TrackInv /\ TypeOK /\ LineOnce /\ [Next]_vars
        => [Lines!Next]_<<Msgs \ Settled, up, lines, Debt, lost, PressedLines>>
  BY LinesStep DEF LineInv
<1>. QED  BY <1>4, <1>5, LinesStart, PTL DEF Spec, KeepsLinePromise, Lines!Spec
=============================================================================
