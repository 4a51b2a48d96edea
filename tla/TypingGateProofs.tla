-------------------------- MODULE TypingGateProofs --------------------------
(***************************************************************************)
(* Theorems about TypingGate, for any sets of hooks and writers and any    *)
(* timing that satisfies GateTiming.                                       *)
(*                                                                         *)
(* KeySafe is not inductive.  What carries it is a chain: the clock keeps  *)
(* every step of a send within its bound (InTime), so the marker, renewed  *)
(* at each look, still has time left (Covered, MarkerUp); a marker that is *)
(* up lets no call through but a capped one (ReadMarker); a call whose     *)
(* dialog the daemon cannot know yet has a young stamp (StampYoung), which *)
(* no clear look allows; so nothing is on its way from the look until the  *)
(* marker goes (Shielded); and it goes only after the key was read         *)
(* (KeyOwner).                                                             *)
(***************************************************************************)
EXTENDS TypingGate, TLAPS

\* What is left of the marker when each state of a send begins, at least.
Budget(pc) ==
  CASE pc = "look"             -> MarkerTTL
    [] pc = "writing"          -> MarkerTTL - HardLimit
    [] pc \in {"settle", "gap"} -> MarkerTTL - HardLimit - WriteTime
    [] pc = "second"           -> MarkerTTL - HardLimit - WriteTime - KeyGap
    [] OTHER                   -> MarkerTTL - HardLimit - 2 * WriteTime - KeyGap

LockedStates == {"look", "writing", "settle", "gap", "second", "ending"}

InTime == \A w \in Writers : sendPc[w] \in LockedStates => spent[w] <= Bound(w)

Covered == \A w \in Writers : sendPc[w] \in LockedStates /\ ~unsure[w]
                                => marker + spent[w] >= Budget(sendPc[w])

NotYetPassed == \A h \in Hooks :
  hookPc[h] \in {"idle", "stamping", "stamped", "sleeping"} => passage[h] = "none"

StampYoung == \A h \in Hooks : InLatency(h) => stamp[h] < DialogLatency

Shielded == \A w \in Writers :
  sendPc[w] \in LockedStates \ {"look"} /\ ~unsure[w]
    => \A h \in Hooks : ~GatedDialog(h)

KeyOwner == unread > 0 /\ vouched =>
  \E w \in Writers : /\ sendPc[w] \in {"gap", "ending"}
                     /\ ~unsure[w]
                     /\ spent[w] + unread <= ReadLatency

Inv == TypeOK /\ InTime /\ Covered /\ NotYetPassed /\ StampYoung /\ Shielded /\ KeyOwner

-----------------------------------------------------------------------------
(* Type correctness. *)

\* The assumptions on the constants, one by one.
LEMMA Timing ==
  /\ FreshWindow \in Nat /\ WaitLimit \in Nat /\ MinPassAge \in Nat
  /\ HardLimit \in Nat /\ AfterEnter \in Nat /\ KeyGap \in Nat
  /\ MarkerTTL \in Nat /\ HookCap \in Nat /\ WriteTime \in Nat
  /\ DialogLatency \in Nat /\ ReadLatency \in Nat
  /\ 0 < DialogLatency /\ DialogLatency <= MinPassAge
  /\ MinPassAge <= FreshWindow /\ 0 < HookCap
  /\ 0 < ReadLatency /\ ReadLatency <= AfterEnter /\ AfterEnter <= KeyGap
  /\ HardLimit + WriteTime + KeyGap + WriteTime + AfterEnter < MarkerTTL
  BY GateTiming

\* A hook's step keeps the types.
LEMMA HookStepType ==
  ASSUME TypeOK, NEW h \in Hooks, HookStep(h)
  PROVE  TypeOK'
<1>1. CASE StartHook(h)
  BY <1>1 DEF TypeOK, StartHook, sendVars, keyVars, HookStates
<1>2. CASE WriteStamp(h)
  BY <1>2, Timing DEF TypeOK, WriteStamp, sendVars, keyVars, HookStates
<1>3. CASE ReadMarker(h)
  <2>1. hookPc' \in [Hooks -> HookStates] /\ passage' \in [Hooks -> Passages]
    BY <1>3 DEF TypeOK, ReadMarker, LetThrough, HookStates, Passages
  <2>2. stamp' \in [Hooks -> 0..FreshWindow]
    <3>1. stamp' = stamp \/ stamp' = [stamp EXCEPT ![h] = FreshWindow]
      BY <1>3 DEF ReadMarker, LetThrough
    <3>2. CASE stamp' = stamp
      BY <3>2 DEF TypeOK
    <3>3. CASE stamp' = [stamp EXCEPT ![h] = FreshWindow]
      BY <3>3, Timing DEF TypeOK
    <3>4. QED
      BY <3>1, <3>2, <3>3
  <2>3. held' \in [Hooks -> -1..HookCap]
    BY <1>3, Timing DEF TypeOK, ReadMarker, LetThrough
  <2>4. QED
    BY <1>3, <2>1, <2>2, <2>3 DEF TypeOK, ReadMarker, sendVars, keyVars
<1>4. CASE WakeHook(h)
  BY <1>4 DEF TypeOK, WakeHook, sendVars, keyVars, HookStates
<1>5. CASE HookError(h)
  BY <1>5 DEF TypeOK, HookError, LetThrough, sendVars, keyVars, HookStates, Passages
<1>6. CASE DrawDialog(h)
  BY <1>6 DEF TypeOK, DrawDialog, sendVars, keyVars, HookStates
<1>7. CASE HearOfDialog(h)
  BY <1>7 DEF TypeOK, HearOfDialog, sendVars, keyVars, HookStates
<1>8. CASE CallGoesOn(h)
  BY <1>8, Timing DEF TypeOK, CallGoesOn, sendVars, keyVars, HookStates, Passages
<1>9. QED
  BY <1>1, <1>2, <1>3, <1>4, <1>5, <1>6, <1>7, <1>8 DEF HookStep

LEMMA MarkTypingType ==
  ASSUME TypeOK, NEW w \in Writers, MarkTyping(w)
  PROVE  marker' \in 0..MarkerTTL /\ unsure' \in [Writers -> BOOLEAN]
<1>1. CASE marker' = MarkerTTL /\ unsure' = [unsure EXCEPT ![w] = FALSE]
  BY <1>1, Timing DEF TypeOK
<1>2. CASE marker' = marker /\ unsure' = [unsure EXCEPT ![w] = TRUE]
  BY <1>2 DEF TypeOK
<1>3. QED
  BY <1>1, <1>2 DEF MarkTyping

\* A writer's step keeps the types.
LEMMA SendStepType ==
  ASSUME TypeOK, NEW w \in Writers, SendStep(w)
  PROVE  TypeOK'
<1> USE Timing DEF TypeOK, hookVars, keyVars, Goto, SendStates, GatedStates
<1>1. CASE StartSend(w)
  BY <1>1, MarkTypingType DEF StartSend
<1>2. CASE FirstLookClear(w)
  BY <1>2 DEF FirstLookClear
<1>3. CASE FirstLookBlocked(w)
  BY <1>3 DEF FirstLookBlocked, GateEnd
<1>4. CASE TakeLock(w)
  BY <1>4, MarkTypingType DEF TakeLock
<1>5. CASE GiveUpSend(w)
  BY <1>5 DEF GiveUpSend, GateEnd, ReleaseLock, HoldsLock
<1>6. CASE LookClear(w)
  BY <1>6 DEF LookClear
<1>7. CASE LookBlocked(w)
  BY <1>7 DEF LookBlocked, GateEnd, ReleaseLock, HoldsLock
<1>8. CASE PieceWritten(w)
  BY <1>8 DEF PieceWritten
<1>9. CASE KeyWritten(w)
  <2>1. unread' \in 0..ReadLatency /\ vouched' \in BOOLEAN
    BY <1>9 DEF KeyWritten
  <2>2. lockQueue' \in Seq(Writers)
    <3>1. UNCHANGED lockQueue \/ ReleaseLock(w)
      BY <1>9 DEF KeyWritten
    <3>2. CASE UNCHANGED lockQueue
      BY <3>2
    <3>3. CASE ReleaseLock(w)
      BY <3>3 DEF ReleaseLock, HoldsLock
    <3>4. QED
      BY <3>1, <3>2, <3>3
  <2>3. sendPc' \in [Writers -> SendStates] /\ spent' \in [Writers -> Nat]
    <3>1. Goto(w, "gap") \/ Goto(w, "ending")
      BY <1>9 DEF KeyWritten
    <3>2. CASE Goto(w, "gap")
      BY <3>2
    <3>3. CASE Goto(w, "ending")
      BY <3>3
    <3>4. QED
      BY <3>1, <3>2, <3>3
  <2>4. QED
    BY <1>9, <2>1, <2>2, <2>3 DEF KeyWritten
<1>10. CASE WriteFails(w)
  BY <1>10 DEF WriteFails, GateEnd, ReleaseLock, HoldsLock
<1>11. CASE LookAgain(w)
  BY <1>11, MarkTypingType DEF LookAgain
<1>12. CASE PressAgain(w)
  BY <1>12 DEF PressAgain
<1>13. CASE DelayedGateEnd(w)
  BY <1>13 DEF DelayedGateEnd, GateEnd
<1>14. CASE StartPlain(w)
  BY <1>14 DEF StartPlain
<1>15. CASE TakeLockPlain(w)
  BY <1>15 DEF TakeLockPlain
<1>16. CASE EndPlain(w)
  BY <1>16 DEF EndPlain, ReleaseLock, HoldsLock
<1>17. QED
  BY <1>1, <1>2, <1>3, <1>4, <1>5, <1>6, <1>7, <1>8, <1>9, <1>10, <1>11, <1>12,
     <1>13, <1>14, <1>15, <1>16 DEF SendStep

\* Every step keeps the types.
LEMMA NextType ==
  ASSUME TypeOK, [Next]_vars
  PROVE  TypeOK'
<1>1. CASE \E h \in Hooks : HookStep(h)
  BY <1>1, HookStepType
<1>2. CASE \E w \in Writers : SendStep(w)
  BY <1>2, SendStepType
<1>3. CASE ReadKeys
  BY <1>3, Timing DEF TypeOK, ReadKeys, hookVars, sendVars
<1>4. CASE Tick
  BY <1>4, Timing DEF TypeOK, Tick, Waiting
<1>5. CASE UNCHANGED vars
  BY <1>5 DEF TypeOK, vars, hookVars, sendVars, keyVars
<1>6. QED
  BY <1>1, <1>2, <1>3, <1>4, <1>5 DEF Next

LEMMA InitType == Init => TypeOK
  BY Timing DEF Init, TypeOK, HookStates, SendStates, GatedStates, Passages

\* Type correctness of the gate.
THEOREM TypeCorrect == Spec => []TypeOK
<1>1. Init => TypeOK
  BY InitType
<1>2. TypeOK /\ [Next]_vars => TypeOK'
  BY NextType
<1>3. QED
  BY <1>1, <1>2, PTL DEF Spec

-----------------------------------------------------------------------------
(* What a writer's step does to the others and to itself. *)

\* Every step of a writer goes to a state and starts its time again.
LEMMA SendStepGoes ==
  ASSUME NEW w \in Writers, SendStep(w)
  PROVE  \E pc \in SendStates : Goto(w, pc)
  BY DEF SendStep, StartSend, FirstLookClear, FirstLookBlocked, TakeLock, GiveUpSend,
         LookClear, LookBlocked, PieceWritten, KeyWritten, WriteFails, LookAgain,
         PressAgain, DelayedGateEnd, StartPlain, TakeLockPlain, EndPlain, GateEnd,
         SendStates, GatedStates

\* Another writer keeps its place, its time and its doubt.
LEMMA OthersStay ==
  ASSUME TypeOK, NEW w \in Writers, SendStep(w), NEW v \in Writers, v # w
  PROVE  sendPc'[v] = sendPc[v] /\ spent'[v] = spent[v] /\ unsure'[v] = unsure[v]
<1>1. sendPc'[v] = sendPc[v] /\ spent'[v] = spent[v]
  <2>1. PICK pc \in SendStates : Goto(w, pc)
    BY SendStepGoes
  <2>2. QED
    BY <2>1 DEF Goto, TypeOK
<1>2. unsure' = unsure \/ (\E b \in BOOLEAN : unsure' = [unsure EXCEPT ![w] = b])
  <2>1. CASE LookClear(w)
    BY <2>1 DEF LookClear, TypeOK
  <2>2. CASE ~LookClear(w)
    BY <2>2 DEF SendStep, StartSend, FirstLookClear, FirstLookBlocked, TakeLock,
                GiveUpSend, LookBlocked, PieceWritten, KeyWritten, WriteFails,
                LookAgain, PressAgain, DelayedGateEnd, StartPlain, TakeLockPlain,
                EndPlain, GateEnd, MarkTyping
  <2>3. QED
    BY <2>1, <2>2
<1>3. QED
  BY <1>1, <1>2 DEF TypeOK

\* A send's step never takes the marker from another that holds it.
LEMMA MarkerKept ==
  ASSUME NEW w \in Writers, SendStep(w), NEW v \in Writers, v # w, HoldsMarker(v)
  PROVE  marker' = marker \/ marker' = MarkerTTL
  BY DEF SendStep, StartSend, FirstLookClear, FirstLookBlocked, TakeLock, GiveUpSend,
         LookClear, LookBlocked, PieceWritten, KeyWritten, WriteFails, LookAgain,
         PressAgain, DelayedGateEnd, StartPlain, TakeLockPlain, EndPlain, GateEnd,
         MarkTyping

\* A hook's step and the reading of keys leave the writers alone.
LEMMA HookFrame ==
  ASSUME NEW h \in Hooks, HookStep(h)
  PROVE  UNCHANGED <<marker, sendPc, spent, unsure, lockQueue, unread, vouched>>
  BY DEF HookStep, StartHook, WriteStamp, ReadMarker, WakeHook, HookError, DrawDialog,
         HearOfDialog, CallGoesOn, sendVars, keyVars

\* A writer's step leaves the hooks alone.
LEMMA SendFrame ==
  ASSUME NEW w \in Writers, SendStep(w)
  PROVE  UNCHANGED <<hookPc, stamp, held, passage>>
  BY DEF SendStep, StartSend, FirstLookClear, FirstLookBlocked, TakeLock, GiveUpSend,
         LookClear, LookBlocked, PieceWritten, KeyWritten, WriteFails, LookAgain,
         PressAgain, DelayedGateEnd, StartPlain, TakeLockPlain, EndPlain, hookVars

-----------------------------------------------------------------------------
(* Each state of a send lasts at most its bound. *)

LEMMA NextInTime ==
  ASSUME TypeOK, InTime, [Next]_vars
  PROVE  InTime'
<1> SUFFICES ASSUME NEW v \in Writers, sendPc'[v] \in LockedStates
             PROVE  spent'[v] <= Bound(v)'
  BY DEF InTime
<1>1. Bound(v)' \in Nat /\ Bound(v) \in Nat
  BY Timing DEF Bound
<1>2. CASE UNCHANGED <<sendPc, spent>>
  BY <1>2 DEF InTime, Bound
<1>3. CASE \E w \in Writers : SendStep(w)
  <2>1. PICK w \in Writers : SendStep(w)
    BY <1>3
  <2>2. CASE v = w
    <3>1. spent'[v] = 0
      BY <2>1, <2>2, SendStepGoes DEF Goto, TypeOK
    <3>2. QED
      BY <3>1, <1>1
  <2>3. CASE v # w
    <3>1. sendPc'[v] = sendPc[v] /\ spent'[v] = spent[v]
      BY <2>1, <2>3, OthersStay
    <3>2. QED
      BY <3>1 DEF InTime, Bound
  <2>4. QED
    BY <2>2, <2>3
<1>4. CASE Tick
  <2>1. sendPc' = sendPc /\ Timed(v)
    BY <1>4 DEF Tick, Timed, LockedStates, GatedStates
  <2>2. spent[v] < Bound(v) /\ spent'[v] = spent[v] + 1
    BY <1>4, <2>1 DEF Tick, MayTick
  <2>3. spent[v] \in Nat /\ Bound(v)' = Bound(v)
    BY <2>1 DEF TypeOK, Bound
  <2>4. QED
    BY <1>1, <2>2, <2>3
<1>5. QED
  BY <1>2, <1>3, <1>4, HookFrame
     DEF Next, ReadKeys, vars, sendVars

-----------------------------------------------------------------------------
(* The marker outlasts the send that its look covers. *)

\* A state a look covers ends before its marker does.
LEMMA CoveredMarkerUp ==
  ASSUME TypeOK, InTime, Covered, NEW w \in Writers,
         sendPc[w] \in LockedStates, ~unsure[w]
  PROVE  marker > 0
<1>1. /\ spent[w] <= Bound(w) /\ spent[w] \in Nat /\ marker \in Nat
      /\ marker + spent[w] >= Budget(sendPc[w])
  BY DEF InTime, Covered, TypeOK
<1>2. QED
  BY <1>1, Timing DEF LockedStates, Bound, Budget

LEMMA NextCovered ==
  ASSUME TypeOK, InTime, Covered, [Next]_vars
  PROVE  Covered'
<1> SUFFICES ASSUME NEW v \in Writers, sendPc'[v] \in LockedStates, ~unsure'[v]
             PROVE  marker' + spent'[v] >= Budget(sendPc'[v])
  BY DEF Covered, Budget
<1> USE Timing
<1>0. TypeOK'
  BY NextType
<1>1. CASE UNCHANGED <<marker, sendPc, spent, unsure>>
  BY <1>1 DEF Covered
<1>2. CASE \E w \in Writers : SendStep(w)
  <2>1. PICK w \in Writers : SendStep(w)
    BY <1>2
  <2>2. CASE v # w
    <3>1. sendPc'[v] = sendPc[v] /\ spent'[v] = spent[v] /\ unsure'[v] = unsure[v]
      BY <2>1, <2>2, OthersStay
    <3>2. HoldsMarker(v)
      BY <3>1 DEF HoldsMarker, LockedStates, GatedStates
    <3>3. marker' = marker \/ marker' = MarkerTTL
      BY <2>1, <2>2, <3>2, MarkerKept
    <3>4. marker + spent[v] >= Budget(sendPc[v])
      BY <3>1 DEF Covered
    <3>5. marker \in 0..MarkerTTL /\ spent[v] \in Nat
      BY DEF TypeOK
    <3>6. Budget(sendPc[v]) \in Int
      BY DEF Budget
    <3>7. QED
      BY <3>1, <3>3, <3>4, <3>5, <3>6
  <2>3. CASE v = w
    <3>0. marker \in Nat /\ marker' \in Nat /\ spent[v] \in Nat /\ spent'[v] = 0
      BY <1>0, <2>1, <2>3, SendStepGoes DEF TypeOK, Goto
    <3>1. CASE TakeLock(w) \/ LookAgain(w)
      <4>1. sendPc'[v] = "look" /\ MarkTyping(w)
        BY <2>3, <3>1 DEF TakeLock, LookAgain, Goto, TypeOK
      <4>2. marker' = MarkerTTL
        BY <2>3, <4>1 DEF MarkTyping, TypeOK
      <4>3. QED
        BY <3>0, <4>1, <4>2 DEF Budget
    <3>2. CASE LookClear(w)
      <4>1. sendPc[v] = "look" /\ sendPc'[v] = "writing" /\ ~unsure[v] /\ marker' = marker
        BY <2>3, <3>2 DEF LookClear, Goto, TypeOK
      <4>2. spent[v] <= HardLimit /\ marker + spent[v] >= MarkerTTL
        BY <4>1 DEF InTime, Covered, LockedStates, Bound, Budget
      <4>3. QED
        BY <3>0, <4>1, <4>2 DEF Budget
    <3>3. CASE PieceWritten(w) \/ KeyWritten(w)
      <4>1. /\ \/ sendPc[v] = "writing" /\ sendPc'[v] \in {"settle", "gap", "ending"}
               \/ sendPc[v] = "second" /\ sendPc'[v] = "ending"
            /\ ~unsure[v] /\ marker' = marker
        BY <2>3, <3>3 DEF PieceWritten, KeyWritten, Goto, TypeOK
      <4>2. spent[v] <= WriteTime /\ marker + spent[v] >= Budget(sendPc[v])
        BY <4>1 DEF InTime, Covered, LockedStates, Bound
      <4>3. QED
        BY <3>0, <4>1, <4>2 DEF Budget
    <3>4. CASE PressAgain(w)
      <4>1. sendPc[v] = "gap" /\ sendPc'[v] = "second" /\ ~unsure[v] /\ marker' = marker
        BY <2>3, <3>4 DEF PressAgain, Goto, TypeOK
      <4>2. spent[v] <= KeyGap /\ marker + spent[v] >= Budget("gap")
        BY <4>1 DEF InTime, Covered, LockedStates, Bound
      <4>3. QED
        BY <3>0, <4>1, <4>2 DEF Budget
    <3>5. CASE ~(\/ TakeLock(w) \/ LookAgain(w) \/ LookClear(w) \/ PieceWritten(w)
                 \/ KeyWritten(w) \/ PressAgain(w))
      <4>1. \E pc \in {"idle", "look1", "queued", "plainQueued", "plain"} : Goto(w, pc)
        BY <2>1, <3>5 DEF SendStep, StartSend, FirstLookClear, FirstLookBlocked,
           GiveUpSend, LookBlocked, WriteFails, DelayedGateEnd, StartPlain,
           TakeLockPlain, EndPlain, GateEnd
      <4>2. QED
        BY <2>3, <4>1 DEF Goto, TypeOK, LockedStates
    <3>6. QED
      BY <3>1, <3>2, <3>3, <3>4, <3>5
  <2>4. QED
    BY <2>2, <2>3
<1>3. CASE Tick
  <2>1. sendPc' = sendPc /\ unsure' = unsure /\ Timed(v)
    BY <1>3 DEF Tick, Timed, LockedStates, GatedStates
  <2>2. spent'[v] = spent[v] + 1 /\ marker' >= marker - 1
    BY <1>3, <2>1 DEF Tick, TypeOK
  <2>3. marker + spent[v] >= Budget(sendPc[v])
    BY <2>1 DEF Covered
  <2>4. marker \in Nat /\ marker' \in Nat /\ spent[v] \in Nat
    BY <1>0 DEF TypeOK
  <2>5. Budget(sendPc[v]) \in Int
    BY DEF Budget
  <2>6. QED
    BY <2>1, <2>2, <2>3, <2>4, <2>5
<1>4. QED
  BY <1>1, <1>2, <1>3, HookFrame DEF Next, ReadKeys, vars, sendVars

-----------------------------------------------------------------------------
(* A call on its way has a young stamp. *)

LEMMA NextNotYetPassed ==
  ASSUME TypeOK, NotYetPassed, [Next]_vars
  PROVE  NotYetPassed'
<1> SUFFICES ASSUME NEW g \in Hooks,
                    hookPc'[g] \in {"idle", "stamping", "stamped", "sleeping"}
             PROVE  passage'[g] = "none"
  BY DEF NotYetPassed
<1>1. CASE UNCHANGED <<hookPc, passage>>
  BY <1>1 DEF NotYetPassed
<1>2. CASE \E h \in Hooks : HookStep(h)
  <2>1. PICK h \in Hooks : HookStep(h)
    BY <1>2
  <2>2. CASE g = h
    BY <2>1, <2>2 DEF HookStep, StartHook, WriteStamp, ReadMarker, LetThrough, WakeHook,
       HookError, DrawDialog, HearOfDialog, CallGoesOn, TypeOK, NotYetPassed
  <2>3. CASE g # h
    BY <2>1, <2>3 DEF HookStep, StartHook, WriteStamp, ReadMarker, LetThrough, WakeHook,
       HookError, DrawDialog, HearOfDialog, CallGoesOn, TypeOK, NotYetPassed
  <2>4. QED
    BY <2>2, <2>3
<1>3. QED
  BY <1>1, <1>2, SendFrame DEF Next, ReadKeys, Tick, vars, hookVars

LEMMA NextStampYoung ==
  ASSUME TypeOK, NotYetPassed, StampYoung, [Next]_vars
  PROVE  StampYoung'
<1> SUFFICES ASSUME NEW g \in Hooks,
                    hookPc'[g] \in {"stamped", "passed", "drawn"}, passage'[g] # "error"
             PROVE  stamp'[g] < DialogLatency
  BY DEF StampYoung, InLatency
<1>1. CASE UNCHANGED <<hookPc, stamp, passage>>
  BY <1>1 DEF StampYoung, InLatency
<1>2. CASE \E h \in Hooks : HookStep(h)
  <2>1. PICK h \in Hooks : HookStep(h)
    BY <1>2
  <2>2. CASE g # h
    <3>1. hookPc'[g] = hookPc[g] /\ stamp'[g] = stamp[g] /\ passage'[g] = passage[g]
      BY <2>1, <2>2 DEF HookStep, StartHook, WriteStamp, ReadMarker, LetThrough,
         WakeHook, HookError, DrawDialog, HearOfDialog, CallGoesOn, TypeOK
    <3>2. QED
      BY <3>1 DEF StampYoung, InLatency
  <2>3. CASE g = h /\ WriteStamp(h)
    BY <2>3, Timing DEF WriteStamp, TypeOK
  <2>4. CASE g = h /\ ReadMarker(h)
    <3>1. hookPc[g] = "stamped" /\ stamp'[g] = stamp[g]
      BY <2>4 DEF ReadMarker, LetThrough, TypeOK
    <3>2. QED
      BY <3>1 DEF StampYoung, InLatency, NotYetPassed
  <2>5. CASE g = h /\ DrawDialog(h)
    BY <2>5 DEF DrawDialog, TypeOK, StampYoung, InLatency
  <2>6. CASE g = h /\ ~(WriteStamp(h) \/ ReadMarker(h) \/ DrawDialog(h))
    BY <2>1, <2>6 DEF HookStep, StartHook, WakeHook, HookError, LetThrough,
       HearOfDialog, CallGoesOn, TypeOK
  <2>7. QED
    BY <2>2, <2>3, <2>4, <2>5, <2>6
<1>3. CASE Tick
  <2>1. stamp[g] + 1 < DialogLatency
    BY <1>3 DEF Tick, MayTick, InLatency
  <2>2. stamp'[g] \in {stamp[g], stamp[g] + 1} /\ stamp[g] \in Nat
    BY <1>3, Timing DEF Tick, TypeOK
  <2>3. QED
    BY <2>1, <2>2, Timing
<1>4. QED
  BY <1>1, <1>2, <1>3, SendFrame DEF Next, ReadKeys, vars, hookVars

-----------------------------------------------------------------------------
(* From a clear look until the marker goes, no gated call is on its way. *)

\* A look that waited properly is clear only when nothing is on its way.
LEMMA ClearLook ==
  ASSUME TypeOK, StampYoung, NEW w \in Writers, LookOver(w), Quiet \/ Settled(w),
         NEW g \in Hooks
  PROVE  ~GatedDialog(g)
<1>1. stamp[g] >= DialogLatency
  BY Timing DEF TypeOK, Quiet, Settled, FreshPasses
<1>2. ~InLatency(g)
  BY <1>1, Timing DEF StampYoung, TypeOK
<1>3. hookPc[g] # "open"
  BY DEF LookOver, DialogKnown
<1>4. QED
  BY <1>2, <1>3 DEF InLatency, GatedDialog

\* A hook's step puts a gated call on its way only while no marker is up.
LEMMA HookStepGated ==
  ASSUME TypeOK, NEW h \in Hooks, HookStep(h), marker > 0, NEW g \in Hooks,
         ~GatedDialog(g)
  PROVE  ~GatedDialog(g)'
<1>1. CASE g # h
  BY <1>1 DEF HookStep, StartHook, WriteStamp, ReadMarker, LetThrough, WakeHook,
     HookError, DrawDialog, HearOfDialog, CallGoesOn, TypeOK, GatedDialog
<1>2. CASE g = h
  BY <1>2 DEF HookStep, StartHook, WriteStamp, ReadMarker, LetThrough, WakeHook,
     HookError, DrawDialog, HearOfDialog, CallGoesOn, TypeOK, GatedDialog
<1>3. QED
  BY <1>1, <1>2

LEMMA NextShielded ==
  ASSUME TypeOK, InTime, Covered, StampYoung, Shielded, [Next]_vars
  PROVE  Shielded'
<1> SUFFICES ASSUME NEW v \in Writers, sendPc'[v] \in LockedStates \ {"look"},
                    ~unsure'[v], NEW g \in Hooks
             PROVE  ~GatedDialog(g)'
  BY DEF Shielded
<1>1. CASE UNCHANGED <<sendPc, unsure, hookPc, passage>>
  BY <1>1 DEF Shielded, GatedDialog
<1>2. CASE \E h \in Hooks : HookStep(h)
  <2>1. sendPc' = sendPc /\ unsure' = unsure
    BY <1>2, HookFrame
  <2>2. marker > 0
    BY <2>1, CoveredMarkerUp
  <2>3. ~GatedDialog(g)
    BY <2>1 DEF Shielded
  <2>4. QED
    BY <1>2, <2>2, <2>3, HookStepGated
<1>3. CASE \E w \in Writers : SendStep(w)
  <2>1. PICK w \in Writers : SendStep(w)
    BY <1>3
  <2>2. GatedDialog(g)' <=> GatedDialog(g)
    BY <2>1, SendFrame DEF GatedDialog
  <2>3. CASE v # w
    <3>1. sendPc'[v] = sendPc[v] /\ unsure'[v] = unsure[v]
      BY <2>1, <2>3, OthersStay
    <3>2. QED
      BY <2>2, <3>1 DEF Shielded
  <2>4. CASE v = w /\ LookClear(w)
    <3>1. LookOver(w) /\ (Quiet \/ Settled(w))
      BY <2>4 DEF LookClear, LookOver, TypeOK
    <3>2. QED
      BY <2>2, <3>1, ClearLook
  <2>5. CASE v = w /\ (PieceWritten(w) \/ KeyWritten(w) \/ PressAgain(w))
    <3>1. sendPc[v] \in LockedStates \ {"look"} /\ unsure'[v] = unsure[v]
      BY <2>5 DEF PieceWritten, KeyWritten, PressAgain, LockedStates
    <3>2. QED
      BY <2>2, <3>1 DEF Shielded
  <2>6. CASE v = w /\ ~(LookClear(w) \/ PieceWritten(w) \/ KeyWritten(w) \/ PressAgain(w))
    <3>1. \E pc \in {"idle", "look1", "queued", "look", "plainQueued", "plain"} : Goto(w, pc)
      BY <2>1, <2>6 DEF SendStep, StartSend, FirstLookClear, FirstLookBlocked, TakeLock,
         GiveUpSend, LookBlocked, WriteFails, LookAgain, DelayedGateEnd, StartPlain,
         TakeLockPlain, EndPlain, GateEnd
    <3>2. QED
      BY <2>6, <3>1 DEF Goto, TypeOK, LockedStates
  <2>7. QED
    BY <2>3, <2>4, <2>5, <2>6
<1>4. QED
  BY <1>1, <1>2, <1>3 DEF Next, ReadKeys, Tick, vars, hookVars, sendVars

-----------------------------------------------------------------------------
(* A key not read yet belongs to a send whose marker is still up. *)

LEMMA NextKeyOwner ==
  ASSUME TypeOK, KeyOwner, [Next]_vars
  PROVE  KeyOwner'
<1> SUFFICES ASSUME unread' > 0, vouched'
             PROVE  \E v \in Writers : /\ sendPc'[v] \in {"gap", "ending"}
                                       /\ ~unsure'[v]
                                       /\ spent'[v] + unread' <= ReadLatency
  BY DEF KeyOwner
<1>1. CASE UNCHANGED <<sendPc, spent, unsure, unread, vouched>>
  BY <1>1 DEF KeyOwner
<1>2. CASE \E w \in Writers : SendStep(w)
  <2>1. PICK w \in Writers : SendStep(w)
    BY <1>2
  <2>2. CASE KeyWritten(w)
    <3>1. /\ sendPc'[w] \in {"gap", "ending"} /\ spent'[w] = 0 /\ unread' = ReadLatency
          /\ ~unsure'[w]
      BY <2>2 DEF KeyWritten, Goto, TypeOK
    <3>2. QED
      BY <3>1, Timing
  <2>3. CASE ~KeyWritten(w)
    <3>1. unread' = unread /\ vouched' = vouched
      BY <2>1, <2>3 DEF SendStep, StartSend, FirstLookClear, FirstLookBlocked, TakeLock,
         GiveUpSend, LookClear, LookBlocked, PieceWritten, WriteFails, LookAgain,
         PressAgain, DelayedGateEnd, StartPlain, TakeLockPlain, EndPlain, keyVars
    <3>2. PICK v \in Writers : /\ sendPc[v] \in {"gap", "ending"} /\ ~unsure[v]
                               /\ spent[v] + unread <= ReadLatency
      BY <3>1 DEF KeyOwner
    <3>3. spent[v] < AfterEnter
      BY <3>1, <3>2, Timing DEF TypeOK
    <3>4. v # w
      <4>1. SUFFICES ASSUME v = w PROVE FALSE
        OBVIOUS
      <4>2. GiveUpSend(v) \/ LookAgain(v) \/ PressAgain(v) \/ DelayedGateEnd(v)
        BY <2>1, <2>3, <3>2, <4>1 DEF SendStep, StartSend, FirstLookClear,
           FirstLookBlocked, TakeLock, LookClear, LookBlocked, PieceWritten, KeyWritten,
           WriteFails, StartPlain, TakeLockPlain, EndPlain
      <4>3. spent[v] >= AfterEnter
        BY <3>2, <4>2, Timing DEF GiveUpSend, LookAgain, PressAgain, DelayedGateEnd, TypeOK
      <4>4. QED
        BY <3>3, <4>3, Timing DEF TypeOK
    <3>5. QED
      BY <2>1, <3>1, <3>2, <3>4, OthersStay
  <2>4. QED
    BY <2>2, <2>3
<1>3. CASE Tick
  <2>1. unread > 0 /\ unread' = unread - 1 /\ vouched
    BY <1>3 DEF Tick, TypeOK
  <2>2. PICK v \in Writers : /\ sendPc[v] \in {"gap", "ending"} /\ ~unsure[v]
                             /\ spent[v] + unread <= ReadLatency
    BY <2>1 DEF KeyOwner
  <2>3. sendPc'[v] = sendPc[v] /\ unsure'[v] = unsure[v] /\ spent'[v] = spent[v] + 1
    BY <1>3, <2>2 DEF Tick, Timed, GatedStates
  <2>4. spent[v] \in Nat /\ unread \in Nat
    BY Timing DEF TypeOK
  <2>5. QED
    BY <2>1, <2>2, <2>3, <2>4, Timing
<1>4. CASE ReadKeys
  BY <1>4 DEF ReadKeys
<1>5. QED
  BY <1>1, <1>2, <1>3, <1>4, HookFrame DEF Next, vars, sendVars, keyVars

-----------------------------------------------------------------------------
(* The theorems. *)

LEMMA InitInv == Init => Inv
<1> SUFFICES ASSUME Init PROVE Inv
  OBVIOUS
<1>1. TypeOK
  BY InitType
<1>2. InTime /\ Covered /\ Shielded /\ KeyOwner
  BY DEF Init, InTime, Covered, Shielded, KeyOwner, LockedStates
<1>3. NotYetPassed /\ StampYoung
  BY DEF Init, NotYetPassed, StampYoung, InLatency
<1>4. QED
  BY <1>1, <1>2, <1>3 DEF Inv

LEMMA NextInv == Inv /\ [Next]_vars => Inv'
  BY NextType, NextInTime, NextCovered, NextNotYetPassed, NextStampYoung, NextShielded,
     NextKeyOwner DEF Inv

LEMMA Invariance == Spec => []Inv
  BY InitInv, NextInv, PTL DEF Spec

\* From a look that waited properly until Claude Code has read the key, no call
\* that the gate took has a dialog drawn, seen or unseen.
THEOREM KeysAreSafe == Spec => []KeySafe
<1>1. Inv => KeySafe
  BY DEF Inv, KeySafe, Shielded, KeyOwner, LockedStates
<1>2. QED
  BY <1>1, Invariance, PTL

\* The marker never expires under a send that may write or has a key unread.
THEOREM MarkerStaysUp == Spec => []MarkerUp
<1>1. Inv => MarkerUp
  BY CoveredMarkerUp DEF Inv, MarkerUp, LockedStates
<1>2. QED
  BY <1>1, Invariance, PTL

\* A call the gate stamped is fresh to the looks until its dialog is known.
THEOREM UnseenIsFresh == Spec => []FreshWhileUnseen
<1>1. Inv => FreshWhileUnseen
  BY Timing DEF Inv, FreshWhileUnseen, FreshPasses, StampYoung, InLatency, TypeOK
<1>2. QED
  BY <1>1, Invariance, PTL

\* No marker is left behind by the last send, and none is taken from another.
THEOREM MarkerIsHeld == Spec => []MarkerHeld
<1>1. Init => MarkerHeld
  BY DEF Init, MarkerHeld
<1>2. TypeOK /\ MarkerHeld /\ [Next]_vars => MarkerHeld'
  <2> SUFFICES ASSUME TypeOK, MarkerHeld, [Next]_vars, marker' > 0
               PROVE  \E v \in Writers : HoldsMarker(v)'
    BY DEF MarkerHeld
  <2>1. CASE UNCHANGED <<marker, sendPc>>
    BY <2>1 DEF MarkerHeld, HoldsMarker
  <2>2. CASE Tick
    BY <2>2, Timing DEF Tick, MarkerHeld, HoldsMarker, TypeOK
  <2>3. CASE \E w \in Writers : SendStep(w)
    <3>1. PICK w \in Writers : SendStep(w)
      BY <2>3
    <3>2. CASE \E pc \in GatedStates : Goto(w, pc)
      BY <3>2 DEF Goto, HoldsMarker, TypeOK
    <3>3. CASE GateEnd(w)
      <4>1. PICK v \in Writers \ {w} : HoldsMarker(v)
        BY <3>3 DEF GateEnd
      <4>2. sendPc'[v] = sendPc[v]
        BY <3>1, <4>1, OthersStay
      <4>3. QED
        BY <4>1, <4>2 DEF HoldsMarker
    <3>4. CASE StartPlain(w) \/ TakeLockPlain(w) \/ EndPlain(w)
      <4>1. marker > 0 /\ ~HoldsMarker(w)
        BY <3>4 DEF StartPlain, TakeLockPlain, EndPlain, HoldsMarker, GatedStates
      <4>2. PICK v \in Writers : HoldsMarker(v)
        BY <4>1 DEF MarkerHeld
      <4>3. sendPc'[v] = sendPc[v]
        BY <3>1, <4>1, <4>2, OthersStay
      <4>4. QED
        BY <4>2, <4>3 DEF HoldsMarker
    <3>5. QED
      BY <3>1, <3>2, <3>3, <3>4 DEF SendStep, StartSend, FirstLookClear,
         FirstLookBlocked, TakeLock, GiveUpSend, LookClear, LookBlocked, PieceWritten,
         KeyWritten, WriteFails, LookAgain, PressAgain, DelayedGateEnd, GatedStates
  <2>4. QED
    BY <2>1, <2>2, <2>3, HookFrame DEF Next, ReadKeys, vars, sendVars
<1>3. QED
  BY <1>1, <1>2, TypeCorrect, PTL DEF Spec
=============================================================================
