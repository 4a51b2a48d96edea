------------------------ MODULE TerminalWriterProofs ------------------------
(***************************************************************************)
(* Proofs about TerminalWriter, for any number of writers of each kind and *)
(* any sizes.                                                              *)
(*                                                                         *)
(* Inv: the types and the form of what a writer has left to do.            *)
(* ChordInv adds what a chord's two writes rely on: the count check of     *)
(* send_now lets no lone Ctrl+S through as long as no write is given up    *)
(* while it still runs (with "timeout" among the faults it does not hold:  *)
(* a late write comes without its count).                                  *)
(* TextInv follows the text itself: what is in the box and in the queue at *)
(* each write of a hold, what is owed a wipe, and what was submitted.  It  *)
(* holds of every run, with Stops, failed and timed out writes and kills   *)
(* the session survives: what it says of the box is said while no text is  *)
(* out of sight (upset), and each step that loses track of text raises     *)
(* that history, until nothing is left of it.                              *)
(***************************************************************************)
EXTENDS TerminalWriter, Integers, TLAPS

PlainWrite == {x \in Write : x.key # "CtrlS"}

(* What a writer still has to do has the form its kind gives it.           *)
JobShape ==
  \A w \in Writers :
    /\ phase[w] # "done" => job[w] # <<>>
    /\ w \in Prompts => job[w] \in {<<"prompt">>, <<>>}
    /\ w \in Chords => job[w] \in {<<"CtrlX", "CtrlS">>, <<"CtrlS">>, <<>>}
    /\ w \in Clears \cup Stops => job[w] \in Seq({"Escape", "discard"})
    /\ w \in Stops /\ phase[w] = "idle" => Len(job[w]) = 3

(* A writer that holds the lock still has a write to make; only a chord's  *)
(* is a Ctrl+S.  A prompt's writes are Ctrl+U until only its text and its  *)
(* Enter are left.                                                         *)
HoldShape ==
  \A w \in Writers :
    phase[w] = "hold" =>
      /\ HasLock(w)
      /\ left[w] # <<>>
      /\ w \in Chords => left[w] = <<Key(Op(w))>>
      /\ w \notin Chords => left[w] \in Seq(PlainWrite)
      /\ w \in Prompts => \A i \in 1..Len(left[w]) :
           left[w][i].key # "KillLine" => Len(left[w]) - i <= Pieces

(* A chord whose Ctrl+X nothing followed finds it still pending, unless a  *)
(* dialog took it, which then takes the Ctrl+S too; whoever holds the lock *)
(* next has been counted.                                                  *)
ChordShape ==
  \A c \in Chords :
    /\ phase[c] = "hold" => c \notin broken
    /\ job[c] = <<"CtrlS">> /\ c \notin broken /\ term.alive
         => term.prefix \/ term.dialog
    /\ job[c] = <<"CtrlS">> => \A w \in Writers \ {c} :
         phase[w] = "hold" => c \in broken

Inv == StateTypes /\ JobShape /\ HoldShape

ChordInv == Inv /\ ChordShape /\ NoStash /\ strays = {}

(* ------------------------------- operators ----------------------------- *)

LEMMA SizesHold ==
  /\ Pieces \in Nat /\ Pieces > 0
  /\ Batch \in Nat /\ Batch > 0
  /\ MinPresses \in Nat /\ MaxPresses \in Nat
  BY Sizes

(* A wipe is some whole number of Ctrl+U writes.                           *)
LEMMA WipeType ==
  ASSUME NEW n \in Nat
  PROVE  /\ WipeWrites(n) \in Nat
         /\ Wipe(n) \in Seq(PlainWrite)
         /\ Len(Wipe(n)) = WipeWrites(n)
         /\ \A i \in 1..Len(Wipe(n)) : Wipe(n)[i].key = "KillLine"
<1>1. Fewest(MaxPresses, MinPresses + n) + Batch - 1 \in Nat
  BY SizesHold DEF Fewest
<1>2. \A a \in Nat, b \in Nat : b > 0 => a \div b \in Nat
  OBVIOUS
<1>3. WipeWrites(n) \in Nat
  BY <1>1, <1>2, SizesHold DEF WipeWrites
<1>4. Key("KillLine") \in PlainWrite
  BY DEF PlainWrite, Write, Key
<1> QED BY <1>3, <1>4 DEF Wipe, Key

LEMMA PromptType ==
  ASSUME NEW p \in Prompts
  PROVE  /\ Prompt(p) \in Seq(PlainWrite)
         /\ Len(Prompt(p)) = Pieces + 1
         /\ \A i \in 1..Len(Prompt(p)) : Prompt(p)[i].key # "KillLine"
<1>1. \A i \in 1..Pieces : Piece(p, i) \in PlainWrite
  BY DEF PlainWrite, Write, Piece
<1>2. Key("Enter") \in PlainWrite
  BY DEF PlainWrite, Write, Key
<1> QED BY <1>1, <1>2, SizesHold DEF Prompt, Piece, Key

(* The terminal stays a terminal whatever it reads.                        *)
LEMMA LandedType ==
  ASSUME NEW t \in Terminal, NEW w \in Write, NEW u \in Landed(t, w)
  PROVE  u \in Terminal
<1>0. w.key \in {"text", "Enter", "Escape", "KillLine", "CtrlX", "CtrlS"}
  BY DEF Write, Key, Piece
<1> DEFINE v == [t EXCEPT !.prefix = FALSE]
<1>a. /\ t.box \in Seq(Unit) /\ t.queue \in Seq(Unit)
      /\ t.submitted \in SUBSET Seq(Unit)
  BY DEF Terminal
<1>b. v \in Terminal /\ v.box = t.box /\ v.queue = t.queue
  BY DEF Terminal
<1>c. Submit(t) \in SUBSET Seq(Unit)
  BY <1>a DEF Submit
<1>1. CASE t.dialog
  BY <1>1, <1>b DEF Landed, Terminal
<1>2. CASE ~t.dialog /\ w.key = "text"
  <2>1. w.unit \in Unit
    BY <1>2 DEF Write, Key, Piece, Unit
  <2>2. Append(t.box, w.unit) \in Seq(Unit)
    BY <2>1, <1>a
  <2>3. u = [v EXCEPT !.box = Append(v.box, w.unit)]
    BY <1>2 DEF Landed
  <2> QED BY <2>2, <2>3, <1>b DEF Terminal
<1>3. CASE ~t.dialog /\ w.key = "Enter"
  <2>1. u = [v EXCEPT !.queue = v.queue \o t.box, !.box = <<>>,
                      !.submitted = Submit(t)]
    BY <1>3 DEF Landed
  <2>2. v.queue \o t.box \in Seq(Unit) /\ <<>> \in Seq(Unit)
    BY <1>a, <1>b
  <2> HIDE DEF v
  <2> QED BY <2>1, <2>2, <1>b, <1>c DEF Terminal
<1>4. CASE ~t.dialog /\ w.key = "Escape"
  <2>1. u = [v EXCEPT !.box = t.queue \o v.box, !.queue = <<>>]
    BY <1>4 DEF Landed
  <2>2. t.queue \o v.box \in Seq(Unit) /\ <<>> \in Seq(Unit)
    BY <1>a, <1>b
  <2> HIDE DEF v
  <2> QED BY <2>1, <2>2, <1>b DEF Terminal
<1>5. CASE ~t.dialog /\ w.key = "KillLine"
  <2>1. PICK k \in 0..Len(t.box) : u = [v EXCEPT !.box = SubSeq(v.box, 1, k)]
    BY <1>5 DEF Landed
  <2>2. SubSeq(v.box, 1, k) \in Seq(Unit)
    BY <2>1, <1>a, <1>b
  <2> HIDE DEF v
  <2> QED BY <2>1, <2>2, <1>b DEF Terminal
<1>6. CASE ~t.dialog /\ w.key = "CtrlX"
  BY <1>6, <1>b DEF Landed, Terminal
<1>7. CASE ~t.dialog /\ w.key = "CtrlS"
  <2>1. \/ u = [v EXCEPT !.queue = <<>>, !.box = <<>>, !.submitted = Submit(t)]
        \/ u = [v EXCEPT !.box = <<>>, !.stashed = TRUE]
    BY <1>7 DEF Landed
  <2>2. <<>> \in Seq(Unit)
    OBVIOUS
  <2> HIDE DEF v
  <2> QED BY <2>1, <2>2, <1>b, <1>c DEF Terminal
<1> QED BY <1>0, <1>1, <1>2, <1>3, <1>4, <1>5, <1>6, <1>7

(* What one write may do to the parts a chord depends on.                  *)
LEMMA LandedEffect ==
  ASSUME NEW t \in Terminal, NEW w \in Write, NEW u \in Landed(t, w)
  PROVE  /\ u.alive = t.alive
         /\ w.key = "CtrlX" => u.prefix \/ u.dialog
         /\ w.key # "CtrlS" \/ t.prefix \/ t.dialog => u.stashed = t.stashed
<1>0. w.key \in {"text", "Enter", "Escape", "KillLine", "CtrlX", "CtrlS"}
  BY DEF Write, Key, Piece
<1>1. CASE t.dialog
  BY <1>1 DEF Landed, Terminal
<1>2. CASE ~t.dialog /\ w.key = "KillLine"
  <2>1. PICK k \in 0..Len(t.box) :
          u = [[t EXCEPT !.prefix = FALSE] EXCEPT !.box = SubSeq(@, 1, k)]
    BY <1>2 DEF Landed
  <2> QED BY <2>1, <1>2 DEF Terminal
<1>3. CASE ~t.dialog /\ w.key # "KillLine"
  BY <1>0, <1>3 DEF Landed, Terminal
<1> QED BY <1>1, <1>2, <1>3

(* ----------------------------- one writer's end ------------------------ *)

Results == {"ok", "failed", "dialog", "refused"}

(* Ending a hold keeps every shape, touches nobody else, and leaves a      *)
(* Ctrl+S to do only after a Ctrl+X that went in.                          *)
LEMMA EndOpEffect ==
  ASSUME Inv, NEW w \in Writers, phase[w] # "done", NEW r \in Results,
         EndOp(w, r)
  PROVE  /\ job' \in [Writers -> Seq(Ops)]
         /\ phase' \in [Writers -> {"idle", "ready", "queued", "hold", "done"}]
         /\ left' \in [Writers -> Seq(Write)]
         /\ outcome' \in [Writers -> {"none", "ok", "failed", "dialog", "refused"}]
         /\ lockQueue' \in Seq(Writers)
         /\ inFlight' \subseteq Chords
         /\ JobShape' /\ HoldShape'
         /\ \A v \in Writers \ {w} : job'[v] = job[v] /\ phase'[v] = phase[v]
         /\ phase'[w] \in {"ready", "done"}
         /\ job'[w] = <<"CtrlS">> =>
              r = "ok" /\ w \in Chords /\ job[w] = <<"CtrlX", "CtrlS">>
<1> USE DEF Inv
<1> DEFINE rest == IF r = "ok" \/ Op(w) = "Escape" THEN Tail(job[w]) ELSE <<>>
<1>1. /\ job' = [job EXCEPT ![w] = rest]
      /\ phase' = [phase EXCEPT ![w] = IF rest = <<>> THEN "done" ELSE "ready"]
      /\ outcome' = [outcome EXCEPT ![w] = r]
      /\ left' = [left EXCEPT ![w] = <<>>]
      /\ lockQueue' = IF HasLock(w) THEN Tail(lockQueue) ELSE lockQueue
      /\ inFlight' = IF rest = <<>> THEN inFlight \ {w} ELSE inFlight
  BY DEF EndOp
<1>2. job[w] \in Seq(Ops) /\ job[w] # <<>>
  BY DEF StateTypes, JobShape
<1>3. /\ w \in Prompts => rest = <<>>
      /\ w \in Chords => \/ rest = <<>>
                         \/ /\ rest = <<"CtrlS">> /\ r = "ok"
                            /\ job[w] = <<"CtrlX", "CtrlS">>
      /\ w \in Clears \cup Stops => rest \in Seq({"Escape", "discard"})
      /\ rest \in Seq(Ops)
  <2>1. CASE w \in Prompts
    <3>1. job[w] = <<"prompt">> BY <1>2, <2>1 DEF JobShape
    <3> QED BY <3>1, <2>1, RolesApart DEF Op, Ops
  <2>2. CASE w \in Chords
    <3>1. job[w] \in {<<"CtrlX", "CtrlS">>, <<"CtrlS">>} BY <1>2, <2>2 DEF JobShape
    <3>2. Op(w) # "Escape" BY <3>1 DEF Op
    <3>3. Tail(<<"CtrlX", "CtrlS">>) = <<"CtrlS">> /\ Tail(<<"CtrlS">>) = <<>>
      OBVIOUS
    <3>4. rest = <<>> \/ (rest = <<"CtrlS">> /\ r = "ok" /\ job[w] = <<"CtrlX", "CtrlS">>)
      BY <3>1, <3>2, <3>3
    <3>5. <<"CtrlS">> \in Seq(Ops) /\ <<>> \in Seq(Ops) BY DEF Ops
    <3> QED BY <3>4, <3>5, <2>2, RolesApart
  <2>3. CASE w \in Clears \cup Stops
    <3>1. job[w] \in Seq({"Escape", "discard"}) BY <2>3 DEF JobShape
    <3>2. rest \in Seq({"Escape", "discard"}) BY <3>1, <1>2
    <3>3. rest \in Seq(Ops) BY <1>2
    <3> QED BY <3>2, <3>3, <2>3, RolesApart
  <2> QED BY <2>1, <2>2, <2>3 DEF Writers
<1>4. /\ \A v \in Writers \ {w} :
           job'[v] = job[v] /\ phase'[v] = phase[v] /\ left'[v] = left[v]
      /\ job'[w] = rest
      /\ phase'[w] = IF rest = <<>> THEN "done" ELSE "ready"
  BY <1>1 DEF StateTypes
<1> HIDE DEF rest
<1>5. JobShape'
  BY <1>3, <1>4 DEF JobShape
<1>6. \A v \in Writers \ {w} : phase[v] = "hold" => lockQueue' = lockQueue
  BY <1>1 DEF HoldShape, HasLock
<1>7. HoldShape'
  <2> SUFFICES ASSUME NEW v \in Writers, phase'[v] = "hold"
               PROVE  /\ HasLock(v)'
                      /\ left'[v] # <<>>
                      /\ v \in Chords => left'[v] = <<Key(Op(v)')>>
                      /\ v \notin Chords => left'[v] \in Seq(PlainWrite)
                      /\ v \in Prompts => \A i \in 1..Len(left'[v]) :
                           left'[v][i].key # "KillLine" => Len(left'[v]) - i <= Pieces
    BY DEF HoldShape
  <2>1. v # w BY <1>4
  <2>2. lockQueue' = lockQueue /\ left'[v] = left[v] /\ job'[v] = job[v]
        /\ phase[v] = "hold"
    BY <2>1, <1>4, <1>6
  <2> QED BY <2>2 DEF HoldShape, HasLock, Op
<1>8. /\ outcome' \in [Writers -> {"none", "ok", "failed", "dialog", "refused"}]
      /\ left' \in [Writers -> Seq(Write)]
      /\ job' \in [Writers -> Seq(Ops)]
      /\ phase' \in [Writers -> {"idle", "ready", "queued", "hold", "done"}]
      /\ inFlight' \subseteq Chords
  <2>1. <<>> \in Seq(Write) OBVIOUS
  <2> QED BY <1>1, <1>3, <2>1 DEF StateTypes, Results
<1>9. lockQueue' \in Seq(Writers)
  BY <1>1 DEF StateTypes, HasLock
<1>10. job'[w] = <<"CtrlS">> =>
         r = "ok" /\ w \in Chords /\ job[w] = <<"CtrlX", "CtrlS">>
  <2>1. <<"CtrlS">> \notin Seq({"Escape", "discard"})
    <3>1. <<"CtrlS">>[1] \notin {"Escape", "discard"} OBVIOUS
    <3> QED BY <3>1
  <2> QED BY <1>3, <1>4, <2>1 DEF Writers
<1> QED BY <1>4, <1>5, <1>7, <1>8, <1>9, <1>10

(* Ending a hold on a failure, all else untouched, keeps the chords safe.  *)
LEMMA FailKeepsChords ==
  ASSUME Inv, ChordShape, NEW w \in Writers, phase[w] # "done",
         NEW r \in Results \ {"ok"}, EndOp(w, r),
         UNCHANGED <<term, broken>>
  PROVE  ChordShape'
<1>1. /\ \A v \in Writers \ {w} : job'[v] = job[v] /\ phase'[v] = phase[v]
      /\ phase'[w] \in {"ready", "done"}
      /\ job'[w] # <<"CtrlS">>
  BY EndOpEffect
<1> QED BY <1>1 DEF ChordShape, Writers

(* -------------------------- types and lock holds ----------------------- *)

(* The writes of a hold just taken have the form the shapes ask for.       *)
LEMMA HoldWritesType ==
  ASSUME Inv, NEW w \in Writers, phase[w] # "done"
  PROVE  /\ HoldWrites(w) \in Seq(Write)
         /\ HoldWrites(w) # <<>>
         /\ w \in Chords => HoldWrites(w) = <<Key(Op(w))>>
         /\ w \notin Chords => HoldWrites(w) \in Seq(PlainWrite)
         /\ w \in Prompts => \A i \in 1..Len(HoldWrites(w)) :
              HoldWrites(w)[i].key # "KillLine"
                => Len(HoldWrites(w)) - i <= Pieces
<1> USE DEF Inv
<1>0. /\ pendingWipe \in Nat /\ chars[w] \in Nat /\ job[w] # <<>>
      /\ PlainWrite \subseteq Write
      /\ \A q \in Seq(PlainWrite) : q \in Seq(Write)
  BY DEF StateTypes, JobShape, PlainWrite
<1>1. CASE w \in Prompts
  <2> DEFINE head == IF pendingWipe > 0 THEN Wipe(pendingWipe) ELSE <<>>
  <2>1. Op(w) = "prompt" /\ w \notin Chords
    BY <1>0, <1>1, RolesApart DEF JobShape, Op
  <2>2. HoldWrites(w) = head \o Prompt(w)
    BY <2>1 DEF HoldWrites
  <2>3. /\ head \in Seq(PlainWrite)
        /\ \A i \in 1..Len(head) : head[i].key = "KillLine"
    BY <1>0, WipeType
  <2>4. /\ Prompt(w) \in Seq(PlainWrite) /\ Len(Prompt(w)) = Pieces + 1
    BY <1>1, PromptType
  <2> HIDE DEF head
  <2>5. /\ HoldWrites(w) \in Seq(PlainWrite)
        /\ Len(HoldWrites(w)) = Len(head) + Pieces + 1
        /\ \A i \in 1..Len(head) : HoldWrites(w)[i] = head[i]
    <3>1. \A a, b \in Seq(PlainWrite) :
            /\ a \o b \in Seq(PlainWrite)
            /\ Len(a \o b) = Len(a) + Len(b)
            /\ \A i \in 1..Len(a) : (a \o b)[i] = a[i]
      OBVIOUS
    <3>2. Len(head \o Prompt(w)) = Len(head) + Len(Prompt(w))
      BY <3>1, <2>3, <2>4
    <3>3. Len(head) + (Pieces + 1) = Len(head) + Pieces + 1
      BY <2>3, SizesHold
    <3> QED BY <3>1, <3>2, <3>3, <2>2, <2>3, <2>4
  <2>6. \A i \in 1..Len(HoldWrites(w)) : HoldWrites(w)[i].key # "KillLine"
           => Len(HoldWrites(w)) - i <= Pieces
    <3> SUFFICES ASSUME NEW i \in 1..Len(HoldWrites(w)),
                        HoldWrites(w)[i].key # "KillLine"
                 PROVE  Len(HoldWrites(w)) - i <= Pieces
      OBVIOUS
    <3>1. i \notin 1..Len(head) BY <2>3, <2>5
    <3>2. Len(head) \in Nat BY <2>3
    <3> QED BY <3>1, <3>2, <2>5, SizesHold
  <2>7. HoldWrites(w) # <<>>
    BY <2>5, <2>3, SizesHold
  <2> QED BY <2>1, <2>5, <2>6, <2>7, <1>0
<1>2. CASE w \in Chords
  <2>1. Op(w) \in {"CtrlX", "CtrlS"} /\ w \notin Prompts
    BY <1>0, <1>2, RolesApart DEF JobShape, Op
  <2>2. HoldWrites(w) = <<Key(Op(w))>>
    BY <2>1 DEF HoldWrites
  <2>3. Key(Op(w)) \in Write
    BY <2>1 DEF Write
  <2> QED BY <1>2, <2>1, <2>2, <2>3
<1>3. CASE w \in Clears \cup Stops
  <2>1. Op(w) \in {"Escape", "discard"} /\ w \notin Prompts /\ w \notin Chords
    BY <1>0, <1>3, RolesApart DEF JobShape, Op
  <2>2. Key("Escape") \in PlainWrite
    BY DEF PlainWrite, Write, Key
  <2>3. Wipe(chars[w]) \in Seq(PlainWrite)
    BY <1>0, WipeType
  <2>4. /\ <<Key("Escape")>> \o Wipe(chars[w]) \in Seq(PlainWrite)
        /\ <<Key("Escape")>> \o Wipe(chars[w]) # <<>>
    BY <2>2, <2>3
  <2>5. HoldWrites(w) \in {<<Key("Escape")>> \o Wipe(chars[w]), <<Key("Escape")>>}
    <3>1. CASE Op(w) = "discard" BY <3>1 DEF HoldWrites
    <3>2. CASE Op(w) = "Escape" BY <3>2 DEF HoldWrites
    <3> QED BY <2>1, <3>1, <3>2
  <2>6. <<Key("Escape")>> \in Seq(PlainWrite) /\ <<Key("Escape")>> # <<>>
    BY <2>2
  <2>7. HoldWrites(w) \in Seq(PlainWrite) /\ HoldWrites(w) # <<>>
    BY <2>4, <2>5, <2>6
  <2> QED BY <2>1, <2>7, <1>0
<1> QED BY <1>1, <1>2, <1>3 DEF Writers

(* The next write of a hold is a write, and a hold is its lock's head.     *)
LEMMA NextWriteType ==
  ASSUME Inv, NEW w \in Writers, phase[w] = "hold"
  PROVE  /\ NextWrite(w) \in Write
         /\ left[w] \in Seq(Write) /\ left[w] # <<>>
         /\ Len(left[w]) \in Nat \ {0}
  BY DEF Inv, StateTypes, HoldShape, NextWrite

LEMMA PromptIsWriter == ASSUME NEW p \in Prompts PROVE p \in Writers
  BY DEF Writers

(* What is owed stays a number: at most the prompt itself was typed.       *)
LEMMA TypedType ==
  ASSUME Inv, NEW p \in Prompts, phase[p] = "hold", LookBlocks(p)
  PROVE  Typed(p) \in Nat
<1>1. Len(left[p]) \in Nat \ {0} /\ left[p][1].key # "KillLine"
  BY NextWriteType, PromptIsWriter DEF LookBlocks, NextWrite
<1>2. Len(left[p]) - 1 <= Pieces
  BY <1>1, PromptIsWriter DEF Inv, HoldShape
<1> QED BY <1>1, <1>2, SizesHold DEF Typed

LEMMA TypesInit == Init => Inv
<1> SUFFICES ASSUME Init PROVE Inv
  OBVIOUS
<1>1. \A w \in Writers :
        /\ w \in Prompts => job[w] = <<"prompt">>
        /\ w \in Chords => job[w] = <<"CtrlX", "CtrlS">>
        /\ w \in Clears => job[w] = <<"discard">>
        /\ w \in Stops => job[w] = <<"Escape", "Escape", "discard">>
  BY RolesApart DEF Init, Writers
<1>a. /\ <<"Escape", "Escape", "discard">> \in Seq({"Escape", "discard"})
      /\ <<"discard">> \in Seq({"Escape", "discard"})
      /\ Len(<<"Escape", "Escape", "discard">>) = 3
      /\ <<"prompt">> \in Seq(Ops) /\ <<"CtrlX", "CtrlS">> \in Seq(Ops)
      /\ <<"Escape", "Escape", "discard">> \in Seq(Ops)
      /\ <<"discard">> \in Seq(Ops)
  BY DEF Ops
<1>2. StateTypes
  <2>1. term \in Terminal BY DEF Init, FreshTerminal, Terminal
  <2> DEFINE plan(w) == CASE w \in Prompts -> <<"prompt">>
                          [] w \in Chords  -> <<"CtrlX", "CtrlS">>
                          [] w \in Clears  -> <<"discard">>
                          [] w \in Stops   -> <<"Escape", "Escape", "discard">>
  <2>2. job = [w \in Writers |-> plan(w)]
    BY DEF Init
  <2> HIDE DEF plan
  <2>3. \A w \in Writers : plan(w) \in Seq(Ops)
    BY <1>1, <1>a, <2>2 DEF Writers
  <2>4. job \in [Writers -> Seq(Ops)]
    BY <2>2, <2>3
  <2>5. /\ left \in [Writers -> Seq(Write)] /\ lockQueue \in Seq(Writers)
        /\ chars \in [Writers -> Nat]
        /\ phase \in [Writers -> {"idle", "ready", "queued", "hold", "done"}]
        /\ outcome \in [Writers -> {"none", "ok", "failed", "dialog", "refused"}]
    BY DEF Init
  <2> QED BY <2>1, <2>4, <2>5 DEF Init, StateTypes
<1>3. JobShape
  <2>1. \A w \in Writers : job[w] # <<>>
    BY <1>1 DEF Writers
  <2>2. \A w \in Clears \cup Stops : job[w] \in Seq({"Escape", "discard"})
    BY <1>1, <1>a DEF Writers
  <2>3. \A w \in Stops : Len(job[w]) = 3
    BY <1>1, <1>a DEF Writers
  <2> QED BY <1>1, <2>1, <2>2, <2>3 DEF JobShape
<1>4. HoldShape
  BY DEF Init, HoldShape
<1> QED BY <1>2, <1>3, <1>4 DEF Inv

(* Every step keeps the types and the shapes, whatever the faults.         *)
LEMMA TypesStep == Inv /\ [Next]_vars => Inv'
<1> SUFFICES ASSUME Inv, [Next]_vars PROVE Inv'
  OBVIOUS
<1> USE DEF Inv
<1>0. \A w \in Prompts \cup Chords \cup Clears \cup Stops : w \in Writers
  BY DEF Writers
<1>1. ASSUME NEW p \in Prompts, StartPrompt(p) PROVE Inv'
  BY <1>1, RolesApart DEF StartPrompt, StateTypes, JobShape, HoldShape, HasLock, Op
<1>2. ASSUME NEW d \in Clears, StartClear(d) PROVE Inv'
  <2>1. Len(term.queue) \in Nat BY DEF StateTypes, Terminal
  <2> QED BY <1>2, <2>1, RolesApart
        DEF StartClear, StateTypes, JobShape, HoldShape, HasLock, Op
<1>3. ASSUME NEW s \in Stops, StartStop(s) PROVE Inv'
  <2> DEFINE plan == IF term.queue = <<>> THEN SubSeq(job[s], 1, 2) ELSE job[s]
  <2>1. Len(term.queue) \in Nat BY DEF StateTypes, Terminal
  <2>2. /\ job[s] \in Seq({"Escape", "discard"}) /\ job[s] \in Seq(Ops)
        /\ Len(job[s]) = 3
    BY <1>0, <1>3 DEF StartStop, JobShape, StateTypes
  <2>3. plan \in Seq({"Escape", "discard"}) /\ plan \in Seq(Ops) /\ plan # <<>>
    BY <2>2
  <2>4. /\ job' = [job EXCEPT ![s] = plan] /\ phase[s] = "idle"
        /\ phase' = [phase EXCEPT ![s] = "ready"]
        /\ chars' = [chars EXCEPT ![s] = Len(term.queue)]
        /\ UNCHANGED <<term, pendingWipe, left, outcome, lockQueue, inFlight,
                       broken, strays, parked>>
    BY <1>3 DEF StartStop
  <2> HIDE DEF plan
  <2>5. StateTypes' BY <2>1, <2>3, <2>4 DEF StateTypes
  <2>6. JobShape' BY <1>0, <2>3, <2>4, RolesApart DEF StateTypes, JobShape
  <2>7. HoldShape' BY <1>0, <2>4 DEF StateTypes, HoldShape, HasLock, Op
  <2> QED BY <2>5, <2>6, <2>7
<1>4. ASSUME NEW w \in Writers, phase[w] \in {"idle", "ready"},
             phase' = [phase EXCEPT ![w] = "queued"],
             lockQueue' = Append(lockQueue, w), inFlight' \subseteq Chords,
             UNCHANGED <<term, pendingWipe, job, left, chars, outcome, broken,
                         strays, parked>>
      PROVE  Inv'
  <2>1. lockQueue \in Seq(Writers)
    BY DEF StateTypes
  <2>2. /\ lockQueue' \in Seq(Writers)
        /\ lockQueue # <<>> => lockQueue' # <<>> /\ Head(lockQueue') = Head(lockQueue)
    <3>1. \A q \in Seq(Writers) : /\ Append(q, w) \in Seq(Writers)
                                  /\ Append(q, w) # <<>>
                                  /\ q # <<>> => Append(q, w)[1] = q[1]
      OBVIOUS
    <3> QED BY <1>4, <2>1, <3>1
  <2>3. StateTypes' BY <1>4, <2>2 DEF StateTypes
  <2>4. JobShape' BY <1>4 DEF StateTypes, JobShape
  <2>5. \A v \in Writers : HasLock(v) => HasLock(v)'
    BY <2>2 DEF HasLock
  <2>6. HoldShape' BY <1>4, <2>5 DEF StateTypes, HoldShape, Op
  <2> QED BY <2>3, <2>4, <2>6
<1>5. ASSUME NEW w \in Writers, \/ w \in Chords /\ StartChord(w)
                               \/ AskForLock(w)
      PROVE  Inv'
  <2>1. inFlight \subseteq Chords
    BY DEF StateTypes
  <2>2. CASE w \in Chords /\ StartChord(w)
    BY <1>4, <2>1, <2>2 DEF StartChord
  <2>3. CASE AskForLock(w)
    BY <1>4, <2>1, <2>3 DEF AskForLock
  <2> QED BY <1>5, <2>2, <2>3
<1>6. ASSUME NEW w \in Writers, TakeLock(w) PROVE Inv'
  <2>1. /\ phase[w] = "queued" /\ HasLock(w)
        /\ phase' = [phase EXCEPT ![w] = "hold"]
        /\ left' = [left EXCEPT ![w] = HoldWrites(w)]
        /\ broken' = (broken \cup Chords) \ {w}
        /\ UNCHANGED <<term, pendingWipe, job, chars, outcome, lockQueue,
                       inFlight, strays, parked>>
    BY <1>6 DEF TakeLock, NoteWrite
  <2>2. StateTypes' BY <2>1, HoldWritesType DEF StateTypes
  <2>3. JobShape' BY <2>1 DEF StateTypes, JobShape
  <2>4. HoldShape' BY <2>1, HoldWritesType DEF StateTypes, HoldShape, HasLock, Op
  <2> QED BY <2>2, <2>3, <2>4
<1>7. ASSUME NEW w \in Writers, phase[w] # "done",
             NEW r \in Results, EndOp(w, r), term' \in Terminal,
             pendingWipe' \in Nat, strays' \subseteq Write,
             UNCHANGED <<chars, broken, parked>>
      PROVE  Inv'
  BY <1>7, EndOpEffect DEF StateTypes
<1>8. \A w \in Writers : term \in Terminal /\ pendingWipe \in Nat /\ strays \subseteq Write
  BY DEF StateTypes
<1>9. ASSUME NEW w \in Writers,
             \/ w \in Chords /\ RefuseChord(w)
             \/ RefuseParked(w) \/ FirstLookBlocked(w) \/ LeaveLock(w)
             \/ PutFails(w)
      PROVE  Inv'
  <2>1. /\ phase[w] # "done" /\ UNCHANGED <<term, pendingWipe, chars, broken, strays, parked>>
        /\ \E r \in Results : EndOp(w, r)
    BY <1>9 DEF RefuseChord, RefuseParked, FirstLookBlocked, LeaveLock, PutFails, Results
  <2> QED BY <1>7, <1>8, <2>1
<1>10. ASSUME NEW w \in Writers, PutTimesOut(w) PROVE Inv'
  <2>1. /\ phase[w] = "hold" /\ EndOp(w, "failed") /\ strays' = strays \cup {NextWrite(w)}
        /\ UNCHANGED <<term, pendingWipe, chars, broken, parked>>
    BY <1>10 DEF PutTimesOut
  <2> QED BY <1>7, <1>8, <2>1, NextWriteType DEF Results
<1>11. ASSUME NEW w \in Writers, StopTyping(w) PROVE Inv'
  <2>1. /\ phase[w] = "hold" /\ LookBlocks(w) /\ EndOp(w, "dialog")
        /\ pendingWipe' = pendingWipe + Typed(w)
        /\ UNCHANGED <<term, chars, broken, strays, parked>>
    BY <1>11 DEF StopTyping
  <2>2. Typed(w) \in Nat
    BY <2>1, TypedType DEF LookBlocks, Gated
  <2> QED BY <1>7, <1>8, <2>1, <2>2 DEF Results
<1>12. ASSUME NEW w \in Writers, Put(w) PROVE Inv'
  <2>1. /\ phase[w] = "hold" /\ term' \in Landed(term, NextWrite(w))
        /\ pendingWipe' = IF WipedBy(w) THEN 0 ELSE pendingWipe
        /\ UNCHANGED <<chars, broken, strays, parked>>
    BY <1>12 DEF Put
  <2>2. term' \in Terminal /\ pendingWipe' \in Nat
    BY <1>8, <2>1, NextWriteType, LandedType
  <2>3. CASE Len(left[w]) = 1
    <3>1. EndOp(w, "ok") BY <1>12, <2>3 DEF Put
    <3> QED BY <1>7, <1>8, <2>1, <2>2, <3>1 DEF Results
  <2>4. CASE Len(left[w]) # 1
    <3>1. /\ left' = [left EXCEPT ![w] = Tail(left[w])]
          /\ UNCHANGED <<job, phase, outcome, lockQueue, inFlight>>
      BY <1>12, <2>4 DEF Put
    <3>2. /\ Len(left[w]) \in Nat /\ Len(left[w]) > 1
          /\ left[w] \in Seq(Write) /\ left[w] # <<>>
      <4>1. Len(left[w]) \in Nat \ {0} /\ left[w] \in Seq(Write) /\ left[w] # <<>>
        BY <2>1, NextWriteType
      <4>2. \A n \in Nat \ {0} : n # 1 => n > 1
        OBVIOUS
      <4> HIDE DEF Inv
      <4>3. Len(left[w]) > 1
        BY <2>4, <4>1, <4>2, Zenon
      <4> QED BY <4>1, <4>3
    <3>3. /\ Tail(left[w]) \in Seq(Write) /\ Tail(left[w]) # <<>>
          /\ Len(Tail(left[w])) = Len(left[w]) - 1
          /\ \A i \in 1..Len(Tail(left[w])) : Tail(left[w])[i] = left[w][i + 1]
      <4>1. \A q \in Seq(Write) : Len(q) > 1 =>
              /\ Tail(q) \in Seq(Write) /\ Len(Tail(q)) = Len(q) - 1
              /\ \A i \in 1..Len(Tail(q)) : Tail(q)[i] = q[i + 1]
        OBVIOUS
      <4>2. Len(Tail(left[w])) # 0 /\ Len(<<>>) = 0
        <5>1. Len(Tail(left[w])) = Len(left[w]) - 1 BY <3>2, <4>1, Zenon
        <5>2. \A n \in Nat : n > 1 => n - 1 # 0 OBVIOUS
        <5>3. Len(Tail(left[w])) # 0 BY <3>2, <5>1, <5>2, Zenon
        <5> QED BY <5>3
      <4> QED BY <3>2, <4>1, <4>2
    <3>4. /\ w \notin Chords
          /\ Tail(left[w]) \in Seq(PlainWrite)
          /\ w \in Prompts => \A i \in 1..Len(Tail(left[w])) :
               Tail(left[w])[i].key # "KillLine" => Len(Tail(left[w])) - i <= Pieces
      <4>1. w \notin Chords
        <5>1. w \in Chords => left[w] = <<Key(Op(w))>>
          BY <2>1 DEF HoldShape
        <5>2. Len(<<Key(Op(w))>>) = 1 
          OBVIOUS
        <5> QED BY <2>4, <5>1, <5>2
      <4>2. left[w] \in Seq(PlainWrite)
        BY <2>1, <4>1 DEF HoldShape
      <4>3. ASSUME w \in Prompts, NEW i \in 1..Len(Tail(left[w])),
                   Tail(left[w])[i].key # "KillLine"
            PROVE  Len(Tail(left[w])) - i <= Pieces
        <5>1. i + 1 \in 1..Len(left[w]) /\ left[w][i + 1].key # "KillLine"
          BY <3>2, <3>3, <4>3
        <5>2. Len(left[w]) - (i + 1) <= Pieces
          BY <2>1, <4>3, <5>1 DEF HoldShape
        <5> QED BY <3>2, <3>3, <5>2
      <4> QED BY <3>2, <4>1, <4>2, <4>3
    <3>5. StateTypes' BY <2>1, <2>2, <3>1, <3>3 DEF StateTypes
    <3>6. JobShape' BY <3>1 DEF JobShape
    <3>7. HoldShape' BY <2>1, <3>1, <3>3, <3>4 DEF StateTypes, HoldShape, HasLock, Op
    <3> QED BY <3>5, <3>6, <3>7
  <2> QED BY <2>3, <2>4
<1>13. ASSUME term' \in Terminal, pendingWipe' \in Nat, strays' \subseteq Write,
              parked' \in BOOLEAN, Elsewhere
       PROVE  Inv'
  BY <1>13 DEF Elsewhere, StateTypes, JobShape, HoldShape, HasLock, Op
<1>14. CASE StrayLands
  <2>1. PICK w \in strays : strays' = strays \ {w} /\ term' \in Landed(term, w) \cup {term}
    BY <1>14 DEF StrayLands
  <2>2. w \in Write /\ term \in Terminal BY DEF StateTypes
  <2>3. term' \in Terminal BY <2>1, <2>2, LandedType
  <2> QED BY <1>13, <1>14, <2>1, <2>3 DEF StrayLands, StateTypes
<1>15. CASE TakeQueue \/ OpenDialog \/ CloseDialog
  <2>1. <<>> \in Seq(Unit) OBVIOUS
  <2>2. term' \in Terminal
    BY <1>15, <2>1 DEF TakeQueue, OpenDialog, CloseDialog, StateTypes, Terminal
  <2> QED BY <1>13, <1>15, <2>2 DEF TakeQueue, OpenDialog, CloseDialog, StateTypes
<1>16. CASE Park
  BY <1>13, <1>16 DEF Park, StateTypes
<1>17. CASE KillSession
  <2>1. <<>> \in Seq(Unit) OBVIOUS
  <2>2. term' \in Terminal
    BY <1>17, <2>1 DEF KillSession, StateTypes, Terminal
  <2> QED BY <1>13, <1>17, <2>2 DEF KillSession, StateTypes
<1>18. CASE UNCHANGED vars
  BY <1>18 DEF vars, StateTypes, JobShape, HoldShape, HasLock, Op
<1> QED BY <1>0, <1>1, <1>2, <1>3, <1>4, <1>5, <1>6, <1>9, <1>10, <1>11, <1>12,
          <1>14, <1>15, <1>16, <1>17, <1>18 DEF Next, Step

(* Every step is recalled as one that loses track of text or not.          *)
LEMMA StepRecalled ==
  ASSUME [Next]_vars
  PROVE  UNCHANGED vars \/ \E b \in BOOLEAN : Recall(b)
<1>1. ASSUME NEW w, Step(w) PROVE \E b \in BOOLEAN : Recall(b)
  <2>1. CASE RefuseParked(w) \/ AskForLock(w) \/ LeaveLock(w)
             \/ FirstLookBlocked(w) \/ StopTyping(w)
    BY <2>1 DEF RefuseParked, AskForLock, LeaveLock, FirstLookBlocked, StopTyping
  <2>2. CASE TakeLock(w)
    <3>1. WipesShort(w) \in BOOLEAN BY DEF WipesShort
    <3> QED BY <2>2, <3>1 DEF TakeLock
  <2>3. CASE Put(w)
    <3>1. Surfaces(w) \in BOOLEAN BY DEF Surfaces
    <3> QED BY <2>3, <3>1 DEF Put
  <2>4. CASE PutFails(w)
    <3>1. (term.alive /\ LeavesText(w)) \in BOOLEAN OBVIOUS
    <3> QED BY <2>4, <3>1 DEF PutFails
  <2>5. CASE PutTimesOut(w)
    BY <2>5 DEF PutTimesOut
  <2> QED BY <1>1, <2>1, <2>2, <2>3, <2>4, <2>5 DEF Step
<1>2. ASSUME NEW w,
             \/ StartPrompt(w) \/ StartClear(w) \/ StartStop(w)
             \/ StartChord(w) \/ RefuseChord(w)
      PROVE  \E b \in BOOLEAN : Recall(b)
  BY <1>2 DEF StartPrompt, StartClear, StartStop, StartChord, RefuseChord
<1>3. CASE StrayLands \/ TakeQueue \/ CloseDialog \/ Park
  BY <1>3 DEF StrayLands, TakeQueue, CloseDialog, Park
<1>4. CASE OpenDialog
  <2>1. (\E w \in Writers : Wiping(w)) \in BOOLEAN OBVIOUS
  <2> QED BY <1>4, <2>1 DEF OpenDialog
<1>5. CASE KillSession
  <2>1. (term'.alive /\ pendingWipe > 0) \in BOOLEAN OBVIOUS
  <2> QED BY <1>5, <2>1 DEF KillSession
<1> QED BY <1>1, <1>2, <1>3, <1>4, <1>5 DEF Next

LEMMA HistoryTypes ==
  ASSUME TypeOK, StateTypes', [Next]_vars
  PROVE  upset' \in BOOLEAN /\ doubts' \subseteq Seq(Unit)
<1>1. \A p \in Prompts : Text(p) \in Seq(Unit)
  <2> SUFFICES ASSUME NEW p \in Prompts PROVE Text(p) \in Seq(Unit)
    OBVIOUS
  <2>1. Pieces \in Nat /\ \A i \in 1..Pieces : <<p, i>> \in Unit
    BY SizesHold DEF Unit
  <2> QED BY <2>1 DEF Text
<1>2. term'.submitted \subseteq Seq(Unit)
  BY DEF StateTypes, Terminal
<1>3. CASE UNCHANGED vars
  BY <1>3 DEF TypeOK, vars, history
<1>4. ASSUME NEW b \in BOOLEAN, Recall(b)
      PROVE  upset' \in BOOLEAN /\ doubts' \subseteq Seq(Unit)
  BY <1>1, <1>2, <1>4 DEF Recall, TypeOK
<1> QED BY <1>3, <1>4, StepRecalled

(* The types of the writers' state hold, for every number of writers, every*)
(* size and every kind of fault.                                           *)
THEOREM TypeCorrect == Spec => []TypeOK
<1> DEFINE J == Inv /\ TypeOK
<1>1. Init => J
  BY TypesInit DEF Init, Inv, TypeOK
<1>2. J /\ [Next]_vars => J'
  <2> SUFFICES ASSUME J, [Next]_vars PROVE J'
    OBVIOUS
  <2>1. Inv' /\ StateTypes'
    BY TypesStep DEF Inv
  <2>2. upset' \in BOOLEAN /\ doubts' \subseteq Seq(Unit)
    BY <2>1, HistoryTypes DEF TypeOK, Inv
  <2> QED BY <2>1, <2>2 DEF TypeOK
<1>3. J => TypeOK
  OBVIOUS
<1> QED BY <1>1, <1>2, <1>3, PTL DEF Spec

(* ------------------------------- the chord ----------------------------- *)

(* A write that goes out and returns, alone under the lock.                *)
LEMMA PutKeepsChords ==
  ASSUME Inv, ChordShape, NEW w \in Writers, Put(w)
  PROVE  ChordShape' /\ (NoStash => NoStash')
<1> USE DEF Inv
<1>1. /\ phase[w] = "hold" /\ term.alive /\ broken' = broken
      /\ term' \in Landed(term, NextWrite(w))
  BY DEF Put
<1>2. /\ term \in Terminal /\ NextWrite(w) \in Write /\ left[w] # <<>>
  BY <1>1, NextWriteType DEF StateTypes
<1>3. /\ term'.alive = term.alive
      /\ NextWrite(w).key = "CtrlX" => term'.prefix \/ term'.dialog
      /\ NextWrite(w).key # "CtrlS" \/ term.prefix \/ term.dialog
           => term'.stashed = term.stashed
  <2>1. ASSUME NEW t \in Terminal, NEW x \in Write, NEW u \in Landed(t, x)
        PROVE  /\ u.alive = t.alive
               /\ x.key = "CtrlX" => u.prefix \/ u.dialog
               /\ x.key # "CtrlS" \/ t.prefix \/ t.dialog => u.stashed = t.stashed
    BY LandedEffect
  <2> HIDE DEF Inv
  <2>2. PICK u : u = term'
    OBVIOUS
  <2>3. u \in Landed(term, NextWrite(w))
    BY <1>1, <2>2
  <2>4. /\ u.alive = term.alive
        /\ NextWrite(w).key = "CtrlX" => u.prefix \/ u.dialog
        /\ NextWrite(w).key # "CtrlS" \/ term.prefix \/ term.dialog => u.stashed = term.stashed
    BY <1>2, <2>1, <2>3
  <2> QED BY <2>2, <2>4
<1>4. \A v \in Writers \ {w} : phase[v] # "hold"
  BY <1>1 DEF HoldShape, HasLock
<1>5. /\ w \in Chords => /\ left[w] = <<Key(Op(w))>> /\ NextWrite(w).key = Op(w)
                         /\ Len(left[w]) = 1
      /\ w \notin Chords => NextWrite(w).key # "CtrlS"
  <2>1. w \in Chords => left[w] = <<Key(Op(w))>>
    BY <1>1 DEF HoldShape
  <2>2. Len(<<Key(Op(w))>>) = 1 /\ Head(<<Key(Op(w))>>).key = Op(w)
    BY DEF Key
  <2>3. w \notin Chords => left[w] \in Seq(PlainWrite)
    BY <1>1 DEF HoldShape
  <2>4. \A q \in Seq(PlainWrite) : q # <<>> => Head(q) \in PlainWrite
    OBVIOUS
  <2>5. w \notin Chords => NextWrite(w).key # "CtrlS"
    BY <2>3, <2>4, <1>2 DEF PlainWrite, NextWrite
  <2>6. w \in Chords => NextWrite(w).key = Op(w) /\ Len(left[w]) = 1
    BY <2>1, <2>2 DEF NextWrite
  <2> QED BY <2>1, <2>5, <2>6
<1>6. w \in Chords => w \notin broken
  BY <1>1 DEF ChordShape
<1>7. NoStash => NoStash'
  <2>1. CASE NextWrite(w).key = "CtrlS"
    <3>1. w \in Chords /\ Op(w) = "CtrlS"
      BY <1>5, <2>1
    <3>2. job[w] \in {<<"CtrlX", "CtrlS">>, <<"CtrlS">>}
      BY <1>1, <3>1 DEF JobShape
    <3>3. job[w] = <<"CtrlS">>
      <4>1. Head(<<"CtrlX", "CtrlS">>) = "CtrlX" OBVIOUS
      <4> QED BY <3>1, <3>2, <4>1 DEF Op
    <3>4. term.prefix \/ term.dialog
      BY <1>1, <1>6, <3>1, <3>3 DEF ChordShape
    <3> QED BY <1>3, <3>4 DEF NoStash
  <2>2. CASE NextWrite(w).key # "CtrlS"
    BY <1>3, <2>2 DEF NoStash
  <2> QED BY <2>1, <2>2
<1>8. /\ \A v \in Writers \ {w} : job'[v] = job[v] /\ phase'[v] = phase[v]
      /\ w \in Chords => phase'[w] # "hold"
      /\ w \in Chords /\ job'[w] = <<"CtrlS">> => job[w] = <<"CtrlX", "CtrlS">>
  <2>1. CASE Len(left[w]) = 1
    <3>1. EndOp(w, "ok") BY <2>1 DEF Put
    <3>2. "ok" \in Results BY DEF Results
    <3> QED BY <1>1, <3>1, <3>2, EndOpEffect
  <2>2. CASE Len(left[w]) # 1
    BY <1>5, <2>2 DEF Put
  <2> QED BY <2>1, <2>2
<1>9. ChordShape'
  <2> SUFFICES ASSUME NEW c \in Chords
               PROVE  /\ phase'[c] = "hold" => c \notin broken'
                      /\ job'[c] = <<"CtrlS">> /\ c \notin broken' /\ term'.alive
                           => term'.prefix \/ term'.dialog
                      /\ job'[c] = <<"CtrlS">> => \A v \in Writers \ {c} :
                           phase'[v] = "hold" => c \in broken'
    BY DEF ChordShape
  <2>1. c \in Writers BY DEF Writers
  <2>2. CASE c # w
    <3>1. phase[c] # "hold" /\ (job[c] = <<"CtrlS">> => c \in broken)
      BY <1>1, <1>4, <2>1, <2>2 DEF ChordShape
    <3> QED BY <1>1, <1>8, <2>1, <2>2, <3>1
  <2>3. CASE c = w
    <3>1. \A v \in Writers \ {c} : phase'[v] # "hold"
      BY <1>4, <1>8, <2>3
    <3>2. job'[c] = <<"CtrlS">> => term'.prefix \/ term'.dialog
      <4>1. Head(<<"CtrlX", "CtrlS">>) = "CtrlX" OBVIOUS
      <4> QED BY <1>3, <1>5, <1>8, <2>3, <4>1 DEF Op
    <3> QED BY <1>8, <2>3, <3>1, <3>2
  <2> QED BY <2>2, <2>3
<1> QED BY <1>7, <1>9

(* No step of the others makes a lone Ctrl+S possible, and none writes one.*)
LEMMA ChordStep ==
  ASSUME Inv, ChordShape, strays = {}, strays' = {}, [Next]_vars
  PROVE  ChordShape' /\ (NoStash => NoStash')
<1>3. ASSUME NEW w \in Writers, Put(w) PROVE ChordShape' /\ (NoStash => NoStash')
  BY <1>3, PutKeepsChords
<1>4. ASSUME NEW w \in Writers,
             \/ w \in Chords /\ RefuseChord(w)
             \/ RefuseParked(w) \/ FirstLookBlocked(w) \/ LeaveLock(w)
             \/ PutFails(w) \/ StopTyping(w)
      PROVE  ChordShape' /\ (NoStash => NoStash')
  <2>1. /\ phase[w] # "done" /\ UNCHANGED <<term, broken>>
        /\ \E r \in Results \ {"ok"} : EndOp(w, r)
    BY <1>4 DEF RefuseChord, RefuseParked, FirstLookBlocked, LeaveLock, PutFails,
                StopTyping, Results
  <2>2. ChordShape' BY <2>1, FailKeepsChords
  <2> QED BY <2>1, <2>2 DEF NoStash
<1>5. ASSUME NEW w \in Writers, TakeLock(w) PROVE ChordShape' /\ (NoStash => NoStash')
  <2>1. /\ phase' = [phase EXCEPT ![w] = "hold"] /\ HasLock(w)
        /\ broken' = (broken \cup Chords) \ {w}
        /\ UNCHANGED <<term, job>>
        /\ ~(Op(w) = "CtrlS" /\ w \in broken)
    BY <1>5 DEF TakeLock, NoteWrite
  <2>2. Head(<<"CtrlS">>) = "CtrlS" OBVIOUS
  <2>3. \A v \in Writers \ {w} : phase'[v] = phase[v] /\ phase[v] # "hold"
    BY <2>1 DEF Inv, StateTypes, HoldShape, HasLock
  <2>4. ChordShape'
    BY <2>1, <2>2, <2>3 DEF Inv, ChordShape, Op, Writers
  <2> QED BY <2>1, <2>4 DEF NoStash
<1>6. ASSUME UNCHANGED <<term, broken>>,
             \A v \in Chords : job'[v] = job[v],
             \A v \in Writers : phase'[v] = "hold" => phase[v] = "hold"
      PROVE  ChordShape' /\ (NoStash => NoStash')
  BY <1>6 DEF ChordShape, NoStash, Writers
<1>7. ASSUME NEW w \in Writers,
             \/ w \in Prompts /\ StartPrompt(w)
             \/ w \in Clears /\ StartClear(w)
             \/ w \in Chords /\ StartChord(w)
             \/ AskForLock(w)
      PROVE  ChordShape' /\ (NoStash => NoStash')
  <2>1. \A v \in Writers : phase'[v] = "hold" => phase[v] = "hold"
    BY <1>7 DEF StartPrompt, StartClear, StartChord, AskForLock, Inv, StateTypes
  <2>2. UNCHANGED <<term, broken, job>>
    BY <1>7 DEF StartPrompt, StartClear, StartChord, AskForLock
  <2> QED BY <1>6, <2>1, <2>2
<1>8. ASSUME NEW s \in Stops, StartStop(s) PROVE ChordShape' /\ (NoStash => NoStash')
  <2>1. \A v \in Writers : phase'[v] = "hold" => phase[v] = "hold"
    BY <1>8 DEF StartStop, Inv, StateTypes
  <2>2. \A v \in Chords : job'[v] = job[v]
    BY <1>8, RolesApart DEF StartStop, Inv, StateTypes, Writers
  <2>3. UNCHANGED <<term, broken>>
    BY <1>8 DEF StartStop
  <2> QED BY <1>6, <2>1, <2>2, <2>3
<1>9. ASSUME Elsewhere, term'.stashed = term.stashed,
             \/ ~term'.alive
             \/ /\ term'.prefix = term.prefix /\ term'.alive = term.alive
                /\ term.dialog => \/ term'.dialog
                                  \/ \A c \in Chords : job[c] # <<"CtrlS">>
      PROVE  ChordShape' /\ (NoStash => NoStash')
  BY <1>9 DEF Elsewhere, ChordShape, NoStash
<1>a. term \in Terminal
  BY DEF Inv, StateTypes
<1>10. CASE TakeQueue \/ OpenDialog
  <2>1. /\ Elsewhere /\ term'.stashed = term.stashed
        /\ term'.prefix = term.prefix /\ term'.alive = term.alive
        /\ term.dialog => term'.dialog
    BY <1>10, <1>a DEF TakeQueue, OpenDialog, Terminal
  <2> QED BY <1>9, <2>1
<1>11. CASE CloseDialog
  <2>1. /\ Elsewhere /\ term'.stashed = term.stashed
        /\ term'.prefix = term.prefix /\ term'.alive = term.alive
        /\ \A c \in Chords : job[c] # <<"CtrlS">>
    BY <1>11, <1>a DEF CloseDialog, MidChord, Terminal
  <2> QED BY <1>9, <2>1
<1>12. CASE Park
  BY <1>9, <1>12 DEF Park
<1>13. CASE KillSession
  <2>1. /\ Elsewhere /\ term'.stashed = term.stashed
        /\ ~term'.alive \/ term' = term
    BY <1>13, <1>a DEF KillSession, Terminal
  <2> QED BY <1>9, <2>1
<1>14. CASE StrayLands
  BY <1>14 DEF StrayLands
<1>15. ASSUME NEW w \in Writers, PutTimesOut(w) PROVE FALSE
  BY <1>15 DEF PutTimesOut
<1>16. CASE UNCHANGED vars
  BY <1>6, <1>16 DEF vars
<1>17. \A w \in Prompts \cup Chords \cup Clears \cup Stops : w \in Writers
  BY DEF Writers
<1> QED
  BY <1>3, <1>4, <1>5, <1>7, <1>8, <1>10, <1>11, <1>12, <1>13, <1>14, <1>15,
     <1>16, <1>17 DEF Next, Step

(* Only a write given up after its timeout is a stray.                     *)
LEMMA NoStrays ==
  ASSUME strays = {}, [Next]_vars,
         "timeout" \notin Faults \/ \A w \in Writers : ~PutTimesOut(w)
  PROVE  strays' = {}
<1>1. ASSUME NEW w \in Writers, Step(w) PROVE strays' = {}
  BY <1>1 DEF Step, RefuseParked, AskForLock, TakeLock, LeaveLock, Put,
     PutFails, PutTimesOut, FirstLookBlocked, StopTyping
<1>2. ASSUME NEW w \in Writers,
             \/ StartPrompt(w) \/ StartClear(w) \/ StartStop(w)
             \/ StartChord(w) \/ RefuseChord(w)
      PROVE  strays' = {}
  BY <1>2 DEF StartPrompt, StartClear, StartStop, StartChord, RefuseChord
<1>3. CASE StrayLands \/ TakeQueue \/ OpenDialog \/ CloseDialog \/ Park
            \/ KillSession
  BY <1>3 DEF StrayLands, TakeQueue, OpenDialog, CloseDialog, Park, KillSession
<1>4. CASE UNCHANGED vars
  BY <1>4 DEF vars
<1> QED BY <1>1, <1>2, <1>3, <1>4 DEF Next, Writers

LEMMA ChordInit ==
  ASSUME Init
  PROVE  ChordInv
<1>1. \A c \in Chords : job[c] = <<"CtrlX", "CtrlS">>
  BY RolesApart DEF Init, Writers
<1>2. <<"CtrlX", "CtrlS">> # <<"CtrlS">>
  <2>1. Len(<<"CtrlX", "CtrlS">>) = 2 /\ Len(<<"CtrlS">>) = 1 OBVIOUS
  <2> QED BY <2>1
<1>3. ChordShape
  BY <1>1, <1>2 DEF Init, ChordShape, Writers
<1>4. NoStash /\ strays = {}
  BY DEF Init, NoStash, FreshTerminal
<1> QED BY <1>3, <1>4, TypesInit DEF ChordInv

(* A send-now chord never stashes the input box: with any number of other  *)
(* writers, failed writes, dialogs, parks and kills, its Ctrl+S reaches    *)
(* Claude only right after its own Ctrl+X, as long as no write given up    *)
(* after its timeout can still arrive.                                     *)
THEOREM ChordNeverStashes ==
  ASSUME "timeout" \notin Faults
  PROVE  Spec => []NoStash
<1>1. Init => ChordInv
  BY ChordInit
<1>2. ChordInv /\ [Next]_vars => ChordInv'
  <2> SUFFICES ASSUME ChordInv, [Next]_vars PROVE ChordInv'
    OBVIOUS
  <2>1. Inv' BY TypesStep DEF ChordInv
  <2>2. strays' = {} BY NoStrays DEF ChordInv
  <2> QED BY <2>1, <2>2, ChordStep DEF ChordInv
<1>3. ChordInv => NoStash
  BY DEF ChordInv
<1> QED BY <1>1, <1>2, <1>3, PTL DEF Spec

(* ------------------------------- the text ------------------------------ *)

Wipers == Clears \cup Stops

(* The lock's line: each writer in it once and not yet done.               *)
InLine ==
  /\ \A i \in 1..Len(lockQueue) : phase[lockQueue[i]] \in {"queued", "hold"}
  /\ \A i, j \in 1..Len(lockQueue) : lockQueue[i] = lockQueue[j] => i = j

(* A chord on its way is in flight, and between its holds has only its     *)
(* Ctrl+S left.                                                            *)
ChordOnWay ==
  \A c \in Chords :
    /\ phase[c] \in {"ready", "queued", "hold"} => c \in inFlight
    /\ phase[c] = "ready" => job[c] = <<"CtrlS">>

(* A chord whose Ctrl+X is still to come waits behind wipes only, with     *)
(* nothing owed a wipe.                                                    *)
ChordAhead ==
  \A j \in 1..Len(lockQueue) :
    lockQueue[j] \in Chords /\ job[lockQueue[j]] # <<"CtrlS">> =>
      /\ pendingWipe = 0
      /\ \A i \in 1..(j - 1) : lockQueue[i] \in Wipers

LineInv == InLine /\ ChordOnWay /\ ChordAhead

(* What was submitted is the text of the prompts reported sent, and all of *)
(* them, but for what was submitted while text was out of sight.           *)
SentOnly ==
  /\ \A p \in Prompts : outcome[p] # "none" => phase[p] = "done"
  /\ \A s \in term.submitted \ doubts :
       \E q \in Prompts : s = Text(q) /\ outcome[q] = "ok"
  /\ \A p \in Prompts : outcome[p] = "ok" => Text(p) \in term.submitted \cup doubts

(* What a prompt's hold still writes: Ctrl+U, then its pieces, its Enter.  *)
PromptRest(p, q) ==
  \A i \in 1..Len(q) :
    q[i] = IF Len(q) - i <= Pieces THEN Prompt(p)[Pieces + 1 - (Len(q) - i)]
                                   ELSE Key("KillLine")

(* What a discard still writes: its Escape, then Ctrl+U.                   *)
ClearRest(q) ==
  /\ \A i \in 2..Len(q) : q[i] = Key("KillLine")
  /\ \/ q[1] = Key("KillLine")
     \/ q[1] = Key("Escape") /\ Len(q) > 1

HoldsRest ==
  /\ \A p \in Prompts : phase[p] = "hold" => PromptRest(p, left[p])
  /\ \A d \in Wipers : phase[d] = "hold" =>
       IF Op(d) = "discard" THEN ClearRest(left[d])
                            ELSE left[d] = <<Key("Escape")>>

(* A hold that types or wipes; the others write a single key.              *)
AtText(w) == phase[w] = "hold" /\ Op(w) \in {"prompt", "discard"}

(* What the box holds: at most what is owed a wipe while nobody types or   *)
(* wipes; in a wipe no more than its Ctrl+U still to come take; else the   *)
(* pieces its prompt has typed.  Up to a wipe's first Ctrl+U, and all      *)
(* through a prompt's, it is still owed, so that a failed write there      *)
(* leaves nothing unowed.                                                  *)
BoxAtRest ==
  (\A w \in Writers : ~AtText(w)) => Len(term.box) <= pendingWipe

PromptBox(p, q, t, owed) ==
  IF Len(q) > Pieces + 1
    THEN /\ ~t.dialog /\ Len(t.box) <= owed
         /\ Len(t.box) <= Batch * (Len(q) - (Pieces + 1))
    ELSE /\ owed = 0 /\ Len(t.box) = Pieces + 1 - Len(q)
         /\ \A i \in 1..Len(t.box) : t.box[i] = <<p, i>>

ClearBox(q, t, owed) ==
  IF q[1] = Key("Escape")
    THEN /\ Len(t.queue) + Len(t.box) <= Batch * (Len(q) - 1)
         /\ Len(t.box) <= owed
    ELSE ~t.dialog /\ Len(t.box) <= Batch * Len(q)

BoxOfHolder ==
  /\ \A p \in Prompts : phase[p] = "hold" =>
       PromptBox(p, left[p], term, pendingWipe)
  /\ \A d \in Wipers : AtText(d) => ClearBox(left[d], term, pendingWipe)

BoxOfChord ==
  \A c \in Chords : job[c] = <<"CtrlS">> /\ c \notin broken => term.box = <<>>

BoxInv == term.alive => BoxAtRest /\ BoxOfHolder /\ BoxOfChord

(* The box is followed as long as no text is out of sight; so are the      *)
(* chords.                                                                 *)
Calm == ~upset => strays = {} /\ ChordShape /\ BoxInv

TextInv == Inv /\ LineInv /\ HoldsRest /\ SentOnly /\ Calm

(* ----------------------------- the text: lemmas ------------------------ *)

LEMMA TailOf ==
  ASSUME NEW S, NEW q \in Seq(S), q # <<>>
  PROVE  /\ Tail(q) \in Seq(S) /\ Len(q) \in Nat \ {0}
         /\ Len(Tail(q)) = Len(q) - 1
         /\ \A i \in 1..Len(Tail(q)) : Tail(q)[i] = q[i + 1]
         /\ Head(q) = q[1]
  OBVIOUS

(* As many whole batches as a wipe presses take what it is meant to take.  *)
LEMMA WipeReaches ==
  ASSUME NEW n \in Nat
  PROVE  /\ Fewest(MaxPresses, MinPresses + n) <= Batch * WipeWrites(n)
         /\ WipeWrites(n) \in Nat \ {0}
<1> DEFINE m == Fewest(MaxPresses, MinPresses + n)
<1>1. m \in Nat /\ m > 0
  BY Sizes DEF Fewest
<1>2. \A a \in Nat, b \in Nat \ {0} :
        a \div b \in Nat /\ a < b * (a \div b) + b
  OBVIOUS
<1>3. m + Batch - 1 \in Nat /\ Batch \in Nat \ {0}
  BY <1>1, Sizes
<1>4. (m + Batch - 1) \div Batch \in Nat
      /\ m + Batch - 1 < Batch * ((m + Batch - 1) \div Batch) + Batch
  BY <1>2, <1>3
<1>5. WipeWrites(n) = (m + Batch - 1) \div Batch
  BY DEF WipeWrites
<1> HIDE DEF m
<1>6. \A a \in Nat, b, c \in Nat : a + b - 1 < b * c + b => a <= b * c
  <2> SUFFICES ASSUME NEW a \in Nat, NEW b \in Nat, NEW c \in Nat,
                      a + b - 1 < b * c + b
               PROVE  a <= b * c
    OBVIOUS
  <2>1. b * c \in Nat OBVIOUS
  <2> QED BY <2>1
<1>7. m <= Batch * WipeWrites(n)
  BY <1>1, <1>3, <1>4, <1>5, <1>6
<1>8. WipeWrites(n) # 0
  <2>1. Batch * 0 = 0 BY <1>3
  <2> QED BY <1>1, <1>7, <2>1
<1> QED BY <1>4, <1>5, <1>7, <1>8 DEF m

(* What one write does to the box, the queue and the dialog.               *)
LEMMA LandedText ==
  ASSUME NEW t \in Terminal, NEW w \in Write, NEW u \in Landed(t, w)
  PROVE  /\ u.alive = t.alive
         /\ t.dialog =>
              /\ u.box = t.box /\ u.queue = t.queue
              /\ u.submitted = t.submitted
              /\ w.key = "Escape" => ~u.dialog
         /\ ~t.dialog =>
              /\ ~u.dialog
              /\ w.key = "text" =>
                   /\ u.box = Append(t.box, w.unit) /\ u.queue = t.queue
                   /\ u.submitted = t.submitted
              /\ w.key = "Enter" =>
                   /\ u.box = <<>> /\ u.queue = t.queue \o t.box
                   /\ u.submitted = Submit(t)
              /\ w.key = "Escape" =>
                   /\ u.box = t.queue \o t.box /\ u.queue = <<>>
                   /\ u.submitted = t.submitted
              /\ w.key = "KillLine" =>
                   /\ u.queue = t.queue /\ u.submitted = t.submitted
                   /\ \E k \in 0..Len(t.box) :
                        /\ k = 0 \/ k + Batch <= Len(t.box)
                        /\ u.box = SubSeq(t.box, 1, k)
              /\ w.key = "CtrlX" =>
                   /\ u.box = t.box /\ u.queue = t.queue
                   /\ u.submitted = t.submitted
              /\ w.key = "CtrlS" =>
                   /\ u.box = <<>> /\ u.queue \in {t.queue, <<>>}
                   /\ u.submitted \in {t.submitted, Submit(t)}
<1>0. w.key \in {"text", "Enter", "Escape", "KillLine", "CtrlX", "CtrlS"}
  BY DEF Write, Key, Piece
<1>1. CASE t.dialog
  BY <1>1 DEF Landed, Terminal
<1>2. CASE ~t.dialog /\ w.key = "KillLine"
  <2>1. PICK k \in 0..Len(t.box) :
          /\ k = 0 \/ k + Batch <= Len(t.box)
          /\ u = [[t EXCEPT !.prefix = FALSE] EXCEPT !.box = SubSeq(@, 1, k)]
    BY <1>2 DEF Landed
  <2>2. /\ u.box = SubSeq(t.box, 1, k) /\ u.queue = t.queue
        /\ u.submitted = t.submitted /\ u.alive = t.alive
        /\ u.dialog = t.dialog
    BY <2>1 DEF Terminal
  <2> QED BY <1>2, <2>1, <2>2
<1>3. CASE ~t.dialog /\ w.key = "Escape"
  BY <1>3 DEF Landed, Terminal
<1>4. CASE ~t.dialog /\ w.key = "Enter"
  BY <1>4 DEF Landed, Terminal
<1>5. CASE ~t.dialog /\ w.key = "text"
  BY <1>5 DEF Landed, Terminal
<1>6. CASE ~t.dialog /\ w.key = "CtrlX"
  BY <1>6 DEF Landed, Terminal
<1>7. CASE ~t.dialog /\ w.key = "CtrlS"
  BY <1>7 DEF Landed, Terminal
<1> QED BY <1>0, <1>1, <1>2, <1>3, <1>4, <1>5, <1>6, <1>7

(* ------------------------------ the lock's line ------------------------ *)

LEMMA EndOpParts ==
  ASSUME Inv, NEW w \in Writers, phase[w] # "done", NEW r \in Results,
         EndOp(w, r)
  PROVE  /\ lockQueue' = IF HasLock(w) THEN Tail(lockQueue) ELSE lockQueue
         /\ outcome'[w] = r
         /\ \A v \in Writers \ {w} : /\ outcome'[v] = outcome[v]
                                     /\ left'[v] = left[v]
         /\ phase'[w] # "done" => inFlight' = inFlight
         /\ inFlight' \in {inFlight, inFlight \ {w}}
         /\ w \in Prompts => phase'[w] = "done"
         /\ w \in Chords /\ phase'[w] # "done" => job'[w] = <<"CtrlS">>
<1> DEFINE rest == IF r = "ok" \/ Op(w) = "Escape" THEN Tail(job[w]) ELSE <<>>
<1>1. /\ job' = [job EXCEPT ![w] = rest]
      /\ phase' = [phase EXCEPT ![w] = IF rest = <<>> THEN "done" ELSE "ready"]
      /\ outcome' = [outcome EXCEPT ![w] = r]
      /\ left' = [left EXCEPT ![w] = <<>>]
      /\ lockQueue' = IF HasLock(w) THEN Tail(lockQueue) ELSE lockQueue
      /\ inFlight' = IF rest = <<>> THEN inFlight \ {w} ELSE inFlight
  BY DEF EndOp
<1>2. /\ job \in [Writers -> Seq(Ops)] /\ outcome \in [Writers -> {"none", "ok", "failed", "dialog", "refused"}]
      /\ phase \in [Writers -> {"idle", "ready", "queued", "hold", "done"}]
      /\ left \in [Writers -> Seq(Write)]
  BY DEF Inv, StateTypes
<1>3. w \in Prompts => rest = <<>>
  <2> SUFFICES ASSUME w \in Prompts PROVE rest = <<>>
    OBVIOUS
  <2>1. job[w] = <<"prompt">> BY DEF Inv, JobShape
  <2>2. Tail(<<"prompt">>) = <<>> OBVIOUS
  <2> QED BY <2>1, <2>2
<1>4. w \in Chords => rest \in {<<>>, <<"CtrlS">>}
  <2> SUFFICES ASSUME w \in Chords PROVE rest \in {<<>>, <<"CtrlS">>}
    OBVIOUS
  <2>1. job[w] \in {<<"CtrlX", "CtrlS">>, <<"CtrlS">>} BY DEF Inv, JobShape
  <2>2. Tail(<<"CtrlX", "CtrlS">>) = <<"CtrlS">> /\ Tail(<<"CtrlS">>) = <<>>
    OBVIOUS
  <2> QED BY <2>1, <2>2
<1> HIDE DEF rest
<1> QED BY <1>1, <1>2, <1>3, <1>4

(* A writer that ends a hold, or ends before it asked for the lock, leaves *)
(* the line to the others in their order.                                  *)
LEMMA EndOpKeepsLine ==
  ASSUME Inv, LineInv, NEW w \in Writers, phase[w] # "done",
         NEW r \in Results, EndOp(w, r),
         HasLock(w) \/ phase[w] \in {"idle", "ready"},
         r = "ok" => phase[w] # "idle",
         \/ pendingWipe' \in {pendingWipe, 0}
         \/ HasLock(w) /\ w \in Prompts
  PROVE  LineInv'
<1> USE DEF LineInv
<1>1. /\ lockQueue \in Seq(Writers) /\ Len(lockQueue) \in Nat
      /\ lockQueue' = IF HasLock(w) THEN Tail(lockQueue) ELSE lockQueue
      /\ lockQueue # <<>> => \A i \in 1..Len(Tail(lockQueue)) :
           Tail(lockQueue)[i] = lockQueue[i + 1]
      /\ lockQueue # <<>> => Len(Tail(lockQueue)) = Len(lockQueue) - 1
      /\ HasLock(w) => lockQueue # <<>> /\ lockQueue[1] = w /\ Len(lockQueue) > 0
  <2>1. lockQueue \in Seq(Writers) BY DEF Inv, StateTypes
  <2>2. lockQueue' = IF HasLock(w) THEN Tail(lockQueue) ELSE lockQueue
    BY EndOpParts
  <2> QED BY <2>1, <2>2 DEF HasLock
<1>2. /\ \A v \in Writers \ {w} : job'[v] = job[v] /\ phase'[v] = phase[v]
      /\ phase'[w] \in {"ready", "done"}
  BY EndOpEffect
<1>3. /\ phase'[w] # "done" => inFlight' = inFlight
      /\ inFlight' \in {inFlight, inFlight \ {w}}
      /\ w \in Chords /\ phase'[w] # "done" => job'[w] = <<"CtrlS">>
  BY EndOpParts
<1>4. \A i \in 1..Len(lockQueue') :
        \E k \in 1..Len(lockQueue) :
          /\ k = (IF HasLock(w) THEN i + 1 ELSE i)
          /\ lockQueue'[i] = lockQueue[k] /\ lockQueue[k] # w
          /\ lockQueue[k] \in Writers
  <2> SUFFICES ASSUME NEW i \in 1..Len(lockQueue')
               PROVE  \E k \in 1..Len(lockQueue) :
                        /\ k = (IF HasLock(w) THEN i + 1 ELSE i)
                        /\ lockQueue'[i] = lockQueue[k] /\ lockQueue[k] # w
                        /\ lockQueue[k] \in Writers
    OBVIOUS
  <2>1. CASE HasLock(w)
    <3>1. i + 1 \in 1..Len(lockQueue) /\ lockQueue'[i] = lockQueue[i + 1]
          /\ 1 \in 1..Len(lockQueue) /\ i + 1 # 1
      BY <1>1, <2>1
    <3>2. lockQueue[i + 1] # w
      BY <1>1, <2>1, <3>1 DEF InLine
    <3> QED BY <1>1, <2>1, <3>1, <3>2
  <2>2. CASE ~HasLock(w)
    <3>1. lockQueue[i] # w
      BY <1>1, <2>2 DEF InLine
    <3> QED BY <1>1, <2>2, <3>1
  <2> QED BY <2>1, <2>2
<1>5. InLine'
  <2>1. ASSUME NEW i \in 1..Len(lockQueue')
        PROVE  phase'[lockQueue'[i]] \in {"queued", "hold"}
    BY <1>2, <1>4 DEF InLine
  <2>2. ASSUME NEW i \in 1..Len(lockQueue'), NEW j \in 1..Len(lockQueue'),
               lockQueue'[i] = lockQueue'[j]
        PROVE  i = j
    <3>1. PICK k \in 1..Len(lockQueue) :
            /\ k = (IF HasLock(w) THEN i + 1 ELSE i)
            /\ lockQueue'[i] = lockQueue[k]
      BY <1>4
    <3>2. PICK m \in 1..Len(lockQueue) :
            /\ m = (IF HasLock(w) THEN j + 1 ELSE j)
            /\ lockQueue'[j] = lockQueue[m]
      BY <1>4
    <3>3. k = m BY <2>2, <3>1, <3>2 DEF InLine
    <3> QED BY <3>1, <3>2, <3>3
  <2> QED BY <2>1, <2>2 DEF InLine
<1>6. ChordOnWay'
  <2> SUFFICES ASSUME NEW c \in Chords
               PROVE  /\ phase'[c] \in {"ready", "queued", "hold"} => c \in inFlight'
                      /\ phase'[c] = "ready" => job'[c] = <<"CtrlS">>
    BY DEF ChordOnWay
  <2>1. CASE c # w
    BY <1>2, <1>3, <2>1 DEF ChordOnWay, Writers
  <2>2. CASE c = w /\ phase'[w] = "ready"
    <3>1. job'[w] = <<"CtrlS">> /\ inFlight' = inFlight
      BY <1>3, <2>2
    <3>2. r = "ok"
      BY <3>1, EndOpEffect
    <3>3. phase[c] \in {"ready", "queued", "hold"}
      BY <2>2, <3>2 DEF Inv, StateTypes
    <3> QED BY <2>2, <3>1, <3>3 DEF ChordOnWay
  <2> QED BY <1>2, <2>1, <2>2
<1>7. ChordAhead'
  <2> SUFFICES ASSUME NEW j \in 1..Len(lockQueue'), lockQueue'[j] \in Chords,
                      job'[lockQueue'[j]] # <<"CtrlS">>
               PROVE  /\ pendingWipe' = 0
                      /\ \A i \in 1..(j - 1) : lockQueue'[i] \in Wipers
    BY DEF ChordAhead
  <2>1. PICK k \in 1..Len(lockQueue) :
          /\ k = (IF HasLock(w) THEN j + 1 ELSE j)
          /\ lockQueue'[j] = lockQueue[k] /\ lockQueue[k] # w
          /\ lockQueue[k] \in Writers
    BY <1>4
  <2>2. lockQueue[k] \in Chords /\ job[lockQueue[k]] # <<"CtrlS">>
    BY <1>2, <2>1
  <2>3. pendingWipe = 0 /\ \A i \in 1..(k - 1) : lockQueue[i] \in Wipers
    BY <2>2 DEF ChordAhead
  <2>4. ~(HasLock(w) /\ w \in Prompts)
    <3> SUFFICES ASSUME HasLock(w), w \in Prompts PROVE FALSE
      OBVIOUS
    <3>1. 1 \in 1..(k - 1) BY <2>1
    <3>2. lockQueue[1] \in Wipers BY <2>3, <3>1
    <3> QED BY <1>1, <3>2, RolesApart DEF Wipers
  <2>5. \A i \in 1..(j - 1) : lockQueue'[i] \in Wipers
    <3> SUFFICES ASSUME NEW i \in 1..(j - 1) PROVE lockQueue'[i] \in Wipers
      OBVIOUS
    <3>1. i \in 1..Len(lockQueue') OBVIOUS
    <3>2. PICK m \in 1..Len(lockQueue) :
            /\ m = (IF HasLock(w) THEN i + 1 ELSE i)
            /\ lockQueue'[i] = lockQueue[m]
      BY <1>4, <3>1
    <3>3. m \in 1..(k - 1) BY <2>1, <3>2
    <3> QED BY <2>3, <3>2, <3>3
  <2> QED BY <2>3, <2>4, <2>5
<1> QED BY <1>5, <1>6, <1>7

(* A writer that joins the line does so at its end, and only a chord that  *)
(* found nobody typing and nothing owed a wipe joins with its Ctrl+X still *)
(* to come.                                                                *)
LEMMA JoinKeepsLine ==
  ASSUME Inv, LineInv, NEW w \in Writers, phase[w] \in {"idle", "ready"},
         phase' = [phase EXCEPT ![w] = "queued"],
         lockQueue' = Append(lockQueue, w), UNCHANGED <<job, pendingWipe>>,
         inFlight \subseteq inFlight', w \in Chords => w \in inFlight',
         w \in Chords /\ job[w] # <<"CtrlS">> =>
           /\ pendingWipe = 0
           /\ \A i \in 1..Len(lockQueue) : lockQueue[i] \in Wipers
  PROVE  LineInv'
<1> USE DEF LineInv
<1>1. /\ lockQueue \in Seq(Writers) /\ Len(lockQueue) \in Nat
      /\ Len(lockQueue') = Len(lockQueue) + 1
      /\ \A i \in 1..Len(lockQueue) : lockQueue'[i] = lockQueue[i]
      /\ lockQueue'[Len(lockQueue) + 1] = w
      /\ \A i \in 1..Len(lockQueue') : i \in 1..Len(lockQueue) \/ i = Len(lockQueue) + 1
      /\ \A i \in 1..Len(lockQueue) : lockQueue[i] # w /\ lockQueue[i] \in Writers
  <2>1. lockQueue \in Seq(Writers) BY DEF Inv, StateTypes
  <2>2. \A q \in Seq(Writers) :
          /\ Len(q) \in Nat /\ Len(Append(q, w)) = Len(q) + 1
          /\ \A i \in 1..Len(q) : Append(q, w)[i] = q[i] /\ q[i] \in Writers
          /\ Append(q, w)[Len(q) + 1] = w
          /\ \A i \in 1..(Len(q) + 1) : i \in 1..Len(q) \/ i = Len(q) + 1
    OBVIOUS
  <2>3. \A i \in 1..Len(lockQueue) : lockQueue[i] # w
    BY DEF InLine
  <2> QED BY <2>1, <2>2, <2>3
<1>2. /\ \A v \in Writers \ {w} : phase'[v] = phase[v]
      /\ phase'[w] = "queued" /\ job' = job /\ pendingWipe' = pendingWipe
  BY DEF Inv, StateTypes
<1>3. InLine'
  BY <1>1, <1>2 DEF InLine
<1>4. ChordOnWay'
  BY <1>2 DEF ChordOnWay, Writers
<1>5. ChordAhead'
  <2> SUFFICES ASSUME NEW j \in 1..Len(lockQueue'), lockQueue'[j] \in Chords,
                      job[lockQueue'[j]] # <<"CtrlS">>
               PROVE  /\ pendingWipe = 0
                      /\ \A i \in 1..(j - 1) : lockQueue'[i] \in Wipers
    BY <1>2 DEF ChordAhead
  <2>1. CASE j \in 1..Len(lockQueue)
    <3>1. lockQueue'[j] = lockQueue[j] BY <1>1, <2>1
    <3>2. pendingWipe = 0 /\ \A i \in 1..(j - 1) : lockQueue[i] \in Wipers
      BY <2>1, <3>1 DEF ChordAhead
    <3>3. \A i \in 1..(j - 1) : i \in 1..Len(lockQueue) BY <2>1, <1>1
    <3> QED BY <1>1, <3>2, <3>3
  <2>2. CASE j = Len(lockQueue) + 1
    <3>1. lockQueue'[j] = w BY <1>1, <2>2
    <3>2. pendingWipe = 0 /\ \A i \in 1..Len(lockQueue) : lockQueue[i] \in Wipers
      BY <3>1
    <3>3. \A i \in 1..(j - 1) : i \in 1..Len(lockQueue) BY <2>2, <1>1
    <3> QED BY <1>1, <3>2, <3>3
  <2> QED BY <1>1, <2>1, <2>2
<1> QED BY <1>3, <1>4, <1>5

(* Steps that leave the line and what stands in it alone.                  *)
LEMMA CalmLine ==
  ASSUME LineInv, UNCHANGED <<lockQueue, inFlight>>,
         \A c \in Chords : job'[c] = job[c] /\ phase'[c] = phase[c],
         \A w \in Writers : phase[w] \in {"queued", "hold"} =>
           phase'[w] \in {"queued", "hold"},
         lockQueue \in Seq(Writers),
         pendingWipe' \in {pendingWipe, 0}
  PROVE  LineInv'
<1>1. \A i \in 1..Len(lockQueue) : lockQueue[i] \in Writers
  OBVIOUS
<1> QED BY <1>1 DEF LineInv, InLine, ChordOnWay, ChordAhead

LEMMA LineStep ==
  ASSUME Inv, LineInv, [Next]_vars
  PROVE  LineInv'
<1>1. ASSUME NEW w \in Writers,
             \/ w \in Chords /\ RefuseChord(w)
             \/ RefuseParked(w) \/ FirstLookBlocked(w)
             \/ LeaveLock(w) \/ PutFails(w) \/ PutTimesOut(w) \/ StopTyping(w)
             \/ Put(w) /\ Len(left[w]) = 1
      PROVE  LineInv'
  <2>1. \E r \in Results : EndOp(w, r) /\ (r = "ok" => phase[w] # "idle")
    BY <1>1 DEF RefuseChord, RefuseParked, FirstLookBlocked, LeaveLock, PutFails,
                PutTimesOut, StopTyping, Put, Results
  <2>2. phase[w] # "done"
    BY <1>1 DEF RefuseChord, RefuseParked, FirstLookBlocked, LeaveLock, PutFails,
                PutTimesOut, StopTyping, Put
  <2>3. HasLock(w) \/ phase[w] \in {"idle", "ready"}
    BY <1>1 DEF RefuseChord, RefuseParked, FirstLookBlocked, LeaveLock, PutFails,
                PutTimesOut, StopTyping, Put, Inv, HoldShape
  <2>4. \/ pendingWipe' \in {pendingWipe, 0}
        \/ HasLock(w) /\ w \in Prompts
    BY <1>1 DEF RefuseChord, RefuseParked, FirstLookBlocked, LeaveLock, PutFails,
                PutTimesOut, StopTyping, Put, Inv, HoldShape, LookBlocks, Gated
  <2> QED BY <2>1, <2>2, <2>3, <2>4, EndOpKeepsLine
<1>a. lockQueue \in Seq(Writers)
  BY DEF Inv, StateTypes
<1>2. ASSUME NEW w \in Writers, Put(w), Len(left[w]) # 1 PROVE LineInv'
  <2>1. /\ UNCHANGED <<job, phase, lockQueue, inFlight>>
        /\ pendingWipe' \in {pendingWipe, 0}
    BY <1>2 DEF Put
  <2> QED BY <2>1, <1>a, CalmLine
<1>3. ASSUME NEW w \in Writers, TakeLock(w) PROVE LineInv'
  <2>1. /\ phase[w] = "queued" /\ phase' = [phase EXCEPT ![w] = "hold"]
        /\ UNCHANGED <<job, lockQueue, inFlight, pendingWipe>>
    BY <1>3 DEF TakeLock
  <2>2. /\ \A v \in Writers \ {w} : phase'[v] = phase[v]
        /\ phase'[w] = "hold"
    BY <2>1 DEF Inv, StateTypes
  <2>3. \A i \in 1..Len(lockQueue) : lockQueue[i] \in Writers
    BY <1>a
  <2>4. InLine'
    BY <2>1, <2>2, <2>3 DEF LineInv, InLine
  <2>5. ChordOnWay'
    BY <2>1, <2>2 DEF LineInv, ChordOnWay, Writers
  <2>6. ChordAhead'
    BY <2>1 DEF LineInv, ChordAhead
  <2> QED BY <2>4, <2>5, <2>6 DEF LineInv
<1>4. ASSUME NEW w \in Prompts \cup Wipers,
             \/ StartPrompt(w) \/ StartClear(w)
             \/ w \in Stops /\ StartStop(w)
      PROVE  LineInv'
  <2>1. /\ w \in Writers /\ w \notin Chords
        /\ phase[w] = "idle" /\ phase' = [phase EXCEPT ![w] = "ready"]
        /\ UNCHANGED <<lockQueue, inFlight, pendingWipe>>
    BY <1>4, RolesApart DEF StartPrompt, StartClear, StartStop, Writers, Wipers
  <2>3. \A v \in Writers \ {w} : job'[v] = job[v]
    BY <1>4 DEF StartPrompt, StartClear, StartStop, Inv, StateTypes
  <2>2. /\ \A v \in Writers \ {w} : phase'[v] = phase[v]
        /\ Chords \subseteq Writers
    BY <2>1 DEF Inv, StateTypes, Writers
  <2> QED BY <2>1, <2>2, <2>3, <1>a, CalmLine
<1>5. ASSUME NEW c \in Chords, StartChord(c) PROVE LineInv'
  <2>1. /\ c \in Writers /\ phase[c] = "idle"
        /\ phase' = [phase EXCEPT ![c] = "queued"]
        /\ lockQueue' = Append(lockQueue, c)
        /\ UNCHANGED <<job, pendingWipe>>
        /\ inFlight' = inFlight \cup {c}
        /\ pendingWipe = 0 /\ inFlight = {} /\ Injecting = {}
    BY <1>5 DEF StartChord, ChordRefused, Inv, StateTypes, Writers
  <2>2. \A i \in 1..Len(lockQueue) : lockQueue[i] \in Wipers
    <3> SUFFICES ASSUME NEW i \in 1..Len(lockQueue)
                 PROVE  lockQueue[i] \in Wipers
      OBVIOUS
    <3>1. lockQueue[i] \in Writers /\ phase[lockQueue[i]] \in {"queued", "hold"}
      BY <1>a DEF LineInv, InLine
    <3>2. lockQueue[i] \notin Prompts
      BY <2>1, <3>1 DEF Injecting
    <3>3. lockQueue[i] \notin Chords
      BY <2>1, <3>1 DEF LineInv, ChordOnWay
    <3> QED BY <3>1, <3>2, <3>3 DEF Writers, Wipers
  <2> QED BY <2>1, <2>2, JoinKeepsLine
<1>6. ASSUME NEW w \in Writers, AskForLock(w) PROVE LineInv'
  <2>1. /\ phase[w] = "ready" /\ phase' = [phase EXCEPT ![w] = "queued"]
        /\ lockQueue' = Append(lockQueue, w)
        /\ UNCHANGED <<job, pendingWipe, inFlight>>
    BY <1>6 DEF AskForLock
  <2>2. w \in Chords => w \in inFlight /\ job[w] = <<"CtrlS">>
    BY <2>1 DEF LineInv, ChordOnWay
  <2> QED BY <2>1, <2>2, JoinKeepsLine
<1>7. CASE TakeQueue \/ OpenDialog \/ CloseDialog \/ Park \/ KillSession
           \/ StrayLands
  <2>1. /\ UNCHANGED <<job, phase, lockQueue, inFlight>>
        /\ pendingWipe' \in {pendingWipe, 0}
    BY <1>7 DEF TakeQueue, OpenDialog, CloseDialog, Park, KillSession,
                 StrayLands, Elsewhere
  <2> QED BY <2>1, <1>a, CalmLine
<1>9. CASE UNCHANGED vars
  <2>1. UNCHANGED <<job, phase, lockQueue, inFlight, pendingWipe>>
    BY <1>9 DEF vars
  <2> QED BY <2>1, <1>a, CalmLine
<1>11. \A w \in Prompts \cup Chords \cup Clears \cup Stops : w \in Writers
  BY DEF Writers
<1>12. Clears \subseteq Wipers /\ Stops \subseteq Wipers
  BY DEF Wipers
<1> QED
  BY <1>1, <1>2, <1>3, <1>4, <1>5, <1>6, <1>7, <1>9, <1>11, <1>12
     DEF Next, Step

(* ------------------------------ what is left --------------------------- *)

(* The writes of a prompt's hold: a wipe if one is owed, then its own.     *)
LEMMA PromptHold ==
  ASSUME Inv, NEW p \in Prompts, phase[p] # "done"
  PROVE  /\ PromptRest(p, HoldWrites(p))
         /\ Len(HoldWrites(p)) =
              (IF pendingWipe > 0 THEN WipeWrites(pendingWipe) ELSE 0) + Pieces + 1
<1> DEFINE head == IF pendingWipe > 0 THEN Wipe(pendingWipe) ELSE <<>>
           n == IF pendingWipe > 0 THEN WipeWrites(pendingWipe) ELSE 0
<1>1. Op(p) = "prompt" /\ pendingWipe \in Nat
  <2>1. job[p] = <<"prompt">> BY DEF Inv, JobShape, Writers
  <2> QED BY <2>1 DEF Op, Inv, StateTypes
<1>2. HoldWrites(p) = head \o Prompt(p)
  BY <1>1 DEF HoldWrites
<1>3. /\ head \in Seq(PlainWrite) /\ Len(head) = n /\ n \in Nat
      /\ \A i \in 1..Len(head) : head[i] = Key("KillLine")
  BY <1>1, WipeType DEF Wipe
<1>4. Prompt(p) \in Seq(PlainWrite) /\ Len(Prompt(p)) = Pieces + 1
  BY PromptType
<1> HIDE DEF head, n
<1>5. /\ Len(HoldWrites(p)) = n + (Pieces + 1)
      /\ \A i \in 1..n : HoldWrites(p)[i] = head[i]
      /\ \A i \in (n + 1)..(n + (Pieces + 1)) : HoldWrites(p)[i] = Prompt(p)[i - n]
  <2>1. \A a, b \in Seq(PlainWrite) :
          /\ Len(a \o b) = Len(a) + Len(b)
          /\ \A i \in 1..Len(a) : (a \o b)[i] = a[i]
          /\ \A i \in (Len(a) + 1)..(Len(a) + Len(b)) : (a \o b)[i] = b[i - Len(a)]
    OBVIOUS
  <2> DEFINE h == HoldWrites(p)
             w == Prompt(p)
  <2>2. h = head \o w BY <1>2
  <2>3. w \in Seq(PlainWrite) /\ Len(w) = Pieces + 1 BY <1>4
  <2> HIDE DEF h, w
  <2>4. /\ Len(h) = Len(head) + Len(w)
        /\ \A i \in 1..Len(head) : h[i] = head[i]
        /\ \A i \in (Len(head) + 1)..(Len(head) + Len(w)) : h[i] = w[i - Len(head)]
    BY <1>3, <2>1, <2>2, <2>3
  <2>5. /\ Len(h) = n + (Pieces + 1)
        /\ \A i \in 1..n : h[i] = head[i]
        /\ \A i \in (n + 1)..(n + (Pieces + 1)) : h[i] = w[i - n]
    BY <1>3, <2>3, <2>4
  <2> QED BY <2>5 DEF h, w
<1>6. ASSUME NEW i \in 1..Len(HoldWrites(p))
      PROVE  HoldWrites(p)[i] =
               IF Len(HoldWrites(p)) - i <= Pieces
                 THEN Prompt(p)[Pieces + 1 - (Len(HoldWrites(p)) - i)]
                 ELSE Key("KillLine")
  <2>1. i \in Nat /\ i > 0 /\ i <= n + (Pieces + 1) BY <1>5
  <2>2. CASE i <= n
    <3>1. ~(Len(HoldWrites(p)) - i <= Pieces)
      BY <1>3, <1>5, <2>1, <2>2, SizesHold
    <3>2. i \in 1..n BY <1>3, <2>1, <2>2
    <3> QED BY <1>3, <1>5, <3>1, <3>2
  <2>3. CASE ~(i <= n)
    <3>1. Len(HoldWrites(p)) - i <= Pieces
      BY <1>3, <1>5, <2>1, <2>3, SizesHold
    <3>2. i \in (n + 1)..(n + (Pieces + 1)) BY <1>3, <2>1, <2>3, SizesHold
    <3>3. Pieces + 1 - (Len(HoldWrites(p)) - i) = i - n
      BY <1>3, <1>5, <2>1, SizesHold
    <3> QED BY <1>5, <3>1, <3>2, <3>3
  <2> QED BY <2>2, <2>3
<1>7. PromptRest(p, HoldWrites(p))
  BY <1>6 DEF PromptRest
<1>8. n + (Pieces + 1) = n + Pieces + 1
  BY <1>3, SizesHold
<1> QED BY <1>5, <1>7, <1>8 DEF n

(* The writes of a discard's hold: its Escape and its wipe.                *)
LEMMA ClearHold ==
  ASSUME Inv, NEW d \in Wipers, Op(d) = "discard"
  PROVE  /\ ClearRest(HoldWrites(d)) /\ HoldWrites(d)[1] = Key("Escape")
         /\ Len(HoldWrites(d)) = WipeWrites(chars[d]) + 1
<1>1. Op(d) = "discard" /\ chars[d] \in Nat
  BY DEF Inv, StateTypes, Writers, Wipers
<1>2. HoldWrites(d) = <<Key("Escape")>> \o Wipe(chars[d])
  BY <1>1 DEF HoldWrites
<1>3. /\ Wipe(chars[d]) \in Seq(PlainWrite)
      /\ Len(Wipe(chars[d])) = WipeWrites(chars[d])
      /\ WipeWrites(chars[d]) \in Nat \ {0}
      /\ \A i \in 1..WipeWrites(chars[d]) : Wipe(chars[d])[i] = Key("KillLine")
  BY <1>1, WipeType, WipeReaches DEF Wipe
<1>4. \A a, S : \A b \in Seq(S) :
        /\ Len(<<a>> \o b) = Len(b) + 1
        /\ (<<a>> \o b)[1] = a
        /\ \A i \in 2..(Len(b) + 1) : (<<a>> \o b)[i] = b[i - 1]
  OBVIOUS
<1>5. /\ Len(HoldWrites(d)) = WipeWrites(chars[d]) + 1
      /\ HoldWrites(d)[1] = Key("Escape")
      /\ \A i \in 2..Len(HoldWrites(d)) : HoldWrites(d)[i] = Wipe(chars[d])[i - 1]
  BY <1>2, <1>3, <1>4
<1>6. \A i \in 2..Len(HoldWrites(d)) : i - 1 \in 1..WipeWrites(chars[d])
  BY <1>3, <1>5
<1> QED BY <1>3, <1>5, <1>6 DEF ClearRest

(* A hold's writes with the first one out.                                 *)
LEMMA RestTail ==
  ASSUME NEW q \in Seq(Write), Len(q) > 1
  PROVE  /\ \A p \in Prompts : PromptRest(p, q) => PromptRest(p, Tail(q))
         /\ ClearRest(q) => ClearRest(Tail(q)) /\ Tail(q)[1] = Key("KillLine")
<1>1. /\ Len(q) \in Nat /\ Len(Tail(q)) = Len(q) - 1
      /\ \A i \in 1..Len(Tail(q)) : Tail(q)[i] = q[i + 1]
  OBVIOUS
<1>2. ASSUME NEW p \in Prompts, PromptRest(p, q), NEW i \in 1..Len(Tail(q))
      PROVE  Tail(q)[i] = IF Len(Tail(q)) - i <= Pieces
                            THEN Prompt(p)[Pieces + 1 - (Len(Tail(q)) - i)]
                            ELSE Key("KillLine")
  <2>1. i + 1 \in 1..Len(q) /\ Len(q) - (i + 1) = Len(Tail(q)) - i
    BY <1>1
  <2> QED BY <1>1, <1>2, <2>1 DEF PromptRest
<1>3. ASSUME ClearRest(q)
      PROVE  ClearRest(Tail(q)) /\ Tail(q)[1] = Key("KillLine")
  <2>1. \A i \in 1..Len(Tail(q)) : i + 1 \in 2..Len(q)
    BY <1>1
  <2>2. \A i \in 1..Len(Tail(q)) : Tail(q)[i] = Key("KillLine")
    BY <1>1, <1>3, <2>1 DEF ClearRest
  <2>3. 1 \in 1..Len(Tail(q)) /\ \A i \in 2..Len(Tail(q)) : i \in 1..Len(Tail(q))
    BY <1>1
  <2> QED BY <2>2, <2>3 DEF ClearRest
<1> QED BY <1>2, <1>3 DEF PromptRest

(* --------------------------- one write's effect ------------------------ *)

LEMMA TerminalParts ==
  ASSUME NEW t \in Terminal
  PROVE  /\ t.box \in Seq(Unit) /\ t.queue \in Seq(Unit)
         /\ Len(t.box) \in Nat /\ Len(t.queue) \in Nat
         /\ t.dialog \in BOOLEAN /\ t.alive \in BOOLEAN
  BY DEF Terminal

(* A Ctrl+U takes a batch, or all there is.                                *)
LEMMA KillTakes ==
  ASSUME NEW t \in Terminal, NEW u \in Landed(t, Key("KillLine")), ~t.dialog
  PROVE  /\ u.queue = t.queue /\ u.submitted = t.submitted /\ ~u.dialog
         /\ Len(u.box) \in Nat /\ Len(u.box) <= Len(t.box)
         /\ Len(u.box) = 0 \/ Len(u.box) + Batch <= Len(t.box)
<1>1. Key("KillLine") \in Write /\ Key("KillLine").key = "KillLine"
  BY DEF Write, Key
<1>2. /\ u.queue = t.queue /\ u.submitted = t.submitted /\ ~u.dialog
      /\ \E k \in 0..Len(t.box) : /\ k = 0 \/ k + Batch <= Len(t.box)
                                  /\ u.box = SubSeq(t.box, 1, k)
  BY <1>1, LandedText
<1>3. PICK k \in 0..Len(t.box) : /\ k = 0 \/ k + Batch <= Len(t.box)
                                 /\ u.box = SubSeq(t.box, 1, k)
  BY <1>2
<1>4. \A s \in Seq(Unit) : \A n \in 0..Len(s) : Len(SubSeq(s, 1, n)) = n
  OBVIOUS
<1>5. Len(u.box) = k /\ Len(t.box) \in Nat
  BY <1>3, <1>4, TerminalParts
<1> QED BY <1>2, <1>3, <1>5

LEMMA Times ==
  ASSUME NEW b \in Nat \ {0}, NEW m \in Nat \ {0}
  PROVE  b * m = b * (m - 1) + b /\ b * (m - 1) \in Nat /\ b * 0 = 0
<1>1. b * m = b * (m - 1) + b
  OBVIOUS
<1>2. \A i, j \in Nat : i * j \in Nat
  OBVIOUS
<1>3. m - 1 \in Nat
  OBVIOUS
<1> QED BY <1>1, <1>2, <1>3

(* A prompt's Ctrl+U and its pieces, but for the Enter.                    *)
LEMMA PromptWrites ==
  ASSUME NEW t \in Terminal, NEW q \in Seq(Write), NEW p \in Prompts,
         NEW owed \in Nat, Len(q) > 1, PromptRest(p, q), PromptBox(p, q, t, owed),
         q[1].key = "KillLine" \/ ~t.dialog, NEW u \in Landed(t, q[1])
  PROVE  /\ u.queue = t.queue /\ u.submitted = t.submitted
         /\ PromptBox(p, Tail(q), u,
              IF q[1].key = "KillLine" /\ q[2].key # "KillLine" THEN 0 ELSE owed)
<1>0. /\ Len(q) \in Nat /\ Len(Tail(q)) = Len(q) - 1 /\ q[1] \in Write
      /\ 1 \in 1..Len(q) /\ 2 \in 1..Len(q)
      /\ Pieces \in Nat \ {0} /\ Batch \in Nat \ {0}
  BY Sizes
<1>a. \A i \in 1..(Pieces + 1) : Prompt(p)[i].key # "KillLine"
  BY PromptType
<1>1. CASE Len(q) > Pieces + 1
  <2>1. /\ q[1] = Key("KillLine") /\ ~t.dialog
        /\ Len(t.box) <= Batch * (Len(q) - (Pieces + 1)) /\ Len(t.box) <= owed
    <3>1. ~(Len(q) - 1 <= Pieces) BY <1>0, <1>1
    <3> QED BY <1>0, <1>1, <3>1 DEF PromptRest, PromptBox
  <2>2. /\ u.queue = t.queue /\ u.submitted = t.submitted /\ ~u.dialog
        /\ Len(u.box) \in Nat /\ Len(u.box) <= Len(t.box)
        /\ Len(u.box) = 0 \/ Len(u.box) + Batch <= Len(t.box)
    BY <2>1, KillTakes
  <2> DEFINE m == Len(q) - (Pieces + 1)
  <2>3. m \in Nat \ {0} /\ Len(Tail(q)) - (Pieces + 1) = m - 1
    BY <1>0, <1>1
  <2>4. Batch * m = Batch * (m - 1) + Batch /\ Batch * (m - 1) \in Nat
        /\ Batch * 0 = 0
    BY <1>0, <2>3, Times
  <2>5. Len(t.box) \in Nat /\ Len(t.box) <= Batch * m
    BY <2>1, TerminalParts
  <2> HIDE DEF m
  <2>6. Len(u.box) <= Batch * (m - 1)
    BY <1>0, <2>2, <2>4, <2>5
  <2>7. CASE m > 1
    <3>1. Len(Tail(q)) > Pieces + 1
      BY <1>0, <2>3, <2>7
    <3>2. Len(u.box) <= Batch * (Len(Tail(q)) - (Pieces + 1))
      BY <2>3, <2>6
    <3>3. q[2] = Key("KillLine")
      <4>1. ~(Len(q) - 2 <= Pieces) BY <1>0, <3>1
      <4> QED BY <1>0, <4>1 DEF PromptRest
    <3>4. q[2].key = "KillLine" BY <3>3 DEF Key
    <3>5. Len(u.box) <= owed
      <4>1. \A a, b, e \in Nat : a <= b /\ b <= e => a <= e OBVIOUS
      <4> QED BY <2>1, <2>2, <2>5, <4>1, Zenon
    <3> QED BY <2>2, <3>1, <3>2, <3>4, <3>5 DEF PromptBox
  <2>8. CASE m = 1
    <3>1. Len(Tail(q)) = Pieces + 1 /\ Len(q) = Pieces + 2
      BY <1>0, <2>3, <2>8
    <3>2. Len(u.box) = 0
      BY <2>2, <2>4, <2>6, <2>8
    <3>3. q[2] = Prompt(p)[1]
      <4>1. Len(q) - 2 <= Pieces /\ Pieces + 1 - (Len(q) - 2) = 1
        BY <1>0, <3>1
      <4> QED BY <1>0, <4>1 DEF PromptRest
    <3>4. q[2].key # "KillLine" /\ q[1].key = "KillLine"
      <4>1. 1 \in 1..(Pieces + 1) BY <1>0
      <4> QED BY <1>a, <2>1, <3>3, <4>1 DEF Key
    <3>5. /\ ~(Len(Tail(q)) > Pieces + 1) /\ Pieces + 1 - Len(Tail(q)) = 0
          /\ 1..Len(u.box) = {}
      BY <1>0, <3>1, <3>2
    <3> QED BY <2>2, <3>2, <3>4, <3>5 DEF PromptBox
  <2> QED BY <2>3, <2>7, <2>8
<1>2. CASE ~(Len(q) > Pieces + 1)
  <2> DEFINE k == Pieces + 1 - (Len(q) - 1)
  <2>1. k \in 1..Pieces /\ Len(q) - 1 <= Pieces
    BY <1>0, <1>2
  <2>8. ~(Len(Tail(q)) > Pieces + 1) /\ k = Pieces + 1 - Len(Tail(q))
    <3>1. \A a, b, c \in Nat : b = a - 1 /\ ~(a > c + 1) =>
            ~(b > c + 1) /\ c + 1 - (a - 1) = c + 1 - b
      OBVIOUS
    <3>2. Len(Tail(q)) \in Nat BY <1>0
    <3>3. Pieces \in Nat BY <1>0
    <3> QED BY <1>0, <1>2, <3>1, <3>2, <3>3, Zenon
  <2>2. q[1] = Piece(p, k)
    <3>1. q[1] = Prompt(p)[k] BY <1>0, <2>1 DEF PromptRest
    <3>2. k \in 1..(Pieces + 1) /\ k <= Pieces BY <1>0, <2>1
    <3> HIDE DEF k
    <3> QED BY <3>1, <3>2 DEF Prompt
  <2>3. /\ owed = 0 /\ Len(t.box) = Pieces + 1 - Len(q)
        /\ \A i \in 1..Len(t.box) : t.box[i] = <<p, i>>
    BY <1>2 DEF PromptBox
  <2>4. q[1].key = "text" /\ q[1].unit = <<p, k>> /\ ~t.dialog
    <3>1. "text" # "KillLine" OBVIOUS
    <3> QED BY <2>2, <3>1 DEF Piece
  <2>5. /\ u.box = Append(t.box, <<p, k>>) /\ u.queue = t.queue
        /\ u.submitted = t.submitted
    <3>1. q[1].key = "text" => /\ u.box = Append(t.box, q[1].unit) /\ u.queue = t.queue
                               /\ u.submitted = t.submitted
      BY <1>0, <2>4, LandedText
    <3> QED BY <2>4, <3>1
  <2>6. t.box \in Seq(Unit) /\ Len(t.box) + 1 = k
    BY <1>0, <2>3, TerminalParts
  <2> HIDE DEF k
  <2>7. /\ Len(u.box) = k
        /\ \A i \in 1..Len(u.box) : u.box[i] = <<p, i>>
    <3>1. \A s \in Seq(Unit) : \A e :
            /\ Len(Append(s, e)) = Len(s) + 1
            /\ \A i \in 1..Len(s) : Append(s, e)[i] = s[i]
            /\ Append(s, e)[Len(s) + 1] = e
            /\ \A i \in 1..(Len(s) + 1) : i \in 1..Len(s) \/ i = Len(s) + 1
      OBVIOUS
    <3> QED BY <2>3, <2>5, <2>6, <3>1
  <2> QED BY <2>3, <2>5, <2>7, <2>8 DEF PromptBox
<1> QED BY <1>1, <1>2

(* The Enter: it submits the prompt's text, all of it and nothing else.    *)
LEMMA PromptEnters ==
  ASSUME NEW t \in Terminal, NEW q \in Seq(Write), NEW p \in Prompts,
         NEW owed, Len(q) = 1, PromptRest(p, q), PromptBox(p, q, t, owed),
         q[1].key = "KillLine" \/ ~t.dialog, NEW u \in Landed(t, q[1])
  PROVE  /\ q[1] = Key("Enter") /\ owed = 0
         /\ u.box = <<>> /\ Len(t.box) = Pieces
         /\ Len(u.queue) = Len(t.queue) + Pieces
         /\ u.submitted = t.submitted \cup {Text(p)}
<1>0. /\ 1 \in 1..Len(q) /\ q[1] \in Write
      /\ Pieces \in Nat \ {0} /\ ~(Len(q) > Pieces + 1)
  <2>1. 1 \in 1..Len(q) OBVIOUS
  <2>2. q[1] \in Write BY <2>1
  <2> QED BY <2>1, <2>2, Sizes
<1>1. q[1] = Key("Enter")
  <2>1. Len(q) - 1 <= Pieces /\ Pieces + 1 - (Len(q) - 1) = Pieces + 1
    BY <1>0
  <2>2. q[1] = Prompt(p)[Pieces + 1] BY <1>0, <2>1 DEF PromptRest
  <2>3. Pieces + 1 \in 1..(Pieces + 1) /\ ~(Pieces + 1 <= Pieces) BY <1>0
  <2> QED BY <2>2, <2>3 DEF Prompt
<1>2. q[1].key = "Enter" /\ ~t.dialog
  BY <1>1 DEF Key
<1>3. /\ owed = 0 /\ Len(t.box) = Pieces
      /\ \A i \in 1..Len(t.box) : t.box[i] = <<p, i>>
  <2>1. Pieces + 1 - Len(q) = Pieces BY <1>0
  <2> QED BY <1>0, <2>1 DEF PromptBox
<1>4. /\ u.box = <<>> /\ u.queue = t.queue \o t.box
      /\ u.submitted = Submit(t)
  BY <1>0, <1>2, LandedText
<1>5. t.box \in Seq(Unit) /\ t.queue \in Seq(Unit)
  BY TerminalParts
<1>6. t.box = Text(p)
  <2>1. t.box = [i \in 1..Len(t.box) |-> t.box[i]]
    BY <1>5
  <2> QED BY <1>3, <2>1 DEF Text
<1>7. t.box # <<>>
  BY <1>0, <1>3
<1> QED BY <1>1, <1>3, <1>4, <1>5, <1>6, <1>7 DEF Submit

(* A discard's Escape moves the queue into the box, its Ctrl+U empty it.   *)
LEMMA ClearWrites ==
  ASSUME NEW t \in Terminal, NEW q \in Seq(Write), q # <<>>, ClearRest(q),
         NEW owed, ClearBox(q, t, owed), NEW u \in Landed(t, q[1])
  PROVE  /\ u.submitted = t.submitted
         /\ Len(q) > 1 => \A v : ClearBox(Tail(q), u, v)
         /\ Len(q) = 1 => u.box = <<>> /\ q[1] = Key("KillLine")
<1>0. /\ Len(q) \in Nat \ {0} /\ Batch \in Nat \ {0} /\ q[1] \in Write
      /\ t.box \in Seq(Unit) /\ t.queue \in Seq(Unit)
      /\ Len(t.box) \in Nat /\ Len(t.queue) \in Nat
  BY Sizes, TerminalParts
<1>a. /\ Len(q) > 1 => Tail(q)[1] = Key("KillLine")
      /\ Key("KillLine") # Key("Escape")
  BY RestTail DEF Key
<1>b. Len(q) > 1 => Len(Tail(q)) = Len(q) - 1
  BY TailOf
<1>1. CASE q[1] = Key("Escape")
  <2>1. Len(q) > 1 /\ Len(t.queue) + Len(t.box) <= Batch * (Len(q) - 1)
    BY <1>1, <1>a DEF ClearRest, ClearBox
  <2>2. q[1].key = "Escape"
    BY <1>1 DEF Key
  <2>3. /\ u.submitted = t.submitted /\ u.queue \in {t.queue, <<>>} /\ ~u.dialog
        /\ \/ u.box = t.box /\ u.queue = t.queue
           \/ u.box = t.queue \o t.box /\ u.queue = <<>>
    BY <1>0, <2>2, LandedText
  <2>4. /\ Len(u.queue) + Len(u.box) = Len(t.queue) + Len(t.box)
        /\ Len(u.box) <= Len(t.queue) + Len(t.box) /\ Len(u.box) \in Nat
    <3>1. ASSUME NEW a \in Seq(Unit), NEW b \in Seq(Unit),
                 NEW c \in Seq(Unit), NEW d \in Seq(Unit),
                 (a = c /\ b = d) \/ (a = d \o c /\ b = <<>>)
          PROVE  /\ Len(b) + Len(a) = Len(d) + Len(c)
                 /\ Len(a) <= Len(d) + Len(c) /\ Len(a) \in Nat
      <4>1. /\ Len(a) \in Nat /\ Len(b) \in Nat /\ Len(c) \in Nat /\ Len(d) \in Nat
            /\ Len(d \o c) = Len(d) + Len(c)
        OBVIOUS
      <4>2. CASE a = c /\ b = d
        BY <4>1, <4>2
      <4>3. CASE a = d \o c /\ b = <<>>
        <5>1. Len(b) = 0
          BY <4>3
        <5> QED BY <4>1, <4>3, <5>1
      <4> QED BY <3>1, <4>2, <4>3
    <3>2. u.box \in Seq(Unit) /\ u.queue \in Seq(Unit)
      <4>1. u \in Terminal BY <1>0, LandedType
      <4> QED BY <4>1, TerminalParts
    <3>3. t.box \in Seq(Unit) /\ t.queue \in Seq(Unit)
      BY <1>0, TerminalParts
    <3> QED BY <2>3, <3>1, <3>2, <3>3, Zenon
  <2>5. Len(u.box) <= Batch * Len(Tail(q))
    <3>1. Len(q) - 1 = Len(Tail(q)) /\ Len(q) - 1 \in Nat BY <1>0, <1>b, <2>1
    <3>2. Batch * (Len(q) - 1) \in Nat BY <1>0, <3>1
    <3>3. \A a, b, c, d \in Nat : a <= b + c /\ b + c <= d => a <= d OBVIOUS
    <3>4. Len(u.box) <= Batch * (Len(q) - 1) BY <1>0, <2>1, <2>4, <3>2, <3>3
    <3> QED BY <3>1, <3>4
  <2>6. \A v : ClearBox(Tail(q), u, v)
    <3>1. Tail(q)[1] # Key("Escape") BY <1>a, <2>1
    <3> QED BY <2>3, <2>5, <3>1 DEF ClearBox
  <2>8. Len(q) # 1
    <3>1. \A n \in Nat : n > 1 => n # 1 OBVIOUS
    <3> QED BY <1>0, <2>1, <3>1, Zenon
  <2> QED BY <2>3, <2>6, <2>8, Zenon
<1>2. CASE q[1] = Key("KillLine")
  <2>1. ~t.dialog /\ Len(t.box) <= Batch * Len(q)
    BY <1>2, <1>a DEF ClearBox
  <2>2. /\ u.queue = t.queue /\ u.submitted = t.submitted /\ ~u.dialog
        /\ Len(u.box) \in Nat /\ Len(u.box) <= Len(t.box)
        /\ Len(u.box) = 0 \/ Len(u.box) + Batch <= Len(t.box)
    BY <1>2, <2>1, KillTakes
  <2>3. /\ Batch * Len(q) = Batch * (Len(q) - 1) + Batch
        /\ Batch * (Len(q) - 1) \in Nat /\ Batch * 0 = 0
    BY <1>0, Times
  <2>4. Len(u.box) <= Batch * (Len(q) - 1)
    BY <1>0, <2>1, <2>2, <2>3
  <2>5. Len(q) > 1 => \A v : ClearBox(Tail(q), u, v)
    BY <1>0, <1>a, <1>b, <2>2, <2>4 DEF ClearBox
  <2>6. Len(q) = 1 => u.box = <<>>
    <3>1. Len(q) = 1 => Len(u.box) = 0
      <4> SUFFICES ASSUME Len(q) = 1 PROVE Len(u.box) = 0
        OBVIOUS
      <4>1. Batch * (Len(q) - 1) = 0 BY <2>3
      <4> QED BY <2>2, <2>4, <4>1
    <3>2. u.box \in Seq(Unit)
      <4>1. u \in Terminal BY <1>0, LandedType
      <4> QED BY <4>1, TerminalParts
    <3> QED BY <3>1, <3>2
  <2> QED BY <1>2, <1>0, <2>2, <2>5, <2>6
<1> QED BY <1>1, <1>2 DEF ClearRest

(* The chord's two writes, the second one with an empty box.               *)
LEMMA ChordWrites ==
  ASSUME NEW t \in Terminal, NEW k \in {"CtrlX", "CtrlS"},
         k = "CtrlS" => t.box = <<>>, NEW u \in Landed(t, Key(k))
  PROVE  /\ u.submitted = t.submitted /\ u.queue \in {t.queue, <<>>}
         /\ u.box = t.box
<1>1. Key(k) \in Write /\ Key(k).key = k
  BY DEF Write, Key
<1>2. t.box = <<>> => Submit(t) = t.submitted
  BY DEF Submit
<1> QED BY <1>1, <1>2, LandedText

(* ------------------------------ step by step --------------------------- *)

(* A writer that ends no longer holds; the others' holds stay as they are. *)
LEMMA RestFrame ==
  ASSUME Inv, HoldsRest,
         \A w \in Writers : phase'[w] = "hold" =>
           phase[w] = "hold" /\ left'[w] = left[w] /\ job'[w] = job[w]
  PROVE  HoldsRest'
<1>1. Prompts \subseteq Writers /\ Wipers \subseteq Writers
  BY DEF Writers, Wipers
<1> QED BY <1>1 DEF HoldsRest, Op

(* What a hold still has to write keeps its form, whatever goes wrong.     *)
LEMMA RestStep ==
  ASSUME Inv, HoldsRest, [Next]_vars
  PROVE  HoldsRest'
<1>0. /\ Prompts \subseteq Writers /\ Wipers \subseteq Writers
      /\ Prompts \cap Wipers = {}
  BY RolesApart DEF Writers, Wipers
<1>1. ASSUME NEW w \in Writers,
             \/ w \in Chords /\ RefuseChord(w)
             \/ RefuseParked(w) \/ FirstLookBlocked(w)
             \/ LeaveLock(w) \/ PutFails(w) \/ PutTimesOut(w) \/ StopTyping(w)
             \/ Put(w) /\ Len(left[w]) = 1
      PROVE  HoldsRest'
  <2>1. PICK r \in Results : EndOp(w, r)
    BY <1>1 DEF RefuseChord, RefuseParked, FirstLookBlocked, LeaveLock, PutFails,
                PutTimesOut, StopTyping, Put, Results
  <2>2. phase[w] # "done"
    BY <1>1 DEF RefuseChord, RefuseParked, FirstLookBlocked, LeaveLock, PutFails,
                PutTimesOut, StopTyping, Put
  <2>3. /\ \A v \in Writers \ {w} : job'[v] = job[v] /\ phase'[v] = phase[v]
                                    /\ left'[v] = left[v]
        /\ phase'[w] \in {"ready", "done"}
    BY <2>1, <2>2, EndOpEffect, EndOpParts
  <2> QED BY <2>3, RestFrame
<1>2. ASSUME NEW w \in Writers, Put(w), Len(left[w]) # 1 PROVE HoldsRest'
  <2>1. /\ left' = [left EXCEPT ![w] = Tail(left[w])]
        /\ UNCHANGED <<job, phase>> /\ phase[w] = "hold"
    BY <1>2 DEF Put
  <2>2. left[w] \in Seq(Write) /\ Len(left[w]) > 1
    <3>1. left[w] \in Seq(Write) /\ Len(left[w]) \in Nat \ {0}
      BY <2>1, NextWriteType
    <3>2. \A n \in Nat \ {0} : n # 1 => n > 1
      OBVIOUS
    <3> QED BY <1>2, <3>1, <3>2, Zenon
  <2>3. /\ left'[w] = Tail(left[w])
        /\ \A v \in Writers \ {w} : left'[v] = left[v]
    BY <2>1 DEF Inv, StateTypes
  <2>4. /\ \A p \in Prompts : PromptRest(p, left[w]) => PromptRest(p, Tail(left[w]))
        /\ ClearRest(left[w]) => ClearRest(Tail(left[w]))
    BY <2>2, RestTail
  <2>5. Len(<<Key("Escape")>>) = 1
    OBVIOUS
  <2>6. ASSUME NEW p \in Prompts, phase'[p] = "hold" PROVE PromptRest(p, left'[p])
    BY <1>0, <2>1, <2>3, <2>4, <2>6 DEF HoldsRest
  <2>7. ASSUME NEW d \in Wipers, phase'[d] = "hold"
        PROVE  IF Op(d) = "discard" THEN ClearRest(left'[d])
                                    ELSE left'[d] = <<Key("Escape")>>
    BY <1>0, <1>2, <2>1, <2>3, <2>4, <2>5, <2>7 DEF HoldsRest
  <2> QED BY <2>1, <2>6, <2>7 DEF HoldsRest, Op
<1>3. ASSUME NEW w \in Writers, TakeLock(w) PROVE HoldsRest'
  <2>1. /\ phase[w] = "queued" /\ UNCHANGED job
        /\ \A v \in Writers \ {w} : phase'[v] = phase[v] /\ left'[v] = left[v]
        /\ left'[w] = HoldWrites(w)
    BY <1>3 DEF TakeLock, Inv, StateTypes
  <2>2. w \in Prompts => PromptRest(w, HoldWrites(w))
    BY <2>1, PromptHold
  <2>3. w \in Wipers /\ Op(w) = "discard" => ClearRest(HoldWrites(w))
    BY ClearHold
  <2>4. w \in Wipers /\ Op(w) # "discard" => HoldWrites(w) = <<Key("Escape")>>
    <3> SUFFICES ASSUME w \in Wipers, Op(w) # "discard"
                 PROVE  HoldWrites(w) = <<Key("Escape")>>
      OBVIOUS
    <3>1. job[w] \in Seq({"Escape", "discard"}) /\ job[w] # <<>>
      BY <2>1 DEF Inv, JobShape, Wipers
    <3>2. Op(w) = "Escape"
      BY <3>1 DEF Op
    <3> QED BY <3>2 DEF HoldWrites
  <2> QED BY <1>0, <2>1, <2>2, <2>3, <2>4 DEF HoldsRest, Op
<1>4. ASSUME NEW w \in Writers,
             \/ StartPrompt(w) \/ StartClear(w) \/ StartStop(w)
             \/ StartChord(w) \/ AskForLock(w)
      PROVE  HoldsRest'
  <2>1. /\ phase'[w] # "hold" /\ UNCHANGED left
        /\ \A v \in Writers \ {w} : phase'[v] = phase[v] /\ job'[v] = job[v]
    BY <1>4 DEF StartPrompt, StartClear, StartStop, StartChord, AskForLock, Inv,
                StateTypes
  <2> QED BY <2>1, RestFrame
<1>5. CASE \/ StrayLands \/ TakeQueue \/ OpenDialog \/ CloseDialog \/ Park
           \/ KillSession \/ UNCHANGED vars
  <2>1. UNCHANGED <<phase, left, job>>
    BY <1>5 DEF StrayLands, TakeQueue, OpenDialog, CloseDialog, Park, KillSession,
                Elsewhere, vars
  <2> QED BY <2>1, RestFrame
<1>6. \A w \in Prompts \cup Chords \cup Clears \cup Stops : w \in Writers
  BY DEF Writers
<1> QED BY <1>1, <1>2, <1>3, <1>4, <1>5, <1>6 DEF Next, Step

(* ---------------------------- what was submitted ----------------------- *)

(* Claude's messages are never taken back.                                 *)
LEMMA SubmitsGrow ==
  ASSUME Inv, [Next]_vars
  PROVE  term.submitted \subseteq term'.submitted
<1>0. term \in Terminal /\ strays \subseteq Write
  BY DEF Inv, StateTypes
<1>1. ASSUME NEW x \in Write, NEW u \in Landed(term, x)
      PROVE  term.submitted \subseteq u.submitted
  <2>1. x.key \in {"text", "Enter", "Escape", "KillLine", "CtrlX", "CtrlS"}
    BY DEF Write, Key, Piece
  <2>2. term.submitted \subseteq Submit(term)
    BY DEF Submit
  <2>3. u.submitted \in {term.submitted, Submit(term)}
    BY <1>0, <2>1, LandedText
  <2> QED BY <2>2, <2>3
<1>2. ASSUME NEW w \in Writers, Put(w)
      PROVE  term.submitted \subseteq term'.submitted
  <2>1. NextWrite(w) \in Write /\ term' \in Landed(term, NextWrite(w))
    BY <1>2, NextWriteType DEF Put
  <2>2. PICK u \in Landed(term, NextWrite(w)) : u = term'
    BY <2>1
  <2> QED BY <1>1, <2>1, <2>2
<1>3. CASE StrayLands
  <2>1. PICK x \in strays : term' \in Landed(term, x) \cup {term}
    BY <1>3 DEF StrayLands
  <2>2. PICK u : u = term'
    OBVIOUS
  <2> QED BY <1>0, <1>1, <2>1, <2>2
<1>4. ASSUME NEW w \in Writers, Step(w)
      PROVE  Put(w) \/ term' = term
  BY <1>4 DEF Step, RefuseParked, AskForLock, TakeLock, LeaveLock, PutFails,
     PutTimesOut, FirstLookBlocked, StopTyping
<1>5. ASSUME NEW w,
             \/ StartPrompt(w) \/ StartClear(w) \/ StartStop(w)
             \/ StartChord(w) \/ RefuseChord(w)
      PROVE  term' = term
  BY <1>5 DEF StartPrompt, StartClear, StartStop, StartChord, RefuseChord
<1>6. CASE TakeQueue \/ OpenDialog \/ CloseDialog \/ Park \/ KillSession
  BY <1>0, <1>6 DEF TakeQueue, OpenDialog, CloseDialog, Park, KillSession, Terminal
<1>7. CASE UNCHANGED vars
  BY <1>7 DEF vars
<1> QED BY <1>2, <1>3, <1>4, <1>5, <1>6, <1>7 DEF Next

(* Every writer but a prompt at its Enter that returns one reports no      *)
(* prompt sent, and what a prompt reported stands.                         *)
LEMMA ReportsStand ==
  ASSUME Inv, SentOnly, [Next]_vars
  PROVE  /\ \A p \in Prompts : outcome'[p] # "none" => phase'[p] = "done"
         /\ \A p \in Prompts : outcome[p] = "ok" => outcome'[p] = "ok"
         /\ \A p \in Prompts : outcome'[p] = "ok" =>
              outcome[p] = "ok" \/ (Put(p) /\ Len(left[p]) = 1)
<1>0. /\ Prompts \subseteq Writers
      /\ \A p \in Prompts : outcome[p] # "none" => phase[p] = "done"
  BY DEF Writers, SentOnly
<1>1. ASSUME NEW w \in Writers, phase[w] # "done", NEW r \in Results, EndOp(w, r),
             r = "ok" => Put(w) /\ Len(left[w]) = 1
      PROVE  /\ \A p \in Prompts : outcome'[p] # "none" => phase'[p] = "done"
             /\ \A p \in Prompts : outcome[p] = "ok" => outcome'[p] = "ok"
             /\ \A p \in Prompts : outcome'[p] = "ok" =>
                  outcome[p] = "ok" \/ (Put(p) /\ Len(left[p]) = 1)
  <2>1. /\ outcome'[w] = r
        /\ \A v \in Writers \ {w} : outcome'[v] = outcome[v] /\ phase'[v] = phase[v]
        /\ w \in Prompts => phase'[w] = "done"
    BY <1>1, EndOpEffect, EndOpParts
  <2> QED BY <1>0, <1>1, <2>1
<1>2. ASSUME NEW w \in Writers, Step(w)
      PROVE  \/ phase[w] # "done" /\ \E r \in Results :
                  EndOp(w, r) /\ (r = "ok" => Put(w) /\ Len(left[w]) = 1)
             \/ UNCHANGED outcome /\ \A v \in Writers : phase[v] = "done" => phase'[v] = "done"
  <2>1. CASE AskForLock(w) \/ TakeLock(w)
    BY <2>1 DEF AskForLock, TakeLock, Inv, StateTypes
  <2>2. CASE Put(w)
    BY <2>2 DEF Put, Results
  <2>3. CASE \/ RefuseParked(w) \/ LeaveLock(w) \/ PutFails(w) \/ PutTimesOut(w)
             \/ FirstLookBlocked(w) \/ StopTyping(w)
    BY <2>3 DEF RefuseParked, LeaveLock, PutFails, PutTimesOut, FirstLookBlocked,
                StopTyping, Results
  <2> QED BY <1>2, <2>1, <2>2, <2>3 DEF Step
<1>3. ASSUME NEW w \in Writers, RefuseChord(w)
      PROVE  phase[w] # "done" /\ EndOp(w, "refused") /\ "refused" \in Results
  BY <1>3 DEF RefuseChord, Results
<1>4. ASSUME NEW w \in Writers,
             StartPrompt(w) \/ StartClear(w) \/ StartStop(w) \/ StartChord(w)
      PROVE  UNCHANGED outcome /\ \A v \in Writers : phase[v] = "done" => phase'[v] = "done"
  BY <1>4 DEF StartPrompt, StartClear, StartStop, StartChord, Inv, StateTypes
<1>6. ASSUME UNCHANGED outcome,
             \A v \in Writers : phase[v] = "done" => phase'[v] = "done"
      PROVE  /\ \A p \in Prompts : outcome'[p] # "none" => phase'[p] = "done"
             /\ \A p \in Prompts : outcome[p] = "ok" => outcome'[p] = "ok"
             /\ \A p \in Prompts : outcome'[p] = "ok" =>
                  outcome[p] = "ok" \/ (Put(p) /\ Len(left[p]) = 1)
  BY <1>0, <1>6
<1>7. \A w \in Prompts \cup Chords \cup Clears \cup Stops : w \in Writers
  BY DEF Writers
<1>8. CASE \E w \in Writers : Step(w)
  <2>1. PICK w \in Writers : Step(w) BY <1>8
  <2>2. CASE phase[w] # "done" /\ \E r \in Results :
               EndOp(w, r) /\ (r = "ok" => Put(w) /\ Len(left[w]) = 1)
    <3>1. PICK r \in Results :
            EndOp(w, r) /\ (r = "ok" => Put(w) /\ Len(left[w]) = 1)
      BY <2>2
    <3> QED BY <1>1, <2>1, <2>2, <3>1
  <2>3. CASE UNCHANGED outcome /\ \A v \in Writers : phase[v] = "done" => phase'[v] = "done"
    BY <1>6, <2>3
  <2> QED BY <1>2, <2>1, <2>2, <2>3
<1>9. CASE \E c \in Chords : RefuseChord(c)
  <2>1. PICK c \in Chords : RefuseChord(c) BY <1>9
  <2>2. c \in Writers BY <1>7
  <2>3. "refused" # "ok" OBVIOUS
  <2> QED BY <1>1, <1>3, <2>1, <2>2, <2>3
<1>10. CASE \/ \E p \in Prompts : StartPrompt(p)
            \/ \E d \in Clears : StartClear(d)
            \/ \E s \in Stops : StartStop(s)
            \/ \E c \in Chords : StartChord(c)
  BY <1>4, <1>6, <1>7, <1>10
<1>11. CASE \/ StrayLands \/ TakeQueue \/ OpenDialog \/ CloseDialog \/ Park
            \/ KillSession \/ UNCHANGED vars
  <2>1. UNCHANGED outcome /\ \A v \in Writers : phase[v] = "done" => phase'[v] = "done"
    BY <1>11 DEF StrayLands, TakeQueue, OpenDialog, CloseDialog, Park, KillSession,
                 Elsewhere, vars
  <2> QED BY <2>1, <1>6
<1> QED BY <1>8, <1>9, <1>10, <1>11 DEF Next

(* While text is out of sight, whatever is submitted is in doubt.          *)
LEMMA SentInDoubt ==
  ASSUME Inv, SentOnly, upset, [Next]_vars
  PROVE  SentOnly'
<1>1. /\ \A p \in Prompts : outcome'[p] # "none" => phase'[p] = "done"
      /\ \A p \in Prompts : outcome[p] = "ok" => outcome'[p] = "ok"
      /\ \A p \in Prompts : outcome'[p] = "ok" => outcome[p] = "ok" \/ Put(p)
      /\ term.submitted \subseteq term'.submitted
  BY ReportsStand, SubmitsGrow
<1>2. CASE UNCHANGED vars
  BY <1>1, <1>2 DEF SentOnly, vars, history
<1>3. ASSUME NEW b \in BOOLEAN, Recall(b)
      PROVE  SentOnly'
  <2>1. doubts' = doubts \cup (term'.submitted \ term.submitted)
                    \cup {Text(p) : p \in {q \in Prompts : phase[q] = "hold"}}
    BY <1>3 DEF Recall
  <2>2. \A p \in Prompts : Put(p) => Text(p) \in doubts'
    BY <2>1 DEF Put
  <2>3. \A s \in term'.submitted \ doubts' : s \in term.submitted \ doubts
    BY <2>1
  <2>4. doubts \subseteq doubts'
    BY <2>1
  <2> QED BY <1>1, <2>2, <2>3, <2>4 DEF SentOnly
<1> QED BY <1>2, <1>3, StepRecalled

(* Else each new message is one prompt's, reported sent by that step.      *)
LEMMA SentInSight ==
  ASSUME Inv, SentOnly, ~upset, [Next]_vars,
         \A s \in term'.submitted \ term.submitted :
           \E p \in Prompts : s = Text(p) /\ outcome'[p] = "ok",
         \A p \in Prompts : Put(p) /\ Len(left[p]) = 1 =>
           Text(p) \in term'.submitted
  PROVE  SentOnly'
<1>1. /\ \A p \in Prompts : outcome'[p] # "none" => phase'[p] = "done"
      /\ \A p \in Prompts : outcome[p] = "ok" => outcome'[p] = "ok"
      /\ \A p \in Prompts : outcome'[p] = "ok" =>
           outcome[p] = "ok" \/ (Put(p) /\ Len(left[p]) = 1)
      /\ term.submitted \subseteq term'.submitted
  BY ReportsStand, SubmitsGrow
<1>2. doubts' = doubts
  BY StepRecalled DEF Recall, vars, history
<1> QED BY <1>1, <1>2 DEF SentOnly

(* ------------------------------- the box ------------------------------- *)

(* Nobody takes the lock, ends or writes.                                  *)
LEMMA BoxCalm ==
  ASSUME Inv, HoldsRest, BoxInv, UNCHANGED <<left, broken>>,
         \A w \in Writers : /\ (phase'[w] = "hold") = (phase[w] = "hold")
                            /\ phase[w] = "hold" => job'[w] = job[w],
         \A c \in Chords : job'[c] = job[c],
         term'.queue \in {term.queue, <<>>},
         term'.alive => /\ term.alive /\ term'.box = term.box
                        /\ pendingWipe' = pendingWipe
                        /\ \/ term'.dialog = term.dialog \/ ~term'.dialog
                           \/ \A w \in Writers : ~Wiping(w)
  PROVE  BoxInv'
<1>0. /\ Prompts \subseteq Writers /\ Wipers \subseteq Writers
      /\ Len(term'.queue) \in Nat /\ Len(term'.queue) <= Len(term.queue)
      /\ Len(term.queue) \in Nat /\ Len(term.box) \in Nat
  <2>1. Prompts \subseteq Writers /\ Wipers \subseteq Writers
    BY DEF Writers, Wipers
  <2>2. Len(term.queue) \in Nat /\ Len(term.box) \in Nat
    BY TerminalParts DEF Inv, StateTypes
  <2>3. Len(<<>>) = 0 OBVIOUS
  <2>4. \A n \in Nat : 0 <= n /\ n <= n OBVIOUS
  <2> QED BY <2>1, <2>2, <2>3, <2>4
<1> SUFFICES ASSUME term'.alive PROVE BoxAtRest' /\ BoxOfHolder' /\ BoxOfChord'
  BY DEF BoxInv
<1>1. /\ term.alive /\ term'.box = term.box /\ pendingWipe' = pendingWipe
      /\ BoxAtRest /\ BoxOfHolder /\ BoxOfChord
  BY DEF BoxInv
<1>2. \A w \in Writers : AtText(w)' = AtText(w)
  BY DEF AtText, Op
<1>3. BoxAtRest'
  BY <1>1, <1>2 DEF BoxAtRest
<1>4. term'.dialog = term.dialog \/ ~term'.dialog \/ \A w \in Writers : ~Wiping(w)
  OBVIOUS
<1>5. ASSUME NEW p \in Prompts, phase'[p] = "hold"
      PROVE  PromptBox(p, left'[p], term', pendingWipe')
  <2>1. PromptBox(p, left[p], term, pendingWipe) /\ phase[p] = "hold"
        /\ PromptRest(p, left[p]) /\ left' = left
    BY <1>0, <1>1, <1>5 DEF BoxOfHolder, HoldsRest
  <2>2. Len(left[p]) > Pieces + 1 => Wiping(p)
    <3> SUFFICES ASSUME Len(left[p]) > Pieces + 1 PROVE Wiping(p)
      OBVIOUS
    <3>1. Len(left[p]) \in Nat BY <1>0 DEF Inv, StateTypes
    <3>2. 1 \in 1..Len(left[p]) /\ ~(Len(left[p]) - 1 <= Pieces)
      BY <3>1, SizesHold
    <3>3. left[p][1] = Key("KillLine") BY <2>1, <3>2 DEF PromptRest
    <3> QED BY <2>1, <3>2, <3>3 DEF Wiping, Key
  <2>3. Len(left[p]) > Pieces + 1 => ~term'.dialog
    BY <1>0, <1>4, <2>1, <2>2 DEF PromptBox
  <2> QED BY <1>1, <2>1, <2>3 DEF PromptBox
<1>6. ASSUME NEW d \in Wipers, AtText(d)'
      PROVE  ClearBox(left'[d], term', pendingWipe')
  <2>1. /\ ClearBox(left[d], term, pendingWipe) /\ AtText(d) /\ left' = left
        /\ phase[d] = "hold" /\ ClearRest(left[d])
    <3>1. AtText(d) BY <1>0, <1>2, <1>6
    <3>2. Op(d) = "discard"
      <4>1. job[d] \in Seq({"Escape", "discard"}) /\ job[d] # <<>>
        BY <1>0, <3>1 DEF Inv, JobShape, AtText, Wipers
      <4>2. Op(d) \in {"Escape", "discard"} BY <4>1 DEF Op
      <4> QED BY <3>1, <4>2 DEF AtText
    <3> QED BY <1>1, <3>1, <3>2 DEF BoxOfHolder, HoldsRest, AtText
  <2>2. CASE left[d][1] = Key("Escape")
    <3>1. Len(term.queue) + Len(term.box) <= Batch * (Len(left[d]) - 1)
      BY <2>1, <2>2 DEF ClearBox
    <3>2. Batch * (Len(left[d]) - 1) \in Int
      <4>1. Len(left[d]) \in Nat BY <1>0 DEF Inv, StateTypes
      <4>2. \A a, b \in Int : a * b \in Int OBVIOUS
      <4> QED BY <4>1, <4>2, SizesHold
    <3>3. \A a, b, c \in Nat : \A e \in Int : a <= b /\ b + c <= e => a + c <= e
      OBVIOUS
    <3>4. Len(term'.queue) + Len(term.box) <= Batch * (Len(left[d]) - 1)
      BY <1>0, <3>1, <3>2, <3>3, Zenon
    <3> QED BY <1>1, <2>1, <2>2, <3>4 DEF ClearBox
  <2>3. CASE left[d][1] # Key("Escape")
    <3>1. left[d][1] = Key("KillLine") BY <2>1, <2>3 DEF ClearRest
    <3>2. 1 \in 1..Len(left[d])
      <4>1. left[d] \in Seq(Write) /\ left[d] # <<>>
        BY <1>0, <2>1 DEF Inv, StateTypes, HoldShape
      <4> QED BY <4>1
    <3>3. Wiping(d) BY <2>1, <3>1, <3>2 DEF Wiping, Key
    <3>4. ~term'.dialog BY <1>0, <1>4, <2>1, <2>3, <3>3 DEF ClearBox
    <3> QED BY <1>1, <2>1, <2>3, <3>4 DEF ClearBox
  <2> QED BY <2>2, <2>3
<1>7. BoxOfChord'
  BY <1>1 DEF BoxOfChord
<1> QED BY <1>3, <1>5, <1>6, <1>7 DEF BoxOfHolder

(* A discard is the only hold of a wiper that is about text.               *)
LEMMA TextOps ==
  ASSUME Inv
  PROVE  /\ \A p \in Prompts : phase[p] = "hold" => AtText(p) /\ Op(p) = "prompt"
         /\ \A d \in Wipers : AtText(d) => Op(d) = "discard"
         /\ \A c \in Chords : ~AtText(c)
<1>1. ASSUME NEW p \in Prompts, phase[p] = "hold"
      PROVE  AtText(p) /\ Op(p) = "prompt"
  <2>1. job[p] = <<"prompt">> BY <1>1 DEF Inv, JobShape, Writers
  <2> QED BY <1>1, <2>1 DEF AtText, Op
<1>2. ASSUME NEW d \in Wipers, AtText(d) PROVE Op(d) = "discard"
  <2>1. job[d] \in Seq({"Escape", "discard"}) /\ job[d] # <<>>
    BY <1>2 DEF Inv, JobShape, AtText, Wipers, Writers
  <2>2. Op(d) \in {"Escape", "discard"} BY <2>1 DEF Op
  <2> QED BY <1>2, <2>2 DEF AtText
<1>3. ASSUME NEW c \in Chords PROVE ~AtText(c)
  <2> SUFFICES ASSUME phase[c] = "hold" PROVE Op(c) \notin {"prompt", "discard"}
    BY DEF AtText
  <2>1. job[c] \in {<<"CtrlX", "CtrlS">>, <<"CtrlS">>}
    BY DEF Inv, JobShape, Writers
  <2>2. Head(<<"CtrlX", "CtrlS">>) = "CtrlX" /\ Head(<<"CtrlS">>) = "CtrlS"
    OBVIOUS
  <2> QED BY <2>1, <2>2 DEF Op
<1> QED BY <1>1, <1>2, <1>3

(* With nobody left in a hold the box only has to be at rest.              *)
LEMMA BoxAlone ==
  ASSUME \A w \in Writers : phase'[w] # "hold",
         term'.alive => Len(term'.box) <= pendingWipe' /\ BoxOfChord'
  PROVE  BoxInv'
<1>1. Prompts \subseteq Writers /\ Wipers \subseteq Writers
  BY DEF Writers, Wipers
<1> QED BY <1>1 DEF BoxInv, BoxAtRest, BoxOfHolder, AtText

(* What the box holds when a prompt's or a discard's hold fails before it  *)
(* left any text of its own there, and when a prompt's stops typing.       *)
LEMMA BoxWhenFailed ==
  ASSUME Inv, HoldsRest, BoxAtRest, BoxOfHolder, NEW w \in Writers,
         phase[w] = "hold", ~LeavesText(w)
  PROVE  Len(term.box) <= pendingWipe
<1>0. /\ Len(term.box) \in Nat /\ left[w] \in Seq(Write) /\ left[w] # <<>>
      /\ Len(left[w]) \in Nat \ {0} /\ Head(left[w]) = left[w][1]
      /\ pendingWipe \in Nat
  <2>1. Len(term.box) \in Nat /\ pendingWipe \in Nat
    BY TerminalParts DEF Inv, StateTypes
  <2>2. left[w] \in Seq(Write) /\ left[w] # <<>> /\ Len(left[w]) \in Nat \ {0}
    BY NextWriteType
  <2>3. Head(left[w]) = left[w][1]
    BY <2>2
  <2> QED BY <2>1, <2>2, <2>3
<1>1. CASE ~AtText(w)
  <2>1. \A v \in Writers : ~AtText(v)
    BY <1>1 DEF Inv, HoldShape, HasLock, AtText
  <2> QED BY <2>1 DEF BoxAtRest
<1>2. CASE AtText(w) /\ w \in Prompts
  <2>1. PromptBox(w, left[w], term, pendingWipe)
    BY <1>2 DEF BoxOfHolder
  <2>2. ~(Len(left[w]) <= Pieces)
    BY <1>2, TextOps DEF LeavesText
  <2>3. CASE Len(left[w]) > Pieces + 1
    BY <2>1, <2>3 DEF PromptBox
  <2>4. CASE ~(Len(left[w]) > Pieces + 1)
    <3>1. Pieces + 1 - Len(left[w]) = 0
      BY <1>0, <2>2, <2>4, SizesHold
    <3>2. Len(term.box) = 0
      BY <2>1, <2>4, <3>1 DEF PromptBox
    <3> QED BY <1>0, <3>2
  <2> QED BY <2>3, <2>4
<1>3. CASE AtText(w) /\ w \in Wipers
  <2>1. Op(w) = "discard"
    BY <1>3, TextOps
  <2>2. ClearBox(left[w], term, pendingWipe) /\ ClearRest(left[w])
    BY <1>3, <2>1 DEF BoxOfHolder, HoldsRest
  <2>3. left[w][1].key # "KillLine"
    BY <1>0, <2>1 DEF LeavesText
  <2>4. left[w][1] = Key("Escape")
    BY <2>2, <2>3 DEF ClearRest, Key
  <2> QED BY <2>2, <2>4 DEF ClearBox
<1>4. w \in Prompts \/ w \in Wipers \/ w \in Chords
  BY DEF Writers, Wipers
<1> QED BY <1>1, <1>2, <1>3, <1>4, TextOps

LEMMA BoxWhenStopped ==
  ASSUME Inv, HoldsRest, BoxOfHolder, NEW p \in Prompts, StopTyping(p)
  PROVE  Len(term.box) <= pendingWipe'
<1>1. /\ phase[p] = "hold" /\ NextWrite(p).key # "KillLine"
      /\ pendingWipe' = pendingWipe + Typed(p)
      /\ PromptRest(p, left[p]) /\ PromptBox(p, left[p], term, pendingWipe)
  BY DEF StopTyping, LookBlocks, HoldsRest, BoxOfHolder
<1>2. /\ left[p] \in Seq(Write) /\ left[p] # <<>> /\ Len(left[p]) \in Nat \ {0}
      /\ NextWrite(p) = left[p][1] /\ 1 \in 1..Len(left[p])
  <2>1. left[p] \in Seq(Write) /\ left[p] # <<>> /\ Len(left[p]) \in Nat \ {0}
    BY <1>1, NextWriteType, PromptIsWriter
  <2> QED BY <2>1 DEF NextWrite
<1>3. ~(Len(left[p]) > Pieces + 1)
  <2> SUFFICES ASSUME Len(left[p]) > Pieces + 1 PROVE FALSE
    OBVIOUS
  <2>1. ~(Len(left[p]) - 1 <= Pieces) BY <1>2, SizesHold
  <2>2. left[p][1] = Key("KillLine") BY <1>1, <1>2, <2>1 DEF PromptRest
  <2> QED BY <1>1, <1>2, <2>2 DEF Key
<1>4. pendingWipe = 0 /\ Len(term.box) = Pieces + 1 - Len(left[p])
  BY <1>1, <1>3 DEF PromptBox
<1>5. Len(term.box) = Typed(p)
  BY <1>4 DEF Typed
<1>6. Typed(p) \in Int
  BY <1>2, SizesHold DEF Typed
<1> QED BY <1>1, <1>4, <1>5, <1>6

(* A hold, or a wait for one, that ends without a write: what a prompt had *)
(* typed is owed a wipe from then on.                                      *)
LEMMA BoxEnd ==
  ASSUME Inv, HoldsRest, BoxInv, NEW w \in Writers,
         phase[w] # "done", NEW r \in Results \ {"ok"}, EndOp(w, r),
         UNCHANGED <<term, broken>>,
         \/ StopTyping(w)
         \/ /\ term.alive => pendingWipe' = pendingWipe
            /\ phase[w] = "hold" /\ term.alive => ~LeavesText(w)
  PROVE  BoxInv'
<1>0. /\ Prompts \subseteq Writers /\ Wipers \subseteq Writers
      /\ Chords \subseteq Writers /\ r \in Results
  BY DEF Writers, Wipers
<1>1. /\ \A v \in Writers \ {w} : /\ job'[v] = job[v] /\ phase'[v] = phase[v]
                                  /\ left'[v] = left[v]
      /\ phase'[w] \in {"ready", "done"} /\ job'[w] # <<"CtrlS">>
  BY EndOpEffect, EndOpParts
<1> SUFFICES ASSUME term.alive PROVE BoxInv'
  BY DEF BoxInv
<1>2. BoxAtRest /\ BoxOfHolder /\ BoxOfChord
  BY DEF BoxInv
<1>3. BoxOfChord'
  BY <1>0, <1>1, <1>2 DEF BoxOfChord
<1>4. CASE phase[w] = "hold"
  <2>1. \A v \in Writers : phase'[v] # "hold"
    BY <1>1, <1>4 DEF Inv, HoldShape, HasLock
  <2>2. Len(term.box) <= pendingWipe'
    <3>1. CASE StopTyping(w)
      <4>1. w \in Prompts BY <3>1 DEF StopTyping, LookBlocks, Gated
      <4> QED BY <1>2, <3>1, <4>1, BoxWhenStopped
    <3>2. CASE ~StopTyping(w)
      <4>1. pendingWipe' = pendingWipe /\ ~LeavesText(w)
        BY <1>4, <3>2
      <4> QED BY <1>2, <1>4, <4>1, BoxWhenFailed
    <3> QED BY <3>1, <3>2
  <2> QED BY <1>3, <2>1, <2>2, BoxAlone
<1>5. CASE phase[w] # "hold"
  <2>1. pendingWipe' = pendingWipe
    BY <1>5 DEF StopTyping
  <2>2. \A v \in Writers : AtText(v)' = AtText(v)
    BY <1>1, <1>5 DEF AtText, Op
  <2>3. BoxAtRest'
    BY <1>2, <2>1, <2>2 DEF BoxAtRest
  <2>4. \A v \in Writers : phase'[v] = "hold" => phase[v] = "hold" /\ left'[v] = left[v]
    BY <1>1, <1>5
  <2>5. BoxOfHolder'
    <3>1. ASSUME NEW p \in Prompts, phase'[p] = "hold"
          PROVE  PromptBox(p, left'[p], term', pendingWipe')
      BY <1>0, <1>2, <2>1, <2>4, <3>1 DEF BoxOfHolder
    <3>2. ASSUME NEW d \in Wipers, AtText(d)'
          PROVE  ClearBox(left'[d], term', pendingWipe')
      <4>1. AtText(d) BY <1>0, <2>2, <3>2
      <4>2. left'[d] = left[d] BY <1>0, <2>4, <3>2 DEF AtText
      <4> QED BY <1>2, <2>1, <4>1, <4>2 DEF BoxOfHolder
    <3> QED BY <3>1, <3>2 DEF BoxOfHolder
  <2> QED BY <1>3, <2>3, <2>5 DEF BoxInv
<1> QED BY <1>4, <1>5

(* Whoever takes the lock finds at most what it wipes; a discard, also     *)
(* what its Escape will move into the box.                                 *)
LEMMA BoxTake ==
  ASSUME Inv, HoldsRest, BoxInv, NEW w \in Writers, TakeLock(w), ~WipesShort(w)
  PROVE  BoxInv'
<1>0. /\ Prompts \subseteq Writers /\ Wipers \subseteq Writers
      /\ Chords \subseteq Writers
      /\ Len(term.queue) \in Nat /\ Len(term.box) \in Nat
      /\ pendingWipe \in Nat
  <2>1. Len(term.queue) \in Nat /\ Len(term.box) \in Nat
    BY TerminalParts DEF Inv, StateTypes
  <2> QED BY <2>1 DEF Writers, Wipers, Inv, StateTypes
<1>1. /\ phase[w] = "queued" /\ HasLock(w) /\ ~(Gated(w) /\ term.dialog)
      /\ ~(Op(w) = "CtrlS" /\ w \in broken)
      /\ \A v \in Writers \ {w} : phase'[v] = phase[v] /\ left'[v] = left[v]
      /\ phase'[w] = "hold" /\ left'[w] = HoldWrites(w)
      /\ broken' = (broken \cup Chords) \ {w}
      /\ UNCHANGED <<term, pendingWipe, job>>
  BY DEF TakeLock, NoteWrite, Inv, StateTypes
<1>2. \A v \in Writers : phase[v] # "hold"
  BY <1>1 DEF Inv, HoldShape, HasLock
<1> SUFFICES ASSUME term.alive PROVE BoxAtRest' /\ BoxOfHolder' /\ BoxOfChord'
  BY <1>1 DEF BoxInv
<1>3. BoxAtRest /\ BoxOfHolder /\ BoxOfChord
  BY DEF BoxInv
<1>4. Len(term.box) <= pendingWipe
  BY <1>2, <1>3 DEF BoxAtRest, AtText
<1>5. BoxOfChord'
  <2>1. Head(<<"CtrlS">>) = "CtrlS" OBVIOUS
  <2> QED BY <1>0, <1>1, <1>3, <2>1 DEF BoxOfChord, Op
<1>6. BoxAtRest'
  BY <1>1, <1>4 DEF BoxAtRest
<1>7. ASSUME w \in Prompts
      PROVE  PromptBox(w, HoldWrites(w), term, pendingWipe)
  <2>0. Op(w) = "prompt"
    <3>1. job[w] = <<"prompt">> BY <1>0, <1>1, <1>7 DEF Inv, JobShape
    <3> QED BY <3>1 DEF Op
  <2>1. Len(HoldWrites(w)) =
          (IF pendingWipe > 0 THEN WipeWrites(pendingWipe) ELSE 0) + Pieces + 1
    BY <1>1, <1>7, PromptHold
  <2>2. CASE pendingWipe = 0
    <3>1. Len(term.box) = 0 BY <1>0, <1>4, <2>2
    <3>2. Len(HoldWrites(w)) = Pieces + 1
      <4>1. ~(pendingWipe > 0) BY <2>2
      <4> QED BY <2>1, <4>1, SizesHold
    <3>3. /\ ~(Len(HoldWrites(w)) > Pieces + 1)
          /\ Pieces + 1 - Len(HoldWrites(w)) = 0 /\ 1..Len(term.box) = {}
      BY <3>1, <3>2, SizesHold
    <3> QED BY <2>2, <3>1, <3>3 DEF PromptBox
  <2>3. CASE pendingWipe > 0
    <3> DEFINE n == WipeWrites(pendingWipe)
    <3>1. n \in Nat \ {0} BY <1>0, WipeReaches
    <3>2. ~(Batch * n < Len(term.box)) BY <2>0, <2>3 DEF WipesShort
    <3>3. Len(HoldWrites(w)) = n + Pieces + 1 BY <2>1, <2>3
    <3> HIDE DEF n
    <3>4. /\ Len(HoldWrites(w)) > Pieces + 1
          /\ Len(HoldWrites(w)) - (Pieces + 1) = n
      BY <3>1, <3>3, SizesHold
    <3>5. Len(term.box) <= Batch * n
      <4>1. Batch * n \in Nat
        <5>1. \A a, b \in Nat : a * b \in Nat OBVIOUS
        <5> QED BY <3>1, <5>1, SizesHold
      <4>2. \A a, b \in Nat : ~(a < b) => b <= a OBVIOUS
      <4> QED BY <1>0, <3>2, <4>1, <4>2, Zenon
    <3>6. ~term.dialog BY <1>1, <1>7 DEF Gated
    <3> QED BY <1>4, <3>4, <3>5, <3>6 DEF PromptBox
  <2> QED BY <1>0, <2>2, <2>3
<1>8. ASSUME w \in Wipers, Op(w) = "discard"
      PROVE  ClearBox(HoldWrites(w), term, pendingWipe)
  <2>1. /\ HoldWrites(w)[1] = Key("Escape")
        /\ Len(HoldWrites(w)) = WipeWrites(chars[w]) + 1
    BY <1>8, ClearHold
  <2> DEFINE n == WipeWrites(chars[w])
             all == Len(term.queue) + Len(term.box)
  <2>2. n \in Nat \ {0}
    <3>1. chars[w] \in Nat BY DEF Inv, StateTypes
    <3> QED BY <3>1, WipeReaches
  <2>3. ~(Batch * n < all) BY <1>8 DEF WipesShort
  <2>4. Len(HoldWrites(w)) = n + 1 BY <2>1
  <2>5. all \in Nat
    <3>1. \A a, b \in Nat : a + b \in Nat OBVIOUS
    <3> QED BY <1>0, <3>1, Zenon
  <2> HIDE DEF n, all
  <2>6. all <= Batch * n
    <3>1. Batch * n \in Nat
      <4>1. \A a, b \in Nat : a * b \in Nat OBVIOUS
      <4> QED BY <2>2, <4>1, SizesHold
    <3>2. \A a, b \in Nat : ~(a < b) => b <= a OBVIOUS
    <3> QED BY <2>3, <2>5, <3>1, <3>2, Zenon
  <2>7. Len(HoldWrites(w)) - 1 = n BY <2>2, <2>4
  <2> QED BY <1>4, <2>1, <2>6, <2>7 DEF ClearBox, all
<1>9. BoxOfHolder'
  <2>1. ASSUME NEW p \in Prompts, phase'[p] = "hold"
        PROVE  PromptBox(p, left'[p], term', pendingWipe')
    <3>1. p = w BY <1>0, <1>1, <1>2, <2>1
    <3> QED BY <1>1, <1>7, <3>1
  <2>2. ASSUME NEW d \in Wipers, AtText(d)'
        PROVE  ClearBox(left'[d], term', pendingWipe')
    <3>1. d = w BY <1>0, <1>1, <1>2, <2>2 DEF AtText
    <3>2. Op(d) \in {"prompt", "discard"} BY <1>1, <2>2 DEF AtText, Op
    <3>3. job[d] \in Seq({"Escape", "discard"}) /\ job[d] # <<>>
      BY <1>0, <1>1, <3>1 DEF Inv, JobShape, Wipers
    <3>4. Op(d) \in {"Escape", "discard"} BY <3>3 DEF Op
    <3>5. Op(w) = "discard" /\ w \in Wipers BY <3>1, <3>2, <3>4
    <3> QED BY <1>1, <1>8, <3>1, <3>5
  <2> QED BY <2>1, <2>2 DEF BoxOfHolder
<1> QED BY <1>5, <1>6, <1>9

(* ------------------------------ the writes ----------------------------- *)

LEMMA PutFacts ==
  ASSUME Inv, NEW w \in Writers, Put(w)
  PROVE  /\ phase[w] = "hold" /\ HasLock(w) /\ term.alive
         /\ term \in Terminal /\ term' \in Landed(term, left[w][1])
         /\ left[w] \in Seq(Write) /\ left[w] # <<>>
         /\ Len(left[w]) \in Nat \ {0}
         /\ NextWrite(w) = left[w][1] /\ left[w][1] \in Write
         /\ ~(w \in Prompts /\ left[w][1].key # "KillLine" /\ term.dialog)
         /\ pendingWipe' = IF left[w][1].key = "KillLine"
                                /\ (Len(left[w]) = 1 \/ left[w][2].key # "KillLine")
                             THEN 0 ELSE pendingWipe
         /\ \A v \in Writers \ {w} : phase[v] # "hold"
         /\ \A v \in Writers \ {w} : /\ phase'[v] = phase[v] /\ job'[v] = job[v]
                                     /\ left'[v] = left[v]
                                     /\ outcome'[v] = outcome[v]
         /\ UNCHANGED <<chars, broken>>
         /\ Len(left[w]) = 1 => /\ EndOp(w, "ok") /\ outcome'[w] = "ok"
                                /\ \A v \in Writers : phase'[v] # "hold"
         /\ Len(left[w]) # 1 =>
              /\ Len(left[w]) > 1 /\ left'[w] = Tail(left[w])
              /\ phase' = phase /\ job' = job /\ outcome' = outcome
<1>1. /\ phase[w] = "hold" /\ term.alive /\ HasLock(w)
      /\ left[w] \in Seq(Write) /\ left[w] # <<>> /\ term \in Terminal
  BY DEF Put, Inv, StateTypes, HoldShape
<1>2. /\ Len(left[w]) \in Nat \ {0} /\ NextWrite(w) = left[w][1]
      /\ left[w][1] \in Write
  <2>1. \A q \in Seq(Write) : q # <<>> =>
          Len(q) \in Nat \ {0} /\ Head(q) = q[1] /\ q[1] \in Write
    OBVIOUS
  <2> QED BY <1>1, <2>1 DEF NextWrite
<1>3. /\ term' \in Landed(term, left[w][1])
      /\ ~(w \in Prompts /\ left[w][1].key # "KillLine" /\ term.dialog)
      /\ pendingWipe' = IF left[w][1].key = "KillLine"
                             /\ (Len(left[w]) = 1 \/ left[w][2].key # "KillLine")
                          THEN 0 ELSE pendingWipe
      /\ UNCHANGED <<chars, broken>>
  BY <1>2 DEF Put, LookBlocks, WipedBy, Gated
<1>4. \A v \in Writers \ {w} : phase[v] # "hold"
  BY <1>1 DEF Inv, HoldShape, HasLock
<1>5. CASE Len(left[w]) = 1
  <2>1. EndOp(w, "ok") /\ "ok" \in Results
    BY <1>5 DEF Put, Results
  <2>2. /\ outcome'[w] = "ok" /\ phase'[w] # "hold"
        /\ \A v \in Writers \ {w} : /\ phase'[v] = phase[v] /\ job'[v] = job[v]
                                    /\ left'[v] = left[v]
                                    /\ outcome'[v] = outcome[v]
    BY <1>1, <2>1, EndOpEffect, EndOpParts
  <2> QED BY <1>1, <1>2, <1>3, <1>4, <1>5, <2>1, <2>2
<1>6. CASE Len(left[w]) # 1
  <2>1. /\ left' = [left EXCEPT ![w] = Tail(left[w])]
        /\ UNCHANGED <<job, phase, outcome>>
    BY <1>6 DEF Put
  <2>2. \A n \in Nat \ {0} : n # 1 => n > 1
    OBVIOUS
  <2>3. Len(left[w]) > 1
    BY <1>2, <1>6, <2>2, Zenon
  <2>4. left \in [Writers -> Seq(Write)]
    BY DEF Inv, StateTypes
  <2>5. /\ left'[w] = Tail(left[w])
        /\ \A v \in Writers \ {w} : left'[v] = left[v]
    BY <2>1, <2>4
  <2> QED BY <1>1, <1>2, <1>3, <1>4, <1>6, <2>1, <2>3, <2>5
<1> QED BY <1>5, <1>6

(* A chord between its holds loses its count to any other writer's hold.   *)
LEMMA PutAmidChords ==
  ASSUME Inv, ChordShape, NEW w \in Writers, Put(w), w \notin Chords
  PROVE  BoxOfChord'
<1>1. /\ phase[w] = "hold" /\ broken' = broken
      /\ \A v \in Writers \ {w} : job'[v] = job[v]
  BY PutFacts
<1> QED BY <1>1 DEF ChordShape, BoxOfChord, Writers

(* What each new message of a write is.                                    *)
Sends(w) ==
  /\ \A s \in term'.submitted \ term.submitted : w \in Prompts /\ s = Text(w)
  /\ term'.submitted # term.submitted => Len(left[w]) = 1
  /\ w \in Prompts /\ Len(left[w]) = 1 => Text(w) \in term'.submitted

(* A prompt's write.                                                       *)
LEMMA PromptPut ==
  ASSUME Inv, HoldsRest, ChordShape, BoxInv, NEW p \in Prompts, Put(p)
  PROVE  BoxInv' /\ Sends(p)
<1>0. /\ Prompts \subseteq Writers /\ Wipers \subseteq Writers
      /\ p \in Writers /\ p \notin Wipers /\ p \notin Chords
  BY RolesApart DEF Writers, Wipers
<1>1. BoxOfChord'
  BY <1>0, PutAmidChords
<1>2. /\ phase[p] = "hold" /\ term.alive /\ term \in Terminal
      /\ left[p] \in Seq(Write) /\ Len(left[p]) \in Nat \ {0}
      /\ left[p][1].key = "KillLine" \/ ~term.dialog
      /\ pendingWipe' = IF left[p][1].key = "KillLine"
                             /\ (Len(left[p]) = 1 \/ left[p][2].key # "KillLine")
                          THEN 0 ELSE pendingWipe
      /\ \A v \in Writers \ {p} : phase[v] # "hold" /\ phase'[v] = phase[v]
      /\ pendingWipe \in Nat
  BY <1>0, PutFacts DEF Inv, StateTypes
<1>3. PICK u \in Landed(term, left[p][1]) : u = term'
  BY <1>0, PutFacts
<1>4. /\ PromptRest(p, left[p]) /\ PromptBox(p, left[p], term, pendingWipe)
  BY <1>2 DEF HoldsRest, BoxInv, BoxOfHolder
<1>5. CASE Len(left[p]) # 1
  <2>1. /\ Len(left[p]) > 1 /\ left'[p] = Tail(left[p])
        /\ phase' = phase /\ job' = job
    BY <1>0, <1>5, PutFacts
  <2>2. /\ u.submitted = term.submitted
        /\ PromptBox(p, Tail(left[p]), u,
             IF left[p][1].key = "KillLine" /\ left[p][2].key # "KillLine"
               THEN 0 ELSE pendingWipe)
    BY <1>2, <1>4, <2>1, PromptWrites
  <2>3. pendingWipe' = IF left[p][1].key = "KillLine" /\ left[p][2].key # "KillLine"
                         THEN 0 ELSE pendingWipe
    BY <1>2, <1>5
  <2>4. Sends(p)
    BY <1>3, <1>5, <2>2 DEF Sends
  <2>5. BoxAtRest'
    <3>1. AtText(p)'
      BY <1>2, <2>1, TextOps DEF AtText, Op
    <3> QED BY <1>0, <3>1 DEF BoxAtRest
  <2>6. BoxOfHolder'
    <3>1. PromptBox(p, left'[p], term', pendingWipe')
      BY <1>3, <2>1, <2>2, <2>3
    <3>2. \A v \in Writers \ {p} : phase'[v] # "hold"
      BY <1>2
    <3> QED BY <1>0, <3>1, <3>2 DEF BoxOfHolder, AtText
  <2> QED BY <1>1, <2>4, <2>5, <2>6 DEF BoxInv
<1>6. CASE Len(left[p]) = 1
  <2>1. \A v \in Writers : phase'[v] # "hold"
    BY <1>0, <1>6, PutFacts
  <2>2. /\ left[p][1] = Key("Enter") /\ pendingWipe = 0
        /\ u.box = <<>> /\ u.submitted = term.submitted \cup {Text(p)}
    BY <1>2, <1>4, <1>6, PromptEnters
  <2>3. Len(term'.box) = 0 /\ pendingWipe' = 0
    BY <1>2, <1>3, <2>2
  <2>4. Sends(p)
    BY <1>3, <1>6, <2>2 DEF Sends
  <2> QED BY <1>1, <2>1, <2>3, <2>4, BoxAlone
<1> QED BY <1>5, <1>6

(* A discard's write.                                                      *)
LEMMA DiscardPut ==
  ASSUME Inv, HoldsRest, ChordShape, BoxInv, NEW d \in Wipers, Put(d),
         Op(d) = "discard"
  PROVE  BoxInv' /\ Sends(d)
<1>0. /\ Prompts \subseteq Writers /\ Wipers \subseteq Writers
      /\ d \in Writers /\ d \notin Prompts /\ d \notin Chords
  BY RolesApart DEF Writers, Wipers
<1>1. BoxOfChord'
  BY <1>0, PutAmidChords
<1>2. /\ phase[d] = "hold" /\ term.alive /\ term \in Terminal
      /\ left[d] \in Seq(Write) /\ left[d] # <<>>
      /\ \A v \in Writers \ {d} : phase[v] # "hold" /\ phase'[v] = phase[v]
      /\ pendingWipe \in Nat
  BY <1>0, PutFacts DEF Inv, StateTypes
<1>3. PICK u \in Landed(term, left[d][1]) : u = term'
  BY <1>0, PutFacts
<1>4. ClearRest(left[d]) /\ ClearBox(left[d], term, pendingWipe) /\ AtText(d)
  BY <1>2 DEF HoldsRest, BoxInv, BoxOfHolder, AtText
<1>5. /\ u.submitted = term.submitted
      /\ Len(left[d]) > 1 => \A v : ClearBox(Tail(left[d]), u, v)
      /\ Len(left[d]) = 1 => u.box = <<>> /\ left[d][1] = Key("KillLine")
  BY <1>2, <1>4, ClearWrites
<1>6. Sends(d)
  BY <1>0, <1>3, <1>5 DEF Sends
<1>7. CASE Len(left[d]) = 1
  <2>1. \A v \in Writers : phase'[v] # "hold"
    BY <1>0, <1>7, PutFacts
  <2>2. pendingWipe' = 0
    <3>1. left[d][1].key = "KillLine"
      BY <1>5, <1>7 DEF Key
    <3> QED BY <1>0, <1>7, <3>1, PutFacts
  <2>3. Len(term'.box) = 0
    BY <1>3, <1>5, <1>7
  <2> QED BY <1>1, <1>6, <2>1, <2>2, <2>3, BoxAlone
<1>8. CASE Len(left[d]) # 1
  <2>1. /\ Len(left[d]) > 1 /\ left'[d] = Tail(left[d])
        /\ phase' = phase /\ job' = job
    BY <1>0, <1>8, PutFacts
  <2>2. ClearBox(left'[d], term', pendingWipe')
    BY <1>3, <1>5, <2>1
  <2>3. \A v \in Writers \ {d} : phase'[v] # "hold"
    BY <1>2
  <2>4. BoxAtRest'
    <3>1. AtText(d)'
      BY <1>4, <2>1 DEF AtText, Op
    <3> QED BY <1>0, <3>1 DEF BoxAtRest
  <2>5. BoxOfHolder'
    BY <1>0, <2>2, <2>3 DEF BoxOfHolder, AtText
  <2> QED BY <1>1, <1>6, <2>4, <2>5 DEF BoxInv
<1> QED BY <1>7, <1>8

(* A write whose hold is a single key and which leaves the box alone.      *)
LEMMA KeyPut ==
  ASSUME Inv, HoldsRest, BoxInv, NEW w \in Writers, Put(w), ~AtText(w),
         Len(left[w]) = 1, left[w][1].key # "KillLine",
         term'.box = term.box, BoxOfChord'
  PROVE  BoxInv'
<1>1. /\ \A v \in Writers : phase'[v] # "hold"
      /\ \A v \in Writers \ {w} : phase[v] # "hold"
      /\ pendingWipe' = pendingWipe /\ term.alive
  BY PutFacts
<1>2. Len(term.box) <= pendingWipe
  BY <1>1 DEF BoxInv, BoxAtRest, AtText
<1> QED BY <1>1, <1>2, BoxAlone

LEMMA EscapeMoves ==
  ASSUME NEW t \in Terminal, NEW x \in Write, NEW u \in Landed(t, x),
         x.key = "Escape"
  PROVE  /\ u.submitted = t.submitted
         /\ t.dialog => u.box = t.box
         /\ ~t.dialog => u.box = t.queue \o t.box
<1>1. CASE t.dialog
  BY <1>1 DEF Landed, Terminal
<1>2. CASE ~t.dialog
  BY <1>2 DEF Landed, Terminal
<1> QED BY <1>1, <1>2

(* A Stop's Escape that moves no queue.                                    *)
LEMMA EscapePut ==
  ASSUME Inv, HoldsRest, ChordShape, BoxInv, NEW d \in Wipers, Put(d),
         Op(d) # "discard", ~Surfaces(d)
  PROVE  BoxInv' /\ Sends(d)
<1>0. /\ Prompts \subseteq Writers /\ Wipers \subseteq Writers
      /\ d \in Writers /\ d \notin Prompts /\ d \notin Chords
  BY RolesApart DEF Writers, Wipers
<1>1. /\ phase[d] = "hold" /\ term \in Terminal /\ left[d][1] \in Write
  BY <1>0, PutFacts
<1>2. PICK u \in Landed(term, left[d][1]) : u = term'
  BY <1>0, PutFacts
<1>3. left[d] = <<Key("Escape")>>
  BY <1>1 DEF HoldsRest
<1>4. Len(left[d]) = 1 /\ left[d][1].key = "Escape"
  <2>1. Len(<<Key("Escape")>>) = 1 /\ <<Key("Escape")>>[1] = Key("Escape")
    OBVIOUS
  <2> QED BY <1>3, <2>1 DEF Key
<1>5. Op(d) = "Escape"
  <2>1. job[d] \in Seq({"Escape", "discard"}) /\ job[d] # <<>>
    BY <1>0, <1>1 DEF Inv, JobShape, Wipers
  <2> QED BY <2>1 DEF Op
<1>6. /\ u.submitted = term.submitted
      /\ term.dialog => u.box = term.box
      /\ ~term.dialog => u.box = term.queue \o term.box
  BY <1>1, <1>4, EscapeMoves
<1>7. u.box = term.box
  <2>1. CASE term.dialog
    BY <1>6, <2>1
  <2>2. CASE ~term.dialog
    <3>1. term.queue = <<>> BY <1>5, <2>2 DEF Surfaces
    <3>2. term.box \in Seq(Unit) BY <1>1, TerminalParts
    <3>3. <<>> \o term.box = term.box BY <3>2
    <3> QED BY <1>6, <3>1, <3>3
  <2> QED BY <2>1, <2>2
<1>8. Sends(d)
  BY <1>0, <1>2, <1>6 DEF Sends
<1>9. ~AtText(d)
  BY <1>5 DEF AtText
<1>10. BoxOfChord'
  BY <1>0, PutAmidChords
<1> QED BY <1>0, <1>2, <1>4, <1>7, <1>8, <1>9, <1>10, KeyPut

(* A chord's write: it finds an empty box.                                 *)
LEMMA ChordPut ==
  ASSUME Inv, HoldsRest, ChordShape, BoxInv, LineInv, NEW c \in Chords, Put(c)
  PROVE  BoxInv' /\ Sends(c)
<1>0. c \in Writers /\ c \notin Prompts
  BY RolesApart DEF Writers
<1>1. /\ phase[c] = "hold" /\ HasLock(c) /\ term.alive /\ term \in Terminal
      /\ \A v \in Writers \ {c} :
           /\ phase[v] # "hold" /\ phase'[v] = phase[v] /\ job'[v] = job[v]
      /\ broken' = broken
  BY <1>0, PutFacts
<1>2. PICK u \in Landed(term, left[c][1]) : u = term'
  BY <1>0, PutFacts
<1>3. BoxAtRest /\ BoxOfChord
  BY <1>1 DEF BoxInv
<1>4. /\ job[c] \in {<<"CtrlX", "CtrlS">>, <<"CtrlS">>}
      /\ left[c] = <<Key(Op(c))>> /\ left[c][1] = Key(Op(c))
      /\ Op(c) \in {"CtrlX", "CtrlS"} /\ Len(left[c]) = 1
  <2>1. job[c] \in {<<"CtrlX", "CtrlS">>, <<"CtrlS">>}
    BY <1>0, <1>1 DEF Inv, JobShape
  <2>2. Head(<<"CtrlX", "CtrlS">>) = "CtrlX" /\ Head(<<"CtrlS">>) = "CtrlS"
    OBVIOUS
  <2>3. left[c] = <<Key(Op(c))>>
    BY <1>0, <1>1 DEF Inv, HoldShape
  <2> QED BY <2>1, <2>2, <2>3 DEF Op
<1>5. \A v \in Writers : ~AtText(v)
  BY <1>1, TextOps DEF AtText
<1>6. term.box = <<>>
  <2>1. CASE job[c] = <<"CtrlS">>
    BY <1>0, <1>1, <1>3, <2>1 DEF ChordShape, BoxOfChord
  <2>2. CASE job[c] # <<"CtrlS">>
    <3>1. lockQueue[1] = c /\ 1 \in 1..Len(lockQueue)
      <4>1. lockQueue \in Seq(Writers) /\ lockQueue # <<>> /\ Head(lockQueue) = c
        BY <1>1 DEF HasLock, Inv, StateTypes
      <4> QED BY <4>1
    <3>2. pendingWipe = 0
      BY <2>2, <3>1 DEF LineInv, ChordAhead
    <3>3. Len(term.box) <= pendingWipe
      BY <1>3, <1>5 DEF BoxAtRest
    <3>4. term.box \in Seq(Unit) /\ Len(term.box) \in Nat
      BY <1>1, TerminalParts
    <3>5. Len(term.box) = 0
      <4>1. \A n \in Nat : n <= 0 => n = 0 OBVIOUS
      <4> QED BY <3>2, <3>3, <3>4, <4>1, Zenon
    <3> QED BY <3>4, <3>5
  <2> QED BY <2>1, <2>2
<1>7. u.submitted = term.submitted /\ u.box = term.box
  BY <1>1, <1>4, <1>6, ChordWrites
<1>8. Sends(c)
  BY <1>0, <1>2, <1>7 DEF Sends
<1>9. BoxOfChord'
  BY <1>2, <1>6, <1>7 DEF BoxOfChord
<1>10. left[c][1].key # "KillLine"
  BY <1>4 DEF Key
<1> QED BY <1>0, <1>2, <1>4, <1>5, <1>7, <1>8, <1>9, <1>10, KeyPut

(* Every step keeps the texts accounted for, as long as it is recalled as  *)
(* one that loses none.                                                    *)
LEMMA CalmStep ==
  ASSUME TextInv, [Next]_vars, ~upset, ~upset'
  PROVE  Calm'
<1> USE DEF TextInv
<1>0. /\ Inv /\ Inv' /\ HoldsRest /\ LineInv /\ term \in Terminal
      /\ strays = {} /\ ChordShape /\ BoxInv
      /\ \A w \in Prompts \cup Chords \cup Clears \cup Stops : w \in Writers
      /\ \A w \in Writers : w \in Prompts \/ w \in Chords \/ w \in Wipers
  BY TypesStep DEF Calm, Inv, StateTypes, Writers, Wipers
<1>1. CASE Settled'
  <2>1. /\ term'.box = <<>> /\ strays' = {}
        /\ \A w \in Writers : phase'[w] # "hold"
        /\ \A c \in Chords : job'[c] # <<"CtrlS">>
    BY <1>1 DEF Settled, MidChord
  <2>2. ChordShape' /\ BoxOfChord'
    BY <1>0, <2>1 DEF ChordShape, BoxOfChord
  <2>3. Len(term'.box) <= pendingWipe'
    <3>1. Len(<<>>) = 0 /\ \A n \in Nat : 0 <= n OBVIOUS
    <3>2. pendingWipe' \in Nat BY <1>0 DEF Inv, StateTypes
    <3> QED BY <2>1, <3>1, <3>2
  <2> QED BY <2>1, <2>2, <2>3, BoxAlone DEF Calm
<1>2. CASE ~Settled'
  <2>1. ASSUME NEW b \in BOOLEAN, Recall(b) PROVE ~b
    BY <1>2, <2>1 DEF Recall
  <2>2. ASSUME NEW w \in Writers, PutTimesOut(w) PROVE FALSE
    BY <2>1, <2>2 DEF PutTimesOut
  <2>3. strays' = {}
    BY <1>0, <2>2, NoStrays
  <2>4. ChordShape'
    BY <1>0, <2>3, ChordStep
  <2> SUFFICES BoxInv'
    BY <2>3, <2>4 DEF Calm
  <2>5. ASSUME NEW w \in Writers,
               \/ w \in Chords /\ RefuseChord(w)
               \/ RefuseParked(w) \/ FirstLookBlocked(w) \/ LeaveLock(w)
               \/ PutFails(w) \/ StopTyping(w)
        PROVE  BoxInv'
    <3>1. /\ phase[w] # "done" /\ UNCHANGED <<term, broken>>
          /\ \E r \in Results \ {"ok"} : EndOp(w, r)
      BY <2>5 DEF RefuseChord, RefuseParked, FirstLookBlocked, LeaveLock,
                  PutFails, StopTyping, Results
    <3>2. PutFails(w) => ~(term.alive /\ LeavesText(w))
      <4>1. (term.alive /\ LeavesText(w)) \in BOOLEAN OBVIOUS
      <4> QED BY <2>1, <4>1 DEF PutFails
    <3>3. \/ StopTyping(w)
          \/ /\ term.alive => pendingWipe' = pendingWipe
             /\ phase[w] = "hold" /\ term.alive => ~LeavesText(w)
      BY <2>5, <3>2 DEF RefuseChord, RefuseParked, FirstLookBlocked, LeaveLock, PutFails
    <3> QED BY <1>0, <3>1, <3>3, BoxEnd
  <2>6. ASSUME NEW w \in Writers, TakeLock(w) PROVE BoxInv'
    <3>1. WipesShort(w) \in BOOLEAN BY DEF WipesShort
    <3>2. ~WipesShort(w) BY <2>1, <2>6, <3>1 DEF TakeLock
    <3> QED BY <1>0, <2>6, <3>2, BoxTake
  <2>7. ASSUME NEW w \in Writers, Put(w) PROVE BoxInv'
    <3>1. Surfaces(w) \in BOOLEAN BY DEF Surfaces
    <3>2. ~Surfaces(w) BY <2>1, <2>7, <3>1 DEF Put
    <3> QED BY <1>0, <2>7, <3>2, PromptPut, DiscardPut, EscapePut, ChordPut
  <2>8. ASSUME NEW w \in Writers,
               \/ StartPrompt(w)
               \/ StartClear(w)
               \/ w \in Stops /\ StartStop(w)
               \/ w \in Chords /\ StartChord(w)
               \/ AskForLock(w)
        PROVE  BoxInv'
    <3>1. /\ UNCHANGED <<term, left, broken, pendingWipe>>
          /\ phase[w] # "hold" /\ phase'[w] # "hold"
          /\ \A v \in Writers \ {w} : phase'[v] = phase[v] /\ job'[v] = job[v]
          /\ w \in Chords => job'[w] = job[w]
      BY <1>0, <2>8, RolesApart DEF StartPrompt, StartClear, StartStop, StartChord,
                                    AskForLock, Inv, StateTypes
    <3>2. /\ \A v \in Writers : /\ (phase'[v] = "hold") = (phase[v] = "hold")
                               /\ phase[v] = "hold" => job'[v] = job[v]
          /\ \A c \in Chords : job'[c] = job[c]
      BY <1>0, <3>1
    <3>3. /\ term'.queue = term.queue /\ term'.box = term.box
          /\ term'.dialog = term.dialog /\ term'.alive = term.alive
      BY <3>1
    <3> QED BY <1>0, <3>1, <3>2, <3>3, BoxCalm
  <2>9. ASSUME UNCHANGED <<job, left, broken, phase>>,
               term'.queue \in {term.queue, <<>>},
               term'.alive => /\ term.alive /\ term'.box = term.box
                              /\ pendingWipe' = pendingWipe
                              /\ \/ term'.dialog = term.dialog \/ ~term'.dialog
                                 \/ \A w \in Writers : ~Wiping(w)
        PROVE  BoxInv'
    BY <1>0, <2>9, BoxCalm
  <2>10. CASE TakeQueue \/ CloseDialog
    <3>1. /\ UNCHANGED <<job, left, broken, phase, pendingWipe>>
          /\ term'.queue \in {term.queue, <<>>}
          /\ term.alive /\ term'.box = term.box
          /\ term'.dialog = term.dialog \/ ~term'.dialog
      BY <1>0, <2>10 DEF TakeQueue, CloseDialog, Elsewhere, Terminal
    <3> QED BY <2>9, <3>1
  <2>11. CASE OpenDialog
    <3>1. /\ UNCHANGED <<job, left, broken, phase, pendingWipe>>
          /\ term'.queue = term.queue /\ term.alive /\ term'.box = term.box
      BY <1>0, <2>11 DEF OpenDialog, Elsewhere, Terminal
    <3>2. \A w \in Writers : ~Wiping(w)
      <4>1. (\E w \in Writers : Wiping(w)) \in BOOLEAN OBVIOUS
      <4> QED BY <2>1, <2>11, <4>1 DEF OpenDialog
    <3> QED BY <2>9, <3>1, <3>2
  <2>12. CASE KillSession
    <3>1. /\ UNCHANGED <<job, left, broken, phase>> /\ pendingWipe' = 0
          /\ \/ ~term'.alive /\ term'.queue = <<>>
             \/ term' = term /\ term.alive
      BY <1>0, <2>12 DEF KillSession, Elsewhere, Terminal
    <3>2. term'.alive => ~(pendingWipe > 0)
      <4>1. (term'.alive /\ pendingWipe > 0) \in BOOLEAN OBVIOUS
      <4> QED BY <2>1, <2>12, <4>1 DEF KillSession
    <3>3. term'.alive => pendingWipe' = pendingWipe
      <4>1. pendingWipe \in Nat BY <1>0 DEF Inv, StateTypes
      <4>2. \A n \in Nat : ~(n > 0) => n = 0 OBVIOUS
      <4> QED BY <3>1, <3>2, <4>1, <4>2, Zenon
    <3> QED BY <2>9, <3>1, <3>3
  <2>13. CASE Park \/ UNCHANGED vars
    <3>1. UNCHANGED <<job, left, broken, phase, pendingWipe, term>>
      BY <2>13 DEF Park, Elsewhere, vars
    <3> QED BY <2>9, <3>1
  <2>14. CASE StrayLands
    BY <1>0, <2>14 DEF StrayLands
  <2>15. ASSUME NEW w \in Writers, Step(w) PROVE BoxInv'
    BY <2>2, <2>5, <2>6, <2>7, <2>8, <2>15 DEF Step
  <2>16. ASSUME NEW w \in Writers,
                \/ StartPrompt(w)
                \/ StartClear(w)
                \/ w \in Stops /\ StartStop(w)
                \/ w \in Chords /\ (StartChord(w) \/ RefuseChord(w))
         PROVE  BoxInv'
    BY <2>5, <2>8, <2>16
  <2> QED BY <1>0, <2>10, <2>11, <2>12, <2>13, <2>14, <2>15, <2>16 DEF Next
<1> QED BY <1>1, <1>2

(* And a step taken in calm submits one prompt's text or none; a Stop's    *)
(* Escape submits nothing even when it moves a queue.                      *)
LEMMA CalmSends ==
  ASSUME TextInv, [Next]_vars, ~upset
  PROVE  SentOnly'
<1> USE DEF TextInv
<1>0. /\ Inv /\ SentOnly /\ term \in Terminal
      /\ strays = {} /\ ChordShape /\ BoxInv /\ HoldsRest /\ LineInv
      /\ \A w \in Prompts \cup Chords \cup Clears \cup Stops : w \in Writers
      /\ \A w \in Writers : w \in Prompts \/ w \in Chords \/ w \in Wipers
  BY DEF Calm, Inv, StateTypes, Writers, Wipers
<1>1. ASSUME NEW w \in Writers, Put(w) PROVE Sends(w)
  <2>1. ASSUME w \in Wipers, Op(w) # "discard", Surfaces(w) PROVE Sends(w)
    <3>1. /\ w \notin Prompts /\ phase[w] = "hold" /\ left[w][1] \in Write
          /\ term' \in Landed(term, left[w][1])
      BY <1>1, <2>1, PutFacts, RolesApart DEF Wipers
    <3>2. left[w] = <<Key("Escape")>>
      BY <1>0, <2>1, <3>1 DEF HoldsRest
    <3>3. left[w][1].key = "Escape"
      <4>1. <<Key("Escape")>>[1] = Key("Escape") OBVIOUS
      <4> QED BY <3>2, <4>1 DEF Key
    <3>4. PICK u \in Landed(term, left[w][1]) : u = term'
      BY <3>1
    <3>5. u.submitted = term.submitted
      BY <1>0, <3>1, <3>3, EscapeMoves
    <3> QED BY <3>1, <3>4, <3>5 DEF Sends
  <2> QED BY <1>0, <1>1, <2>1, PromptPut, DiscardPut, EscapePut, ChordPut
<1>2. ASSUME term'.submitted = term.submitted, \A p \in Prompts : ~Put(p)
      PROVE  SentOnly'
  <2>1. \A s \in term'.submitted \ term.submitted :
          \E p \in Prompts : s = Text(p) /\ outcome'[p] = "ok"
    BY <1>2
  <2>2. \A p \in Prompts : Put(p) /\ Len(left[p]) = 1 => Text(p) \in term'.submitted
    BY <1>2
  <2> QED BY <1>0, <2>1, <2>2, SentInSight, Zenon
<1>3. ASSUME NEW w \in Writers, Put(w) PROVE SentOnly'
  <2>1. Sends(w) /\ \A v \in Writers \ {w} : ~Put(v)
    BY <1>0, <1>1, <1>3, PutFacts
  <2>2. ASSUME NEW s \in term'.submitted \ term.submitted
        PROVE  \E p \in Prompts : s = Text(p) /\ outcome'[p] = "ok"
    <3>1. w \in Prompts /\ s = Text(w) /\ Len(left[w]) = 1
      BY <2>1, <2>2 DEF Sends
    <3>2. outcome'[w] = "ok"
      BY <1>0, <1>3, <3>1, PutFacts
    <3> QED BY <3>1, <3>2
  <2>3. ASSUME NEW p \in Prompts, Put(p), Len(left[p]) = 1
        PROVE  Text(p) \in term'.submitted
    <3>1. p = w BY <1>0, <2>1, <2>3
    <3> QED BY <2>1, <2>3, <3>1 DEF Sends
  <2>4. \A s \in term'.submitted \ term.submitted :
          \E p \in Prompts : s = Text(p) /\ outcome'[p] = "ok"
    BY <2>2
  <2>5. \A p \in Prompts : Put(p) /\ Len(left[p]) = 1 => Text(p) \in term'.submitted
    BY <2>3
  <2> QED BY <1>0, <2>4, <2>5, SentInSight, Zenon
<1>4. CASE \A w \in Writers : ~Put(w)
  <2>1. ASSUME NEW w \in Writers, Step(w) PROVE term' = term
    BY <1>4, <2>1 DEF Step, RefuseParked, AskForLock, TakeLock, LeaveLock,
       PutFails, PutTimesOut, FirstLookBlocked, StopTyping
  <2>2. ASSUME NEW w,
               \/ StartPrompt(w) \/ StartClear(w) \/ StartStop(w)
               \/ StartChord(w) \/ RefuseChord(w)
        PROVE  term' = term
    BY <2>2 DEF StartPrompt, StartClear, StartStop, StartChord, RefuseChord
  <2>3. term'.submitted = term.submitted
    <3>1. CASE term' = term BY <3>1
    <3>2. CASE TakeQueue \/ OpenDialog \/ CloseDialog \/ Park \/ KillSession
      BY <1>0, <3>2 DEF TakeQueue, OpenDialog, CloseDialog, Park, KillSession, Terminal
    <3>3. CASE StrayLands
      BY <1>0, <3>3 DEF StrayLands
    <3>4. CASE UNCHANGED vars
      BY <3>4 DEF vars
    <3> QED BY <2>1, <2>2, <3>1, <3>2, <3>3, <3>4 DEF Next
  <2> QED BY <1>0, <1>2, <1>4, <2>3
<1> QED BY <1>3, <1>4

LEMMA TextStep ==
  ASSUME TextInv, [Next]_vars
  PROVE  TextInv'
<1>1. Inv' /\ LineInv' /\ HoldsRest'
  BY TypesStep, LineStep, RestStep DEF TextInv
<1>2. SentOnly'
  BY CalmSends, SentInDoubt DEF TextInv
<1>3. Calm'
  <2>1. CASE upset /\ ~upset'
    <3>1. ~UNCHANGED vars
      BY <2>1 DEF vars, history
    <3>2. ASSUME NEW b \in BOOLEAN, Recall(b) PROVE Settled'
      BY <2>1, <3>2 DEF Recall
    <3>3. Settled'
      BY <3>1, <3>2, StepRecalled
    <3>4. /\ term'.box = <<>> /\ strays' = {}
          /\ \A w \in Writers : phase'[w] # "hold"
          /\ \A c \in Chords : job'[c] # <<"CtrlS">>
      BY <3>3 DEF Settled, MidChord
    <3>5. ChordShape' /\ BoxOfChord'
      BY <3>4 DEF ChordShape, BoxOfChord, Writers
    <3>6. Len(term'.box) <= pendingWipe'
      <4>1. Len(<<>>) = 0 /\ \A n \in Nat : 0 <= n OBVIOUS
      <4>2. pendingWipe' \in Nat BY <1>1 DEF Inv, StateTypes
      <4> QED BY <3>4, <4>1, <4>2
    <3> QED BY <3>4, <3>5, <3>6, BoxAlone DEF Calm
  <2>2. CASE ~upset /\ ~upset'
    BY <2>2, CalmStep
  <2>3. CASE upset'
    BY <2>3 DEF Calm
  <2> QED BY <2>1, <2>2, <2>3
<1> QED BY <1>1, <1>2, <1>3 DEF TextInv

LEMMA TextInit ==
  ASSUME Init
  PROVE  TextInv
<1>1. Inv /\ ChordShape /\ strays = {}
  BY ChordInit DEF ChordInv
<1>2. /\ \A w \in Writers : phase[w] = "idle" /\ outcome[w] = "none"
      /\ term.box = <<>> /\ term.submitted = {}
      /\ lockQueue = <<>> /\ pendingWipe = 0
      /\ \A p \in Prompts \cup Chords \cup Wipers : p \in Writers
  BY DEF Init, FreshTerminal, Writers, Wipers
<1>3. LineInv
  BY <1>2 DEF LineInv, InLine, ChordOnWay, ChordAhead
<1>4. SentOnly /\ HoldsRest
  BY <1>2 DEF SentOnly, HoldsRest
<1>5. BoxInv
  <2>1. Len(<<>>) = 0 /\ 0 <= 0 OBVIOUS
  <2> QED BY <1>2, <2>1 DEF BoxInv, BoxAtRest, BoxOfHolder, BoxOfChord, AtText
<1> QED BY <1>1, <1>3, <1>4, <1>5 DEF TextInv, Calm

LEMMA TextsAlways == Spec => []TextInv
<1>1. Init => TextInv
  BY TextInit
<1>2. TextInv /\ [Next]_vars => TextInv'
  BY TextStep
<1> QED BY <1>1, <1>2, PTL DEF Spec

(* Whatever Claude is handed, by an Enter or by a send-now chord, is one   *)
(* prompt whole, with any number of prompts, chords, clears and Stops      *)
(* taking the lock in any order, writes that fail or time out, dialogs,    *)
(* parks and kills; but for what it is handed from a step that loses track *)
(* of text in the box until all is settled again.                          *)
THEOREM MessagesStayWhole == Spec => []NoGlue
<1>1. TextInv => NoGlue
  BY DEF TextInv, SentOnly, NoGlue
<1> QED BY <1>1, TextsAlways, PTL

(* Text left in the box while nobody writes is owed a wipe, so the next    *)
(* prompt starts from an empty box, unless a step lost track of it.        *)
THEOREM LeftoversOwed == Spec => []BoxAccounted
<1>1. TextInv => BoxAccounted
  <2> SUFFICES ASSUME TextInv, Quiet, term.alive, ~upset
               PROVE  Len(term.box) <= pendingWipe
    BY DEF BoxAccounted
  <2>1. \A w \in Writers : ~AtText(w)
    BY DEF Quiet, AtText
  <2> QED BY <2>1 DEF TextInv, Calm, BoxInv, BoxAtRest
<1> QED BY <1>1, TextsAlways, PTL

(* A prompt reported sent was submitted, and nothing of one reported held  *)
(* back for a dialog ever is, in what is submitted with no text out of     *)
(* sight.                                                                  *)
THEOREM ReportsAreTrue == Spec => []ReportedTruly
<1>1. TextInv => ReportedTruly
  <2> SUFFICES ASSUME TextInv, NEW p \in Prompts
               PROVE  /\ outcome[p] = "ok" => Text(p) \in term.submitted \cup doubts
                      /\ outcome[p] = "dialog" =>
                           \A s \in term.submitted \ doubts :
                             \A i \in 1..Len(s) : s[i][1] # p
    BY DEF ReportedTruly
  <2>1. SentOnly
    BY DEF TextInv
  <2>2. ASSUME outcome[p] = "dialog", NEW s \in term.submitted \ doubts,
               NEW i \in 1..Len(s)
        PROVE  s[i][1] # p
    <3>1. PICK q \in Prompts : s = Text(q) /\ outcome[q] = "ok"
      BY <2>1 DEF SentOnly
    <3>2. q # p
      BY <2>2, <3>1
    <3>3. Len(Text(q)) = Pieces /\ \A j \in 1..Pieces : Text(q)[j] = <<q, j>>
      BY SizesHold DEF Text
    <3>4. s[i] = <<q, i>>
      BY <3>1, <3>3
    <3> QED BY <3>2, <3>4
  <2> QED BY <2>1, <2>2 DEF SentOnly
<1> QED BY <1>1, TextsAlways, PTL
=============================================================================
