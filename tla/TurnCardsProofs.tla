-------------------------- MODULE TurnCardsProofs --------------------------
(***************************************************************************)
(* TurnCards for every number of messages, tool calls, lost cards and      *)
(* finishes given up, and whatever races may happen: its types, that the   *)
(* chat never has two running cards, and that every answer goes under its  *)
(* own message unless a race came before its run's Stop; while nobody      *)
(* stopped waiting for a finish, that a turn has one card and its own      *)
(* finish edits it; and until the first race besides, that the rows of the *)
(* animated card are its own turn's and the answers come in the order of   *)
(* the messages.                                                           *)
(*                                                                         *)
(* OneLiveCard rests on one slot, busy_msg_id.  A live card is the one in  *)
(* it (LiveInSlot); a finish that edits a card edits that one              *)
(* (FinishHasSlot); and the claim -1 stands exactly while a request is at  *)
(* its send (ClaimSends, SendClaims), of which the card lock lets in one   *)
(* at a time (OneInside).                                                  *)
(*                                                                         *)
(* OwnCard and OneCardPerTurn rest on an order.  A run ends once (RunInv), *)
(* so a finish is known by its run, and the finishes out form a chain, of  *)
(* rising turns, each behind the one it found on the gate; only the first  *)
(* goes on (Chain). A card request, and the card state, is never of a      *)
(* later turn than a finish still to come (AskedLast, InOrder). So the     *)
(* finish that looks at the card cannot find a newer turn's; nor an older  *)
(* one's, for a turn that is not closed still has its finish out           *)
(* (Finished), and a closed turn's card is being edited (ClosedShown).     *)
(*                                                                         *)
(* AnswerUnderOwn rests on another.  Claude takes the messages one by one, *)
(* and the hooks of its runs reach the daemon in line (LineInv): the mail  *)
(* holds the prompts after P, the mail and the hold the other events of    *)
(* the runs after S. The daemon is at the turn of run S + 1, or idle after *)
(* S, and the prompts from S + 2 to P are its queued targets (TurnLine),   *)
(* so a Stop always finds its own run's message as the target.  A race     *)
(* breaks this order, for good; but a finish keeps the target it was begun *)
(* with, and a run ends once, so the runs that had ended before the race   *)
(* go on as they would have (StoppedOwn).                                  *)
(*                                                                         *)
(* OwnRows rests on both orders and on the hold: the events of the hold    *)
(* all wait for the running turn's card state, or all go on (HoldLine);    *)
(* and the card state is the running turn's, or that turn's hooks are      *)
(* held, or its card request goes on at once (StateHeld).                  *)
(***************************************************************************)
EXTENDS TurnCards, SequenceTheorems, TLAPS

Inside(q) == q.at \in {"settling", "sending"}

LiveInSlot == \A k \in DOMAIN cards : cards[k].state = "live" => busy = k
FinishHasSlot ==
  \A f \in fins : f.at = "card" => f.card = busy /\ busy \in DOMAIN cards
SendClaims == \A q \in requests : q.at = "sending" => busy = Claim
ClaimSends == busy = Claim => \E q \in requests : q.at = "sending"
OneInside == \A q, r \in requests : Inside(q) /\ Inside(r) => q = r

CardInv ==
  LiveInSlot /\ FinishHasSlot /\ SendClaims /\ ClaimSends /\ OneInside

\* A finish opens a turn only when it popped one.
Popped == \A f \in fins : f.at = "popping" => f.popped # 0

\* No request and no finish is of a turn that has not begun.
Begun ==
  /\ \A q \in requests : q.turn <= Turn
  /\ \A f \in fins : f.turn <= Turn /\ (f.popped # 0 => f.turn < Turn)

Inv == StateTypes /\ spoilt \subseteq Msgs /\ Begun /\ Popped /\ CardInv

-----------------------------------------------------------------------------
(* The lock, the hold and the requests.                                    *)

\* Letting waiting events go keeps them events.
LEMMA FreedTyped ==
  ASSUME NEW w \in Seq(Waiter)
  PROVE  Freed(w) \in Seq(Waiter)
<1>1. \A x \in Waiter : [x EXCEPT !.free = TRUE] \in Waiter
  BY DEF Waiter
<1>2. DOMAIN w = 1 .. Len(w) /\ Len(w) \in Nat
  BY LenProperties
<1>3. \A i \in DOMAIN w : w[i] \in Waiter
  BY <1>2, ElementOfSeq
<1>4. Freed(w) \in [1 .. Len(w) -> Waiter]
  BY <1>1, <1>2, <1>3 DEF Freed
<1>. QED  BY <1>2, <1>4, SeqDef

LEMMA HoldTyped ==
  ASSUME NEW n \in Nat, NEW w \in Seq(Waiter), HoldNewest(n, w)
  PROVE  hold' = n /\ waiting' \in Seq(Waiter)
<1>1. CASE hold \in {0, n}
  BY <1>1 DEF HoldNewest
<1>2. CASE hold \notin {0, n}
  BY <1>2, FreedTyped DEF HoldNewest
<1>. QED  BY <1>1, <1>2

LEMMA ReleaseTyped ==
  ASSUME NEW t \in Nat, StateTypes, Release(t)
  PROVE  hold' \in 0 .. Turn /\ waiting' \in Seq(Waiter)
<1>1. waiting \in Seq(Waiter) /\ hold \in 0 .. Turn /\ Turn \in Nat
  BY LenProperties DEF StateTypes, Turn
<1>2. CASE hold # 0 /\ hold <= t
  BY <1>1, <1>2, FreedTyped DEF Release
<1>3. CASE ~ (hold # 0 /\ hold <= t)
  BY <1>1, <1>3 DEF Release, holdVars
<1>. QED  BY <1>2, <1>3

\* A new request is a request for the newest of the turns it was made for.
LEMMA AskTyped ==
  ASSUME NEW why \in Why, NEW m \in Msgs, NEW ts \in Seq(Msgs),
         NEW w \in Seq(Waiter), StateTypes, Ask(why, m, ts, w)
  PROVE  /\ hold' \in {hold, Len(ts)} /\ waiting' \in Seq(Waiter)
         /\ \E q \in Request :
              /\ requests' = requests \cup {q}
              /\ q.turn = Len(ts) /\ ~ Inside(q)
<1>. DEFINE t == Len(ts)
            gated == gate # 0 /\ FinishingTurn < t /\ cardTurn # t
            q == [why |-> why, msg |-> m, turn |-> t,
                  gate |-> IF gated THEN gate ELSE 0,
                  at |-> IF gated THEN "gated"
                         ELSE IF Locked THEN "lock" ELSE "enter"]
<1>1. t \in Nat
  BY LenProperties
<1>2. (IF gated THEN gate ELSE 0) \in Msgs \cup {0}
  BY MessagesAssumption DEF StateTypes, Msgs
<1>3. q \in Request /\ q.turn = t /\ ~ Inside(q)
  <2>1. (IF gated THEN "gated" ELSE IF Locked THEN "lock" ELSE "enter")
           \in {"gated", "lock", "enter"}
    OBVIOUS
  <2>. HIDE DEF gated
  <2>. QED  BY <1>1, <1>2, <2>1 DEF Request, Inside
<1>4. requests' = requests \cup {q}
  BY DEF Ask
<1>5. hold' \in {hold, Len(ts)} /\ waiting' \in Seq(Waiter)
  <2>1. CASE gated
    <3>1. HoldNewest(t, w)
      BY <2>1 DEF Ask
    <3>. QED  BY <3>1, <1>1, HoldTyped
  <2>2. CASE ~ gated
    BY <2>2 DEF Ask
  <2>. QED  BY <2>1, <2>2
<1>. HIDE DEF q
<1>. QED  BY <1>3, <1>4, <1>5

-----------------------------------------------------------------------------
(* Types, action by action.                                                *)

\* Facts about types used throughout.
LEMMA Ranges ==
  ASSUME StateTypes
  PROVE  /\ Turn \in Nat /\ Messages \in Nat
         /\ 0 .. Messages = Msgs \cup {0}
         /\ turns \in Seq(Msgs) /\ waiting \in Seq(Waiter)
         /\ hold \in Nat /\ cardTurn \in Nat
BY LenProperties, MessagesAssumption DEF StateTypes, Turn, Msgs

\* One request goes on: its turn and reason stay.
LEMMA MoveTyped ==
  ASSUME StateTypes, Begun, NEW q \in requests,
         NEW at \in {"gated", "enter", "lock", "settling", "sending"},
         Move(q, at)
  PROVE  /\ requests' \subseteq Request
         /\ \A r \in requests' : r.turn <= Turn
         /\ requests' = (requests \ {q}) \cup {[q EXCEPT !.at = at]}
         /\ [q EXCEPT !.at = at].at = at
<1>1. q \in Request /\ q.turn <= Turn
  BY DEF StateTypes, Begun
<1>2. /\ [q EXCEPT !.at = at] \in Request
      /\ [q EXCEPT !.at = at].at = at
      /\ [q EXCEPT !.at = at].turn = q.turn
  BY <1>1 DEF Request
<1>. QED  BY <1>1, <1>2 DEF Move, StateTypes, Begun

LEMMA ReturnTyped ==
  ASSUME StateTypes, Begun, NEW q \in requests, Return(q)
  PROVE  /\ requests' = requests \ {q}
         /\ hold' \in 0 .. Turn /\ waiting' \in Seq(Waiter)
<1>1. q.turn \in Nat
  BY DEF StateTypes, Request
<1>2. CASE q.gate # 0 \/ q.why = "popped"
  BY <1>1, <1>2, ReleaseTyped DEF Return
<1>3. CASE ~ (q.gate # 0 \/ q.why = "popped")
  BY <1>3 DEF Return, holdVars, StateTypes
<1>. QED  BY <1>2, <1>3 DEF Return

LEMMA GateOpensTyped ==
  ASSUME StateTypes, Begun, NEW q \in requests, GateOpens(q)
  PROVE  StateTypes' /\ Begun'
<1>1. requests' \subseteq Request /\ \A r \in requests' : r.turn <= Turn
  BY MoveTyped DEF GateOpens
<1>2. gaveUp' \subseteq Msgs
  BY DEF GateOpens, GateSet, StateTypes, Finish
<1>3. UNCHANGED <<typed, sending, claudeVars, mail, turnVars, trigger, queued,
                 holdVars, cardVars, gate, fins, answers>>
  BY DEF GateOpens
<1>. QED  BY <1>1, <1>2, <1>3
          DEF StateTypes, Begun, Turn, claudeVars, turnVars, holdVars, cardVars

LEMMA DropTyped ==
  ASSUME StateTypes, Begun, NEW q \in requests, Drop(q)
  PROVE  StateTypes' /\ Begun'
<1>1. /\ requests' = requests \ {q}
      /\ hold' \in 0 .. Turn /\ waiting' \in Seq(Waiter)
  BY ReturnTyped DEF Drop
<1>2. UNCHANGED <<typed, sending, claudeVars, mail, turnVars, trigger, queued,
                 cardVars, finishVars>>
  BY DEF Drop
<1>. QED  BY <1>1, <1>2
          DEF StateTypes, Begun, Turn, claudeVars, turnVars, cardVars, finishVars

LEMMA SendAgainTyped ==
  ASSUME StateTypes, Begun, NEW q \in requests, SendAgain(q)
  PROVE  StateTypes' /\ Begun'
<1>1. requests' \subseteq Request /\ \A r \in requests' : r.turn <= Turn
  BY MoveTyped DEF SendAgain
<1>2. /\ busy' = Claim
      /\ UNCHANGED <<typed, sending, claudeVars, mail, turnVars, trigger, queued,
                     holdVars, cardTurn, rows, cards, finishVars>>
  BY DEF SendAgain
<1>. QED  BY <1>1, <1>2
          DEF StateTypes, Begun, Turn, claudeVars, turnVars, holdVars, finishVars

LEMMA SupersedeTyped ==
  ASSUME StateTypes, Begun, NEW q \in requests, Supersede(q)
  PROVE  StateTypes' /\ Begun'
<1>1. requests' \subseteq Request /\ \A r \in requests' : r.turn <= Turn
  BY MoveTyped DEF Supersede
<1>2. /\ reclaim' = FALSE
      /\ UNCHANGED <<typed, sending, claudeVars, mail, status, turns, closed,
                 trigger, queued, holdVars, cardVars, finishVars>>
  BY DEF Supersede
<1>. QED  BY <1>1, <1>2
          DEF StateTypes, Begun, Turn, claudeVars, holdVars, cardVars, finishVars

\* The reset of a turn that has begun.
LEMMA ResetTyped ==
  ASSUME StateTypes, Begun, NEW q \in requests, Reset(q)
  PROVE  /\ requests' \subseteq Request /\ \A r \in requests' : r.turn <= Turn
         /\ hold' \in 0 .. Turn /\ waiting' \in Seq(Waiter)
         /\ busy' = Claim /\ rows' = {} /\ reclaim' = FALSE
         /\ cardTurn' \in 0 .. Turn
<1>1. q.turn \in Nat /\ q.turn <= Turn /\ Turn \in Nat
  BY Ranges DEF StateTypes, Begun, Request
<1>2. requests' \subseteq Request /\ \A r \in requests' : r.turn <= Turn
  BY MoveTyped DEF Reset
<1>3. hold' \in 0 .. Turn /\ waiting' \in Seq(Waiter)
  BY <1>1, ReleaseTyped DEF Reset
<1>. QED  BY <1>1, <1>2, <1>3 DEF Reset

LEMMA StartTurnTyped ==
  ASSUME StateTypes, Begun, NEW q \in requests, StartTurn(q)
  PROVE  StateTypes' /\ Begun'
<1>1. Reset(q) /\ UNCHANGED <<typed, sending, claudeVars, mail, status, turns,
                              closed, trigger, queued, cards, finishVars>>
  BY DEF StartTurn
<1>. QED  BY <1>1, ResetTyped DEF StateTypes, Begun, Turn, claudeVars, finishVars

\* A card's last edit leaves a card of the same turn.
LEMMA OverTyped ==
  ASSUME StateTypes, NEW k \in DOMAIN cards, NEW by \in Nat
  PROVE  /\ Over(k, by) \in Seq(Card) /\ Len(Over(k, by)) = Len(cards)
         /\ DOMAIN Over(k, by) = DOMAIN cards
         /\ Over(k, by)[k].state = "over"
         /\ \A l \in DOMAIN cards \ {k} : Over(k, by)[l] = cards[l]
<1>1. cards \in Seq(Card) /\ cards[k] \in Card
  BY ElementOfSeq, LenProperties DEF StateTypes
<1>2. [cards[k] EXCEPT !.state = "over", !.by = by] \in Card
  BY <1>1 DEF Card
<1>3. [cards[k] EXCEPT !.state = "over", !.by = by].state = "over"
  BY <1>1 DEF Card
<1>4. Over(k, by) = [cards EXCEPT ![k] = [cards[k] EXCEPT !.state = "over", !.by = by]]
  BY <1>1, LenProperties DEF Over, Card
<1>. DEFINE c == [cards[k] EXCEPT !.state = "over", !.by = by]
<1>5. k \in 1 .. Len(cards) /\ DOMAIN cards = 1 .. Len(cards)
  BY <1>1, LenProperties
<1>6. /\ [cards EXCEPT ![k] = c] \in Seq(Card)
      /\ Len([cards EXCEPT ![k] = c]) = Len(cards)
      /\ \A l \in 1 .. Len(cards) :
           [cards EXCEPT ![k] = c][l] = IF l = k THEN c ELSE cards[l]
  <2>. HIDE DEF c
  <2>. QED  BY <1>1, <1>2, <1>5, ExceptSeq DEF c
<1>. HIDE DEF c
<1>. QED  BY <1>1, <1>3, <1>4, <1>5, <1>6 DEF c

LEMMA SupersededTyped ==
  ASSUME StateTypes, Begun, busy # Claim, NEW q \in requests, Superseded(q)
  PROVE  StateTypes' /\ Begun'
<1>1. Reset(q) /\ UNCHANGED <<typed, sending, claudeVars, mail, status, turns,
                              closed, trigger, queued, finishVars>>
  BY DEF Superseded
<1>2. cards' \in Seq(Card)
  <2>1. CASE busy = 0
    BY <2>1 DEF Superseded, StateTypes
  <2>2. CASE busy # 0
    <3>1. cards \in Seq(Card) /\ busy \in 1 .. Len(cards)
      BY <2>2, LenProperties DEF StateTypes
    <3>2. busy \in DOMAIN cards /\ cards[busy] \in Card
      BY <3>1, ElementOfSeq, LenProperties
    <3>3. cards[busy].turn \in Nat
      BY <3>2 DEF Card
    <3>. QED  BY <2>2, <3>2, <3>3, OverTyped DEF Superseded
  <2>. QED  BY <2>1, <2>2
<1>. QED  BY <1>1, <1>2, ResetTyped DEF StateTypes, Begun, Turn, claudeVars, finishVars

LEMMA SentTyped ==
  ASSUME StateTypes, Begun, NEW q \in requests, Sent(q)
  PROVE  StateTypes' /\ Begun'
<1>1. /\ requests' = requests \ {q}
      /\ hold' \in 0 .. Turn /\ waiting' \in Seq(Waiter)
  BY ReturnTyped DEF Sent
<1>2. cards' \in Seq(Card) /\ busy' \in 0 .. Len(cards') \cup {Claim}
  <2>1. cards \in Seq(Card) /\ q.turn \in Nat
    BY DEF StateTypes, Request
  <2>2. [turn |-> q.turn, state |-> "live", by |-> 0] \in Card
    BY <2>1 DEF Card
  <2>3. [turn |-> q.turn, state |-> "lost", by |-> 0] \in Card
    BY <2>1 DEF Card
  <2>4. PICK c \in Card : cards' = Append(cards, c)
    BY <2>2, <2>3 DEF Sent
  <2>5. /\ Append(cards, c) \in Seq(Card) /\ Len(Append(cards, c)) \in Nat
        /\ Len(Append(cards, c)) = Len(cards) + 1
    BY <2>1, AppendProperties, LenProperties
  <2>6. busy' \in {Len(cards) + 1, 0}
    BY DEF Sent
  <2>. QED  BY <2>4, <2>5, <2>6
<1>3. UNCHANGED <<typed, sending, claudeVars, mail, turnVars, trigger, queued,
                 cardTurn, rows, finishVars>>
  BY DEF Sent
<1>. QED  BY <1>1, <1>2, <1>3
          DEF StateTypes, Begun, Turn, claudeVars, turnVars, finishVars

\* transition(BUSY) for a message.
LEMMA TurnsAfterTyped ==
  ASSUME StateTypes, NEW m \in Msgs
  PROVE  /\ TurnsAfter(m) \in Seq(Msgs)
         /\ Len(TurnsAfter(m)) \in {Turn, Turn + 1}
<1>1. turns \in Seq(Msgs)
  BY DEF StateTypes
<1>2. Append(turns, m) \in Seq(Msgs) /\ Len(Append(turns, m)) = Len(turns) + 1
  BY <1>1, AppendProperties
<1>. QED  BY <1>1, <1>2 DEF TurnsAfter, Turn

\* More turns leave the bounds of what refers to a turn.
LEMMA BoundsGrow ==
  ASSUME StateTypes, NEW n \in {Turn, Turn + 1}
  PROVE  /\ Turn \in Nat /\ n \in Nat /\ Turn <= n
         /\ closed \in 0 .. n /\ hold \in 0 .. n /\ cardTurn \in 0 .. n
<1>1. /\ Turn \in Nat /\ closed \in 0 .. Turn /\ hold \in 0 .. Turn
      /\ cardTurn \in 0 .. Turn
  BY Ranges DEF StateTypes
<1>2. n \in Nat /\ Turn <= n
  BY <1>1
<1>. QED  BY <1>1, <1>2

LEMMA BegunGrows ==
  ASSUME StateTypes, Begun, NEW n \in {Turn, Turn + 1}
  PROVE  /\ \A q \in requests : q.turn <= n
         /\ \A f \in fins : f.turn <= n /\ (f.popped # 0 => f.turn < n)
<1>1. Turn \in Nat /\ n \in Nat /\ Turn <= n
  BY BoundsGrow
<1>2. (\A q \in requests : q.turn \in Nat) /\ (\A f \in fins : f.turn \in Nat)
  BY DEF StateTypes, Request, Finish
<1>3. \A x \in Nat : (x <= Turn => x <= n) /\ (x < Turn => x < n)
  BY <1>1
<1>. QED  BY <1>2, <1>3 DEF Begun

LEMMA AdoptTriggerTyped ==
  ASSUME StateTypes, Begun, AdoptTrigger
  PROVE  StateTypes' /\ Begun'
<1>1. /\ typed' \in 0 .. Messages /\ sending' \in 0 .. Messages
      /\ trigger' \in 0 .. Messages /\ reached' = FALSE
  BY MessagesAssumption DEF AdoptTrigger, StateTypes
<1>2. UNCHANGED <<run, used, box, mail, turnVars, queued, holdVars, cardVars,
                 finishVars, requests>>
  BY DEF AdoptTrigger
<1>. QED  BY <1>1, <1>2
          DEF StateTypes, Begun, Turn, turnVars, holdVars, cardVars, finishVars

LEMMA ReachesTyped ==
  ASSUME StateTypes, Begun, Reaches
  PROVE  StateTypes' /\ Begun'
<1>1. sending \in Msgs
  BY MessagesAssumption DEF Reaches, StateTypes, Msgs
<1>2. [kind |-> "prompt", run |-> sending] \in Event
  BY <1>1 DEF Event
<1>3. mail' \in Seq(Event)
  BY <1>2, AppendProperties DEF Reaches, StateTypes
<1>4. box' \in Seq(Msgs) /\ run' \in 0 .. Messages /\ used' \in 0 .. MaxTools
  <2>1. box \in Seq(Msgs) /\ run \in 0 .. Messages /\ used \in 0 .. MaxTools
    BY DEF StateTypes
  <2>2. Append(box, sending) \in Seq(Msgs)
    BY <1>1, <2>1, AppendProperties
  <2>3. sending \in 0 .. Messages /\ 0 \in 0 .. MaxTools
    BY BoundsAssumption DEF StateTypes
  <2>. QED  BY <2>1, <2>2, <2>3 DEF Reaches
<1>5. reached' = TRUE
      /\ UNCHANGED <<typed, sending, turnVars, trigger, queued, holdVars,
                     cardVars, finishVars, requests>>
  BY DEF Reaches
<1>. QED  BY <1>3, <1>4, <1>5
          DEF StateTypes, Begun, Turn, turnVars, holdVars, cardVars, finishVars

LEMMA HandedTyped ==
  ASSUME StateTypes, Begun, Handed
  PROVE  StateTypes' /\ Begun'
<1>. DEFINE ts == TurnsAfter(sending)
<1>1. sending \in Msgs
  BY MessagesAssumption DEF Handed, StateTypes, Msgs
<1>2. ts \in Seq(Msgs) /\ Len(ts) \in {Turn, Turn + 1}
  BY <1>1, TurnsAfterTyped
<1>3. /\ Turn \in Nat /\ Len(ts) \in Nat /\ Turn <= Len(ts)
      /\ closed \in 0 .. Len(ts) /\ hold \in 0 .. Len(ts)
      /\ cardTurn \in 0 .. Len(ts)
  BY <1>2, BoundsGrow
<1>4. Ask("sent", sending, ts, waiting)
  BY DEF Handed
<1>5. /\ hold' \in {hold, Len(ts)} /\ waiting' \in Seq(Waiter)
      /\ \E q \in Request : /\ requests' = requests \cup {q}
                            /\ q.turn = Len(ts) /\ ~ Inside(q)
  BY <1>1, <1>2, <1>4, Ranges, AskTyped DEF Why
<1>6. /\ turns' = ts /\ status' = "busy" /\ reclaim' \in BOOLEAN /\ sending' = 0
      /\ UNCHANGED <<typed, claudeVars, mail, closed, trigger, queued, cardVars,
                     finishVars>>
  BY DEF Handed, ToBusy
<1>. HIDE DEF ts
<1>7. requests' \subseteq Request /\ \A q \in requests' : q.turn <= Len(ts)
  <2>1. PICK q \in Request : requests' = requests \cup {q} /\ q.turn = Len(ts)
    BY <1>5
  <2>2. \A r \in requests : r.turn <= Len(ts)
    BY <1>2, BegunGrows
  <2>3. q.turn <= Len(ts)
    BY <2>1, <1>3
  <2>. QED  BY <2>1, <2>2, <2>3 DEF StateTypes
<1>8. \A f \in fins : f.turn <= Len(ts) /\ (f.popped # 0 => f.turn < Len(ts))
  BY <1>2, BegunGrows
<1>9. StateTypes'
  <2>1. /\ turns' \in Seq(Msgs) /\ Turn' = Len(ts) /\ status' \in {"idle", "busy"}
        /\ sending' \in 0 .. Messages /\ waiting' \in Seq(Waiter)
        /\ requests' \subseteq Request
    BY <1>2, <1>5, <1>6, <1>7, MessagesAssumption DEF Turn
  <2>2. hold' \in 0 .. Turn'
    BY <1>3, <1>5, <2>1
  <2>3. closed' \in 0 .. Turn' /\ cardTurn' \in 0 .. Turn'
    BY <1>3, <1>6, <2>1 DEF cardVars
  <2>. QED  BY <1>6, <2>1, <2>2, <2>3 DEF StateTypes, claudeVars, cardVars, finishVars
<1>10. Begun'
  BY <1>6, <1>7, <1>8 DEF Begun, Turn, finishVars
<1>. QED  BY <1>9, <1>10

LEMMA ToolTyped ==
  ASSUME StateTypes, Begun, Tool
  PROVE  StateTypes' /\ Begun'
<1>1. run \in Msgs
  BY MessagesAssumption DEF Tool, StateTypes, Msgs
<1>2. [kind |-> "tool", run |-> run] \in Event
  BY <1>1 DEF Event
<1>3. mail' \in Seq(Event) /\ used' \in 0 .. MaxTools
  BY <1>2, AppendProperties, BoundsAssumption DEF Tool, StateTypes
<1>4. UNCHANGED <<typed, sending, reached, run, box, turnVars, trigger, queued,
                 holdVars, cardVars, finishVars, requests>>
  BY DEF Tool
<1>. QED  BY <1>3, <1>4
          DEF StateTypes, Begun, Turn, turnVars, holdVars, cardVars, finishVars

LEMMA EndTyped ==
  ASSUME StateTypes, Begun, End
  PROVE  StateTypes' /\ Begun'
<1>1. run \in Msgs
  BY MessagesAssumption DEF End, StateTypes, Msgs
<1>2. [kind |-> "stop", run |-> run] \in Event
  BY <1>1 DEF Event
<1>3. mail' \in Seq(Event) /\ used' \in 0 .. MaxTools
  BY <1>2, AppendProperties, BoundsAssumption DEF End, StateTypes
<1>4. box' \in Seq(Msgs) /\ run' \in 0 .. Messages
  <2>1. box \in Seq(Msgs)
    BY DEF StateTypes
  <2>2. box # <<>> => Head(box) \in Msgs /\ Tail(box) \in Seq(Msgs)
    BY <2>1, HeadTailProperties
  <2>3. \A m \in Msgs : m \in 0 .. Messages
    BY Ranges
  <2>4. 0 \in 0 .. Messages
    BY Ranges
  <2>. QED  BY <2>1, <2>2, <2>3, <2>4 DEF End
<1>5. UNCHANGED <<typed, sending, reached, turnVars, trigger, queued, holdVars,
                 cardVars, finishVars, requests>>
  BY DEF End
<1>. QED  BY <1>3, <1>4, <1>5
          DEF StateTypes, Begun, Turn, turnVars, holdVars, cardVars, finishVars

-----------------------------------------------------------------------------
(* The handlers: with the events that still wait typed.                    *)

LEMMA PromptTyped ==
  ASSUME StateTypes, Begun, NEW e \in Event, NEW w \in Seq(Waiter), Prompt(e, w),
         mail' \in Seq(Event), UNCHANGED <<typed, sending, claudeVars>>
  PROVE  StateTypes' /\ Begun'
<1>1. e.run \in Msgs /\ e.run \in 0 .. Messages
  BY Ranges DEF Event
<1>2. UNCHANGED <<cardVars, finishVars>>
  BY DEF Prompt
<1>3. CASE status = "busy"
  <2>1. queued' \in Seq(Msgs)
    <3>1. queued \in Seq(Msgs)
      BY DEF StateTypes
    <3>2. Append(queued, e.run) \in Seq(Msgs)
      BY <1>1, <3>1, AppendProperties
    <3>. QED  BY <1>3, <3>1, <3>2 DEF Prompt
  <2>2. waiting' = w /\ UNCHANGED <<turnVars, trigger, hold, requests>>
    BY <1>3 DEF Prompt
  <2>. QED  BY <1>2, <2>1, <2>2
            DEF StateTypes, Begun, Turn, claudeVars, turnVars, cardVars, finishVars
<1>4. CASE status # "busy"
  <2>. DEFINE ts == TurnsAfter(e.run)
  <2>1. ts \in Seq(Msgs) /\ Len(ts) \in {Turn, Turn + 1}
    BY <1>1, TurnsAfterTyped
  <2>2. /\ Turn \in Nat /\ Len(ts) \in Nat /\ Turn <= Len(ts)
        /\ closed \in 0 .. Len(ts) /\ hold \in 0 .. Len(ts)
        /\ cardTurn \in 0 .. Len(ts)
    BY <2>1, BoundsGrow
  <2>3. Ask("hook", e.run, ts, w)
    BY <1>4 DEF Prompt
  <2>4. /\ hold' \in {hold, Len(ts)} /\ waiting' \in Seq(Waiter)
        /\ \E q \in Request : /\ requests' = requests \cup {q}
                              /\ q.turn = Len(ts) /\ ~ Inside(q)
    BY <1>1, <2>1, <2>3, AskTyped DEF Why
  <2>5. /\ turns' = ts /\ status' = "busy" /\ reclaim' \in BOOLEAN
        /\ trigger' = e.run /\ UNCHANGED <<closed, queued>>
    BY <1>4 DEF Prompt, ToBusy
  <2>. HIDE DEF ts
  <2>6. requests' \subseteq Request /\ \A q \in requests' : q.turn <= Len(ts)
    <3>1. PICK q \in Request : requests' = requests \cup {q} /\ q.turn = Len(ts)
      BY <2>4
    <3>2. \A r \in requests : r.turn <= Len(ts)
      BY <2>1, BegunGrows
    <3>3. q.turn <= Len(ts)
      BY <3>1, <2>2
    <3>. QED  BY <3>1, <3>2, <3>3 DEF StateTypes
  <2>7. \A f \in fins : f.turn <= Len(ts) /\ (f.popped # 0 => f.turn < Len(ts))
    BY <2>1, BegunGrows
  <2>8. StateTypes'
    <3>1. Turn' = Len(ts) /\ hold' \in 0 .. Len(ts) /\ closed' \in 0 .. Len(ts)
      BY <2>2, <2>4, <2>5 DEF Turn
    <3>2. cardTurn' \in 0 .. Len(ts)
      BY <1>2, <2>2 DEF cardVars
    <3>. QED  BY <1>1, <1>2, <2>1, <2>4, <2>5, <2>6, <3>1, <3>2
              DEF StateTypes, claudeVars, cardVars, finishVars
  <2>9. Begun'
    BY <1>2, <2>5, <2>6, <2>7 DEF Begun, Turn, finishVars
  <2>. QED  BY <2>8, <2>9
<1>. QED  BY <1>3, <1>4

LEMMA PreToolUseTyped ==
  ASSUME StateTypes, Begun, NEW e \in Event, NEW w \in Seq(Waiter), NEW held \in Nat,
         PreToolUse(e, w, held),
         mail' \in Seq(Event), UNCHANGED <<typed, sending, claudeVars>>
  PROVE  StateTypes' /\ Begun'
<1>. DEFINE ts == TurnsAfter(e.run)
<1>1. e.run \in Msgs
  BY DEF Event
<1>2. ts \in Seq(Msgs) /\ Len(ts) \in {Turn, Turn + 1}
  BY <1>1, TurnsAfterTyped
<1>3. /\ Turn \in Nat /\ Len(ts) \in Nat /\ Turn <= Len(ts)
      /\ closed \in 0 .. Len(ts) /\ hold \in 0 .. Len(ts)
      /\ cardTurn \in 0 .. Len(ts)
  BY <1>2, BoundsGrow
<1>4. rows' \subseteq [run : Msgs, stray : BOOLEAN]
  <2>. DEFINE s == held # 0 /\ held # Len(ts)
  <2>1. s \in BOOLEAN
    OBVIOUS
  <2>2. rows' = rows \cup {[run |-> e.run, stray |-> s]}
    BY DEF PreToolUse
  <2>3. rows \subseteq [run : Msgs, stray : BOOLEAN]
    BY DEF StateTypes
  <2>. HIDE DEF s
  <2>. QED  BY <1>1, <2>1, <2>2, <2>3
<1>5. /\ turns' = ts /\ status' = "busy" /\ reclaim' \in BOOLEAN /\ waiting' = w
      /\ UNCHANGED <<closed, trigger, queued, hold, busy, cardTurn, cards,
                     finishVars, requests>>
  BY DEF PreToolUse, ToBusy
<1>. HIDE DEF ts
<1>6. \A q \in requests : q.turn <= Len(ts)
  BY <1>2, BegunGrows
<1>7. \A f \in fins : f.turn <= Len(ts) /\ (f.popped # 0 => f.turn < Len(ts))
  BY <1>2, BegunGrows
<1>8. StateTypes'
  BY <1>2, <1>3, <1>4, <1>5 DEF StateTypes, Turn, claudeVars, finishVars
<1>9. Begun'
  BY <1>5, <1>6, <1>7 DEF Begun, Turn, finishVars
<1>. QED  BY <1>8, <1>9

\* A finish that begins: of the turn it reads, before the one it pops.
LEMMA StopTyped ==
  ASSUME StateTypes, Begun, NEW e \in Event, NEW w \in Seq(Waiter), Stop(e, w),
         mail' \in Seq(Event), UNCHANGED <<typed, sending, claudeVars>>
  PROVE  StateTypes' /\ Begun'
<1>. DEFINE next == IF queued = <<>> THEN 0 ELSE Head(queued)
            f == [run |-> e.run, turn |-> Turn, target |-> trigger, prev |-> gate,
                  popped |-> next, card |-> 0,
                  at |-> IF gate = 0 THEN "lock" ELSE "gate"]
<1>1. e.run \in Msgs /\ e.run \in 0 .. Messages
  BY Ranges DEF Event
<1>2. /\ next \in Msgs \cup {0}
      /\ next # 0 => Tail(queued) \in Seq(Msgs)
  BY HeadTailProperties DEF StateTypes
<1>3. f \in Finish /\ f.turn = Turn /\ f.popped = next
  <2>1. trigger \in Msgs \cup {0} /\ gate \in Msgs \cup {0}
    BY Ranges DEF StateTypes
  <2>. HIDE DEF next
  <2>. QED  BY <1>1, <1>2, <2>1, Ranges DEF Finish
<1>4. /\ fins' = fins \cup {f} /\ gate' = e.run
      /\ UNCHANGED <<closed, cardVars, gaveUp, answers, requests>>
  BY DEF Stop
<1>5. CASE next = 0
  <2>1. /\ status' = "idle" /\ waiting' = w
        /\ UNCHANGED <<turns, reclaim, trigger, queued, hold>>
    BY <1>5 DEF Stop
  <2>2. StateTypes'
    <3>. HIDE DEF f, next
    <3>. QED  BY <1>1, <1>3, <1>4, <2>1 DEF StateTypes, Turn, claudeVars, cardVars
  <2>3. Begun'
    <3>1. f.turn <= Turn /\ (f.popped # 0 => f.turn < Turn)
      BY <1>3, <1>5, Ranges
    <3>. HIDE DEF f, next
    <3>. QED  BY <1>4, <2>1, <3>1 DEF Begun, Turn
  <2>. QED  BY <2>2, <2>3
<1>6. CASE next # 0
  <2>1. /\ status' = "busy" /\ reclaim' = TRUE
        /\ turns' = Append(turns, next)
        /\ trigger' = next /\ queued' = Tail(queued)
        /\ HoldNewest(Turn + 1, w)
    BY <1>6 DEF Stop
  <2>2. /\ turns' \in Seq(Msgs) /\ Turn' = Turn + 1 /\ Turn \in Nat
        /\ next \in 0 .. Messages
    BY <1>2, <1>6, <2>1, Ranges, AppendProperties DEF Turn
  <2>3. hold' = Turn + 1 /\ waiting' \in Seq(Waiter)
    BY <2>1, <2>2, HoldTyped
  <2>4. closed \in 0 .. Turn + 1 /\ cardTurn \in 0 .. Turn + 1
    BY BoundsGrow
  <2>5. StateTypes'
    <3>. HIDE DEF f, next
    <3>1. queued' \in Seq(Msgs) /\ trigger' \in 0 .. Messages
      BY <1>2, <1>6, <2>1, <2>2
    <3>2. /\ closed' \in 0 .. Turn' /\ cardTurn' \in 0 .. Turn'
          /\ hold' \in 0 .. Turn'
      BY <1>4, <2>2, <2>3, <2>4 DEF cardVars
    <3>. QED  BY <1>1, <1>3, <1>4, <2>1, <2>2, <2>3, <3>1, <3>2
              DEF StateTypes, claudeVars, cardVars
  <2>6. Begun'
    <3>1. \A g \in fins \cup {f} :
            g.turn <= Turn + 1 /\ (g.popped # 0 => g.turn < Turn + 1)
      BY <1>3, <2>2, BegunGrows
    <3>2. \A q \in requests : q.turn <= Turn + 1
      BY BegunGrows
    <3>. HIDE DEF f, next
    <3>. QED  BY <1>4, <2>2, <3>1, <3>2 DEF Begun
  <2>. QED  BY <2>5, <2>6
<1>. QED  BY <1>5, <1>6

LEMMA HandleTyped ==
  ASSUME StateTypes, Begun, NEW e \in Event, NEW w \in Seq(Waiter), NEW held \in Nat,
         Handle(e, w, held), mail' \in Seq(Event)
  PROVE  StateTypes' /\ Begun'
BY PromptTyped, PreToolUseTyped, StopTyped DEF Handle

LEMMA ArrivesTyped ==
  ASSUME StateTypes, Begun, Arrives
  PROVE  StateTypes' /\ Begun'
<1>1. /\ mail \in Seq(Event) /\ Head(mail) \in Event
      /\ mail' \in Seq(Event)
  BY HeadTailProperties DEF Arrives, StateTypes
<1>2. CASE Head(mail).kind # "prompt" /\ Held
  <2>1. [event |-> Head(mail), held |-> hold, free |-> FALSE] \in Waiter
    BY <1>1, Ranges DEF Waiter
  <2>2. waiting' \in Seq(Waiter)
    <3>1. waiting' = Append(waiting, [event |-> Head(mail), held |-> hold, free |-> FALSE])
      BY <1>2 DEF Arrives
    <3>. QED  BY <2>1, <3>1, Ranges, AppendProperties
  <2>3. UNCHANGED <<typed, sending, claudeVars, turnVars, trigger, queued,
                    hold, cardVars, finishVars, requests>>
    BY <1>2 DEF Arrives
  <2>. QED  BY <1>1, <2>2, <2>3
            DEF StateTypes, Begun, Turn, claudeVars, turnVars, cardVars, finishVars
<1>3. CASE ~ (Head(mail).kind # "prompt" /\ Held)
  <2>1. Handle(Head(mail), waiting, 0)
    BY <1>3 DEF Arrives
  <2>. QED  BY <1>1, <2>1, Ranges, HandleTyped
<1>. QED  BY <1>2, <1>3

LEMMA LetGoTyped ==
  ASSUME StateTypes, Begun, LetGo
  PROVE  StateTypes' /\ Begun'
<1>1. waiting \in Seq(Waiter) /\ mail' \in Seq(Event)
  BY DEF LetGo, StateTypes
<1>2. waiting # <<>>
  BY <1>1, EmptySeq DEF LetGo, NoneFree
<1>3. Head(waiting) \in Waiter /\ Tail(waiting) \in Seq(Waiter)
  BY <1>1, <1>2, HeadTailProperties
<1>4. Head(waiting).event \in Event /\ Head(waiting).held \in Nat
  BY <1>3 DEF Waiter
<1>. QED  BY <1>1, <1>3, <1>4, HandleTyped DEF LetGo

-----------------------------------------------------------------------------
(* The finish.                                                             *)

LEMMA GoesTyped ==
  ASSUME StateTypes, Begun, NEW f \in fins,
         NEW at \in {"gate", "lock", "card", "answer", "popping"}, Goes(f, at)
  PROVE  /\ fins' \subseteq Finish
         /\ \A g \in fins' : g.turn <= Turn /\ (g.popped # 0 => g.turn < Turn)
         /\ [f EXCEPT !.at = at].at = at
         /\ [f EXCEPT !.at = at].popped = f.popped
<1>1. f \in Finish /\ f.turn <= Turn /\ (f.popped # 0 => f.turn < Turn)
  BY DEF StateTypes, Begun
<1>2. LET g == [f EXCEPT !.at = at] IN
        /\ g \in Finish /\ g.at = at /\ g.turn = f.turn /\ g.popped = f.popped
  BY <1>1 DEF Finish
<1>. QED  BY <1>1, <1>2 DEF Goes, StateTypes, Begun

LEMMA FinishGateTyped ==
  ASSUME StateTypes, Begun, NEW f \in fins, FinishGate(f)
  PROVE  StateTypes' /\ Begun'
<1>1. /\ fins' \subseteq Finish
      /\ \A g \in fins' : g.turn <= Turn /\ (g.popped # 0 => g.turn < Turn)
  BY GoesTyped DEF FinishGate
<1>2. gaveUp' \subseteq Msgs
  BY DEF FinishGate, GateSet, StateTypes, Finish
<1>3. UNCHANGED <<typed, sending, claudeVars, mail, turnVars, trigger, queued,
                 holdVars, cardVars, gate, answers, requests>>
  BY DEF FinishGate
<1>. QED  BY <1>1, <1>2, <1>3
          DEF StateTypes, Begun, Turn, claudeVars, turnVars, holdVars, cardVars

\* With the lock free no card is at its send: there is a card, or none.
LEMMA CloseTurnTyped ==
  ASSUME StateTypes, Begun, CardInv, NEW f \in fins, CloseTurn(f)
  PROVE  StateTypes' /\ Begun'
<1>. DEFINE g == [f EXCEPT !.card = busy, !.at = IF busy = 0 THEN "answer" ELSE "card"]
<1>1. f \in Finish /\ f.turn <= Turn /\ (f.popped # 0 => f.turn < Turn)
  BY DEF StateTypes, Begun
<1>2. busy \in Nat
  <2>1. busy # Claim
    BY DEF CloseTurn, Locked, CardInv, ClaimSends
  <2>. QED  BY <2>1, LenProperties DEF StateTypes
<1>3. g \in Finish /\ g.turn = f.turn /\ g.popped = f.popped
  BY <1>1, <1>2 DEF Finish
<1>4. closed' \in 0 .. Turn
  BY <1>1, Ranges DEF CloseTurn, StateTypes, Finish
<1>5. /\ fins' = (fins \ {f}) \cup {g}
      /\ UNCHANGED <<typed, sending, claudeVars, mail, status, turns, reclaim,
                 trigger, queued, holdVars, cardVars, gate, answers, gaveUp,
                 requests>>
  BY DEF CloseTurn
<1>. HIDE DEF g
<1>. QED  BY <1>1, <1>3, <1>4, <1>5
          DEF StateTypes, Begun, Turn, claudeVars, holdVars, cardVars

LEMMA SettleCardTyped ==
  ASSUME StateTypes, Begun, CardInv, NEW f \in fins, SettleCard(f)
  PROVE  StateTypes' /\ Begun'
<1>1. f.card \in DOMAIN cards /\ f.turn \in Nat
  BY DEF SettleCard, CardInv, FinishHasSlot, StateTypes, Finish
<1>2. cards' \in Seq(Card) /\ busy' = 0
  BY <1>1, OverTyped DEF SettleCard
<1>3. \A g \in fins :
        LET h == [g EXCEPT !.at = "answer"] IN
          h \in Finish /\ h.turn = g.turn /\ h.popped = g.popped
  BY DEF StateTypes, Finish
<1>4. /\ fins' \subseteq Finish
      /\ \A g \in fins' : g.turn <= Turn /\ (g.popped # 0 => g.turn < Turn)
  <2>1. fins' = {IF g.at = "card" THEN [g EXCEPT !.at = "answer"] ELSE g : g \in fins}
    BY DEF SettleCard
  <2>2. /\ fins \subseteq Finish
        /\ \A g \in fins : g.turn <= Turn /\ (g.popped # 0 => g.turn < Turn)
    BY DEF StateTypes, Begun
  <2>3. ASSUME NEW h \in fins'
        PROVE  h \in Finish /\ h.turn <= Turn /\ (h.popped # 0 => h.turn < Turn)
    <3>1. PICK g \in fins : h = IF g.at = "card" THEN [g EXCEPT !.at = "answer"] ELSE g
      BY <2>1, <2>3
    <3>2. h \in Finish /\ h.turn = g.turn /\ h.popped = g.popped
      BY <1>3, <2>2, <3>1
    <3>. QED  BY <2>2, <3>2
  <2>. QED  BY <2>3
<1>5. UNCHANGED <<typed, sending, claudeVars, mail, turnVars, trigger, queued,
                 holdVars, cardTurn, rows, gate, gaveUp, answers, requests>>
  BY DEF SettleCard
<1>6. Len(cards') \in Nat
  BY <1>2, LenProperties
<1>7. Turn' = Turn /\ UNCHANGED <<closed, requests>>
  BY <1>5 DEF Turn, turnVars
<1>8. Begun'
  BY <1>4, <1>7 DEF Begun
<1>9. busy' \in 0 .. Len(cards') \cup {Claim}
  BY <1>2, <1>6
<1>10. /\ cards' \in Seq(Card) /\ fins' \subseteq Finish
       /\ busy' \in 0 .. Len(cards') \cup {Claim}
  BY <1>2, <1>4, <1>9
<1>11. StateTypes'
  BY <1>5, <1>7, <1>10 DEF StateTypes, claudeVars, turnVars, holdVars
<1>. QED  BY <1>8, <1>11

LEMMA AnsweredTyped ==
  ASSUME StateTypes, Begun, NEW f \in fins, Answered(f)
  PROVE  StateTypes' /\ Begun'
<1>1. /\ fins' \subseteq Finish
      /\ \A g \in fins' : g.turn <= Turn /\ (g.popped # 0 => g.turn < Turn)
  <2>1. CASE f.popped = 0
    BY <2>1 DEF Answered, StateTypes, Begun
  <2>2. CASE f.popped # 0
    BY <2>2, GoesTyped DEF Answered
  <2>. QED  BY <2>1, <2>2
<1>2. [run |-> f.run, under |-> f.target, turn |-> f.turn]
        \in [run : Msgs, under : 0 .. Messages, turn : Nat]
  BY Ranges DEF StateTypes, Finish
<1>3. answers' \subseteq [run : Msgs, under : 0 .. Messages, turn : Nat]
  BY <1>2 DEF Answered, StateTypes
<1>4. trigger' \in 0 .. Messages /\ gate' \in 0 .. Messages
  BY Ranges DEF Answered, TargetAfter, StateTypes
<1>5. UNCHANGED <<typed, sending, claudeVars, mail, turnVars, queued, holdVars,
                 cardVars, gaveUp, requests>>
  BY DEF Answered
<1>. QED  BY <1>1, <1>3, <1>4, <1>5
          DEF StateTypes, Begun, Turn, claudeVars, turnVars, holdVars, cardVars

LEMMA OpenPoppedTyped ==
  ASSUME StateTypes, Begun, Popped, NEW f \in fins, OpenPopped(f)
  PROVE  StateTypes' /\ Begun'
<1>. DEFINE q == [why |-> "popped", msg |-> f.popped, turn |-> f.turn + 1,
                  gate |-> 0, at |-> IF Locked THEN "lock" ELSE "enter"]
<1>1. f.popped \in Msgs /\ f.turn \in Nat /\ f.turn + 1 <= Turn
  <2>1. f.popped # 0 /\ f \in Finish
    BY DEF OpenPopped, Popped, StateTypes
  <2>2. f.popped \in Msgs /\ f.turn \in Nat /\ f.turn < Turn
    BY <2>1 DEF Finish, Begun
  <2>. QED  BY <2>2, Ranges
<1>2. q \in Request /\ q.turn <= Turn
  BY <1>1 DEF Request, Why
<1>3. /\ fins' = fins \ {f} /\ requests' = requests \cup {q}
      /\ UNCHANGED <<typed, sending, claudeVars, mail, turnVars, trigger, queued,
                 holdVars, cardVars, gate, gaveUp, answers>>
  BY DEF OpenPopped
<1>. HIDE DEF q
<1>. QED  BY <1>2, <1>3
          DEF StateTypes, Begun, Turn, claudeVars, turnVars, holdVars, cardVars

-----------------------------------------------------------------------------
(* The slot, action by action.                                             *)

\* Steps that leave the slot and the cards, and move no request into or out
\* of the lock and no finish to a card.
LEMMA Quiet ==
  ASSUME CardInv, UNCHANGED <<busy, cards>>,
         \A q \in requests' : Inside(q) => q \in requests,
         \A q \in requests : Inside(q) => q \in requests',
         \A f \in fins' : f.at = "card" => f \in fins
  PROVE  CardInv'
<1>1. LiveInSlot'
  BY DEF CardInv, LiveInSlot
<1>2. FinishHasSlot'
  BY DEF CardInv, FinishHasSlot
<1>3. SendClaims'
  BY DEF CardInv, SendClaims, Inside
<1>4. ClaimSends'
  BY DEF CardInv, ClaimSends, Inside
<1>5. OneInside'
  BY DEF CardInv, OneInside, Inside
<1>. QED  BY <1>1, <1>2, <1>3, <1>4, <1>5 DEF CardInv

\* A request that is let in finds nobody inside.
LEMMA NobodyInside ==
  ASSUME NEW q \in requests, Enters(q)
  PROVE  /\ \A r \in requests : ~ Inside(r)
         /\ ~ Inside(q)
BY DEF Enters, Locked, Inside

\* The slot is not claimed while nobody sends.
LEMMA Unclaimed ==
  ASSUME StateTypes, CardInv, \A r \in requests : r.at # "sending"
  PROVE  busy # Claim /\ busy \in {0} \cup DOMAIN cards
<1>1. busy # Claim
  BY DEF CardInv, ClaimSends
<1>. QED  BY <1>1, LenProperties DEF StateTypes

\* The claim: no live card, no finish at a card, and one request inside.
LEMMA Claims ==
  ASSUME StateTypes, Begun, NEW q \in requests, busy' = Claim, Move(q, "sending"),
         \A r \in requests \ {q} : ~ Inside(r),
         \A k \in DOMAIN cards' : cards'[k].state # "live",
         \A f \in fins' : f.at # "card"
  PROVE  CardInv'
<1>. DEFINE s == [q EXCEPT !.at = "sending"]
<1>1. requests' = (requests \ {q}) \cup {s} /\ s.at = "sending"
  BY MoveTyped
<1>. HIDE DEF s
<1>2. \A r \in requests' : Inside(r) => r = s
  BY <1>1
<1>3. LiveInSlot' /\ FinishHasSlot'
  BY DEF LiveInSlot, FinishHasSlot
<1>4. SendClaims' /\ ClaimSends'
  BY <1>1 DEF SendClaims, ClaimSends
<1>5. OneInside'
  BY <1>2 DEF OneInside, Inside
<1>. QED  BY <1>3, <1>4, <1>5 DEF CardInv

LEMMA RequestSlot ==
  ASSUME StateTypes, Begun, CardInv, NEW q \in requests, RequestStep(q)
  PROVE  CardInv'
<1>1. CASE GateOpens(q)
  <2>. DEFINE at == IF Locked THEN "lock" ELSE "enter"
              s == [q EXCEPT !.at = at]
  <2>1. /\ requests' = (requests \ {q}) \cup {s} /\ s.at = at
        /\ q.at = "gated" /\ UNCHANGED <<busy, cards, fins>>
    BY <1>1, MoveTyped DEF GateOpens, cardVars
  <2>. HIDE DEF s
  <2>2. ~ Inside(q) /\ ~ Inside(s)
    BY <2>1 DEF Inside
  <2>. QED  BY <2>1, <2>2, Quiet
<1>2. CASE Drop(q)
  <2>1. /\ requests' = requests \ {q} /\ ~ Inside(q)
        /\ UNCHANGED <<busy, cards, fins>>
    BY <1>2, NobodyInside DEF Drop, Return, cardVars, finishVars
  <2>. QED  BY <2>1, Quiet
<1>3. CASE SendAgain(q)
  <2>1. busy = 0
    BY <1>3 DEF SendAgain, Dropped
  <2>2. \A k \in DOMAIN cards : cards[k].state # "live"
    BY <2>1, LenProperties DEF StateTypes, CardInv, LiveInSlot
  <2>3. \A f \in fins : f.at # "card"
    BY <2>1, LenProperties DEF StateTypes, CardInv, FinishHasSlot
  <2>. QED  BY <1>3, <2>2, <2>3, Claims, NobodyInside DEF SendAgain, finishVars
<1>4. CASE Supersede(q)
  <2>. DEFINE s == [q EXCEPT !.at = "settling"]
  <2>1. /\ requests' = (requests \ {q}) \cup {s} /\ s.at = "settling"
        /\ UNCHANGED <<busy, cards, fins>>
    BY <1>4, MoveTyped DEF Supersede, cardVars, finishVars
  <2>. HIDE DEF s
  <2>2. \A r \in requests : ~ Inside(r)
    BY <1>4, NobodyInside DEF Supersede
  <2>3. busy # Claim
    BY <2>2, Unclaimed DEF Inside
  <2>4. LiveInSlot' /\ FinishHasSlot'
    BY <2>1 DEF CardInv, LiveInSlot, FinishHasSlot
  <2>5. SendClaims' /\ ClaimSends'
    BY <2>1, <2>2, <2>3 DEF SendClaims, ClaimSends, Inside
  <2>6. OneInside'
    BY <2>1, <2>2 DEF OneInside, Inside
  <2>. QED  BY <2>4, <2>5, <2>6 DEF CardInv
<1>5. CASE StartTurn(q)
  <2>1. busy = 0
    BY <1>5 DEF StartTurn
  <2>2. \A k \in DOMAIN cards : cards[k].state # "live"
    BY <2>1, LenProperties DEF StateTypes, CardInv, LiveInSlot
  <2>3. \A f \in fins : f.at # "card"
    BY <2>1, LenProperties DEF StateTypes, CardInv, FinishHasSlot
  <2>. QED  BY <1>5, <2>2, <2>3, Claims, NobodyInside DEF StartTurn, Reset, finishVars
<1>6. CASE Superseded(q)
  <2>1. Inside(q) /\ q.at = "settling"
    BY <1>6 DEF Superseded, Inside
  <2>2. \A r \in requests \ {q} : ~ Inside(r)
    BY <2>1 DEF CardInv, OneInside
  <2>3. busy \in {0} \cup DOMAIN cards
    BY <2>1, <2>2, Unclaimed DEF Inside
  <2>4. \A f \in fins : f.at # "card"
    BY <1>6 DEF Superseded
  <2>5. \A k \in DOMAIN cards' : cards'[k].state # "live"
    <3>1. CASE busy = 0
      BY <1>6, <3>1, LenProperties DEF Superseded, StateTypes, CardInv, LiveInSlot
    <3>2. CASE busy # 0
      <4>1. busy \in DOMAIN cards
        BY <2>3, <3>2
      <4>2. cards[busy].turn \in Nat
        <5>1. cards \in Seq(Card)
          BY DEF StateTypes
        <5>2. cards[busy] \in Card
          BY <4>1, <5>1, ElementOfSeq, LenProperties
        <5>. QED  BY <5>2 DEF Card
      <4>3. cards' = Over(busy, cards[busy].turn)
        BY <1>6, <3>2 DEF Superseded
      <4>. QED  BY <4>1, <4>2, <4>3, OverTyped DEF CardInv, LiveInSlot
    <3>. QED  BY <3>1, <3>2
  <2>. QED  BY <1>6, <2>2, <2>4, <2>5, Claims DEF Superseded, Reset, finishVars
<1>7. CASE Sent(q)
  <2>1. /\ requests' = requests \ {q} /\ q.at = "sending" /\ UNCHANGED fins
    BY <1>7 DEF Sent, Return, finishVars
  <2>2. busy = Claim /\ \A r \in requests' : ~ Inside(r)
    BY <2>1 DEF CardInv, SendClaims, OneInside, Inside
  <2>3. Claim # 0 /\ Claim \notin DOMAIN cards
    BY LenProperties DEF Claim, StateTypes
  <2>4. /\ \A k \in DOMAIN cards : cards[k].state # "live"
        /\ \A f \in fins : f.at # "card"
    BY <2>2, <2>3 DEF CardInv, LiveInSlot, FinishHasSlot
  <2>5. /\ busy' # Claim
        /\ \A k \in DOMAIN cards' : cards'[k].state = "live" => busy' = k
    <3>. DEFINE live == [turn |-> q.turn, state |-> "live", by |-> 0]
                lost == [turn |-> q.turn, state |-> "lost", by |-> 0]
    <3>1. cards \in Seq(Card) /\ live \in Card /\ lost \in Card
      BY DEF StateTypes, Request, Card
    <3>2. lost.state # "live" /\ Len(cards) \in Nat
      BY <3>1, LenProperties
    <3>3. \/ cards' = Append(cards, live) /\ busy' = Len(cards) + 1
          \/ cards' = Append(cards, lost) /\ busy' = 0
      BY <1>7 DEF Sent
    <3>. HIDE DEF live, lost
    <3>4. \A c \in Card : /\ DOMAIN Append(cards, c) = 1 .. Len(cards) + 1
                          /\ \A k \in 1 .. Len(cards) : Append(cards, c)[k] = cards[k]
                          /\ Append(cards, c)[Len(cards) + 1] = c
      BY <3>1, AppendProperties, LenProperties
    <3>. QED  BY <2>4, <3>1, <3>2, <3>3, <3>4, LenProperties DEF Claim
  <2>6. LiveInSlot' /\ FinishHasSlot'
    BY <2>1, <2>4, <2>5 DEF LiveInSlot, FinishHasSlot
  <2>7. SendClaims' /\ ClaimSends'
    BY <2>2, <2>5 DEF SendClaims, ClaimSends, Inside
  <2>8. OneInside'
    BY <2>2 DEF OneInside, Inside
  <2>. QED  BY <2>6, <2>7, <2>8 DEF CardInv
<1>. QED  BY <1>1, <1>2, <1>3, <1>4, <1>5, <1>6, <1>7 DEF RequestStep

LEMMA FinishSlot ==
  ASSUME StateTypes, CardInv, NEW f \in fins, FinishStep(f)
  PROVE  CardInv'
<1>1. f \in Finish
  BY DEF StateTypes
<1>2. \A at : [f EXCEPT !.at = at].at = at
  BY <1>1 DEF Finish
<1>3. CASE FinishGate(f)
  <2>1. /\ \A g \in fins' : g.at = "card" => g \in fins
        /\ UNCHANGED <<busy, cards, requests>>
    BY <1>2, <1>3 DEF FinishGate, Goes, cardVars
  <2>. QED  BY <2>1, Quiet
<1>4. CASE CloseTurn(f)
  <2>. DEFINE g == [f EXCEPT !.card = busy,
                             !.at = IF busy = 0 THEN "answer" ELSE "card"]
  <2>1. /\ fins' = (fins \ {f}) \cup {g} /\ UNCHANGED <<busy, cards, requests>>
        /\ ~ Locked
    BY <1>4 DEF CloseTurn, cardVars
  <2>2. g.card = busy /\ (g.at = "card" => busy # 0)
    BY <1>1 DEF Finish
  <2>3. busy \in {0} \cup DOMAIN cards
    BY <2>1, Unclaimed DEF Locked
  <2>. HIDE DEF g
  <2>4. FinishHasSlot'
    BY <2>1, <2>2, <2>3 DEF CardInv, FinishHasSlot
  <2>5. LiveInSlot' /\ SendClaims' /\ ClaimSends' /\ OneInside'
    BY <2>1 DEF CardInv, LiveInSlot, SendClaims, ClaimSends, OneInside, Inside
  <2>. QED  BY <2>4, <2>5 DEF CardInv
<1>5. CASE SettleCard(f)
  <2>1. /\ f.card = busy /\ busy \in DOMAIN cards /\ f.turn \in Nat
        /\ cards' = Over(busy, f.turn) /\ busy' = 0 /\ UNCHANGED requests
    BY <1>1, <1>5 DEF SettleCard, CardInv, FinishHasSlot, Finish
  <2>2. LiveInSlot'
    BY <2>1, OverTyped DEF CardInv, LiveInSlot
  <2>3. \A g \in fins' : g.at # "card"
    <3>1. \A g \in fins : [g EXCEPT !.at = "answer"].at = "answer"
      BY DEF StateTypes, Finish
    <3>. QED  BY <1>5, <3>1 DEF SettleCard
  <2>4. FinishHasSlot'
    BY <2>3 DEF FinishHasSlot
  <2>5. busy # Claim /\ busy' # Claim
    <3>1. DOMAIN cards = 1 .. Len(cards) /\ Len(cards) \in Nat
      BY LenProperties DEF StateTypes
    <3>. QED  BY <2>1, <3>1 DEF Claim
  <2>6. SendClaims' /\ ClaimSends' /\ OneInside'
    BY <2>1, <2>5 DEF CardInv, SendClaims, ClaimSends, OneInside, Inside
  <2>. QED  BY <2>2, <2>4, <2>6 DEF CardInv
<1>6. CASE Answered(f)
  <2>1. /\ \A g \in fins' : g.at = "card" => g \in fins
        /\ UNCHANGED <<busy, cards, requests>>
    BY <1>2, <1>6 DEF Answered, Goes, cardVars
  <2>. QED  BY <2>1, Quiet
<1>7. CASE OpenPopped(f)
  <2>. DEFINE q == [why |-> "popped", msg |-> f.popped, turn |-> f.turn + 1,
                    gate |-> 0, at |-> IF Locked THEN "lock" ELSE "enter"]
  <2>1. ~ Inside(q)
    BY DEF Inside
  <2>2. /\ fins' \subseteq fins /\ UNCHANGED <<busy, cards>>
        /\ requests' = requests \cup {q}
    BY <1>7 DEF OpenPopped, cardVars
  <2>. HIDE DEF q
  <2>. QED  BY <2>1, <2>2, Quiet
<1>. QED  BY <1>3, <1>4, <1>5, <1>6, <1>7 DEF FinishStep

\* What Claude, Telegram and the hooks do makes requests and finishes, none
\* of them inside the lock or at a card.
LEMMA EventSlot ==
  ASSUME StateTypes, CardInv, NEW e \in Event, NEW w \in Seq(Waiter),
         NEW held \in Nat, Handle(e, w, held)
  PROVE  CardInv'
<1>1. CASE Prompt(e, w)
  <2>1. UNCHANGED <<busy, cards, fins>>
    BY <1>1 DEF Prompt, cardVars, finishVars
  <2>2. CASE status = "busy"
    BY <1>1, <2>1, <2>2, Quiet DEF Prompt
  <2>3. CASE status # "busy"
    <3>1. e.run \in Msgs /\ TurnsAfter(e.run) \in Seq(Msgs)
      BY TurnsAfterTyped DEF Event
    <3>2. Ask("hook", e.run, TurnsAfter(e.run), w)
      BY <1>1, <2>3 DEF Prompt
    <3>3. \E q \in Request : requests' = requests \cup {q} /\ ~ Inside(q)
      BY <3>1, <3>2, AskTyped DEF Why
    <3>. QED  BY <2>1, <3>3, Quiet
  <2>. QED  BY <2>2, <2>3
<1>2. CASE PreToolUse(e, w, held)
  BY <1>2, Quiet DEF PreToolUse, finishVars
<1>3. CASE Stop(e, w)
  <2>. DEFINE f == [run |-> e.run, turn |-> Turn, target |-> trigger, prev |-> gate,
                    popped |-> IF queued = <<>> THEN 0 ELSE Head(queued),
                    card |-> 0, at |-> IF gate = 0 THEN "lock" ELSE "gate"]
  <2>1. f.at # "card"
    OBVIOUS
  <2>2. fins' = fins \cup {f} /\ UNCHANGED <<busy, cards, requests>>
    BY <1>3 DEF Stop, cardVars
  <2>. HIDE DEF f
  <2>. QED  BY <2>1, <2>2, Quiet
<1>. QED  BY <1>1, <1>2, <1>3 DEF Handle

LEMMA HandedSlot ==
  ASSUME StateTypes, CardInv, Handed
  PROVE  CardInv'
<1>1. sending \in Msgs
  BY MessagesAssumption DEF Handed, StateTypes, Msgs
<1>2. Ask("sent", sending, TurnsAfter(sending), waiting)
  BY DEF Handed
<1>3. \E q \in Request : requests' = requests \cup {q} /\ ~ Inside(q)
  BY <1>1, <1>2, TurnsAfterTyped, Ranges, AskTyped DEF Why
<1>4. UNCHANGED <<busy, cards, fins>>
  BY DEF Handed, cardVars, finishVars
<1>. QED  BY <1>3, <1>4, Quiet

LEMMA MailSlot ==
  ASSUME StateTypes, CardInv, Arrives \/ LetGo
  PROVE  CardInv'
<1>1. CASE Arrives
  <2>1. CASE Head(mail).kind # "prompt" /\ Held
    BY <1>1, <2>1, Quiet DEF Arrives, cardVars, finishVars
  <2>2. CASE ~ (Head(mail).kind # "prompt" /\ Held)
    <3>1. Head(mail) \in Event
      BY <1>1, HeadTailProperties DEF Arrives, StateTypes
    <3>2. Handle(Head(mail), waiting, 0)
      BY <1>1, <2>2 DEF Arrives
    <3>. QED  BY <3>1, <3>2, Ranges, EventSlot
  <2>. QED  BY <2>1, <2>2
<1>2. CASE LetGo
  <2>1. waiting \in Seq(Waiter) /\ waiting # <<>>
    BY <1>2, EmptySeq DEF LetGo, NoneFree, StateTypes
  <2>2. Head(waiting) \in Waiter /\ Tail(waiting) \in Seq(Waiter)
    BY <2>1, HeadTailProperties
  <2>3. Head(waiting).event \in Event /\ Head(waiting).held \in Nat
    BY <2>2 DEF Waiter
  <2>4. Handle(Head(waiting).event, Tail(waiting), Head(waiting).held)
    BY <1>2 DEF LetGo
  <2>. QED  BY <2>2, <2>3, <2>4, EventSlot
<1>. QED  BY <1>1, <1>2

-----------------------------------------------------------------------------
(* Popped, and the whole.                                                  *)

LEMMA PoppedKept ==
  ASSUME StateTypes, Popped, [Next]_vars
  PROVE  Popped'
<1>1. \A f \in fins : \A at : [f EXCEPT !.at = at].at = at
  BY DEF StateTypes, Finish
<1>2. \A f \in fins : \A at : [f EXCEPT !.at = at].popped = f.popped
  BY DEF StateTypes, Finish
<1>3. ASSUME NEW f \in fins, FinishStep(f) PROVE Popped'
  <2>1. CASE FinishGate(f)
    <3>1. PICK g : g = [f EXCEPT !.at = "lock"]
      OBVIOUS
    <3>2. g.at = "lock" /\ fins' = (fins \ {f}) \cup {g}
      BY <1>1, <2>1, <3>1 DEF FinishGate, Goes
    <3>. QED  BY <3>2 DEF Popped
  <2>2. CASE CloseTurn(f)
    <3>. DEFINE g == [f EXCEPT !.card = busy,
                               !.at = IF busy = 0 THEN "answer" ELSE "card"]
    <3>1. g.at # "popping"
      BY DEF StateTypes, Finish
    <3>2. fins' = (fins \ {f}) \cup {g}
      BY <2>2 DEF CloseTurn
    <3>. HIDE DEF g
    <3>. QED  BY <3>1, <3>2 DEF Popped
  <2>3. CASE SettleCard(f)
    <3>1. \A g \in fins : [g EXCEPT !.at = "answer"].at = "answer"
      BY DEF StateTypes, Finish
    <3>2. fins' = {IF g.at = "card" THEN [g EXCEPT !.at = "answer"] ELSE g : g \in fins}
      BY <2>3 DEF SettleCard
    <3>3. ASSUME NEW h \in fins' PROVE h \in fins \/ h.at = "answer"
      <4>1. PICK g \in fins :
              h = IF g.at = "card" THEN [g EXCEPT !.at = "answer"] ELSE g
        BY <3>2, <3>3
      <4>. QED  BY <3>1, <4>1
    <3>. QED  BY <3>3 DEF Popped
  <2>4. CASE Answered(f)
    <3>1. CASE f.popped = 0
      BY <2>4, <3>1 DEF Answered, Popped
    <3>2. CASE f.popped # 0
      <4>. DEFINE g == [f EXCEPT !.at = "popping"]
      <4>1. g.popped # 0
        BY <1>2, <1>3, <3>2
      <4>2. fins' = (fins \ {f}) \cup {g}
        BY <2>4, <3>2 DEF Answered, Goes
      <4>. HIDE DEF g
      <4>. QED  BY <4>1, <4>2 DEF Popped
    <3>. QED  BY <3>1, <3>2
  <2>5. CASE OpenPopped(f)
    BY <2>5 DEF OpenPopped, Popped
  <2>. QED  BY <1>3, <2>1, <2>2, <2>3, <2>4, <2>5 DEF FinishStep
<1>4. ASSUME NEW e, NEW w, NEW held, Handle(e, w, held) PROVE Popped'
  <2>1. CASE Stop(e, w)
    <3>. DEFINE f == [run |-> e.run, turn |-> Turn, target |-> trigger, prev |-> gate,
                      popped |-> IF queued = <<>> THEN 0 ELSE Head(queued),
                      card |-> 0, at |-> IF gate = 0 THEN "lock" ELSE "gate"]
    <3>1. f.at # "popping"
      OBVIOUS
    <3>2. fins' = fins \cup {f}
      BY <2>1 DEF Stop
    <3>. HIDE DEF f
    <3>. QED  BY <3>1, <3>2 DEF Popped
  <2>2. CASE Prompt(e, w) \/ PreToolUse(e, w, held)
    BY <2>2 DEF Prompt, PreToolUse, finishVars, Popped
  <2>. QED  BY <1>4, <2>1, <2>2 DEF Handle
<1>5. ASSUME Arrives \/ LetGo PROVE Popped'
  <2>1. CASE Arrives
    <3>1. CASE Head(mail).kind # "prompt" /\ Held
      <4>1. UNCHANGED fins
        BY <2>1, <3>1 DEF Arrives, finishVars
      <4>. QED  BY <4>1 DEF Popped
    <3>2. CASE ~ (Head(mail).kind # "prompt" /\ Held)
      <4>1. Handle(Head(mail), waiting, 0)
        BY <2>1, <3>2 DEF Arrives
      <4>. QED  BY <4>1, <1>4
    <3>. QED  BY <3>1, <3>2
  <2>2. CASE LetGo
    <3>1. Handle(Head(waiting).event, Tail(waiting), Head(waiting).held)
      BY <2>2 DEF LetGo
    <3>. QED  BY <3>1, <1>4
  <2>. QED  BY <1>5, <2>1, <2>2
<1>6. ASSUME AdoptTrigger \/ Reaches \/ Handed \/ Tool \/ End \/ UNCHANGED vars
      PROVE  Popped'
  <2>1. (AdoptTrigger \/ Reaches \/ Tool \/ End) => UNCHANGED fins
    BY DEF AdoptTrigger, Reaches, Tool, End, finishVars
  <2>2. Handed => UNCHANGED fins
    BY DEF Handed, finishVars
  <2>3. UNCHANGED vars => UNCHANGED fins
    BY DEF vars, finishVars
  <2>4. UNCHANGED fins
    BY <1>6, <2>1, <2>2, <2>3
  <2>. QED  BY <2>4 DEF Popped
<1>7. ASSUME NEW q \in requests, RequestStep(q) PROVE Popped'
  <2>1. UNCHANGED fins
    BY <1>7 DEF RequestStep, GateOpens, Drop, SendAgain, Supersede, StartTurn,
                Superseded, Sent, finishVars
  <2>. QED  BY <2>1 DEF Popped
<1>. QED  BY <1>3, <1>5, <1>6, <1>7 DEF Next

\* It is messages that are spoilt.
LEMMA SpoiltTyped ==
  ASSUME StateTypes, spoilt \subseteq Msgs, [Next]_vars
  PROVE  spoilt' \subseteq Msgs
<1>1. ASSUME NEW race, NEW m \in Msgs, Spoils(race, m) PROVE spoilt' \subseteq Msgs
  BY <1>1 DEF Spoils
<1>2. CASE AdoptTrigger
  <2>1. typed + 1 \in Msgs
    BY <1>2, MessagesAssumption DEF AdoptTrigger, StateTypes, Msgs
  <2>. QED  BY <1>1, <1>2, <2>1 DEF AdoptTrigger
<1>3. CASE Handed
  <2>1. sending \in Msgs
    BY <1>3, Ranges DEF Handed, StateTypes
  <2>. QED  BY <1>1, <1>3, <2>1 DEF Handed
<1>4. ASSUME NEW e \in Event, NEW w, NEW held, Handle(e, w, held)
      PROVE  spoilt' \subseteq Msgs
  <2>1. e.run \in Msgs
    BY DEF Event
  <2>. QED  BY <1>1, <1>4, <2>1 DEF Handle, Prompt, PreToolUse, Stop
<1>5. CASE Arrives
  <2>1. Head(mail) \in Event
    BY <1>5, HeadTailProperties DEF Arrives, StateTypes
  <2>. QED  BY <1>4, <1>5, <2>1 DEF Arrives
<1>6. CASE LetGo
  <2>1. waiting \in Seq(Waiter) /\ waiting # <<>>
    BY <1>6, EmptySeq DEF LetGo, NoneFree, StateTypes
  <2>2. Head(waiting).event \in Event
    <3>1. Head(waiting) \in Waiter
      BY <2>1, HeadTailProperties
    <3>. QED  BY <3>1 DEF Waiter
  <2>. QED  BY <1>4, <1>6, <2>2 DEF LetGo
<1>7. CASE Reaches \/ Tool \/ End \/ UNCHANGED vars
  BY <1>7 DEF Reaches, Tool, End, vars
<1>8. ASSUME NEW q \in requests, RequestStep(q) PROVE spoilt' \subseteq Msgs
  BY <1>8 DEF RequestStep, GateOpens, Drop, SendAgain, Supersede, StartTurn,
              Superseded, Sent
<1>9. ASSUME NEW f \in fins, FinishStep(f) PROVE spoilt' \subseteq Msgs
  BY <1>9 DEF FinishStep, FinishGate, CloseTurn, SettleCard, Answered, OpenPopped
<1>. QED  BY <1>2, <1>3, <1>5, <1>6, <1>7, <1>8, <1>9 DEF Next

LEMMA InvInit == Init => Inv
<1>. SUFFICES ASSUME Init PROVE Inv
  OBVIOUS
<1>1. StateTypes
  <2>1. /\ box \in Seq(Msgs) /\ mail \in Seq(Event) /\ turns \in Seq(Msgs)
        /\ queued \in Seq(Msgs) /\ waiting \in Seq(Waiter) /\ cards \in Seq(Card)
    BY EmptySeq DEF Init
  <2>2. Turn = 0 /\ Len(cards) = 0
    BY EmptySeq DEF Init, Turn
  <2>3. typed \in 0 .. Messages /\ sending \in 0 .. Messages /\ run \in 0 .. Messages
        /\ used \in 0 .. MaxTools /\ trigger \in 0 .. Messages /\ gate \in 0 .. Messages
    BY MessagesAssumption, BoundsAssumption DEF Init
  <2>4. closed \in 0 .. Turn /\ hold \in 0 .. Turn /\ cardTurn \in 0 .. Turn
        /\ busy \in 0 .. Len(cards) \cup {Claim}
    BY <2>2 DEF Init
  <2>5. /\ reached \in BOOLEAN /\ status \in {"idle", "busy"} /\ reclaim \in BOOLEAN
        /\ rows = {} /\ fins = {} /\ requests = {} /\ answers = {} /\ gaveUp = {}
    BY DEF Init
  <2>. QED  BY <2>1, <2>3, <2>4, <2>5 DEF StateTypes
<1>2. Begun /\ Popped /\ spoilt \subseteq Msgs
  BY DEF Init, Begun, Popped
<1>3. CardInv
  BY EmptySeq, LenProperties
     DEF Init, CardInv, LiveInSlot, FinishHasSlot, SendClaims, ClaimSends,
         OneInside, Claim
<1>. QED  BY <1>1, <1>2, <1>3 DEF Inv

LEMMA InvNext == Inv /\ [Next]_vars => Inv'
<1>. SUFFICES ASSUME Inv, [Next]_vars PROVE Inv'
  OBVIOUS
<1>1. StateTypes /\ spoilt \subseteq Msgs /\ Begun /\ Popped /\ CardInv
  BY DEF Inv
<1>2. Popped' /\ spoilt' \subseteq Msgs
  BY <1>1, PoppedKept, SpoiltTyped
<1>3. ASSUME NEW q \in requests, RequestStep(q)
      PROVE  StateTypes' /\ Begun' /\ CardInv'
  <2>1. CardInv'
    BY <1>1, <1>3, RequestSlot
  <2>2. q.at = "settling" => busy # Claim
    BY <1>1, Unclaimed DEF CardInv, OneInside, Inside
  <2>3. StateTypes' /\ Begun'
    BY <1>1, <1>3, <2>2, GateOpensTyped, DropTyped, SendAgainTyped, SupersedeTyped,
       StartTurnTyped, SupersededTyped, SentTyped DEF RequestStep, Superseded
  <2>. QED  BY <2>1, <2>3
<1>4. ASSUME NEW f \in fins, FinishStep(f)
      PROVE  StateTypes' /\ Begun' /\ CardInv'
  BY <1>1, <1>4, FinishSlot, FinishGateTyped, CloseTurnTyped, SettleCardTyped,
     AnsweredTyped, OpenPoppedTyped DEF FinishStep
<1>5. CASE Arrives \/ LetGo
  BY <1>1, <1>2, <1>5, MailSlot, ArrivesTyped, LetGoTyped DEF Inv, Msgs
<1>6. CASE Handed
  BY <1>1, <1>2, <1>6, HandedSlot, HandedTyped DEF Inv, Msgs
<1>7. CASE AdoptTrigger \/ Reaches \/ Tool \/ End
  <2>1. CardInv'
    BY <1>1, <1>7, Quiet DEF AdoptTrigger, Reaches, Tool, End, cardVars, finishVars
  <2>. QED  BY <1>1, <1>2, <1>7, <2>1, AdoptTriggerTyped, ReachesTyped, ToolTyped,
               EndTyped DEF Inv, Msgs
<1>8. CASE UNCHANGED vars
  <2>1. CardInv'
    BY <1>1, <1>8, Quiet DEF vars, cardVars, finishVars
  <2>2. StateTypes' /\ Begun'
    BY <1>1, <1>8 DEF vars, StateTypes, Begun, Turn, claudeVars, turnVars, holdVars,
                      cardVars, finishVars
  <2>. QED  BY <1>2, <2>1, <2>2 DEF Inv, Msgs
<1>. QED  BY <1>2, <1>3, <1>4, <1>5, <1>6, <1>7, <1>8 DEF Next, Inv, Msgs

LEMMA Invariance == Spec => []Inv
BY InvInit, InvNext, PTL DEF Spec

\* The state of turns, cards, holds and finishes keeps its types, and no
\* turn is closed, held or shown before it has begun (TurnCards.TypeOK).
THEOREM TypeCorrect == Spec => []TypeOK
<1>1. Inv => TypeOK
  BY DEF Inv, TypeOK
<1>. QED  BY <1>1, Invariance, PTL

\* The chat never has two running cards (TurnCards.OneLiveCard), for any
\* number of messages and under every race.
THEOREM OneCardRuns == Spec => []OneLiveCard
<1>1. Inv => OneLiveCard
  BY DEF Inv, CardInv, LiveInSlot, OneLiveCard, Live
<1>. QED  BY <1>1, Invariance, PTL

-----------------------------------------------------------------------------
(* A run ends once.                                                        *)

\* The messages Claude has not finished with, and those not sent yet.
Unended ==
  {r \in Msgs : \/ r > typed \/ r = run \/ (\E i \in DOMAIN box : box[i] = r)
                \/ r = sending /\ ~ reached}

\* Each message is in one place with Claude.
Apart ==
  /\ sending <= typed /\ run <= typed
  /\ \A i \in DOMAIN box : box[i] <= typed /\ box[i] # run
  /\ \A i, j \in DOMAIN box : box[i] = box[j] => i = j
  /\ sending # 0 /\ ~ reached =>
       sending # run /\ \A i \in DOMAIN box : box[i] # sending

\* A run's Stop is on its way once, in the mail ml or the held events w.
SameStop(d, e) == d.kind = "stop" /\ e.kind = "stop" /\ d.run = e.run
Once(ml, w) ==
  /\ \A i, j \in DOMAIN ml : SameStop(ml[i], ml[j]) => i = j
  /\ \A i, j \in DOMAIN w : SameStop(w[i].event, w[j].event) => i = j
  /\ \A i \in DOMAIN ml, j \in DOMAIN w : ~ SameStop(ml[i], w[j].event)

OnWay(r, ml, w) ==
  \/ \E i \in DOMAIN ml : ml[i].kind = "stop" /\ ml[i].run = r
  \/ \E i \in DOMAIN w : w[i].event.kind = "stop" /\ w[i].event.run = r
Known(r, F, gt) == r = gt \/ \E f \in F : r = f.run \/ r = f.prev

\* A Stop on its way is of a run that is over and has no finish yet.
Ended(ml, w, F, gt) ==
  \A r \in Msgs : OnWay(r, ml, w) \/ Known(r, F, gt) => r \notin Unended
Fresh(ml, w, F, gt) == \A r \in Msgs : OnWay(r, ml, w) => ~ Known(r, F, gt)
OwnRun(F) == \A f, g \in F : f.run = g.run => f = g

RunInv ==
  /\ Apart /\ Once(mail, waiting)
  /\ Ended(mail, waiting, fins, gate) /\ Fresh(mail, waiting, fins, gate)
  /\ OwnRun(fins)

-----------------------------------------------------------------------------
(* Turns, and the card's turn.                                             *)

BusyTurn == status = "busy" => \A f \in fins : f.turn < Turn
SlotTurn == busy \in DOMAIN cards =>
  cards[busy].turn = cardTurn /\ cards[busy].state # "lost"
SendTurn == \A q \in requests : q.at = "sending" => q.turn = cardTurn
InsideOpen == \A q \in requests : Inside(q) => q.turn > closed
SettleNewer == \A q \in requests : q.at = "settling" => q.turn > cardTurn
ClosedShown ==
  busy # 0 /\ cardTurn <= closed => \E f \in fins : f.at = "card"
Finished ==
  \A t \in 1 .. Turn :
    \/ t <= closed \/ (t = Turn /\ status = "busy")
    \/ \E f \in fins : f.at \in {"gate", "lock"} /\ f.turn = t
EditClosed == \A f \in fins : f.at = "card" => f.turn <= closed
CardsOlder == \A k \in DOMAIN cards : cards[k].turn <= cardTurn

TurnInv == BusyTurn /\ Finished

CardTurns ==
  SlotTurn /\ SendTurn /\ InsideOpen /\ SettleNewer /\ ClosedShown
  /\ EditClosed /\ CardsOlder

-----------------------------------------------------------------------------
(* The chain of a set F of finishes with the gate at gt.                   *)

Holding(f) == f.at # "popping"
Follows(g, f) == g.at = "gate" /\ Holding(f) /\ g.prev = f.run
First(f, F) == f \in F /\ Holding(f) /\ \A p \in F : ~ Follows(f, p)

GateKept(F, gt) ==
  /\ gt # 0 => \E f \in F : Holding(f) /\ f.run = gt
  /\ gt = 0 => \A f \in F : ~ Holding(f)
LastKept(F, gt) == gt # 0 => \A f \in F : f.at = "gate" => f.prev # gt
OneNext(F) == \A f, g \in F :
  f.at = "gate" /\ g.at = "gate" /\ f.prev = g.prev => f = g
OneFirst(F) == \A f, g \in F : First(f, F) /\ First(g, F) => f = g
Founded(F) == \A X \in SUBSET F :
  (\E f \in X : Holding(f)) => \E f \in X : First(f, X)
LinkTurns(F) == \A f, g \in F : Follows(g, f) =>
  f.turn <= g.turn /\ (f.popped # 0 => f.turn < g.turn)

Chain(F, gt) ==
  /\ GateKept(F, gt) /\ LastKept(F, gt)
  /\ OneNext(F) /\ OneFirst(F) /\ Founded(F) /\ LinkTurns(F)

\* No finish of a turn before t holds the gate or waits for it.
NoneBefore(t, F) == \A f \in F : Holding(f) => f.turn >= t

AskedLast(q, F) ==
  IF q.at # "gated" THEN NoneBefore(q.turn, F)
  ELSE /\ NoneBefore(q.turn, F) \/ \E f \in F : Holding(f) /\ f.run = q.gate
       /\ \A f \in F : f.at = "gate" /\ f.prev = q.gate => f.turn >= q.turn
PoppedLast(F) == \A f \in F : f.at = "popping" => NoneBefore(f.turn + 1, F)

InOrder ==
  /\ Chain(fins, gate)
  /\ \A q \in requests : AskedLast(q, fins)
  /\ NoneBefore(cardTurn, fins)
  /\ PoppedLast(fins)

\* The cards, while nobody stopped waiting for a finish.
OwnEdit == \A f \in fins : f.at = "card" => cards[f.card].turn = f.turn
OverClosed == \A k \in DOMAIN cards : cards[k].state = "over" =>
  cards[k].turn <= closed \/ cards[k].turn < cardTurn
FirstSend == \A q \in requests : q.at = "sending" =>
  \A k \in DOMAIN cards : cards[k].turn = q.turn => cards[k].state = "lost"
OwnLast == \A k \in DOMAIN cards : cards[k].by \in {0, cards[k].turn}
OneShown == \A k, l \in {i \in DOMAIN cards : cards[i].state # "lost"} :
  cards[k].turn = cards[l].turn => k = l

Shown == OwnEdit /\ OverClosed /\ FirstSend /\ OwnLast /\ OneShown

OrderInv ==
  RunInv /\ TurnInv /\ CardTurns /\ (gaveUp = {} => InOrder /\ Shown)

-----------------------------------------------------------------------------
(* The chain.                                                              *)

\* The finish that goes on is of the oldest turn.
LEMMA FirstLeast ==
  ASSUME NEW F \in SUBSET Finish, NEW gt, Chain(F, gt), NEW f, First(f, F)
  PROVE  NoneBefore(f.turn, F)
<1>. DEFINE X == {g \in F : Holding(g) /\ ~ (g.turn >= f.turn)}
<1>1. SUFFICES ASSUME X # {} PROVE FALSE
  BY DEF NoneBefore
<1>2. X \in SUBSET F /\ \E g \in X : Holding(g)
  BY <1>1
<1>3. PICK g \in X : First(g, X)
  <2>. HIDE DEF X
  <2>. QED  BY <1>2 DEF Chain, Founded
<1>4. g \in F /\ Holding(g) /\ ~ (g.turn >= f.turn)
  BY <1>3
<1>5. g # f /\ f.turn \in Nat /\ g.turn \in Nat
  BY <1>4 DEF First, Finish
<1>6. ~ First(g, F)
  BY <1>4, <1>5 DEF Chain, OneFirst, First
<1>7. PICK p \in F : Follows(g, p)
  BY <1>4, <1>6 DEF First
<1>8. p.turn \in Nat /\ p.turn <= g.turn /\ Holding(p)
  BY <1>4, <1>7 DEF Chain, LinkTurns, Follows, Finish
<1>9. p \in X
  BY <1>4, <1>5, <1>7, <1>8
<1>. QED  BY <1>3, <1>7, <1>9 DEF First

\* What is true of the turn next to it is true of those after it.
LEMMA NextLeast ==
  ASSUME NEW F \in SUBSET Finish, NEW gt, Chain(F, gt), NEW f, First(f, F),
         NEW c \in Nat, \A g \in F : Follows(g, f) => g.turn >= c
  PROVE  NoneBefore(c, F \ {f})
<1>. DEFINE X == {g \in F \ {f} : Holding(g) /\ ~ (g.turn >= c)}
<1>1. SUFFICES ASSUME X # {} PROVE FALSE
  BY DEF NoneBefore
<1>2. X \in SUBSET F /\ \E g \in X : Holding(g)
  BY <1>1
<1>3. PICK g \in X : First(g, X)
  <2>. HIDE DEF X
  <2>. QED  BY <1>2 DEF Chain, Founded
<1>4. g \in F /\ g # f /\ Holding(g) /\ ~ (g.turn >= c)
  BY <1>3
<1>5. g.turn \in Nat
  BY <1>4 DEF Finish
<1>6. ~ First(g, F)
  BY <1>4 DEF Chain, OneFirst, First
<1>7. PICK p \in F : Follows(g, p)
  BY <1>4, <1>6 DEF First
<1>8. p # f
  BY <1>4, <1>7
<1>9. p.turn \in Nat /\ p.turn <= g.turn /\ Holding(p)
  BY <1>4, <1>7 DEF Chain, LinkTurns, Follows, Finish
<1>10. p \in X
  BY <1>4, <1>5, <1>7, <1>8, <1>9
<1>. QED  BY <1>3, <1>7, <1>10 DEF First

\* A finish comes, behind the one at the gate.
LEMMA JoinChain ==
  ASSUME NEW F \in SUBSET Finish, NEW gt \in Nat, Chain(F, gt), NEW f \in Finish,
         \A g \in F : g.run # f.run /\ g.prev # f.run,
         gt # f.run, f.prev = gt, f.at = IF gt = 0 THEN "lock" ELSE "gate",
         \A g \in F : g.turn <= f.turn /\ (g.popped # 0 => g.turn < f.turn)
  PROVE  Chain(F \cup {f}, f.run)
<1>. DEFINE G == F \cup {f}
<1>1. Holding(f) /\ f.run # 0 /\ f \notin F
  BY DEF Holding, Finish, Msgs
<1>2. \A g \in G : ~ Follows(g, f)
  BY DEF Follows
<1>3. \A g, h \in F : Follows(g, h) <=> Follows(g, h)
  OBVIOUS
<1>4. GateKept(G, f.run) /\ LastKept(G, f.run)
  BY <1>1 DEF GateKept, LastKept
<1>5. OneNext(G)
  <2>1. \A g \in F : f.at = "gate" => ~ (g.at = "gate" /\ g.prev = f.prev)
    BY DEF Chain, LastKept
  <2>. QED  BY <2>1 DEF Chain, OneNext
<1>6. OneFirst(G)
  <2>1. ASSUME NEW g \in F, First(g, G), First(f, G) PROVE FALSE
    <3>1. gt # 0
      BY <2>1 DEF Chain, GateKept, First
    <3>2. PICK p \in F : Holding(p) /\ p.run = gt
      BY <3>1 DEF Chain, GateKept
    <3>3. Follows(f, p)
      BY <3>1, <3>2 DEF Follows
    <3>. QED  BY <2>1, <3>2, <3>3 DEF First
  <2>2. \A g \in F : First(g, G) => First(g, F)
    BY DEF First
  <2>. QED  BY <2>1, <2>2 DEF Chain, OneFirst, First
<1>7. Founded(G)
  <2>. SUFFICES ASSUME NEW X \in SUBSET G, NEW h \in X, Holding(h)
                PROVE  \E g \in X : First(g, X)
    BY DEF Founded
  <2>1. CASE \E g \in X : g # f /\ Holding(g)
    <3>1. X \ {f} \in SUBSET F /\ \E g \in X \ {f} : Holding(g)
      BY <2>1
    <3>2. PICK g \in X \ {f} : First(g, X \ {f})
      BY <3>1 DEF Chain, Founded
    <3>3. First(g, X)
      BY <3>2, <1>2 DEF First
    <3>. QED  BY <3>2, <3>3
  <2>2. CASE ~ \E g \in X : g # f /\ Holding(g)
    <3>1. First(f, X)
      BY <1>1, <1>2, <2>2 DEF First, Follows
    <3>. QED  BY <3>1 DEF First
  <2>. QED  BY <2>1, <2>2
<1>8. LinkTurns(G)
  BY <1>2 DEF Chain, LinkTurns
<1>. QED  BY <1>4, <1>5, <1>6, <1>7, <1>8 DEF Chain

\* The finish that goes on lets the next one go on.
LEMMA LeaveChain ==
  ASSUME NEW F \in SUBSET Finish, NEW gt \in Nat, Chain(F, gt), NEW f, First(f, F),
         OwnRun(F),
         NEW G, \A g : g \in G /\ Holding(g) <=> g \in F /\ g # f /\ Holding(g)
  PROVE  Chain(G, IF gt = f.run THEN 0 ELSE gt)
<1>. DEFINE ngt == IF gt = f.run THEN 0 ELSE gt
<1>0. f \in F /\ Holding(f) /\ f.run # 0
  BY DEF First, Finish, Msgs
<1>1. \A g \in G : g.at = "gate" => g \in F /\ g # f /\ Holding(g)
  BY DEF Holding
<1>2. \A g, p : g \in G /\ p \in G /\ Follows(g, p) =>
                  g \in F /\ p \in F /\ p # f
  BY <1>1 DEF Follows
<1>3. GateKept(G, ngt)
  <2>1. CASE gt = f.run
    <3>1. \A g \in F : ~ Follows(g, f)
      BY <1>0, <2>1 DEF Chain, LastKept, Follows
    <3>2. SUFFICES ASSUME NEW h \in G, Holding(h) PROVE FALSE
      BY <2>1 DEF GateKept
    <3>3. h \in F \ {f}
      BY <3>2
    <3>4. h.turn \in Nat /\ h.turn + 1 \in Nat /\ ~ (h.turn >= h.turn + 1)
      BY <3>3 DEF Finish
    <3>5. NoneBefore(h.turn + 1, F \ {f})
      BY <3>1, <3>4, NextLeast
    <3>. QED  BY <3>2, <3>3, <3>4, <3>5 DEF NoneBefore
  <2>2. CASE gt # f.run
    <3>1. gt # 0
      BY <1>0 DEF Chain, GateKept
    <3>2. PICK g \in F : Holding(g) /\ g.run = gt
      BY <3>1 DEF Chain, GateKept
    <3>. QED  BY <2>2, <3>1, <3>2 DEF GateKept
  <2>. QED  BY <2>1, <2>2
<1>4. LastKept(G, ngt)
  BY <1>1 DEF Chain, LastKept
<1>5. OneNext(G)
  BY <1>1 DEF Chain, OneNext
<1>6. OneFirst(G)
  <2>. SUFFICES ASSUME NEW g \in G, NEW h \in G, First(g, G), First(h, G)
                PROVE  g = h
    BY DEF OneFirst
  <2>1. /\ g \in F /\ g # f /\ Holding(g)
        /\ h \in F /\ h # f /\ Holding(h)
    BY DEF First
  <2>2. ASSUME NEW k \in F, k # f, First(k, G) PROVE Follows(k, f)
    <3>1. Holding(k)
      BY <2>2 DEF First
    <3>2. ~ First(k, F)
      BY <2>2 DEF Chain, OneFirst, First
    <3>3. PICK p \in F : Follows(k, p)
      BY <3>1, <3>2 DEF First
    <3>4. p \notin G
      BY <2>2, <3>3 DEF First
    <3>5. p = f
      BY <3>3, <3>4 DEF Follows
    <3>. QED  BY <3>3, <3>5
  <2>3. Follows(g, f) /\ Follows(h, f)
    BY <2>1, <2>2
  <2>. QED  BY <2>1, <2>3 DEF Follows, Chain, OneNext
<1>7. Founded(G)
  <2>. SUFFICES ASSUME NEW X \in SUBSET G, NEW h \in X, Holding(h)
                PROVE  \E g \in X : First(g, X)
    BY DEF Founded
  <2>. DEFINE Y == {g \in X : Holding(g)}
  <2>1. Y \in SUBSET F /\ \E g \in Y : Holding(g)
    OBVIOUS
  <2>2. PICK g \in Y : First(g, Y)
    <3>. HIDE DEF Y
    <3>. QED  BY <2>1 DEF Chain, Founded
  <2>3. First(g, X)
    BY <2>2 DEF First, Follows
  <2>. QED  BY <2>2, <2>3
<1>8. LinkTurns(G)
  BY <1>2 DEF Chain, LinkTurns
<1>. QED  BY <1>3, <1>4, <1>5, <1>6, <1>7, <1>8 DEF Chain

\* Finishes go on, or leave after they let the gate go; the one that leaves
\* the gate is the first.
Alike(f, g) ==
  /\ f.run = g.run /\ f.prev = g.prev /\ f.turn = g.turn /\ f.popped = g.popped
  /\ Holding(f) /\ Holding(g)
Shift(F, G) ==
  /\ \A g \in G : Holding(g) =>
       \E f \in F : Alike(f, g) /\ (g.at = "gate" => f.at = "gate")
  /\ \A f \in F : Holding(f) =>
       \E g \in G : Alike(f, g) /\ (f.at = "gate" /\ ~ First(f, F) => g.at = "gate")
  /\ \A g \in G : ~ Holding(g) => g \in F

LEMMA ShiftChain ==
  ASSUME NEW F, NEW G, Shift(F, G), NEW gt, Chain(F, gt),
         OwnRun(F), OwnRun(G)
  PROVE  Chain(G, gt)
<1>1. \A g \in G : g.at = "gate" => Holding(g)
  BY DEF Holding
<1>2. GateKept(G, gt)
  BY DEF Shift, Alike, Chain, GateKept
<1>3. LastKept(G, gt)
  BY <1>1 DEF Shift, Alike, Chain, LastKept
<1>4. OneNext(G)
  <2>. SUFFICES ASSUME NEW g \in G, NEW h \in G,
                       g.at = "gate", h.at = "gate", g.prev = h.prev
                PROVE  g = h
    BY DEF OneNext
  <2>1. PICK f \in F : Alike(f, g) /\ f.at = "gate"
    BY <1>1 DEF Shift
  <2>2. PICK k \in F : Alike(k, h) /\ k.at = "gate"
    BY <1>1 DEF Shift
  <2>3. f = k
    BY <2>1, <2>2 DEF Alike, Chain, OneNext
  <2>. QED  BY <2>1, <2>2, <2>3 DEF Alike, OwnRun
<1>5. OneFirst(G)
  <2>1. ASSUME NEW g \in G, First(g, G), NEW f \in F, Alike(f, g)
        PROVE  First(f, F)
    <3>1. SUFFICES ASSUME NEW p \in F, Follows(f, p) PROVE FALSE
      BY <2>1 DEF First, Alike
    <3>2. ~ First(f, F)
      BY <3>1 DEF First
    <3>3. PICK k \in G : Alike(f, k) /\ k.at = "gate"
      BY <2>1, <3>1, <3>2 DEF Shift, Alike, Follows
    <3>4. k = g
      BY <2>1, <3>3 DEF Alike, OwnRun
    <3>5. PICK h \in G : Alike(p, h)
      BY <3>1 DEF Shift, Follows
    <3>6. Follows(g, h)
      BY <3>1, <3>3, <3>4, <3>5 DEF Alike, Follows
    <3>. QED  BY <2>1, <3>6 DEF First
  <2>. SUFFICES ASSUME NEW g \in G, NEW h \in G, First(g, G), First(h, G)
                PROVE  g = h
    BY DEF OneFirst
  <2>2. PICK f \in F : Alike(f, g)
    BY DEF Shift, First
  <2>3. PICK k \in F : Alike(k, h)
    BY DEF Shift, First
  <2>4. f = k
    BY <2>1, <2>2, <2>3 DEF Chain, OneFirst
  <2>. QED  BY <2>2, <2>3, <2>4 DEF Alike, OwnRun
<1>6. Founded(G)
  <2>. SUFFICES ASSUME NEW X \in SUBSET G, NEW h \in X, Holding(h)
                PROVE  \E g \in X : First(g, X)
    BY DEF Founded
  <2>. DEFINE Y == {f \in F : \E g \in X : Alike(f, g)}
  <2>0. \A g \in X : Holding(g) => \E f \in Y : Alike(f, g)
    BY DEF Shift
  <2>1. Y \in SUBSET F /\ \E f \in Y : Holding(f)
    <3>1. PICK f \in Y : Alike(f, h)
      BY <2>0
    <3>. QED  BY <3>1 DEF Alike
  <2>2. PICK f \in Y : First(f, Y)
    <3>. HIDE DEF Y
    <3>. QED  BY <2>1 DEF Chain, Founded
  <2>3. PICK g \in X : Alike(f, g)
    BY <2>2
  <2>4. ASSUME NEW p \in X, Follows(g, p) PROVE FALSE
    <3>1. PICK k \in F : Alike(k, g) /\ k.at = "gate"
      BY <1>1, <2>4 DEF Shift, Follows
    <3>2. k = f
      BY <2>2, <2>3, <3>1 DEF Alike, OwnRun
    <3>3. PICK m \in Y : Alike(m, p)
      BY <2>0, <2>4 DEF Follows
    <3>4. Follows(f, m)
      BY <2>4, <3>1, <3>2, <3>3 DEF Alike, Follows
    <3>. QED  BY <2>2, <3>3, <3>4 DEF First
  <2>5. First(g, X)
    BY <2>3, <2>4 DEF First, Alike
  <2>. QED  BY <2>5
<1>7. LinkTurns(G)
  <2>. SUFFICES ASSUME NEW f \in G, NEW g \in G, Follows(g, f)
                PROVE  f.turn <= g.turn /\ (f.popped # 0 => f.turn < g.turn)
    BY DEF LinkTurns
  <2>1. PICK k \in F : Alike(k, g) /\ k.at = "gate"
    BY <1>1 DEF Shift, Follows
  <2>2. PICK p \in F : Alike(p, f)
    BY DEF Shift, Follows
  <2>3. Follows(k, p)
    BY <2>1, <2>2 DEF Follows, Alike
  <2>. QED  BY <2>1, <2>2, <2>3 DEF Chain, LinkTurns, Alike
<1>. QED  BY <1>2, <1>3, <1>4, <1>5, <1>6, <1>7 DEF Chain

LEMMA ShiftBefore ==
  ASSUME NEW F, NEW G, Shift(F, G)
  PROVE  /\ \A t : NoneBefore(t, F) => NoneBefore(t, G)
         /\ \A q : AskedLast(q, F) => AskedLast(q, G)
         /\ PoppedLast(F) => PoppedLast(G)
<1>1. \A t : NoneBefore(t, F) => NoneBefore(t, G)
  BY DEF Shift, Alike, NoneBefore
<1>2. ASSUME NEW q, AskedLast(q, F) PROVE AskedLast(q, G)
  <2>1. CASE q.at # "gated"
    BY <1>1, <1>2, <2>1 DEF AskedLast
  <2>2. CASE q.at = "gated"
    <3>1. NoneBefore(q.turn, G) \/ \E f \in G : Holding(f) /\ f.run = q.gate
      <4>1. CASE NoneBefore(q.turn, F)
        BY <1>1, <4>1
      <4>2. CASE \E f \in F : Holding(f) /\ f.run = q.gate
        BY <4>2 DEF Shift, Alike
      <4>. QED  BY <1>2, <2>2, <4>1, <4>2 DEF AskedLast
    <3>2. ASSUME NEW g \in G, g.at = "gate", g.prev = q.gate PROVE g.turn >= q.turn
      <4>1. PICK f \in F : Alike(f, g) /\ f.at = "gate"
        BY <3>2 DEF Shift, Holding
      <4>. QED  BY <1>2, <2>2, <3>2, <4>1 DEF AskedLast, Alike
    <3>. QED  BY <2>2, <3>1, <3>2 DEF AskedLast
  <2>. QED  BY <2>1, <2>2
<1>3. PoppedLast(F) => PoppedLast(G)
  BY <1>1 DEF Shift, PoppedLast, Holding
<1>. QED  BY <1>1, <1>2, <1>3

-----------------------------------------------------------------------------
(* Runs end once.                                                          *)

\* The same events wait, let go or not.
SameEvents(w, v) ==
  DOMAIN v = DOMAIN w /\ \A i \in DOMAIN w : v[i].event = w[i].event

LEMMA FreedSame ==
  ASSUME NEW w \in Seq(Waiter)
  PROVE  SameEvents(w, Freed(w)) /\ SameEvents(w, w)
<1>1. \A x \in Waiter : [x EXCEPT !.free = TRUE].event = x.event
  BY DEF Waiter
<1>2. \A i \in DOMAIN w : w[i] \in Waiter
  BY ElementOfSeq, LenProperties
<1>. QED  BY <1>1, <1>2 DEF Freed, SameEvents

LEMMA SameMail ==
  ASSUME NEW ml, NEW w, NEW v, SameEvents(w, v)
  PROVE  /\ Once(ml, w) => Once(ml, v)
         /\ \A r : OnWay(r, ml, v) => OnWay(r, ml, w)
<1>1. Once(ml, w) => Once(ml, v)
  BY DEF Once, SameEvents
<1>2. \A r : OnWay(r, ml, v) => OnWay(r, ml, w)
  BY DEF OnWay, SameEvents
<1>. QED  BY <1>1, <1>2

\* A Stop that comes on its way is of a run that had not ended, and no ended
\* run begins again.
StopsCome ==
  /\ Unended' \subseteq Unended
  /\ \A r \in Msgs : OnWay(r, mail', waiting') =>
       OnWay(r, mail, waiting) \/ r \in Unended

\* What is known of fewer finishes.
LEMMA FewerKnown ==
  ASSUME NEW F, NEW G, NEW gt, NEW ngt, ngt \in {gt, 0},
         \A g \in G : \E f \in F : g.run = f.run /\ g.prev = f.prev
  PROVE  \A r \in Msgs : Known(r, G, ngt) => Known(r, F, gt)
BY MessagesAssumption DEF Known, Msgs

\* Requests and finishes leave the runs alone.
LEMMA KeepsRuns ==
  ASSUME StateTypes, RunInv, UNCHANGED <<typed, sending, claudeVars, mail>>,
         SameEvents(waiting, waiting'), gate' \in {gate, 0},
         \A g \in fins' : \E f \in fins : g.run = f.run /\ g.prev = f.prev,
         OwnRun(fins')
  PROVE  RunInv' /\ StopsCome
<1>1. PICK w, F, gt : w = waiting' /\ F = fins' /\ gt = gate'
  OBVIOUS
<1>2. Apart' /\ Unended' = Unended /\ mail' = mail
  BY DEF RunInv, Apart, Unended, claudeVars
<1>3. Once(mail, w) /\ \A r : OnWay(r, mail, w) => OnWay(r, mail, waiting)
  BY <1>1, SameMail DEF RunInv
<1>4. \A r \in Msgs : Known(r, F, gt) => Known(r, fins, gate)
  BY <1>1, FewerKnown
<1>5. Ended(mail, w, F, gt) /\ Fresh(mail, w, F, gt)
  BY <1>3, <1>4 DEF RunInv, Ended, Fresh
<1>6. Ended(mail, waiting, fins, gate)' /\ Fresh(mail, waiting, fins, gate)'
  BY <1>1, <1>2, <1>5 DEF Ended, Fresh
<1>7. Once(mail, waiting)' /\ OwnRun(fins)'
  BY <1>1, <1>2, <1>3 DEF Once, OwnRun
<1>8. StopsCome
  BY <1>1, <1>2, <1>3 DEF StopsCome
<1>. QED  BY <1>2, <1>6, <1>7, <1>8 DEF RunInv

LEMMA ReleaseSame ==
  ASSUME StateTypes, NEW t, Release(t)
  PROVE  SameEvents(waiting, waiting')
BY FreedSame DEF Release, holdVars, StateTypes

LEMMA ReturnSame ==
  ASSUME StateTypes, NEW q, Return(q)
  PROVE  SameEvents(waiting, waiting')
BY FreedSame, ReleaseSame DEF Return, holdVars, StateTypes

LEMMA HoldSame ==
  ASSUME NEW n, NEW w \in Seq(Waiter), HoldNewest(n, w)
  PROVE  SameEvents(w, waiting')
BY FreedSame DEF HoldNewest

LEMMA AskSame ==
  ASSUME NEW why, NEW m, NEW ts, NEW w \in Seq(Waiter), Ask(why, m, ts, w)
  PROVE  SameEvents(w, waiting')
BY FreedSame, HoldSame DEF Ask

LEMMA RequestRuns ==
  ASSUME StateTypes, RunInv, NEW q \in requests, RequestStep(q)
  PROVE  RunInv' /\ StopsCome
<1>1. SameEvents(waiting, waiting')
  <2>1. CASE GateOpens(q) \/ SendAgain(q) \/ Supersede(q)
    BY <2>1, FreedSame DEF GateOpens, SendAgain, Supersede, holdVars, StateTypes
  <2>2. CASE Drop(q) \/ Sent(q)
    BY <2>2, ReturnSame DEF Drop, Sent
  <2>3. CASE StartTurn(q) \/ Superseded(q)
    BY <2>3, ReleaseSame DEF StartTurn, Superseded, Reset
  <2>. QED  BY <2>1, <2>2, <2>3 DEF RequestStep
<1>2. UNCHANGED <<typed, sending, claudeVars, mail, gate, fins>>
  BY DEF RequestStep, GateOpens, Drop, SendAgain, Supersede, StartTurn,
         Superseded, Sent, finishVars
<1>. QED  BY <1>1, <1>2, KeepsRuns DEF RunInv

\* One finish goes on, or out.
LEMMA GoesRuns ==
  ASSUME StateTypes, RunInv, NEW f \in fins, NEW at, NEW c,
         NEW g, g = [f EXCEPT !.card = c, !.at = at],
         fins' = (fins \ {f}) \cup {g} \/ fins' = fins \ {f}
  PROVE  /\ \A h \in fins' : \E k \in fins : h.run = k.run /\ h.prev = k.prev
         /\ OwnRun(fins')
<1>1. g.run = f.run /\ g.prev = f.prev
  BY DEF StateTypes, Finish
<1>. QED  BY <1>1 DEF RunInv, OwnRun

LEMMA FinishRuns ==
  ASSUME StateTypes, RunInv, NEW f \in fins, FinishStep(f)
  PROVE  RunInv' /\ StopsCome
<1>0. /\ UNCHANGED <<typed, sending, claudeVars, mail, waiting>>
      /\ gate' \in {gate, 0}
  BY DEF FinishStep, FinishGate, CloseTurn, SettleCard, Answered, OpenPopped,
         holdVars
<1>1. SameEvents(waiting, waiting')
  BY <1>0, FreedSame DEF StateTypes
<1>2. SUFFICES /\ \A h \in fins' : \E k \in fins : h.run = k.run /\ h.prev = k.prev
               /\ OwnRun(fins')
  BY <1>0, <1>1, KeepsRuns
<1>3. \A at : [f EXCEPT !.at = at] = [f EXCEPT !.card = f.card, !.at = at]
  BY DEF StateTypes, Finish
<1>4. CASE FinishGate(f) \/ Answered(f) \/ OpenPopped(f)
  <2>1. PICK at : fins' = (fins \ {f}) \cup {[f EXCEPT !.at = at]} \/ fins' = fins \ {f}
    BY <1>4 DEF FinishGate, Answered, OpenPopped, Goes
  <2>2. PICK g : g = [f EXCEPT !.card = f.card, !.at = at]
    OBVIOUS
  <2>3. fins' = (fins \ {f}) \cup {g} \/ fins' = fins \ {f}
    BY <2>1, <2>2, <1>3
  <2>. QED  BY <2>2, <2>3, GoesRuns
<1>5. CASE CloseTurn(f)
  <2>1. PICK g : g = [f EXCEPT !.card = busy,
                             !.at = IF busy = 0 THEN "answer" ELSE "card"]
    OBVIOUS
  <2>2. fins' = (fins \ {f}) \cup {g}
    BY <1>5, <2>1 DEF CloseTurn
  <2>. QED  BY <2>1, <2>2, GoesRuns
<1>6. CASE SettleCard(f)
  <2>1. \A g \in fins : \A at : [g EXCEPT !.at = at].run = g.run
                             /\ [g EXCEPT !.at = at].prev = g.prev
    BY DEF StateTypes, Finish
  <2>2. ASSUME NEW h \in fins'
        PROVE  \E k \in fins : /\ h = IF k.at = "card" THEN [k EXCEPT !.at = "answer"] ELSE k
                               /\ h.run = k.run /\ h.prev = k.prev
    <3>1. PICK k \in fins :
            h = IF k.at = "card" THEN [k EXCEPT !.at = "answer"] ELSE k
      BY <1>6, <2>2 DEF SettleCard
    <3>. QED  BY <2>1, <3>1
  <2>3. OwnRun(fins')
    BY <2>2 DEF RunInv, OwnRun
  <2>. QED  BY <2>2, <2>3
<1>. QED  BY <1>4, <1>5, <1>6 DEF FinishStep

\* The mail and the held events.
LEMMA AppendMail ==
  ASSUME NEW ml \in Seq(Event), NEW w, Once(ml, w), NEW e \in Event,
         e.kind = "stop" => ~ OnWay(e.run, ml, w)
  PROVE  /\ Once(Append(ml, e), w)
         /\ \A r : OnWay(r, Append(ml, e), w) =>
              OnWay(r, ml, w) \/ (e.kind = "stop" /\ r = e.run)
<1>1. /\ DOMAIN ml = 1 .. Len(ml) /\ Len(ml) \in Nat
      /\ DOMAIN Append(ml, e) = 1 .. Len(ml) + 1
      /\ \A i \in 1 .. Len(ml) : Append(ml, e)[i] = ml[i]
      /\ Append(ml, e)[Len(ml) + 1] = e
  BY AppendProperties, LenProperties
<1>2. PICK n, a : n = Len(ml) /\ a = Append(ml, e)
  OBVIOUS
<1>3. /\ n \in Nat /\ DOMAIN ml = 1 .. n /\ DOMAIN a = (1 .. n) \cup {n + 1}
      /\ \A i \in 1 .. n : a[i] = ml[i]
      /\ a[n + 1] = e
  BY <1>1, <1>2
<1>4. \A i \in DOMAIN a : (i \in DOMAIN ml /\ a[i] = ml[i]) \/ (i = n + 1 /\ a[i] = e)
  BY <1>3
<1>5. \A r : OnWay(r, a, w) => OnWay(r, ml, w) \/ (e.kind = "stop" /\ r = e.run)
  BY <1>4 DEF OnWay
<1>6. Once(a, w)
  BY <1>4 DEF Once, OnWay, SameStop
<1>. QED  BY <1>2, <1>5, <1>6

LEMMA TailMail ==
  ASSUME NEW ml \in Seq(Event), ml # <<>>, NEW w, Once(ml, w)
  PROVE  /\ Once(Tail(ml), w)
         /\ \A r : OnWay(r, Tail(ml), w) => OnWay(r, ml, w)
         /\ Head(ml).kind = "stop" =>
              OnWay(Head(ml).run, ml, w) /\ ~ OnWay(Head(ml).run, Tail(ml), w)
<1>1. /\ DOMAIN ml = 1 .. Len(ml) /\ Len(ml) \in Nat /\ Len(ml) # 0
      /\ DOMAIN Tail(ml) = 1 .. Len(ml) - 1
      /\ \A i \in 1 .. Len(ml) - 1 : Tail(ml)[i] = ml[i + 1]
      /\ Head(ml) = ml[1]
  BY HeadTailProperties, LenProperties, EmptySeq
<1>2. PICK n, a, e : n = Len(ml) /\ a = Tail(ml) /\ e = Head(ml)
  OBVIOUS
<1>3. /\ n \in Nat /\ n # 0 /\ DOMAIN ml = 1 .. n /\ DOMAIN a = 1 .. n - 1
      /\ \A i \in 1 .. n - 1 : a[i] = ml[i + 1]
      /\ e = ml[1]
  BY <1>1, <1>2
<1>4. /\ \A i \in DOMAIN a : i + 1 \in DOMAIN ml /\ a[i] = ml[i + 1] /\ i + 1 # 1
      /\ \A i, j \in DOMAIN a : i + 1 = j + 1 => i = j
      /\ 1 \in DOMAIN ml
  BY <1>3
<1>5. Once(a, w)
  BY <1>4 DEF Once
<1>6. \A r : OnWay(r, a, w) => OnWay(r, ml, w)
  BY <1>4 DEF OnWay
<1>7. ASSUME e.kind = "stop" PROVE OnWay(e.run, ml, w) /\ ~ OnWay(e.run, a, w)
  <2>1. OnWay(e.run, ml, w)
    BY <1>3, <1>4, <1>7 DEF OnWay
  <2>2. \A i \in DOMAIN a : ~ (a[i].kind = "stop" /\ a[i].run = e.run)
    BY <1>3, <1>4, <1>7 DEF Once, SameStop
  <2>3. \A i \in DOMAIN w : ~ (w[i].event.kind = "stop" /\ w[i].event.run = e.run)
    BY <1>3, <1>4, <1>7 DEF Once, SameStop
  <2>. QED  BY <2>1, <2>2, <2>3 DEF OnWay
<1>. QED  BY <1>2, <1>5, <1>6, <1>7

\* A list with one event, and what is said of the mail said of held events.
LEMMA TailHeld ==
  ASSUME NEW w \in Seq(Waiter), w # <<>>, NEW ml, Once(ml, w)
  PROVE  /\ Once(ml, Tail(w))
         /\ \A r : OnWay(r, ml, Tail(w)) => OnWay(r, ml, w)
         /\ Head(w).event.kind = "stop" =>
              /\ OnWay(Head(w).event.run, ml, w)
              /\ ~ OnWay(Head(w).event.run, ml, Tail(w))
<1>1. /\ DOMAIN w = 1 .. Len(w) /\ Len(w) \in Nat /\ Len(w) # 0
      /\ DOMAIN Tail(w) = 1 .. Len(w) - 1
      /\ \A i \in 1 .. Len(w) - 1 : Tail(w)[i] = w[i + 1]
      /\ Head(w) = w[1]
  BY HeadTailProperties, LenProperties, EmptySeq
<1>2. PICK n, a, e : n = Len(w) /\ a = Tail(w) /\ e = Head(w).event
  OBVIOUS
<1>3. /\ n \in Nat /\ n # 0 /\ DOMAIN w = 1 .. n /\ DOMAIN a = 1 .. n - 1
      /\ \A i \in 1 .. n - 1 : a[i] = w[i + 1]
      /\ e = w[1].event
  BY <1>1, <1>2
<1>4. /\ \A i \in DOMAIN a : i + 1 \in DOMAIN w /\ a[i] = w[i + 1] /\ i + 1 # 1
      /\ \A i, j \in DOMAIN a : i + 1 = j + 1 => i = j
      /\ 1 \in DOMAIN w
  BY <1>3
<1>5. Once(ml, a)
  BY <1>4 DEF Once
<1>6. \A r : OnWay(r, ml, a) => OnWay(r, ml, w)
  BY <1>4 DEF OnWay
<1>7. ASSUME e.kind = "stop" PROVE OnWay(e.run, ml, w) /\ ~ OnWay(e.run, ml, a)
  <2>1. OnWay(e.run, ml, w)
    BY <1>3, <1>4, <1>7 DEF OnWay
  <2>2. \A i \in DOMAIN a : ~ (a[i].event.kind = "stop" /\ a[i].event.run = e.run)
    BY <1>3, <1>4, <1>7 DEF Once, SameStop
  <2>3. \A i \in DOMAIN ml : ~ (ml[i].kind = "stop" /\ ml[i].run = e.run)
    BY <1>3, <1>4, <1>7 DEF Once, SameStop
  <2>. QED  BY <2>1, <2>2, <2>3 DEF OnWay
<1>. QED  BY <1>2, <1>5, <1>6, <1>7

LEMMA AppendHeld ==
  ASSUME NEW w \in Seq(Waiter), NEW ml, Once(ml, w), NEW x \in Waiter,
         x.event.kind = "stop" => ~ OnWay(x.event.run, ml, w)
  PROVE  /\ Once(ml, Append(w, x))
         /\ \A r : OnWay(r, ml, Append(w, x)) =>
              OnWay(r, ml, w) \/ (x.event.kind = "stop" /\ r = x.event.run)
<1>1. /\ DOMAIN w = 1 .. Len(w) /\ Len(w) \in Nat
      /\ DOMAIN Append(w, x) = 1 .. Len(w) + 1
      /\ \A i \in 1 .. Len(w) : Append(w, x)[i] = w[i]
      /\ Append(w, x)[Len(w) + 1] = x
  BY AppendProperties, LenProperties
<1>2. PICK n, a : n = Len(w) /\ a = Append(w, x)
  OBVIOUS
<1>3. /\ n \in Nat /\ DOMAIN w = 1 .. n /\ DOMAIN a = (1 .. n) \cup {n + 1}
      /\ \A i \in 1 .. n : a[i] = w[i]
      /\ a[n + 1] = x
  BY <1>1, <1>2
<1>4. \A i \in DOMAIN a : (i \in DOMAIN w /\ a[i] = w[i]) \/ (i = n + 1 /\ a[i] = x)
  BY <1>3
<1>5. \A r : OnWay(r, ml, a) =>
        OnWay(r, ml, w) \/ (x.event.kind = "stop" /\ r = x.event.run)
  BY <1>4 DEF OnWay
<1>6. Once(ml, a)
  BY <1>4 DEF Once, OnWay, SameStop
<1>. QED  BY <1>2, <1>5, <1>6

\* What Claude does: it finishes with no message but the run that ends.
LEMMA ClaudeRuns ==
  ASSUME StateTypes, RunInv, AdoptTrigger \/ Reaches \/ Tool \/ End
  PROVE  RunInv' /\ StopsCome
<1>0. UNCHANGED <<waiting, fins, gate>>
  BY DEF AdoptTrigger, Reaches, Tool, End, holdVars, finishVars
<1>1. /\ mail \in Seq(Event) /\ box \in Seq(Msgs) /\ typed \in Nat
      /\ sending \in Nat /\ run \in Nat /\ reached \in BOOLEAN
      /\ sending \in Msgs \cup {0} /\ run \in Msgs \cup {0}
  <2>1. mail \in Seq(Event) /\ box \in Seq(Msgs) /\ reached \in BOOLEAN
    BY DEF StateTypes
  <2>2. typed \in 0 .. Messages /\ sending \in 0 .. Messages /\ run \in 0 .. Messages
    BY DEF StateTypes
  <2>3. \A n \in 0 .. Messages : n \in Nat
    BY MessagesAssumption
  <2>. QED  BY <2>1, <2>2, <2>3, Ranges
<1>2. ASSUME NEW ml, Once(ml, waiting), mail' = ml, Apart',
             Unended' \subseteq Unended,
             \A r \in Msgs : OnWay(r, ml, waiting) =>
               OnWay(r, mail, waiting) \/ (r \in Unended /\ r \notin Unended')
      PROVE  RunInv' /\ StopsCome
  <2>1. PICK U : U = Unended'
    OBVIOUS
  <2>2. \A r \in Msgs : OnWay(r, ml, waiting) \/ Known(r, fins, gate) => r \notin U
    BY <1>2, <2>1 DEF RunInv, Ended
  <2>3. Fresh(ml, waiting, fins, gate)
    BY <1>2 DEF RunInv, Ended, Fresh
  <2>4. Ended(mail, waiting, fins, gate)'
    BY <1>0, <1>2, <2>1, <2>2 DEF Ended
  <2>5. RunInv'
    BY <1>0, <1>2, <2>3, <2>4 DEF RunInv, Fresh, Once, OwnRun
  <2>6. StopsCome
    BY <1>0, <1>2 DEF StopsCome
  <2>. QED  BY <2>5, <2>6
<1>3. CASE AdoptTrigger
  <2>1. /\ typed' = typed + 1 /\ sending' = typed + 1 /\ reached' = FALSE
        /\ sending = 0 /\ UNCHANGED <<run, box, mail>>
    BY <1>3 DEF AdoptTrigger
  <2>2. \A i \in DOMAIN box : box[i] \in Nat
    <3>1. \A i \in DOMAIN box : box[i] \in Msgs
      BY <1>1, ElementOfSeq, LenProperties
    <3>. QED  BY <3>1 DEF Msgs
  <2>3. Apart'
    BY <1>1, <2>1, <2>2 DEF RunInv, Apart
  <2>4. Unended' \subseteq Unended
    BY <1>1, <2>1 DEF Unended, Msgs
  <2>. QED  BY <1>2, <2>1, <2>3, <2>4 DEF RunInv
<1>4. CASE Tool
  <2>1. /\ UNCHANGED <<typed, sending, reached, run, box>>
        /\ mail' = Append(mail, [kind |-> "tool", run |-> run])
        /\ run # 0
    BY <1>4 DEF Tool
  <2>2. PICK e : e = [kind |-> "tool", run |-> run]
    OBVIOUS
  <2>3. e \in Event /\ e.kind = "tool"
    BY <1>1, <2>1, <2>2 DEF Event
  <2>4. Apart' /\ Unended' = Unended
    BY <2>1 DEF RunInv, Apart, Unended
  <2>5. /\ Once(Append(mail, e), waiting)
        /\ \A r : OnWay(r, Append(mail, e), waiting) => OnWay(r, mail, waiting)
    BY <1>1, <2>3, AppendMail DEF RunInv
  <2>. QED  BY <1>2, <2>1, <2>2, <2>4, <2>5
<1>5. CASE Reaches
  <2>1. /\ UNCHANGED <<typed, sending>> /\ reached' = TRUE
        /\ mail' = Append(mail, [kind |-> "prompt", run |-> sending])
        /\ sending # 0 /\ ~ reached
        /\ IF run = 0 THEN run' = sending /\ UNCHANGED box
           ELSE box' = Append(box, sending) /\ UNCHANGED run
    BY <1>5 DEF Reaches
  <2>2. PICK e : e = [kind |-> "prompt", run |-> sending]
    OBVIOUS
  <2>3. e \in Event /\ e.kind = "prompt"
    BY <1>1, <2>1, <2>2 DEF Event
  <2>4. Apart' /\ Unended' \subseteq Unended
    <3>1. CASE run = 0
      <4>1. Apart'
        BY <2>1, <3>1 DEF RunInv, Apart
      <4>2. Unended' \subseteq Unended
        BY <2>1, <3>1 DEF Unended
      <4>. QED  BY <4>1, <4>2
    <3>2. CASE run # 0
      <4>1. PICK b, n : b = box' /\ n = Len(box)
        OBVIOUS
      <4>2. /\ n \in Nat /\ DOMAIN box = 1 .. n /\ DOMAIN b = 1 .. n + 1
            /\ \A i \in 1 .. n : b[i] = box[i]
            /\ b[n + 1] = sending
        BY <1>1, <2>1, <3>2, <4>1, AppendProperties, LenProperties
      <4>3. \A i \in DOMAIN b : (i \in DOMAIN box /\ b[i] = box[i])
                                \/ (i = n + 1 /\ b[i] = sending)
        BY <4>2
      <4>4. Apart'
        BY <2>1, <3>2, <4>1, <4>3 DEF RunInv, Apart
      <4>5. Unended' \subseteq Unended
        BY <2>1, <3>2, <4>1, <4>3 DEF Unended
      <4>. QED  BY <4>4, <4>5
    <3>. QED  BY <3>1, <3>2
  <2>5. /\ Once(Append(mail, e), waiting)
        /\ \A r : OnWay(r, Append(mail, e), waiting) => OnWay(r, mail, waiting)
    BY <1>1, <2>3, AppendMail DEF RunInv
  <2>. QED  BY <1>2, <2>1, <2>2, <2>4, <2>5
<1>6. CASE End
  <2>1. /\ UNCHANGED <<typed, sending, reached>>
        /\ mail' = Append(mail, [kind |-> "stop", run |-> run])
        /\ run # 0
        /\ IF box = <<>> THEN run' = 0 /\ UNCHANGED box
           ELSE run' = Head(box) /\ box' = Tail(box)
    BY <1>6 DEF End
  <2>2. PICK e : e = [kind |-> "stop", run |-> run]
    OBVIOUS
  <2>3. e \in Event /\ e.kind = "stop" /\ e.run = run /\ run \in Msgs
    BY <1>1, <2>1, <2>2 DEF Event
  <2>4. run \in Unended /\ run <= typed /\ ~ (run > typed)
    BY <1>1, <2>3 DEF Unended, RunInv, Apart
  <2>5. Apart' /\ Unended' \subseteq Unended /\ run \notin Unended'
    <3>1. CASE box = <<>>
      <4>1. DOMAIN box = {}
        BY <3>1
      <4>2. Apart'
        BY <1>1, <2>1, <3>1, <4>1 DEF RunInv, Apart
      <4>3. Unended' \subseteq Unended /\ run \notin Unended'
        BY <1>1, <2>1, <2>3, <2>4, <3>1, <4>1 DEF RunInv, Apart, Unended, Msgs
      <4>. QED  BY <4>2, <4>3
    <3>2. CASE box # <<>>
      <4>1. PICK b, n : b = box' /\ n = Len(box)
        OBVIOUS
      <4>2. /\ n \in Nat /\ n # 0 /\ DOMAIN box = 1 .. n /\ DOMAIN b = 1 .. n - 1
            /\ \A i \in 1 .. n - 1 : b[i] = box[i + 1]
            /\ run' = box[1]
        BY <1>1, <2>1, <3>2, <4>1, HeadTailProperties, LenProperties, EmptySeq
      <4>3. /\ \A i \in DOMAIN b : i + 1 \in DOMAIN box /\ b[i] = box[i + 1] /\ i + 1 # 1
            /\ \A i, j \in DOMAIN b : i + 1 = j + 1 => i = j
            /\ 1 \in DOMAIN box
        BY <4>2
      <4>4. Apart'
        BY <2>1, <3>2, <4>1, <4>2, <4>3 DEF RunInv, Apart
      <4>5. Unended' \subseteq Unended
        BY <2>1, <4>1, <4>2, <4>3 DEF Unended
      <4>6. run \notin Unended'
        BY <2>1, <2>4, <4>1, <4>2, <4>3 DEF RunInv, Apart, Unended
      <4>. QED  BY <4>4, <4>5, <4>6
    <3>. QED  BY <3>1, <3>2
  <2>6. ~ OnWay(run, mail, waiting)
    BY <2>3, <2>4 DEF RunInv, Ended
  <2>7. /\ Once(Append(mail, e), waiting)
        /\ \A r : OnWay(r, Append(mail, e), waiting) => OnWay(r, mail, waiting) \/ r = run
    BY <1>1, <2>3, <2>6, AppendMail DEF RunInv
  <2>. QED  BY <1>2, <2>1, <2>2, <2>4, <2>5, <2>7
<1>. QED  BY <1>3, <1>4, <1>5, <1>6

\* An event taken out: what is left, and that its Stop is of a run not known.
Taken(e, ml, w) ==
  /\ e \in Event /\ ml \in Seq(Event) /\ w \in Seq(Waiter)
  /\ Once(ml, w)
  /\ Ended(ml, w, fins, gate) /\ Fresh(ml, w, fins, gate)
  /\ \A r \in Msgs : OnWay(r, ml, w) => OnWay(r, mail, waiting)
  /\ e.kind = "stop" =>
       /\ OnWay(e.run, mail, waiting) /\ ~ OnWay(e.run, ml, w) /\ ~ Known(e.run, fins, gate)
       /\ e.run \notin Unended

LEMMA MailTaken ==
  ASSUME StateTypes, RunInv, mail # <<>>
  PROVE  Taken(Head(mail), Tail(mail), waiting)
<1>1. mail \in Seq(Event) /\ waiting \in Seq(Waiter)
  BY DEF StateTypes
<1>2. Head(mail) \in Event /\ Tail(mail) \in Seq(Event)
  BY <1>1, HeadTailProperties
<1>3. Head(mail).run \in Msgs
  BY <1>2 DEF Event
<1>4. /\ Once(Tail(mail), waiting)
      /\ \A r : OnWay(r, Tail(mail), waiting) => OnWay(r, mail, waiting)
      /\ Head(mail).kind = "stop" =>
           OnWay(Head(mail).run, mail, waiting)
           /\ ~ OnWay(Head(mail).run, Tail(mail), waiting)
  BY <1>1, TailMail DEF RunInv
<1>5. /\ Ended(Tail(mail), waiting, fins, gate)
      /\ Fresh(Tail(mail), waiting, fins, gate)
  BY <1>4 DEF RunInv, Ended, Fresh
<1>6. Head(mail).kind = "stop" =>
        ~ Known(Head(mail).run, fins, gate) /\ Head(mail).run \notin Unended
  BY <1>3, <1>4 DEF RunInv, Ended, Fresh
<1>. QED  BY <1>1, <1>2, <1>4, <1>5, <1>6 DEF Taken

LEMMA HeldTaken ==
  ASSUME StateTypes, RunInv, waiting # <<>>
  PROVE  Taken(Head(waiting).event, mail, Tail(waiting))
<1>1. mail \in Seq(Event) /\ waiting \in Seq(Waiter)
  BY DEF StateTypes
<1>2. Head(waiting).event \in Event /\ Tail(waiting) \in Seq(Waiter)
  <2>1. Head(waiting) \in Waiter /\ Tail(waiting) \in Seq(Waiter)
    BY <1>1, HeadTailProperties
  <2>. QED  BY <2>1 DEF Waiter
<1>3. PICK e : e = Head(waiting).event
  OBVIOUS
<1>4. /\ Once(mail, Tail(waiting))
      /\ \A r : OnWay(r, mail, Tail(waiting)) => OnWay(r, mail, waiting)
      /\ e.kind = "stop" =>
           OnWay(e.run, mail, waiting) /\ ~ OnWay(e.run, mail, Tail(waiting))
  BY <1>1, <1>3, TailHeld DEF RunInv
<1>5. /\ Ended(mail, Tail(waiting), fins, gate)
      /\ Fresh(mail, Tail(waiting), fins, gate)
  BY <1>4 DEF RunInv, Ended, Fresh
<1>6. e.kind = "stop" => ~ Known(e.run, fins, gate) /\ e.run \notin Unended
  <2>1. e.run \in Msgs
    BY <1>2, <1>3 DEF Event
  <2>. QED  BY <2>1, <1>4 DEF RunInv, Ended, Fresh
<1>. QED  BY <1>1, <1>2, <1>3, <1>4, <1>5, <1>6 DEF Taken

\* A handler leaves the events behind it, and puts a Stop's finish out.
Finishing(e) ==
  [run |-> e.run, turn |-> Turn, target |-> trigger, prev |-> gate,
   popped |-> IF queued = <<>> THEN 0 ELSE Head(queued), card |-> 0,
   at |-> IF gate = 0 THEN "lock" ELSE "gate"]

LEMMA FinishingTyped ==
  ASSUME StateTypes, NEW e \in Event
  PROVE  Finishing(e) \in Finish
<1>1. e.run \in Msgs /\ Turn \in Nat /\ trigger \in Msgs \cup {0} /\ gate \in Msgs \cup {0}
  BY Ranges DEF StateTypes, Event
<1>2. (IF queued = <<>> THEN 0 ELSE Head(queued)) \in Msgs \cup {0}
  <2>1. queued \in Seq(Msgs)
    BY DEF StateTypes
  <2>. QED  BY <2>1, HeadTailProperties
<1>3. (IF gate = 0 THEN "lock" ELSE "gate") \in {"lock", "gate"}
  OBVIOUS
<1>. QED  BY <1>1, <1>2, <1>3 DEF Finishing, Finish

LEMMA HandleFins ==
  ASSUME StateTypes, NEW e \in Event, NEW w \in Seq(Waiter), NEW held, Handle(e, w, held)
  PROVE  /\ UNCHANGED <<typed, sending, claudeVars>> /\ SameEvents(w, waiting')
         /\ \/ e.kind # "stop" /\ UNCHANGED <<fins, gate>>
            \/ e.kind = "stop" /\ gate' = e.run /\ fins' = fins \cup {Finishing(e)}
<1>0. UNCHANGED <<typed, sending, claudeVars>>
  BY DEF Handle
<1>1. CASE Prompt(e, w)
  <2>1. SameEvents(w, waiting')
    BY <1>1, FreedSame, AskSame DEF Prompt
  <2>2. e.kind # "stop" /\ UNCHANGED <<fins, gate>>
    BY <1>1 DEF Prompt, finishVars
  <2>. QED  BY <1>0, <2>1, <2>2
<1>2. CASE PreToolUse(e, w, held)
  <2>1. SameEvents(w, waiting')
    BY <1>2, FreedSame DEF PreToolUse
  <2>2. e.kind # "stop" /\ UNCHANGED <<fins, gate>>
    BY <1>2 DEF PreToolUse, finishVars
  <2>. QED  BY <1>0, <2>1, <2>2
<1>3. CASE Stop(e, w)
  <2>1. SameEvents(w, waiting')
    BY <1>3, FreedSame, HoldSame DEF Stop
  <2>2. e.kind = "stop" /\ gate' = e.run /\ fins' = fins \cup {Finishing(e)}
    BY <1>3 DEF Stop, Finishing
  <2>. QED  BY <1>0, <2>1, <2>2
<1>. QED  BY <1>1, <1>2, <1>3 DEF Handle

LEMMA EventRuns ==
  ASSUME StateTypes, RunInv, NEW e, NEW w, NEW held, Taken(e, mail', w), Handle(e, w, held)
  PROVE  RunInv' /\ StopsCome
<1>1. PICK ml, v, F, gt : ml = mail' /\ v = waiting' /\ F = fins' /\ gt = gate'
  OBVIOUS
<1>2. /\ UNCHANGED <<typed, sending, claudeVars>> /\ SameEvents(w, v)
      /\ \/ e.kind # "stop" /\ F = fins /\ gt = gate
         \/ e.kind = "stop" /\ gt = e.run /\ F = fins \cup {Finishing(e)}
  BY <1>1, HandleFins DEF Taken
<1>3. Apart' /\ Unended' = Unended
  BY <1>2 DEF RunInv, Apart, Unended, claudeVars
<1>4. Once(ml, v) /\ \A r : OnWay(r, ml, v) => OnWay(r, ml, w)
  BY <1>1, <1>2, SameMail DEF Taken
<1>5. Ended(ml, v, F, gt) /\ Fresh(ml, v, F, gt) /\ OwnRun(F)
  <2>1. CASE e.kind # "stop"
    BY <1>1, <1>2, <1>4, <2>1 DEF Taken, RunInv, Ended, Fresh
  <2>2. CASE e.kind = "stop"
    <3>1. PICK f : f = Finishing(e)
      OBVIOUS
    <3>2. f.run = e.run /\ f.prev = gate
      BY <3>1 DEF Finishing
    <3>3. \A r : Known(r, F, gt) <=> Known(r, fins, gate) \/ r = e.run
      BY <1>2, <2>2, <3>1, <3>2 DEF Known
    <3>4. ~ Known(e.run, fins, gate) /\ e.run \notin Unended /\ ~ OnWay(e.run, ml, w)
      BY <1>1, <2>2 DEF Taken
    <3>5. Ended(ml, v, F, gt)
      BY <1>1, <1>4, <3>3, <3>4 DEF Taken, Ended
    <3>6. Fresh(ml, v, F, gt)
      BY <1>1, <1>4, <3>3, <3>4 DEF Taken, Fresh
    <3>7. OwnRun(F)
      BY <1>2, <2>2, <3>1, <3>2, <3>4 DEF Known, RunInv, OwnRun
    <3>. QED  BY <3>5, <3>6, <3>7
  <2>. QED  BY <2>1, <2>2
<1>6. Ended(mail, waiting, fins, gate)' /\ Fresh(mail, waiting, fins, gate)'
  BY <1>1, <1>3, <1>5 DEF Ended, Fresh
<1>7. RunInv'
  BY <1>1, <1>3, <1>4, <1>5, <1>6 DEF RunInv, Once, OwnRun
<1>8. \A r \in Msgs : OnWay(r, ml, w) => OnWay(r, mail, waiting)
  BY <1>1 DEF Taken
<1>9. StopsCome
  BY <1>1, <1>3, <1>4, <1>8 DEF StopsCome
<1>. QED  BY <1>7, <1>9

\* A datagram comes, or a held event is let go.
LEMMA Delivered ==
  ASSUME StateTypes, RunInv, Arrives \/ LetGo
  PROVE  \/ /\ UNCHANGED <<typed, sending, claudeVars, turnVars, trigger, queued,
                           hold, cardVars, finishVars, requests>>
            /\ RunInv' /\ StopsCome
         \/ \E e, w, held : Taken(e, mail', w) /\ held \in Nat /\ Handle(e, w, held)
<1>1. CASE Arrives
  <2>1. PICK e, ml : e = Head(mail) /\ ml = Tail(mail)
    OBVIOUS
  <2>2. Taken(e, ml, waiting) /\ mail' = ml
    BY <1>1, <2>1, MailTaken DEF Arrives
  <2>3. CASE Head(mail).kind # "prompt" /\ Held
    <3>1. PICK x : x = [event |-> e, held |-> hold, free |-> FALSE]
      OBVIOUS
    <3>2. x \in Waiter /\ x.event = e
      BY <3>1, <2>2, Ranges DEF Waiter, Taken
    <3>3. /\ waiting' = Append(waiting, x)
          /\ UNCHANGED <<typed, sending, claudeVars, turnVars, trigger, queued,
                         hold, cardVars, finishVars, requests>>
      BY <1>1, <2>1, <2>3, <3>1 DEF Arrives
    <3>4. PICK v : v = waiting'
      OBVIOUS
    <3>5. /\ Once(ml, v)
          /\ \A r : OnWay(r, ml, v) => OnWay(r, ml, waiting) \/ (e.kind = "stop" /\ r = e.run)
      BY <2>2, <3>2, <3>3, <3>4, AppendHeld DEF Taken
    <3>6. Ended(ml, v, fins, gate) /\ Fresh(ml, v, fins, gate)
      BY <2>2, <3>5 DEF Taken, Ended, Fresh
    <3>7. Apart' /\ Unended' = Unended
      BY <3>3 DEF RunInv, Apart, Unended, claudeVars
    <3>8. Ended(mail, waiting, fins, gate)' /\ Fresh(mail, waiting, fins, gate)'
      BY <2>2, <3>3, <3>4, <3>6, <3>7 DEF Ended, Fresh, finishVars
    <3>9. RunInv'
      BY <2>2, <3>3, <3>4, <3>5, <3>7, <3>8 DEF RunInv, Once, OwnRun, finishVars
    <3>10. \A r \in Msgs : OnWay(r, ml, v) => OnWay(r, mail, waiting)
      BY <2>2, <3>5 DEF Taken
    <3>11. StopsCome
      BY <2>2, <3>4, <3>7, <3>10 DEF StopsCome
    <3>. QED  BY <3>3, <3>9, <3>11
  <2>4. CASE ~ (Head(mail).kind # "prompt" /\ Held)
    BY <1>1, <2>1, <2>2, <2>4 DEF Arrives
  <2>. QED  BY <2>3, <2>4
<1>2. CASE LetGo
  <2>1. waiting \in Seq(Waiter) /\ waiting # <<>>
    BY <1>2, EmptySeq DEF LetGo, NoneFree, StateTypes
  <2>2. Head(waiting) \in Waiter
    BY <2>1, HeadTailProperties
  <2>3. Head(waiting).held \in Nat
    BY <2>2 DEF Waiter
  <2>4. Taken(Head(waiting).event, mail', Tail(waiting))
    BY <1>2, <2>1, HeldTaken DEF LetGo
  <2>. QED  BY <1>2, <2>3, <2>4 DEF LetGo
<1>. QED  BY <1>1, <1>2

LEMMA HandedRuns ==
  ASSUME StateTypes, RunInv, Handed
  PROVE  RunInv' /\ StopsCome
<1>1. SameEvents(waiting, waiting')
  BY AskSame DEF Handed, StateTypes
<1>2. sending' = 0 /\ UNCHANGED <<typed, claudeVars, mail, fins, gate>> /\ reached
  BY DEF Handed, finishVars
<1>3. Apart' /\ Unended' = Unended /\ mail' = mail
  <2>1. typed \in Nat
    <3>1. typed \in 0 .. Messages /\ Messages \in Nat
      BY Ranges DEF StateTypes
    <3>. QED  BY <3>1
  <2>2. UNCHANGED <<typed, reached, run, box>>
    BY <1>2 DEF claudeVars
  <2>3. Unended' = Unended
    BY <1>2, <2>2 DEF Unended, Msgs
  <2>. QED  BY <1>2, <2>1, <2>2, <2>3 DEF RunInv, Apart
<1>4. PICK v : v = waiting'
  OBVIOUS
<1>5. Once(mail, v) /\ \A r : OnWay(r, mail, v) => OnWay(r, mail, waiting)
  BY <1>1, <1>4, SameMail DEF RunInv
<1>6. Ended(mail, v, fins, gate) /\ Fresh(mail, v, fins, gate)
  BY <1>5 DEF RunInv, Ended, Fresh
<1>7. Ended(mail, waiting, fins, gate)' /\ Fresh(mail, waiting, fins, gate)'
  BY <1>2, <1>3, <1>4, <1>6 DEF Ended, Fresh
<1>8. StopsCome
  BY <1>3, <1>4, <1>5 DEF StopsCome
<1>9. RunInv'
  BY <1>2, <1>3, <1>4, <1>5, <1>7 DEF RunInv, Once, OwnRun
<1>. QED  BY <1>8, <1>9

LEMMA RunsKept ==
  ASSUME StateTypes, RunInv, [Next]_vars
  PROVE  RunInv' /\ StopsCome
<1>1. CASE Arrives \/ LetGo
  BY <1>1, Delivered, EventRuns
<1>2. CASE UNCHANGED vars
  <2>1. UNCHANGED <<typed, sending, claudeVars, mail, waiting, fins, gate>>
    BY <1>2 DEF vars, holdVars, finishVars
  <2>2. RunInv'
    BY <2>1 DEF claudeVars, RunInv, Apart, Once, Ended, Fresh, OwnRun, Unended
  <2>3. StopsCome
    BY <2>1 DEF StopsCome, claudeVars, Unended
  <2>. QED  BY <2>2, <2>3
<1>. QED  BY <1>1, <1>2, ClaudeRuns, HandedRuns, RequestRuns, FinishRuns DEF Next

-----------------------------------------------------------------------------
(* Turns are finished, and the card is of the turn it is for.              *)

\* Steps that neither begin nor close a turn: finishes go on or go.
LEMMA SameTurns ==
  ASSUME TurnInv, UNCHANGED <<status, turns, closed>>,
         \A g \in fins' : \E f \in fins : g.turn = f.turn,
         \A f \in fins : f.at \in {"gate", "lock"} =>
           \E g \in fins' : g.turn = f.turn /\ g.at \in {"gate", "lock"}
  PROVE  TurnInv'
<1>1. BusyTurn'
  BY DEF TurnInv, BusyTurn, Turn
<1>2. Finished'
  BY DEF TurnInv, Finished, Turn
<1>. QED  BY <1>1, <1>2 DEF TurnInv

\* transition(BUSY)
LEMMA ToBusyTurns ==
  ASSUME StateTypes, Begun, TurnInv, NEW m, turns' = TurnsAfter(m), status' = "busy",
         UNCHANGED <<closed, fins>>
  PROVE  TurnInv'
<1>1. CASE status = "busy"
  <2>1. UNCHANGED <<status, turns>>
    BY <1>1 DEF TurnsAfter
  <2>. QED  BY <2>1, SameTurns
<1>2. CASE status # "busy"
  <2>1. turns' = Append(turns, m)
    BY <1>2 DEF TurnsAfter
  <2>2. Turn \in Nat /\ Turn' = Turn + 1
    BY <2>1, LenProperties, AppendProperties DEF StateTypes, Turn
  <2>3. \A f \in fins : f.turn \in Nat /\ f.turn <= Turn
    BY DEF StateTypes, Begun, Finish
  <2>4. BusyTurn'
    BY <2>2, <2>3 DEF BusyTurn
  <2>5. Finished'
    <3>1. \A t \in 1 .. Turn + 1 : t \in 1 .. Turn \/ t = Turn + 1
      BY <2>2
    <3>2. \A t \in 1 .. Turn :
            t <= closed \/ \E f \in fins : f.at \in {"gate", "lock"} /\ f.turn = t
      BY <1>2 DEF TurnInv, Finished
    <3>. QED  BY <2>2, <3>1, <3>2 DEF Finished
  <2>. QED  BY <2>4, <2>5 DEF TurnInv
<1>. QED  BY <1>1, <1>2

LEMMA HandleTurns ==
  ASSUME StateTypes, Begun, TurnInv, NEW e \in Event, NEW w, NEW held, Handle(e, w, held)
  PROVE  TurnInv'
<1>1. CASE Prompt(e, w)
  <2>1. UNCHANGED fins
    BY <1>1 DEF Prompt, finishVars
  <2>2. CASE status = "busy"
    <3>1. UNCHANGED <<status, turns, closed>>
      BY <1>1, <2>2 DEF Prompt, turnVars
    <3>. QED  BY <2>1, <3>1, SameTurns
  <2>3. CASE status # "busy"
    <3>1. turns' = TurnsAfter(e.run) /\ status' = "busy" /\ UNCHANGED closed
      BY <1>1, <2>3 DEF Prompt, ToBusy
    <3>. QED  BY <2>1, <3>1, ToBusyTurns
  <2>. QED  BY <2>2, <2>3
<1>2. CASE PreToolUse(e, w, held)
  BY <1>2, ToBusyTurns DEF PreToolUse, ToBusy, finishVars
<1>3. CASE Stop(e, w)
  <2>1. PICK f : f = Finishing(e)
    OBVIOUS
  <2>2. f \in Finish /\ f.turn = Turn /\ f.at \in {"gate", "lock"}
    BY <2>1, FinishingTyped DEF Finishing
  <2>3. fins' = fins \cup {f} /\ UNCHANGED closed
    BY <1>3, <2>1 DEF Stop, Finishing
  <2>4. Turn \in Nat
    BY Ranges
  <2>5. \A g \in fins' : g.turn \in Nat /\ g.turn <= Turn
    BY <2>2, <2>3, <2>4 DEF StateTypes, Begun, Finish
  <2>6. \A t \in 1 .. Turn :
          t <= closed \/ \E g \in fins' : g.at \in {"gate", "lock"} /\ g.turn = t
    BY <2>2, <2>3 DEF TurnInv, Finished
  <2>7. CASE queued = <<>>
    <3>1. status' = "idle" /\ UNCHANGED turns
      BY <1>3, <2>7 DEF Stop
    <3>2. BusyTurn'
      BY <3>1 DEF BusyTurn
    <3>3. Turn' = Turn
      BY <3>1 DEF Turn
    <3>4. Finished'
      BY <2>3, <2>6, <3>3 DEF Finished
    <3>. QED  BY <3>2, <3>4 DEF TurnInv
  <2>8. CASE queued # <<>>
    <3>0. queued \in Seq(Msgs) /\ turns \in Seq(Msgs)
      BY DEF StateTypes
    <3>1. status' = "busy" /\ turns' = Append(turns, Head(queued)) /\ Head(queued) \in Msgs
      <4>1. Head(queued) \in Msgs
        BY <2>8, <3>0, HeadTailProperties
      <4>2. Head(queued) # 0
        BY <4>1 DEF Msgs
      <4>. QED  BY <1>3, <2>8, <4>1, <4>2 DEF Stop
    <3>2. Turn' = Turn + 1
      BY <3>0, <3>1, AppendProperties DEF Turn
    <3>3. BusyTurn'
      BY <2>4, <2>5, <3>2 DEF BusyTurn
    <3>4. \A t \in 1 .. Turn + 1 : t \in 1 .. Turn \/ t = Turn + 1
      BY <2>4
    <3>5. Finished'
      BY <2>3, <2>6, <3>1, <3>2, <3>4 DEF Finished
    <3>. QED  BY <3>3, <3>5 DEF TurnInv
  <2>. QED  BY <2>7, <2>8
<1>. QED  BY <1>1, <1>2, <1>3 DEF Handle

LEMMA TurnsKept ==
  ASSUME StateTypes, Begun, RunInv, TurnInv, [Next]_vars
  PROVE  TurnInv'
<1>1. CASE AdoptTrigger \/ Reaches \/ Tool \/ End
  BY <1>1, SameTurns DEF AdoptTrigger, Reaches, Tool, End, turnVars, finishVars
<1>2. CASE Handed
  BY <1>2, ToBusyTurns DEF Handed, ToBusy, finishVars
<1>3. CASE Arrives \/ LetGo
  <2>1. CASE \E e, w, held : Taken(e, mail', w) /\ held \in Nat /\ Handle(e, w, held)
    BY <2>1, HandleTurns DEF Taken
  <2>2. CASE UNCHANGED <<turnVars, finishVars>>
    BY <2>2, SameTurns DEF turnVars, finishVars
  <2>. QED  BY <1>3, <2>1, <2>2, Delivered
<1>4. ASSUME NEW q \in requests, RequestStep(q) PROVE TurnInv'
  <2>1. UNCHANGED <<status, turns, closed, fins>>
    BY <1>4 DEF RequestStep, GateOpens, Drop, SendAgain, Supersede, StartTurn,
                Superseded, Sent, turnVars, finishVars
  <2>. QED  BY <2>1, SameTurns
<1>5. ASSUME NEW f \in fins, FinishStep(f) PROVE TurnInv'
  <2>0. f \in Finish /\ f.turn \in Nat
    BY DEF StateTypes, Finish
  <2>1. CASE FinishGate(f)
    <3>1. PICK g : g = [f EXCEPT !.at = "lock"]
      OBVIOUS
    <3>2. g.at = "lock" /\ g.turn = f.turn
      BY <2>0, <3>1 DEF Finish
    <3>3. fins' = (fins \ {f}) \cup {g} /\ UNCHANGED <<status, turns, closed>>
      BY <2>1, <3>1 DEF FinishGate, Goes, turnVars
    <3>. QED  BY <3>2, <3>3, SameTurns
  <2>2. CASE CloseTurn(f)
    <3>1. PICK g : g = [f EXCEPT !.card = busy, !.at = IF busy = 0 THEN "answer" ELSE "card"]
      OBVIOUS
    <3>2. g.turn = f.turn
      BY <2>0, <3>1 DEF Finish
    <3>3. /\ fins' = (fins \ {f}) \cup {g} /\ UNCHANGED <<status, turns>>
          /\ closed' = IF f.turn > closed THEN f.turn ELSE closed
      BY <2>2, <3>1 DEF CloseTurn
    <3>4. closed \in Nat /\ closed' \in Nat /\ closed <= closed' /\ f.turn <= closed'
      <4>1. closed \in Nat
        BY Ranges DEF StateTypes
      <4>. QED  BY <2>0, <3>3, <4>1
    <3>5. BusyTurn'
      BY <3>2, <3>3 DEF TurnInv, BusyTurn, Turn
    <3>6. Turn \in Nat /\ Turn' = Turn
      BY <3>3, Ranges DEF Turn
    <3>7. ASSUME NEW t \in 1 .. Turn
          PROVE  \/ t <= closed' \/ (t = Turn /\ status = "busy")
                 \/ \E h \in fins' : h.at \in {"gate", "lock"} /\ h.turn = t
      <4>1. CASE t <= closed
        BY <3>4, <3>6, <4>1
      <4>2. CASE t = Turn /\ status = "busy"
        BY <4>2
      <4>3. CASE \E h \in fins : h.at \in {"gate", "lock"} /\ h.turn = t
        BY <3>3, <3>4, <4>3
      <4>. QED  BY <4>1, <4>2, <4>3 DEF TurnInv, Finished
    <3>8. Finished'
      BY <3>3, <3>6, <3>7 DEF Finished
    <3>. QED  BY <3>5, <3>8 DEF TurnInv
  <2>3. CASE SettleCard(f)
    <3>1. \A g \in fins : [g EXCEPT !.at = "answer"].turn = g.turn
      BY DEF StateTypes, Finish
    <3>2. fins' = {IF g.at = "card" THEN [g EXCEPT !.at = "answer"] ELSE g : g \in fins}
          /\ UNCHANGED <<status, turns, closed>>
      BY <2>3 DEF SettleCard, turnVars
    <3>3. \A h \in fins' : \E g \in fins : h.turn = g.turn
      BY <3>1, <3>2
    <3>4. \A g \in fins : g.at # "card" => g \in fins'
      BY <3>2
    <3>. QED  BY <3>2, <3>3, <3>4, SameTurns
  <2>4. CASE Answered(f) \/ OpenPopped(f)
    <3>1. PICK g : g = [f EXCEPT !.at = "popping"]
      OBVIOUS
    <3>2. g.turn = f.turn
      BY <2>0, <3>1 DEF Finish
    <3>3. /\ fins' = fins \ {f} \/ fins' = (fins \ {f}) \cup {g}
          /\ f.at \notin {"gate", "lock"} /\ UNCHANGED <<status, turns, closed>>
      BY <2>4, <3>1 DEF Answered, OpenPopped, Goes, turnVars
    <3>. QED  BY <3>2, <3>3, SameTurns
  <2>. QED  BY <1>5, <2>1, <2>2, <2>3, <2>4 DEF FinishStep
<1>6. CASE UNCHANGED vars
  BY <1>6, SameTurns DEF vars, turnVars, finishVars
<1>. QED  BY <1>1, <1>2, <1>3, <1>4, <1>5, <1>6 DEF Next

-----------------------------------------------------------------------------
(* Finishes and card requests are taken in the order of their turns.       *)

LEMMA OrderAfter ==
  ASSUME NEW F, NEW gt, fins' = F, gate' = gt, Chain(F, gt), PoppedLast(F),
         NoneBefore(cardTurn', F), \A q \in requests' : AskedLast(q, F)
  PROVE  InOrder'
<1>1. Chain(fins, gate)' /\ PoppedLast(fins)'
  BY DEF Chain, GateKept, LastKept, OneNext, OneFirst, Founded, LinkTurns, First,
         PoppedLast, NoneBefore
<1>2. (\A q \in requests : AskedLast(q, fins))' /\ NoneBefore(cardTurn, fins)'
  BY DEF AskedLast, NoneBefore
<1>. QED  BY <1>1, <1>2 DEF InOrder

\* A request let through, or made, where no older finish is out.
LEMMA SameOrder ==
  ASSUME InOrder, UNCHANGED <<fins, gate>>, NoneBefore(cardTurn', fins),
         \A q \in requests' : q \in requests \/ AskedLast(q, fins)
  PROVE  InOrder'
BY OrderAfter DEF InOrder

LEMMA MovedRequest ==
  ASSUME StateTypes, NEW q \in requests, NEW at
  PROVE  /\ [q EXCEPT !.at = at].turn = q.turn
         /\ [q EXCEPT !.at = at].gate = q.gate
         /\ [q EXCEPT !.at = at].at = at
  BY DEF StateTypes, Request

LEMMA RequestOrder ==
  ASSUME StateTypes, InOrder, NEW q \in requests, RequestStep(q), gaveUp' = {}
  PROVE  InOrder'
<1>0. AskedLast(q, fins) /\ NoneBefore(cardTurn, fins) /\ UNCHANGED <<fins, gate>>
  BY DEF InOrder, RequestStep, GateOpens, Drop, SendAgain, Supersede, StartTurn,
         Superseded, Sent, finishVars
<1>1. CASE GateOpens(q)
  <2>1. PICK r : r = [q EXCEPT !.at = IF Locked THEN "lock" ELSE "enter"]
    OBVIOUS
  <2>2. r.turn = q.turn /\ r.at # "gated"
    BY <2>1, MovedRequest
  <2>3. requests' = (requests \ {q}) \cup {r} /\ UNCHANGED cardTurn
    BY <1>1, <2>1 DEF GateOpens, Move, cardVars
  <2>4. q.at = "gated" /\ GateSet(q.gate)
    BY <1>1 DEF GateOpens
  <2>5. AskedLast(r, fins)
    BY <1>0, <2>2, <2>4 DEF AskedLast, GateSet, Holding
  <2>. QED  BY <1>0, <2>3, <2>5, SameOrder
<1>2. CASE Drop(q) \/ Sent(q)
  <2>1. requests' = requests \ {q} /\ UNCHANGED cardTurn
    BY <1>2 DEF Drop, Sent, Return, cardVars
  <2>. QED  BY <1>0, <2>1, SameOrder
<1>3. ASSUME q.at # "gated", NEW at, at # "gated", Move(q, at),
             cardTurn' \in {cardTurn, q.turn}
      PROVE  InOrder'
  <2>1. PICK r : r = [q EXCEPT !.at = at]
    OBVIOUS
  <2>2. r.turn = q.turn /\ r.at # "gated"
    BY <1>3, <2>1, MovedRequest
  <2>3. requests' = (requests \ {q}) \cup {r}
    BY <1>3, <2>1 DEF Move
  <2>4. AskedLast(r, fins) /\ NoneBefore(cardTurn', fins)
    BY <1>0, <1>3, <2>2 DEF AskedLast
  <2>. QED  BY <1>0, <2>3, <2>4, SameOrder
<1>4. CASE SendAgain(q)
  BY <1>3, <1>4 DEF SendAgain, Enters
<1>5. CASE Supersede(q)
  BY <1>3, <1>5 DEF Supersede, Enters, cardVars
<1>6. CASE StartTurn(q) \/ Superseded(q)
  BY <1>3, <1>6 DEF StartTurn, Superseded, Enters, Reset
<1>. QED  BY <1>1, <1>2, <1>4, <1>5, <1>6 DEF RequestStep

\* A request made now waits for the finish at the gate, or none is out
\* before its turn.
LEMMA AskOrder ==
  ASSUME StateTypes, Begun, TurnInv, InOrder, NEW why, NEW m, NEW m2, NEW w,
         Ask(why, m, TurnsAfter(m2), w), UNCHANGED <<fins, gate, cardTurn>>
  PROVE  InOrder'
<1>. DEFINE t == Len(TurnsAfter(m2))
            gated == gate # 0 /\ FinishingTurn < t /\ cardTurn # t
<1>1. PICK q : q = [why |-> why, msg |-> m, turn |-> t,
                    gate |-> IF gated THEN gate ELSE 0,
                    at |-> IF gated THEN "gated" ELSE IF Locked THEN "lock" ELSE "enter"]
  OBVIOUS
<1>2. requests' = requests \cup {q}
  BY <1>1 DEF Ask
<1>3. \A f \in fins : f.turn < t /\ f.turn \in Nat
  <2>1. Turn \in Nat /\ \A f \in fins : f.turn \in Nat /\ f.turn <= Turn
    BY Ranges DEF StateTypes, Begun, Finish
  <2>2. CASE status = "busy"
    BY <2>1, <2>2 DEF TurnInv, BusyTurn, TurnsAfter, Turn
  <2>3. CASE status # "busy"
    <3>1. t = Turn + 1
      BY <2>3, AppendProperties DEF StateTypes, TurnsAfter, Turn
    <3>. QED  BY <2>1, <3>1
  <2>. QED  BY <2>2, <2>3
<1>4. AskedLast(q, fins)
  <2>1. CASE gated
    <3>1. q.at = "gated" /\ q.gate = gate /\ gate # 0
      BY <1>1, <2>1
    <3>2. \E f \in fins : Holding(f) /\ f.run = q.gate
      BY <3>1 DEF InOrder, Chain, GateKept
    <3>3. \A f \in fins : ~ (f.at = "gate" /\ f.prev = q.gate)
      BY <3>1 DEF InOrder, Chain, LastKept
    <3>. QED  BY <3>1, <3>2, <3>3 DEF AskedLast
  <2>2. CASE ~ gated
    <3>1. q.at # "gated" /\ q.turn = t
      BY <1>1, <2>2
    <3>2. CASE gate = 0
      BY <3>1, <3>2 DEF InOrder, Chain, GateKept, AskedLast, NoneBefore
    <3>3. CASE gate # 0
      <4>1. \E f \in fins : f.run = gate
        BY <3>3 DEF InOrder, Chain, GateKept
      <4>2. (CHOOSE f \in fins : f.run = gate) \in fins
        BY <4>1
      <4>3. FinishingTurn < t
        BY <4>2, <1>3 DEF FinishingTurn
      <4>4. cardTurn = t
        BY <2>2, <3>3, <4>3
      <4>. QED  BY <3>1, <4>4 DEF InOrder, AskedLast
    <3>. QED  BY <3>2, <3>3
  <2>. QED  BY <2>1, <2>2
<1>5. NoneBefore(cardTurn', fins)
  BY DEF InOrder
<1>. QED  BY <1>2, <1>4, <1>5, SameOrder

LEMMA HandleOrder ==
  ASSUME StateTypes, Begun, Popped, TurnInv, InOrder, NEW e, NEW w, NEW held, NEW ml,
         Taken(e, ml, w), Handle(e, w, held)
  PROVE  InOrder'
<1>1. CASE Prompt(e, w)
  <2>1. UNCHANGED <<fins, gate, cardTurn>>
    BY <1>1 DEF Prompt, finishVars, cardVars
  <2>2. CASE status = "busy"
    <3>1. UNCHANGED requests
      BY <1>1, <2>2 DEF Prompt
    <3>. QED  BY <2>1, <3>1, SameOrder DEF InOrder
  <2>3. CASE status # "busy"
    BY <1>1, <2>1, <2>3, AskOrder DEF Prompt
  <2>. QED  BY <2>2, <2>3
<1>2. CASE PreToolUse(e, w, held)
  BY <1>2, SameOrder DEF PreToolUse, finishVars, InOrder
<1>3. CASE Stop(e, w)
  <2>1. PICK f : f = Finishing(e)
    OBVIOUS
  <2>2. /\ f \in Finish /\ f.turn = Turn /\ f.run = e.run /\ f.prev = gate
        /\ f.at = IF gate = 0 THEN "lock" ELSE "gate"
    BY <2>1, FinishingTyped DEF Finishing, Taken
  <2>3. gate' = e.run /\ fins' = fins \cup {f} /\ UNCHANGED <<cardTurn, requests>>
    BY <1>3, <2>1 DEF Stop, Finishing, cardVars
  <2>4. ~ Known(e.run, fins, gate)
    BY <1>3 DEF Taken, Stop
  <2>5. /\ fins \in SUBSET Finish /\ gate \in Nat /\ Turn \in Nat
        /\ \A g \in fins : g.turn <= f.turn /\ (g.popped # 0 => g.turn < f.turn)
    <3>1. fins \in SUBSET Finish /\ gate \in Nat /\ Turn \in Nat
      <4>1. fins \subseteq Finish /\ gate \in 0 .. Messages
        BY DEF StateTypes
      <4>2. Turn \in Nat /\ Messages \in Nat
        BY Ranges
      <4>. QED  BY <4>1, <4>2
    <3>2. \A g \in fins : g.turn <= Turn /\ (g.popped # 0 => g.turn < Turn)
      BY DEF Begun
    <3>. QED  BY <2>2, <3>1, <3>2
  <2>6. Chain(fins \cup {f}, f.run)
    <3>1. Chain(fins, gate)
      BY DEF InOrder
    <3>2. /\ \A g \in fins : g.run # f.run /\ g.prev # f.run
          /\ gate # f.run
      BY <2>2, <2>4 DEF Known
    <3>. QED  BY <2>2, <2>5, <3>1, <3>2, JoinChain
  <2>7. PICK G : G = fins'
    OBVIOUS
  <2>8. \A t \in Nat : t <= Turn /\ NoneBefore(t, fins) => NoneBefore(t, G)
    BY <2>2, <2>3, <2>5, <2>7 DEF NoneBefore
  <2>9. ASSUME NEW q \in requests PROVE AskedLast(q, G)
    <3>1. q.turn \in Nat /\ q.turn <= Turn /\ AskedLast(q, fins)
      BY DEF StateTypes, Begun, Request, InOrder
    <3>2. CASE q.at # "gated"
      BY <2>8, <3>1, <3>2 DEF AskedLast
    <3>3. CASE q.at = "gated"
      <4>1. NoneBefore(q.turn, G) \/ \E g \in G : Holding(g) /\ g.run = q.gate
        BY <2>3, <2>7, <2>8, <3>1, <3>3 DEF AskedLast
      <4>2. \A g \in G : g.at = "gate" /\ g.prev = q.gate => g.turn >= q.turn
        BY <2>2, <2>3, <2>5, <2>7, <3>1, <3>3 DEF AskedLast
      <4>. QED  BY <3>3, <4>1, <4>2 DEF AskedLast
    <3>. QED  BY <3>2, <3>3
  <2>10. NoneBefore(cardTurn, G)
    <3>1. cardTurn \in Nat /\ cardTurn <= Turn
      BY Ranges DEF StateTypes
    <3>. QED  BY <2>8, <3>1 DEF InOrder
  <2>11. ASSUME NEW g \in G, g.at = "popping" PROVE NoneBefore(g.turn + 1, G)
    <3>1. g \in fins
      BY <2>2, <2>3, <2>7, <2>11
    <3>2. g.turn + 1 \in Nat /\ g.turn + 1 <= Turn
      <4>1. g.popped # 0
        BY <2>11, <3>1 DEF Popped
      <4>2. g.turn \in Nat /\ g.turn < Turn
        BY <2>2, <2>5, <3>1, <4>1 DEF Finish
      <4>. QED  BY <2>5, <4>2
    <3>. QED  BY <2>8, <2>11, <3>1, <3>2 DEF InOrder, PoppedLast
  <2>12. PoppedLast(G)
    BY <2>11 DEF PoppedLast
  <2>. QED  BY <2>2, <2>3, <2>6, <2>7, <2>9, <2>10, <2>12, OrderAfter
<1>. QED  BY <1>1, <1>2, <1>3 DEF Handle

\* A finish that goes on, past the gate only when it is the first.
LEMMA GoesShift ==
  ASSUME NEW F, NEW f \in F, NEW g, Alike(f, g),
         NEW G, G = (F \ {f}) \cup {g},
         g.at = "gate" => f.at = "gate",
         f.at = "gate" /\ ~ First(f, F) => g.at = "gate"
  PROVE  Shift(F, G)
<1>1. \A h \in F : Holding(h) => Alike(h, h)
  BY DEF Alike
<1>. QED  BY <1>1 DEF Shift, Alike

LEMMA FinishOrder ==
  ASSUME StateTypes, Begun, RunInv, InOrder, NEW f \in fins, FinishStep(f), gaveUp' = {}
  PROVE  InOrder'
<1>0. f \in Finish /\ fins \in SUBSET Finish /\ gate \in Nat
  BY Ranges DEF StateTypes
<1>1. PICK G, ngt : G = fins' /\ ngt = gate'
  OBVIOUS
<1>2. OwnRun(fins) /\ OwnRun(G)
  <2>1. RunInv'
    BY FinishRuns
  <2>2. OwnRun(fins')
    BY <2>1 DEF RunInv, OwnRun
  <2>. QED  BY <1>1, <2>2 DEF RunInv
<1>3. UNCHANGED cardTurn
  BY DEF FinishStep, FinishGate, CloseTurn, SettleCard, Answered, OpenPopped, cardVars
<1>4. ASSUME Shift(fins, G), ngt = gate,
             \A q \in requests' : q \in requests \/ AskedLast(q, G)
      PROVE  InOrder'
  <2>1. Chain(G, gate)
    BY <1>2, <1>4, ShiftChain DEF InOrder
  <2>2. /\ NoneBefore(cardTurn', G) /\ PoppedLast(G)
        /\ \A q \in requests : AskedLast(q, G)
    BY <1>3, <1>4, ShiftBefore DEF InOrder
  <2>. QED  BY <1>1, <1>4, <2>1, <2>2, OrderAfter
<1>5. CASE FinishGate(f)
  <2>1. PICK g : g = [f EXCEPT !.at = "lock"]
    OBVIOUS
  <2>2. /\ f.at = "gate" /\ GateSet(f.prev) /\ UNCHANGED <<gate, requests>>
        /\ G = (fins \ {f}) \cup {g}
    BY <1>1, <1>5, <2>1 DEF FinishGate, Goes
  <2>3. Alike(f, g) /\ g.at = "lock"
    BY <1>0, <2>1, <2>2 DEF Alike, Holding, Finish
  <2>4. First(f, fins)
    BY <2>2 DEF First, Holding, Follows, GateSet
  <2>5. Shift(fins, G)
    BY <2>2, <2>3, <2>4, GoesShift
  <2>. QED  BY <1>1, <1>4, <2>2, <2>5
<1>6. CASE CloseTurn(f)
  <2>1. PICK g : g = [f EXCEPT !.card = busy, !.at = IF busy = 0 THEN "answer" ELSE "card"]
    OBVIOUS
  <2>2. f.at = "lock" /\ UNCHANGED <<gate, requests>> /\ G = (fins \ {f}) \cup {g}
    BY <1>1, <1>6, <2>1 DEF CloseTurn
  <2>3. Alike(f, g) /\ g.at # "gate"
    BY <1>0, <2>1, <2>2 DEF Alike, Holding, Finish
  <2>4. Shift(fins, G)
    BY <2>2, <2>3, GoesShift
  <2>. QED  BY <1>1, <1>4, <2>2, <2>4
<1>7. CASE SettleCard(f)
  <2>1. /\ G = {IF g.at = "card" THEN [g EXCEPT !.at = "answer"] ELSE g : g \in fins}
        /\ UNCHANGED <<gate, requests>>
    BY <1>1, <1>7 DEF SettleCard
  <2>2. \A g \in fins : g.at = "card" =>
          Alike(g, [g EXCEPT !.at = "answer"]) /\ [g EXCEPT !.at = "answer"].at = "answer"
    BY DEF StateTypes, Finish, Alike, Holding
  <2>3. ASSUME NEW h \in G
        PROVE  h \in fins \/ (h.at = "answer" /\ \E g \in fins : Alike(g, h))
    BY <2>1, <2>2, <2>3
  <2>4. ASSUME NEW g \in fins, Holding(g)
        PROVE  \E h \in G : Alike(g, h) /\ (g.at = "gate" => h.at = "gate")
    <3>1. CASE g.at = "card"
      BY <2>1, <2>2, <3>1
    <3>2. CASE g.at # "card"
      BY <2>1, <2>4, <3>2 DEF Alike
    <3>. QED  BY <3>1, <3>2
  <2>5. Shift(fins, G)
    <3>1. \A h \in G : Holding(h) =>
            \E g \in fins : Alike(g, h) /\ (h.at = "gate" => g.at = "gate")
      BY <2>3 DEF Alike
    <3>2. \A h \in G : ~ Holding(h) => h \in fins
      BY <2>3 DEF Holding
    <3>. QED  BY <2>4, <3>1, <3>2 DEF Shift
  <2>. QED  BY <1>1, <1>4, <2>1, <2>5
<1>8. CASE OpenPopped(f)
  <2>1. PICK q : q = [why |-> "popped", msg |-> f.popped, turn |-> f.turn + 1, gate |-> 0,
                      at |-> IF Locked THEN "lock" ELSE "enter"]
    OBVIOUS
  <2>2. /\ f.at = "popping" /\ G = fins \ {f} /\ UNCHANGED gate
        /\ requests' = requests \cup {q}
    BY <1>1, <1>8, <2>1 DEF OpenPopped
  <2>3. Shift(fins, G)
    BY <2>2 DEF Shift, Alike, Holding
  <2>4. AskedLast(q, G)
    <3>1. NoneBefore(f.turn + 1, fins)
      BY <2>2 DEF InOrder, PoppedLast
    <3>2. q.turn = f.turn + 1 /\ q.at # "gated"
      BY <2>1
    <3>. QED  BY <2>3, <3>1, <3>2, ShiftBefore DEF AskedLast
  <2>. QED  BY <1>1, <1>4, <2>2, <2>3, <2>4
<1>9. CASE Answered(f)
  <2>1. PICK g : g = [f EXCEPT !.at = "popping"]
    OBVIOUS
  <2>2. /\ f.at = "answer" /\ UNCHANGED requests
        /\ ngt = IF gate = f.run THEN 0 ELSE gate
        /\ G = IF f.popped = 0 THEN fins \ {f} ELSE (fins \ {f}) \cup {g}
    BY <1>1, <1>9, <2>1 DEF Answered, Goes
  <2>3. g.at = "popping" /\ g.turn = f.turn
    BY <1>0, <2>1 DEF Finish
  <2>4. First(f, fins)
    BY <2>2 DEF First, Holding, Follows
  <2>5. \A h : h \in G /\ Holding(h) <=> h \in fins /\ h # f /\ Holding(h)
    BY <2>2, <2>3 DEF Holding
  <2>6. Chain(fins, gate)
    BY DEF InOrder
  <2>7. Chain(G, ngt)
    BY <1>0, <1>2, <2>2, <2>4, <2>5, <2>6, LeaveChain
  <2>8. \A t : NoneBefore(t, fins) \/ NoneBefore(t, fins \ {f}) => NoneBefore(t, G)
    BY <2>5 DEF NoneBefore
  <2>9. ASSUME NEW q \in requests PROVE AskedLast(q, G)
    <3>1. q.turn \in Nat /\ AskedLast(q, fins)
      BY DEF StateTypes, Request, InOrder
    <3>2. CASE q.at # "gated"
      BY <2>8, <3>1, <3>2 DEF AskedLast
    <3>3. CASE q.at = "gated"
      <4>1. \A h \in G : h.at = "gate" /\ h.prev = q.gate => h.turn >= q.turn
        BY <2>5, <3>1, <3>3 DEF AskedLast, Holding
      <4>2. NoneBefore(q.turn, G) \/ \E h \in G : Holding(h) /\ h.run = q.gate
        <5>1. CASE NoneBefore(q.turn, fins)
          BY <2>8, <5>1
        <5>2. CASE f.run = q.gate
          <6>1. \A h \in fins : Follows(h, f) => h.turn >= q.turn
            BY <3>1, <3>3, <5>2 DEF AskedLast, Follows
          <6>2. NoneBefore(q.turn, fins \ {f})
            BY <1>0, <2>4, <2>6, <3>1, <6>1, NextLeast
          <6>. QED  BY <2>8, <6>2
        <5>3. CASE f.run # q.gate /\ \E h \in fins : Holding(h) /\ h.run = q.gate
          BY <2>5, <5>3
        <5>. QED  BY <3>1, <3>3, <5>1, <5>2, <5>3 DEF AskedLast
      <4>. QED  BY <3>3, <4>1, <4>2 DEF AskedLast
    <3>. QED  BY <3>2, <3>3
  <2>10. ASSUME NEW h \in G, h.at = "popping" PROVE NoneBefore(h.turn + 1, G)
    <3>1. CASE h \in fins
      BY <2>8, <2>10, <3>1 DEF InOrder, PoppedLast
    <3>2. CASE h \notin fins
      <4>1. h = g /\ f.popped # 0
        BY <2>2, <3>2
      <4>2. f.turn \in Nat /\ f.turn + 1 \in Nat
        BY <1>0 DEF Finish
      <4>3. \A k \in fins : Follows(k, f) => k.turn >= f.turn + 1
        <5>1. \A k \in fins : k.turn \in Nat
          BY <1>0 DEF Finish
        <5>. QED  BY <2>6, <4>1, <4>2, <5>1 DEF Chain, LinkTurns
      <4>4. NoneBefore(f.turn + 1, fins \ {f})
        BY <1>0, <2>4, <2>6, <4>2, <4>3, NextLeast
      <4>. QED  BY <2>3, <2>8, <4>1, <4>4
    <3>. QED  BY <3>1, <3>2
  <2>11. PoppedLast(G) /\ NoneBefore(cardTurn', G)
    BY <1>3, <2>8, <2>10 DEF PoppedLast, InOrder
  <2>. QED  BY <1>1, <2>2, <2>7, <2>9, <2>11, OrderAfter
<1>. QED  BY <1>5, <1>6, <1>7, <1>8, <1>9 DEF FinishStep

LEMMA OrderKept ==
  ASSUME StateTypes, Begun, Popped, RunInv, TurnInv, InOrder, [Next]_vars, gaveUp' = {}
  PROVE  InOrder'
<1>1. CASE AdoptTrigger \/ Reaches \/ Tool \/ End
  <2>1. UNCHANGED <<fins, gate, requests, cardTurn>>
    BY <1>1 DEF AdoptTrigger, Reaches, Tool, End, cardVars, finishVars
  <2>. QED  BY <2>1, SameOrder DEF InOrder
<1>2. CASE Handed
  BY <1>2, AskOrder DEF Handed, cardVars, finishVars
<1>3. CASE Arrives \/ LetGo
  <2>1. CASE \E e, w, held : Taken(e, mail', w) /\ held \in Nat /\ Handle(e, w, held)
    BY <2>1, HandleOrder
  <2>2. CASE UNCHANGED <<cardVars, finishVars, requests>>
    BY <2>2, SameOrder DEF cardVars, finishVars, InOrder
  <2>. QED  BY <1>3, <2>1, <2>2, Delivered
<1>4. CASE UNCHANGED vars
  BY <1>4, SameOrder DEF vars, cardVars, finishVars, InOrder
<1>. QED  BY <1>1, <1>2, <1>3, <1>4, RequestOrder, FinishOrder DEF Next

-----------------------------------------------------------------------------
(* The cards.                                                              *)

LEMMA CardRanges ==
  ASSUME StateTypes
  PROVE  /\ Turn \in Nat /\ closed \in Nat /\ cardTurn \in Nat /\ cardTurn <= Turn
         /\ \A q \in requests : q.turn \in Nat
         /\ \A f \in fins : f.turn \in Nat
         /\ \A k \in DOMAIN cards : cards[k] \in Card /\ cards[k].turn \in Nat
         /\ 0 \notin DOMAIN cards /\ Claim \notin DOMAIN cards
         /\ busy \in DOMAIN cards \cup {0, Claim}
<1>1. cards \in Seq(Card) /\ DOMAIN cards = 1 .. Len(cards) /\ Len(cards) \in Nat
  BY LenProperties DEF StateTypes
<1>2. \A k \in DOMAIN cards : cards[k] \in Card
  BY <1>1, ElementOfSeq
<1>3. \A k \in DOMAIN cards : cards[k].turn \in Nat
  BY <1>2 DEF Card
<1>4. 0 \notin DOMAIN cards /\ Claim \notin DOMAIN cards
      /\ busy \in DOMAIN cards \cup {0, Claim}
  BY <1>1 DEF Claim, StateTypes
<1>5. Turn \in Nat /\ closed \in Nat /\ cardTurn \in Nat /\ cardTurn <= Turn
  BY Ranges DEF StateTypes
<1>6. (\A q \in requests : q.turn \in Nat) /\ (\A f \in fins : f.turn \in Nat)
  BY DEF StateTypes, Request, Finish
<1>. QED  BY <1>2, <1>3, <1>4, <1>5, <1>6

\* A last edit for the turn by.
LEMMA OverCard ==
  ASSUME StateTypes, NEW k \in DOMAIN cards, NEW by \in Nat
  PROVE  /\ DOMAIN Over(k, by) = DOMAIN cards
         /\ Over(k, by)[k].state = "over" /\ Over(k, by)[k].by = by
         /\ Over(k, by)[k].turn = cards[k].turn
         /\ \A l \in DOMAIN cards \ {k} : Over(k, by)[l] = cards[l]
<1>1. cards[k] \in Card
  BY CardRanges
<1>2. PICK c : c = [cards[k] EXCEPT !.state = "over", !.by = by]
  OBVIOUS
<1>3. c.state = "over" /\ c.by = by /\ c.turn = cards[k].turn
  BY <1>1, <1>2 DEF Card
<1>4. Over(k, by) = [cards EXCEPT ![k] = c]
  BY <1>1, <1>2 DEF Over, Card
<1>. QED  BY <1>3, <1>4

\* Steps that touch no card, close no turn and let nobody into the lock.
LEMMA CardsCalm ==
  ASSUME CardTurns, UNCHANGED <<busy, cards, cardTurn, closed>>,
         \A q \in requests' : Inside(q) => q \in requests,
         \A f \in fins' : f.at = "card" => f \in fins,
         \A f \in fins : f.at = "card" => f \in fins'
  PROVE  CardTurns' /\ (Shown => Shown')
<1>1. /\ SlotTurn' /\ SendTurn' /\ InsideOpen' /\ SettleNewer' /\ ClosedShown'
      /\ EditClosed' /\ CardsOlder'
  BY DEF CardTurns, SlotTurn, SendTurn, InsideOpen, SettleNewer, ClosedShown,
         EditClosed, CardsOlder, Inside
<1>2. ASSUME Shown PROVE Shown'
  BY <1>2 DEF Shown, OwnEdit, OverClosed, FirstSend, OwnLast, OneShown, Inside
<1>. QED  BY <1>1, <1>2 DEF CardTurns

\* Nobody is inside but the request that gets in.
LEMMA GetsIn ==
  ASSUME StateTypes, CardInv, NEW q \in requests, NEW at \in {"settling", "sending"},
         Inside(q) \/ ~ Locked, Move(q, at)
  PROVE  \A r \in requests' : Inside(r) => r.at = at /\ r.turn = q.turn
<1>1. PICK r : r = [q EXCEPT !.at = at]
  OBVIOUS
<1>2. r.turn = q.turn /\ r.at = at
  BY <1>1, MovedRequest
<1>3. requests' = (requests \ {q}) \cup {r}
  BY <1>1 DEF Move
<1>4. \A p \in requests \ {q} : ~ Inside(p)
  BY DEF CardInv, OneInside, Inside, Locked
<1>. QED  BY <1>2, <1>3, <1>4

\* A request that is not dropped is for the newest turn, still open.
LEMMA NotStale ==
  ASSUME StateTypes, NEW q \in requests, ~ Dropped(q)
  PROVE  q.turn = Turn /\ q.turn > closed
BY CardRanges DEF Dropped, Stale

LEMMA SendAgainCards ==
  ASSUME StateTypes, CardInv, CardTurns, NEW q \in requests, SendAgain(q)
  PROVE  CardTurns' /\ (Shown => Shown')
<1>1. /\ \A r \in requests' : Inside(r) => r.at = "sending" /\ r.turn = q.turn
      /\ q.turn = Turn /\ q.turn > closed /\ q.turn = cardTurn /\ busy = 0
      /\ busy' = Claim /\ UNCHANGED <<cards, cardTurn, closed, fins>>
  BY GetsIn, NotStale DEF SendAgain, Enters, Dropped, SameTurn, turnVars, finishVars
<1>2. /\ SlotTurn' /\ SendTurn' /\ InsideOpen' /\ SettleNewer' /\ ClosedShown'
      /\ EditClosed' /\ CardsOlder'
  <2>1. SlotTurn'
    BY <1>1, CardRanges DEF SlotTurn
  <2>2. SendTurn' /\ InsideOpen' /\ SettleNewer'
    BY <1>1 DEF SendTurn, InsideOpen, SettleNewer, Inside
  <2>3. ~ (cardTurn <= closed)
    BY <1>1, CardRanges
  <2>4. ClosedShown'
    BY <1>1, <2>3 DEF ClosedShown
  <2>5. EditClosed' /\ CardsOlder'
    BY <1>1 DEF CardTurns, EditClosed, CardsOlder
  <2>. QED  BY <2>1, <2>2, <2>4, <2>5
<1>3. ASSUME Shown PROVE Shown'
  <2>1. OwnEdit' /\ OverClosed' /\ OwnLast' /\ OneShown'
    BY <1>1, <1>3 DEF Shown, OwnEdit, OverClosed, OwnLast, OneShown
  <2>2. ASSUME NEW k \in DOMAIN cards, cards[k].turn = q.turn PROVE cards[k].state = "lost"
    <3>1. cards[k].state # "live"
      BY <1>1, CardRanges DEF CardInv, LiveInSlot
    <3>2. cards[k].state # "over"
      BY <1>1, <1>3, <2>2, CardRanges DEF Shown, OverClosed
    <3>3. cards[k] \in Card
      BY CardRanges
    <3>. QED  BY <3>1, <3>2, <3>3 DEF Card
  <2>3. FirstSend'
    BY <1>1, <2>2 DEF FirstSend, Inside
  <2>. QED  BY <2>1, <2>3 DEF Shown
<1>. QED  BY <1>2, <1>3 DEF CardTurns

LEMMA SupersedeCards ==
  ASSUME StateTypes, CardInv, CardTurns, NEW q \in requests, Supersede(q)
  PROVE  CardTurns' /\ (Shown => Shown')
<1>1. /\ \A r \in requests' : Inside(r) => r.at = "settling" /\ r.turn = q.turn
      /\ q.turn = Turn /\ q.turn > closed /\ q.turn # cardTurn
      /\ UNCHANGED <<busy, cards, cardTurn, closed, fins>>
  BY GetsIn, NotStale DEF Supersede, Enters, SameTurn, cardVars, finishVars
<1>2. q.turn > cardTurn
  BY <1>1, CardRanges
<1>3. /\ SlotTurn' /\ SendTurn' /\ InsideOpen' /\ SettleNewer' /\ ClosedShown'
      /\ EditClosed' /\ CardsOlder'
  <2>1. SendTurn' /\ InsideOpen' /\ SettleNewer'
    BY <1>1, <1>2 DEF SendTurn, InsideOpen, SettleNewer, Inside
  <2>2. SlotTurn' /\ ClosedShown' /\ EditClosed' /\ CardsOlder'
    BY <1>1 DEF CardTurns, SlotTurn, ClosedShown, EditClosed, CardsOlder
  <2>. QED  BY <2>1, <2>2
<1>4. ASSUME Shown PROVE Shown'
  <2>1. FirstSend'
    BY <1>1 DEF FirstSend, Inside
  <2>2. OwnEdit' /\ OverClosed' /\ OwnLast' /\ OneShown'
    BY <1>1, <1>4 DEF Shown, OwnEdit, OverClosed, OwnLast, OneShown
  <2>. QED  BY <2>1, <2>2 DEF Shown
<1>. QED  BY <1>3, <1>4 DEF CardTurns

\* The turn-start reset of a newer turn than the card's.
LEMMA ResetCards ==
  ASSUME StateTypes, CardInv, CardTurns, NEW q \in requests, Reset(q),
         Inside(q) \/ ~ Locked, q.turn > closed, q.turn > cardTurn,
         \A f \in fins : f.at # "card",
         UNCHANGED <<closed, fins>>,
         DOMAIN cards' = DOMAIN cards,
         \A k \in DOMAIN cards : cards'[k].turn = cards[k].turn,
         \A k \in DOMAIN cards : cards'[k] = cards[k]
           \/ (cards[k].state # "lost" /\ cards'[k].by = cards[k].turn)
  PROVE  CardTurns' /\ (Shown => Shown')
<1>1. PICK c : c = cards'
  OBVIOUS
<1>2. /\ \A r \in requests' : Inside(r) => r.at = "sending" /\ r.turn = q.turn
      /\ busy' = Claim /\ cardTurn' = q.turn
  BY GetsIn DEF Reset
<1>3. /\ \A k \in DOMAIN c : c[k].turn \in Nat /\ c[k].turn < q.turn
      /\ ~ (q.turn <= closed) /\ q.turn \in Nat /\ Claim \notin DOMAIN c
  <2>1. \A k \in DOMAIN cards : cards[k].turn \in Nat /\ cards[k].turn < q.turn
    BY CardRanges DEF CardTurns, CardsOlder
  <2>. QED  BY <1>1, <2>1, CardRanges
<1>4. /\ SlotTurn' /\ SendTurn' /\ InsideOpen' /\ SettleNewer' /\ ClosedShown'
      /\ EditClosed' /\ CardsOlder'
  <2>1. SlotTurn'
    BY <1>1, <1>2, <1>3 DEF SlotTurn
  <2>2. SendTurn' /\ InsideOpen' /\ SettleNewer'
    BY <1>2 DEF SendTurn, InsideOpen, SettleNewer, Inside
  <2>3. ClosedShown'
    BY <1>2, <1>3 DEF ClosedShown
  <2>4. EditClosed'
    BY DEF EditClosed
  <2>5. CardsOlder'
    BY <1>1, <1>2, <1>3 DEF CardsOlder
  <2>. QED  BY <2>1, <2>2, <2>3, <2>4, <2>5
<1>5. ASSUME Shown PROVE Shown'
  <2>1. OwnEdit'
    BY DEF OwnEdit
  <2>2. OverClosed'
    BY <1>1, <1>2, <1>3 DEF OverClosed
  <2>3. \A k \in DOMAIN c : c[k].turn # q.turn
    BY <1>3
  <2>4. FirstSend'
    BY <1>1, <1>2, <2>3 DEF FirstSend, Inside
  <2>5. OwnLast'
    BY <1>5 DEF Shown, OwnLast
  <2>6. OneShown'
    <3>1. \A k \in DOMAIN c : c[k].state # "lost" => cards[k].state # "lost"
      BY <1>1
    <3>2. ASSUME NEW k \in DOMAIN c, NEW l \in DOMAIN c,
                 c[k].state # "lost", c[l].state # "lost", c[k].turn = c[l].turn
          PROVE  k = l
      BY <1>1, <1>5, <3>1, <3>2 DEF Shown, OneShown
    <3>. QED  BY <1>1, <3>2 DEF OneShown
  <2>. QED  BY <2>1, <2>2, <2>4, <2>5, <2>6 DEF Shown
<1>. QED  BY <1>4, <1>5 DEF CardTurns

LEMMA StartTurnCards ==
  ASSUME StateTypes, CardInv, CardTurns, NEW q \in requests, StartTurn(q)
  PROVE  CardTurns' /\ (Shown => Shown')
<1>1. /\ Reset(q) /\ ~ Locked /\ q.turn = Turn /\ q.turn > closed /\ q.turn # cardTurn
      /\ busy = 0 /\ UNCHANGED <<closed, fins, cards>>
  BY NotStale DEF StartTurn, Enters, SameTurn, finishVars
<1>2. q.turn > cardTurn
  BY <1>1, CardRanges
<1>3. \A f \in fins : f.at # "card"
  BY <1>1, CardRanges DEF CardInv, FinishHasSlot
<1>. QED  BY <1>1, <1>2, <1>3, ResetCards

LEMMA SupersededCards ==
  ASSUME StateTypes, CardInv, CardTurns, NEW q \in requests, Superseded(q)
  PROVE  CardTurns' /\ (Shown => Shown')
<1>1. /\ Reset(q) /\ q.at = "settling" /\ UNCHANGED <<closed, fins>>
      /\ \A f \in fins : f.at # "card"
      /\ IF busy = 0 THEN UNCHANGED cards ELSE cards' = Over(busy, cards[busy].turn)
  BY DEF Superseded, finishVars
<1>2. Inside(q) /\ q.turn > closed /\ q.turn > cardTurn
  BY <1>1 DEF Inside, CardTurns, InsideOpen, SettleNewer
<1>3. /\ DOMAIN cards' = DOMAIN cards
      /\ \A k \in DOMAIN cards : cards'[k].turn = cards[k].turn
      /\ \A k \in DOMAIN cards : cards'[k] = cards[k]
           \/ (cards[k].state # "lost" /\ cards'[k].by = cards[k].turn)
  <2>1. CASE busy = 0
    BY <1>1, <2>1
  <2>2. CASE busy # 0
    <3>1. busy # Claim
      <4>1. \A r \in requests : r.at # "sending"
        BY <1>1 DEF CardInv, OneInside, Inside
      <4>. QED  BY <4>1 DEF CardInv, ClaimSends
    <3>2. busy \in DOMAIN cards /\ cards[busy].turn \in Nat /\ cards[busy].state # "lost"
      BY <2>2, <3>1, CardRanges DEF CardTurns, SlotTurn
    <3>3. PICK b, t : b = busy /\ t = cards[busy].turn
      OBVIOUS
    <3>. QED  BY <1>1, <2>2, <3>2, <3>3, OverCard
  <2>. QED  BY <2>1, <2>2
<1>. QED  BY <1>1, <1>2, <1>3, ResetCards

LEMMA SentCards ==
  ASSUME StateTypes, CardInv, CardTurns, NEW q \in requests, Sent(q)
  PROVE  CardTurns' /\ (Shown => Shown')
<1>0. q.at = "sending" /\ q.turn = cardTurn /\ q.turn > closed /\ busy = Claim
  BY DEF Sent, CardTurns, SendTurn, InsideOpen, Inside, CardInv, SendClaims
<1>1. \A f \in fins : f.at # "card"
  BY <1>0, CardRanges DEF CardInv, FinishHasSlot
<1>2. /\ requests' = requests \ {q} /\ UNCHANGED <<cardTurn, closed, fins>>
      /\ \A r \in requests' : ~ Inside(r)
  <2>1. requests' = requests \ {q} /\ UNCHANGED <<cardTurn, closed, fins>>
    BY DEF Sent, Return, turnVars, finishVars
  <2>. QED  BY <1>0, <2>1 DEF CardInv, OneInside, Inside
<1>3. PICK c, d, n :
        /\ c = cards' /\ n = Len(cards) + 1
        /\ d.turn = q.turn /\ d.by = 0 /\ d.state # "over"
        /\ c = Append(cards, d)
        /\ busy' = 0 \/ (busy' = n /\ d.state = "live")
  <2>1. CASE busy' = Len(cards) + 1
             /\ cards' = Append(cards, [turn |-> q.turn, state |-> "live", by |-> 0])
    <3>1. PICK d : d = [turn |-> q.turn, state |-> "live", by |-> 0]
      OBVIOUS
    <3>. QED  BY <2>1, <3>1
  <2>2. CASE busy' = 0
             /\ cards' = Append(cards, [turn |-> q.turn, state |-> "lost", by |-> 0])
    <3>1. PICK d : d = [turn |-> q.turn, state |-> "lost", by |-> 0]
      OBVIOUS
    <3>. QED  BY <2>2, <3>1
  <2>. QED  BY <2>1, <2>2 DEF Sent
<1>4. /\ DOMAIN c = DOMAIN cards \cup {n} /\ n \notin DOMAIN cards
      /\ c[n] = d /\ \A k \in DOMAIN cards : c[k] = cards[k]
      /\ 0 \notin DOMAIN c
  <2>1. cards \in Seq(Card)
    BY DEF StateTypes
  <2>2. PICK m : m = Len(cards)
    OBVIOUS
  <2>3. /\ m \in Nat /\ DOMAIN cards = 1 .. m /\ DOMAIN c = 1 .. m + 1
        /\ c[m + 1] = d /\ \A k \in 1 .. m : c[k] = cards[k]
    BY <1>3, <2>1, <2>2, AppendProperties, LenProperties
  <2>. QED  BY <1>3, <2>2, <2>3
<1>5. /\ SlotTurn' /\ SendTurn' /\ InsideOpen' /\ SettleNewer' /\ ClosedShown'
      /\ EditClosed' /\ CardsOlder'
  <2>1. SlotTurn'
    BY <1>0, <1>2, <1>3, <1>4 DEF SlotTurn
  <2>2. SendTurn' /\ InsideOpen' /\ SettleNewer'
    BY <1>2 DEF SendTurn, InsideOpen, SettleNewer, Inside
  <2>3. ~ (cardTurn <= closed)
    BY <1>0, CardRanges
  <2>4. ClosedShown'
    BY <1>2, <2>3 DEF ClosedShown
  <2>5. EditClosed'
    BY <1>1, <1>2 DEF EditClosed
  <2>6. CardsOlder'
    BY <1>0, <1>2, <1>3, <1>4, CardRanges DEF CardTurns, CardsOlder
  <2>. QED  BY <2>1, <2>2, <2>4, <2>5, <2>6
<1>6. ASSUME Shown PROVE Shown'
  <2>1. OwnEdit'
    BY <1>1, <1>2 DEF OwnEdit
  <2>2. OverClosed' /\ OwnLast'
    BY <1>2, <1>3, <1>4, <1>6 DEF Shown, OverClosed, OwnLast
  <2>3. FirstSend'
    BY <1>2 DEF FirstSend, Inside
  <2>4. \A k \in DOMAIN cards : cards[k].turn = q.turn => cards[k].state = "lost"
    BY <1>0, <1>6 DEF Shown, FirstSend
  <2>5. OneShown'
    <3>1. ASSUME NEW k \in DOMAIN c, NEW l \in DOMAIN c,
                 c[k].state # "lost", c[l].state # "lost", c[k].turn = c[l].turn
          PROVE  k = l
      BY <1>3, <1>4, <1>6, <2>4, <3>1 DEF Shown, OneShown
    <3>. QED  BY <1>3, <3>1 DEF OneShown
  <2>. QED  BY <2>1, <2>2, <2>3, <2>5 DEF Shown
<1>. QED  BY <1>5, <1>6 DEF CardTurns

\* The finish that looks at a card finds its own turn's: an older turn's card
\* would still have its own finish out, and that one comes first.
LEMMA FindsOwn ==
  ASSUME StateTypes, Begun, TurnInv, CardTurns, InOrder, NEW f \in fins, f.at = "lock",
         busy \in DOMAIN cards
  PROVE  cards[busy].turn = f.turn
<1>1. f.turn \in Nat /\ f.turn <= Turn /\ cards[busy].turn = cardTurn
  BY CardRanges DEF Begun, CardTurns, SlotTurn
<1>2. First(f, fins)
  BY DEF First, Holding, Follows
<1>3. fins \in SUBSET Finish
  BY DEF StateTypes
<1>4. NoneBefore(f.turn, fins)
  BY <1>2, <1>3, FirstLeast DEF InOrder
<1>5. cardTurn <= f.turn
  BY <1>1, CardRanges DEF InOrder, NoneBefore, Holding
<1>6. CASE cardTurn <= closed
  <2>1. PICK g \in fins : g.at = "card"
    BY <1>6, CardRanges DEF CardTurns, ClosedShown
  <2>2. First(g, fins)
    BY <2>1 DEF First, Holding, Follows
  <2>. QED  BY <1>2, <2>1, <2>2 DEF InOrder, Chain, OneFirst
<1>7. CASE ~ (cardTurn <= closed) /\ cardTurn # f.turn
  <2>1. cardTurn \in 1 .. Turn /\ cardTurn < f.turn /\ cardTurn # Turn
    BY <1>1, <1>5, <1>7, CardRanges
  <2>2. PICK g \in fins : g.at \in {"gate", "lock"} /\ g.turn = cardTurn
    BY <1>7, <2>1 DEF TurnInv, Finished
  <2>3. cardTurn >= f.turn
    BY <1>4, <2>2 DEF NoneBefore, Holding
  <2>. QED  BY <1>1, <2>1, <2>3, CardRanges
<1>. QED  BY <1>1, <1>6, <1>7

LEMMA CloseTurnCards ==
  ASSUME StateTypes, Begun, TurnInv, CardInv, CardTurns, NEW f \in fins, CloseTurn(f)
  PROVE  CardTurns' /\ (Shown /\ InOrder => Shown')
<1>1. PICK g : g = [f EXCEPT !.card = busy, !.at = IF busy = 0 THEN "answer" ELSE "card"]
  OBVIOUS
<1>2. /\ g.turn = f.turn /\ g.card = busy
      /\ g.at = IF busy = 0 THEN "answer" ELSE "card"
  BY <1>1 DEF StateTypes, Finish
<1>3. /\ f.at = "lock" /\ ~ Locked
      /\ closed' = IF f.turn > closed THEN f.turn ELSE closed
      /\ fins' = (fins \ {f}) \cup {g}
      /\ UNCHANGED <<busy, cards, cardTurn, requests>>
  BY <1>1 DEF CloseTurn, cardVars
<1>4. PICK d : d = closed'
  OBVIOUS
<1>5. d \in Nat /\ closed <= d /\ f.turn <= d
  BY <1>3, <1>4, CardRanges
<1>6. busy \in DOMAIN cards \cup {0}
  <2>1. busy # Claim
    BY <1>3 DEF CardInv, ClaimSends, Locked
  <2>. QED  BY <2>1, CardRanges
<1>7. \A q \in requests : ~ Inside(q)
  BY <1>3 DEF Inside, Locked
<1>8. /\ SlotTurn' /\ SendTurn' /\ InsideOpen' /\ SettleNewer' /\ ClosedShown'
      /\ EditClosed' /\ CardsOlder'
  <2>1. SlotTurn' /\ CardsOlder'
    BY <1>3 DEF CardTurns, SlotTurn, CardsOlder
  <2>2. SendTurn' /\ InsideOpen' /\ SettleNewer'
    BY <1>3, <1>7 DEF SendTurn, InsideOpen, SettleNewer, Inside
  <2>3. ClosedShown'
    BY <1>2, <1>3 DEF ClosedShown
  <2>4. \A h \in fins' : h.at = "card" => h.turn <= d
    <3>1. \A h \in fins : h.at = "card" => h.turn <= d
      <4>1. \A h \in fins : h.at = "card" => h.turn <= closed
        BY DEF CardTurns, EditClosed
      <4>2. \A n \in Nat : n <= closed => n <= d
        BY <1>5, CardRanges
      <4>. QED  BY <4>1, <4>2, CardRanges
    <3>. QED  BY <1>2, <1>3, <1>5, <3>1
  <2>5. EditClosed'
    BY <1>4, <2>4 DEF EditClosed
  <2>. QED  BY <2>1, <2>2, <2>3, <2>5
<1>9. ASSUME Shown, InOrder PROVE Shown'
  <2>1. busy \in DOMAIN cards => cards[busy].turn = f.turn
    BY <1>3, <1>9, FindsOwn
  <2>2. OwnEdit'
    BY <1>2, <1>3, <1>6, <1>9, <2>1 DEF Shown, OwnEdit
  <2>3. \A k \in DOMAIN cards : cards[k].state = "over" =>
          cards[k].turn <= d \/ cards[k].turn < cardTurn
    <3>1. \A n \in Nat : n <= closed => n <= d
      BY <1>5, CardRanges
    <3>. QED  BY <1>9, <3>1, CardRanges DEF Shown, OverClosed
  <2>4. OverClosed'
    BY <1>3, <1>4, <2>3 DEF OverClosed
  <2>5. FirstSend' /\ OwnLast' /\ OneShown'
    BY <1>3, <1>9 DEF Shown, FirstSend, OwnLast, OneShown
  <2>. QED  BY <2>2, <2>4, <2>5 DEF Shown
<1>. QED  BY <1>8, <1>9 DEF CardTurns

LEMMA SettleCardCards ==
  ASSUME StateTypes, CardInv, CardTurns, NEW f \in fins, SettleCard(f)
  PROVE  CardTurns' /\ (Shown => Shown')
<1>1. /\ f.at = "card" /\ f.card = busy /\ busy \in DOMAIN cards /\ f.turn \in Nat
      /\ f.turn <= closed /\ cards[busy].state # "lost"
      /\ busy' = 0 /\ cards' = Over(busy, f.turn)
      /\ UNCHANGED <<cardTurn, closed, requests>>
  BY CardRanges DEF SettleCard, CardInv, FinishHasSlot, CardTurns, EditClosed, SlotTurn,
                    turnVars
<1>2. \A g \in fins' : g.at # "card"
  <2>1. \A g \in fins : [g EXCEPT !.at = "answer"].at = "answer"
    BY DEF StateTypes, Finish
  <2>. QED  BY <2>1 DEF SettleCard
<1>3. PICK c, k : c = cards' /\ k = busy
  OBVIOUS
<1>4. /\ DOMAIN c = DOMAIN cards /\ k \in DOMAIN cards
      /\ c[k].state = "over" /\ c[k].by = f.turn /\ c[k].turn = cards[k].turn
      /\ \A l \in DOMAIN cards \ {k} : c[l] = cards[l]
      /\ 0 \notin DOMAIN c
  BY <1>1, <1>3, OverCard, CardRanges
<1>5. \A q \in requests : q.at # "sending"
  BY <1>1, CardRanges DEF CardInv, SendClaims
<1>6. /\ SlotTurn' /\ SendTurn' /\ InsideOpen' /\ SettleNewer' /\ ClosedShown'
      /\ EditClosed' /\ CardsOlder'
  <2>1. SlotTurn' /\ ClosedShown'
    BY <1>1, <1>3, <1>4 DEF SlotTurn, ClosedShown
  <2>2. SendTurn' /\ InsideOpen' /\ SettleNewer'
    BY <1>1 DEF CardTurns, SendTurn, InsideOpen, SettleNewer, Inside
  <2>3. EditClosed'
    BY <1>2 DEF EditClosed
  <2>4. CardsOlder'
    BY <1>1, <1>3, <1>4 DEF CardTurns, CardsOlder
  <2>. QED  BY <2>1, <2>2, <2>3, <2>4
<1>7. ASSUME Shown PROVE Shown'
  <2>0. cards[k].turn = f.turn
    BY <1>1, <1>3, <1>7 DEF Shown, OwnEdit
  <2>1. OwnEdit' /\ FirstSend'
    BY <1>1, <1>2, <1>5 DEF OwnEdit, FirstSend
  <2>2. OverClosed'
    BY <1>1, <1>3, <1>4, <1>7, <2>0 DEF Shown, OverClosed
  <2>3. OwnLast'
    BY <1>3, <1>4, <1>7, <2>0 DEF Shown, OwnLast
  <2>4. OneShown'
    <3>1. \A l \in DOMAIN c : c[l].turn = cards[l].turn
                              /\ (c[l].state # "lost" => cards[l].state # "lost")
      BY <1>1, <1>3, <1>4
    <3>2. ASSUME NEW l \in DOMAIN c, NEW m \in DOMAIN c,
                 c[l].state # "lost", c[m].state # "lost", c[l].turn = c[m].turn
          PROVE  l = m
      BY <1>4, <1>7, <3>1, <3>2 DEF Shown, OneShown
    <3>. QED  BY <1>3, <3>2 DEF OneShown
  <2>. QED  BY <2>1, <2>2, <2>3, <2>4 DEF Shown
<1>. QED  BY <1>6, <1>7 DEF CardTurns

LEMMA CardsKept ==
  ASSUME StateTypes, Begun, RunInv, TurnInv, CardInv, CardTurns, [Next]_vars
  PROVE  CardTurns' /\ (Shown /\ InOrder => Shown')
<1>1. CASE AdoptTrigger \/ Reaches \/ Tool \/ End \/ UNCHANGED vars
  <2>1. UNCHANGED <<busy, cards, cardTurn, closed, fins, requests>>
    BY <1>1 DEF AdoptTrigger, Reaches, Tool, End, turnVars, cardVars, finishVars, vars
  <2>. QED  BY <2>1, CardsCalm
<1>2. ASSUME NEW why \in Why, NEW m \in Msgs, NEW m2 \in Msgs, NEW w \in Seq(Waiter),
             Ask(why, m, TurnsAfter(m2), w),
             UNCHANGED <<busy, cards, cardTurn, closed, fins>>
      PROVE  CardTurns' /\ (Shown /\ InOrder => Shown')
  <2>1. \E q \in Request : requests' = requests \cup {q} /\ ~ Inside(q)
    BY <1>2, TurnsAfterTyped, AskTyped
  <2>. QED  BY <1>2, <2>1, CardsCalm
<1>3. CASE Handed
  <2>1. sending \in Msgs /\ waiting \in Seq(Waiter)
    BY <1>3, Ranges DEF Handed, StateTypes
  <2>. QED  BY <1>2, <1>3, <2>1 DEF Handed, cardVars, finishVars, Why
<1>4. ASSUME NEW e \in Event, NEW w \in Seq(Waiter), NEW held, Handle(e, w, held)
      PROVE  CardTurns' /\ (Shown /\ InOrder => Shown')
  <2>1. CASE Prompt(e, w)
    <3>1. UNCHANGED <<busy, cards, cardTurn, fins>>
      BY <2>1 DEF Prompt, cardVars, finishVars
    <3>2. CASE status = "busy"
      <4>1. UNCHANGED <<requests, closed>>
        BY <2>1, <3>2 DEF Prompt, turnVars
      <4>. QED  BY <3>1, <4>1, CardsCalm
    <3>3. CASE status # "busy"
      <4>1. e.run \in Msgs
        BY DEF Event
      <4>. QED  BY <1>2, <2>1, <3>1, <3>3, <4>1 DEF Prompt, Why
    <3>. QED  BY <3>2, <3>3
  <2>2. CASE PreToolUse(e, w, held)
    BY <2>2, CardsCalm DEF PreToolUse, finishVars
  <2>3. CASE Stop(e, w)
    <3>1. PICK f : f = Finishing(e)
      OBVIOUS
    <3>2. f.at # "card"
      BY <3>1 DEF Finishing
    <3>3. fins' = fins \cup {f} /\ UNCHANGED <<busy, cards, cardTurn, closed, requests>>
      BY <2>3, <3>1 DEF Stop, Finishing, cardVars
    <3>. QED  BY <3>2, <3>3, CardsCalm
  <2>. QED  BY <1>4, <2>1, <2>2, <2>3 DEF Handle
<1>5. CASE Arrives \/ LetGo
  <2>1. CASE \E e, w, held : Taken(e, mail', w) /\ held \in Nat /\ Handle(e, w, held)
    BY <1>4, <2>1 DEF Taken
  <2>2. CASE UNCHANGED <<turnVars, cardVars, finishVars, requests>>
    <3>1. UNCHANGED <<busy, cards, cardTurn, closed, fins, requests>>
      BY <2>2 DEF turnVars, cardVars, finishVars
    <3>. QED  BY <3>1, CardsCalm
  <2>. QED  BY <1>5, <2>1, <2>2, Delivered
<1>6. ASSUME NEW q \in requests, RequestStep(q)
      PROVE  CardTurns' /\ (Shown /\ InOrder => Shown')
  <2>1. CASE GateOpens(q)
    <3>1. PICK r : r = [q EXCEPT !.at = IF Locked THEN "lock" ELSE "enter"]
      OBVIOUS
    <3>2. ~ Inside(r)
      BY <3>1, MovedRequest DEF Inside
    <3>3. /\ requests' = (requests \ {q}) \cup {r}
          /\ UNCHANGED <<busy, cards, cardTurn, closed, fins>>
      BY <2>1, <3>1 DEF GateOpens, Move, cardVars, turnVars
    <3>. QED  BY <3>2, <3>3, CardsCalm
  <2>2. CASE Drop(q)
    <3>1. /\ requests' = requests \ {q}
          /\ UNCHANGED <<busy, cards, cardTurn, closed, fins>>
      BY <2>2 DEF Drop, Return, cardVars, turnVars, finishVars
    <3>. QED  BY <3>1, CardsCalm
  <2>. QED  BY <1>6, <2>1, <2>2, SendAgainCards, SupersedeCards, StartTurnCards,
               SupersededCards, SentCards DEF RequestStep
<1>7. ASSUME NEW f \in fins, FinishStep(f)
      PROVE  CardTurns' /\ (Shown /\ InOrder => Shown')
  <2>0. f \in Finish /\ \A at : [f EXCEPT !.at = at].at = at
    BY DEF StateTypes, Finish
  <2>1. CASE FinishGate(f)
    <3>1. PICK g : g = [f EXCEPT !.at = "lock"]
      OBVIOUS
    <3>2. /\ g.at # "card" /\ f.at # "card" /\ fins' = (fins \ {f}) \cup {g}
          /\ UNCHANGED <<busy, cards, cardTurn, closed, requests>>
      BY <2>0, <2>1, <3>1 DEF FinishGate, Goes, cardVars, turnVars
    <3>. QED  BY <3>2, CardsCalm
  <2>2. CASE Answered(f)
    <3>1. PICK g : g = [f EXCEPT !.at = "popping"]
      OBVIOUS
    <3>2. /\ g.at # "card" /\ f.at # "card"
          /\ fins' = fins \ {f} \/ fins' = (fins \ {f}) \cup {g}
          /\ UNCHANGED <<busy, cards, cardTurn, closed, requests>>
      BY <2>0, <2>2, <3>1 DEF Answered, Goes, cardVars, turnVars
    <3>. QED  BY <3>2, CardsCalm
  <2>3. CASE OpenPopped(f)
    <3>1. PICK q : q = [why |-> "popped", msg |-> f.popped, turn |-> f.turn + 1, gate |-> 0,
                        at |-> IF Locked THEN "lock" ELSE "enter"]
      OBVIOUS
    <3>2. ~ Inside(q)
      BY <3>1 DEF Inside
    <3>3. /\ f.at # "card" /\ fins' = fins \ {f} /\ requests' = requests \cup {q}
          /\ UNCHANGED <<busy, cards, cardTurn, closed>>
      BY <2>3, <3>1 DEF OpenPopped, cardVars, turnVars
    <3>. QED  BY <3>2, <3>3, CardsCalm
  <2>. QED  BY <1>7, <2>1, <2>2, <2>3, CloseTurnCards, SettleCardCards DEF FinishStep
<1>. QED  BY <1>1, <1>3, <1>5, <1>6, <1>7 DEF Next

-----------------------------------------------------------------------------
LEMMA OrderInit == Init => OrderInv
<1>. SUFFICES ASSUME Init PROVE OrderInv
  OBVIOUS
<1>0. Turn = 0 /\ DOMAIN cards = {} /\ DOMAIN box = {} /\ DOMAIN mail = {} /\ DOMAIN waiting = {}
  BY EmptySeq DEF Init, Turn
<1>1. RunInv
  BY <1>0 DEF Init, RunInv, Apart, Once, Ended, Fresh, OwnRun, OnWay, Known, Msgs
<1>2. TurnInv /\ CardTurns
  BY <1>0 DEF Init, TurnInv, BusyTurn, Finished, CardTurns, SlotTurn, SendTurn, InsideOpen,
              SettleNewer, ClosedShown, EditClosed, CardsOlder
<1>3. InOrder
  BY DEF Init, InOrder, Chain, GateKept, LastKept, OneNext, OneFirst, Founded, LinkTurns,
         NoneBefore, PoppedLast
<1>4. Shown
  BY <1>0 DEF Init, Shown, OwnEdit, OverClosed, FirstSend, OwnLast, OneShown
<1>. QED  BY <1>1, <1>2, <1>3, <1>4 DEF OrderInv

\* A finish given up stays given up.
LEMMA GivenUpStays ==
  ASSUME Inv, OrderInv, [Next]_vars
  PROVE  gaveUp \subseteq gaveUp'
<1>1. ASSUME NEW q \in requests, RequestStep(q) PROVE gaveUp \subseteq gaveUp'
  BY <1>1 DEF RequestStep, GateOpens, Drop, SendAgain, Supersede, StartTurn,
              Superseded, Sent, finishVars
<1>2. ASSUME NEW f \in fins, FinishStep(f) PROVE gaveUp \subseteq gaveUp'
  BY <1>2 DEF FinishStep, FinishGate, CloseTurn, SettleCard, Answered, OpenPopped
<1>3. CASE Arrives \/ LetGo
  <2>1. ASSUME NEW e, NEW w, NEW held, Handle(e, w, held) PROVE gaveUp \subseteq gaveUp'
    BY <2>1 DEF Handle, Prompt, PreToolUse, Stop, finishVars
  <2>2. UNCHANGED finishVars => gaveUp \subseteq gaveUp'
    BY DEF finishVars
  <2>. QED  BY <1>3, <2>1, <2>2, Delivered DEF Inv, OrderInv
<1>4. CASE AdoptTrigger \/ Reaches \/ Handed \/ Tool \/ End \/ UNCHANGED vars
  BY <1>4 DEF AdoptTrigger, Reaches, Handed, Tool, End, vars, finishVars
<1>. QED  BY <1>1, <1>2, <1>3, <1>4 DEF Next

\* A message spoilt stays spoilt.
LEMMA SpoiltStays ==
  ASSUME Inv, OrderInv, [Next]_vars
  PROVE  spoilt \subseteq spoilt'
<1>1. ASSUME NEW race, NEW m, Spoils(race, m) PROVE spoilt \subseteq spoilt'
  BY <1>1 DEF Spoils
<1>2. ASSUME NEW q \in requests, RequestStep(q) PROVE spoilt \subseteq spoilt'
  BY <1>2 DEF RequestStep, GateOpens, Drop, SendAgain, Supersede, StartTurn,
              Superseded, Sent
<1>3. ASSUME NEW f \in fins, FinishStep(f) PROVE spoilt \subseteq spoilt'
  BY <1>3 DEF FinishStep, FinishGate, CloseTurn, SettleCard, Answered, OpenPopped
<1>4. CASE Arrives \/ LetGo
  <2>1. ASSUME NEW e, NEW w, NEW held, Handle(e, w, held) PROVE spoilt \subseteq spoilt'
    BY <1>1, <2>1 DEF Handle, Prompt, PreToolUse, Stop
  <2>2. CASE UNCHANGED <<typed, sending, spoilt, claudeVars, turnVars, trigger, queued,
                         hold, cardVars, finishVars, requests>>
    BY <2>2
  <2>. QED  BY <1>4, <2>1, <2>2 DEF Arrives, LetGo
<1>5. CASE AdoptTrigger \/ Handed
  BY <1>1, <1>5 DEF AdoptTrigger, Handed
<1>6. CASE Reaches \/ Tool \/ End \/ UNCHANGED vars
  BY <1>6 DEF Reaches, Tool, End, vars
<1>. QED  BY <1>2, <1>3, <1>4, <1>5, <1>6 DEF Next

LEMMA OrderNext == Inv /\ OrderInv /\ [Next]_vars => OrderInv'
<1>. SUFFICES ASSUME Inv, OrderInv, [Next]_vars PROVE OrderInv'
  OBVIOUS
<1>1. RunInv' /\ TurnInv' /\ CardTurns'
  BY RunsKept, TurnsKept, CardsKept DEF Inv, OrderInv
<1>2. ASSUME gaveUp' = {} PROVE gaveUp = {}
  BY <1>2, GivenUpStays
<1>3. ASSUME gaveUp' = {} PROVE InOrder' /\ Shown'
  BY <1>2, <1>3, OrderKept, CardsKept DEF Inv, OrderInv
<1>. QED  BY <1>1, <1>3 DEF OrderInv

LEMMA OrderInvariance == Spec => [](Inv /\ OrderInv)
<1>1. Init => Inv /\ OrderInv
  BY InvInit, OrderInit
<1>2. (Inv /\ OrderInv) /\ [Next]_vars => (Inv /\ OrderInv)'
  BY InvNext, OrderNext
<1>. QED  BY <1>1, <1>2, PTL DEF Spec

\* A card's last edit is made by its own turn's finish or for its own turn
\* (TurnCards.OwnCard), unless somebody stopped waiting for a finish.
THEOREM EditsOwnCard == Spec => []OwnCard
<1>1. OrderInv => OwnCard
  BY DEF OrderInv, Shown, OwnLast, OwnCard
<1>. QED  BY <1>1, OrderInvariance, PTL

\* A turn has one card (TurnCards.OneCardPerTurn), with the same exception.
THEOREM OneCardEach == Spec => []OneCardPerTurn
<1>1. OrderInv => OneCardPerTurn
  BY DEF OrderInv, Shown, OneShown, OneCardPerTurn
<1>. QED  BY <1>1, OrderInvariance, PTL

-----------------------------------------------------------------------------
(* Claude's runs in the order of their messages.                           *)

\* The texts Claude has, and how many of its runs are over.
Reached == IF sending # 0 /\ ~ reached THEN typed - 1 ELSE typed
RunsOver == IF run = 0 THEN Reached ELSE run - 1

ClaudeLine ==
  /\ sending \in {0, typed}
  /\ run = 0 => box = <<>>
  /\ run # 0 => /\ run <= Reached /\ Len(box) = Reached - run
                /\ \A i \in DOMAIN box : box[i] = run + i

\* The prompts from P + 1 to R are on their way in the mail ml, each before
\* anything of its run.
Own(e) == e.kind # "prompt"
Prompts(ml, R, P) ==
  /\ \A i \in DOMAIN ml : ml[i].run <= R /\ (Own(ml[i]) \/ ml[i].run > P)
  /\ \A m \in P + 1 .. R : \E i \in DOMAIN ml : ~ Own(ml[i]) /\ ml[i].run = m
  /\ \A i, j \in DOMAIN ml : i < j /\ ~ Own(ml[j]) => ml[i].run < ml[j].run

\* The runs' own events are those after run S up to what Claude does now, E
\* runs being over, in their order; what waits in w is older than the mail.
Current(e, E, S) == e.run > S /\ e.run <= (IF e.kind = "stop" THEN E ELSE E + 1)
Before(d, e) == IF d.kind = "stop" THEN d.run < e.run ELSE d.run <= e.run
Hooks(ml, w, E, S, P) ==
  /\ S <= E
  /\ \A i \in DOMAIN ml : Own(ml[i]) => Current(ml[i], E, S)
  /\ \A i \in DOMAIN w :
       Own(w[i].event) /\ Current(w[i].event, E, S) /\ w[i].event.run <= P
  /\ \A i, j \in DOMAIN ml : i < j /\ Own(ml[i]) /\ Own(ml[j]) => Before(ml[i], ml[j])
  /\ \A i, j \in DOMAIN w : i < j => Before(w[i].event, w[j].event)
  /\ \A i \in DOMAIN w, j \in DOMAIN ml : Own(ml[j]) => Before(w[i].event, ml[j])
  /\ \A m \in S + 1 .. E : OnWay(m, ml, w)

\* The daemon is at the turn of run S + 1, or idle after S; the prompts it
\* has had since are its queued targets.
QueuedLine(qd, S, P) ==
  /\ Len(qd) = IF P <= S + 1 THEN 0 ELSE P - (S + 1)
  /\ \A i \in DOMAIN qd : qd[i] = S + 1 + i
AtTurn(S) == Turn = IF status = "busy" THEN S + 1 ELSE S
TurnLine(S, P) ==
  /\ S <= P /\ P <= Reached /\ AtTurn(S)
  /\ sending # 0 => S < sending
  /\ QueuedLine(queued, S, P)
  /\ IF status = "busy" THEN trigger = S + 1 /\ S + 1 <= Reached
     ELSE P = S /\ trigger <= S + 1

LineInv ==
  ClaudeLine /\ \E S, P \in 0 .. Messages :
    /\ Prompts(mail, Reached, P)
    /\ Hooks(mail, waiting, RunsOver, S, P)
    /\ TurnLine(S, P)

\* The events of the hold wait, or run, all of them.
AllFree(w) == \A i \in DOMAIN w : w[i].free
HoldLine(w) ==
  \/ AllFree(w)
  \/ /\ \A i \in DOMAIN w : ~ w[i].free /\ w[i].held = Turn
     /\ hold = Turn /\ Turn # 0 /\ status = "busy" /\ cardTurn # Turn
HeldBegun(w) == \A i \in DOMAIN w : w[i].held \in 1 .. Turn

TargetOwn == (\A f \in fins : f.target = f.run) /\ EveryAnswerUnderOwn

AnswerInv == LineInv /\ HoldLine(waiting) /\ HeldBegun(waiting) /\ TargetOwn

\* The turn of the card state, while nobody stopped waiting for a finish: it
\* is the running turn's, or that turn's hooks are held, or its card request
\* goes on at once.  A held event is let go in its turn's card state.
BusyTarget == status = "busy" =>
  Turn # 0 /\ turns[Turn] = trigger /\ closed < Turn
StateHeld == status = "busy" /\ cardTurn # Turn =>
  \/ hold = Turn
  \/ busy = 0 /\ \E q \in requests : q.at = "enter" /\ q.turn = Turn
FreeTurn(w) == \A i \in DOMAIN w :
  w[i].free /\ w[i].held = Turn /\ status = "busy" => cardTurn = Turn
NoneSettles == \A q \in requests : q.at # "settling"
RowsOfCard == \A row \in rows :
  row.stray \/ (cardTurn # 0 /\ row.run = turns[cardTurn])

RowsHeld == StateHeld /\ FreeTurn(waiting) /\ NoneSettles /\ RowsOfCard
RowInv == BusyTarget /\ (gaveUp = {} => RowsHeld)

-----------------------------------------------------------------------------
Lined(ml, w, R, E, S, P) == Prompts(ml, R, P) /\ Hooks(ml, w, E, S, P)

\* A list with one entry more, and with its first one gone.
LEMMA AtEnd ==
  ASSUME NEW T, NEW s \in Seq(T), NEW e \in T
  PROVE  \E n \in Nat :
           /\ DOMAIN s = 1 .. n /\ DOMAIN Append(s, e) = 1 .. n + 1
           /\ \A i \in 1 .. n : Append(s, e)[i] = s[i]
           /\ Append(s, e)[n + 1] = e
BY AppendProperties, LenProperties

LEMMA OldOrNew ==
  ASSUME NEW T, NEW s \in Seq(T), NEW e \in T, NEW v, v = Append(s, e)
  PROVE  \A i \in DOMAIN v : (i \in DOMAIN s /\ v[i] = s[i]) \/ v[i] = e
<1>1. PICK n \in Nat :
        /\ DOMAIN s = 1 .. n /\ DOMAIN v = 1 .. n + 1
        /\ \A i \in 1 .. n : v[i] = s[i]
        /\ v[n + 1] = e
  BY AtEnd
<1>2. \A i \in DOMAIN v : i \in DOMAIN s \/ i = n + 1
  BY <1>1
<1>. QED  BY <1>1, <1>2

LEMMA AtFront ==
  ASSUME NEW T, NEW s \in Seq(T), s # <<>>
  PROVE  \E n \in Nat :
           /\ n # 0 /\ DOMAIN s = 1 .. n /\ DOMAIN Tail(s) = 1 .. n - 1
           /\ \A i \in 1 .. n - 1 : Tail(s)[i] = s[i + 1]
           /\ Head(s) = s[1]
BY HeadTailProperties, LenProperties, EmptySeq

\* Which events there are, of which runs.
LEMMA EventRange ==
  ASSUME NEW ml \in Seq(Event), NEW w \in Seq(Waiter)
  PROVE  /\ \A i \in DOMAIN ml : ml[i].run \in Nat /\ ml[i].kind \in {"prompt", "tool", "stop"}
         /\ \A i \in DOMAIN w : w[i].event.run \in Nat
                              /\ w[i].event.kind \in {"prompt", "tool", "stop"}
<1>1. \A e \in Event : e.run \in Nat /\ e.kind \in {"prompt", "tool", "stop"}
  BY DEF Event, Msgs
<1>2. \A x \in Waiter : x.event \in Event
  BY DEF Waiter
<1>3. \A i \in DOMAIN ml : ml[i] \in Event
  BY ElementOfSeq, LenProperties
<1>4. \A i \in DOMAIN w : w[i] \in Waiter
  BY ElementOfSeq, LenProperties
<1>. QED  BY <1>1, <1>2, <1>3, <1>4

\* A prompt reaches Claude.
LEMMA PromptSent ==
  ASSUME NEW ml \in Seq(Event), NEW w \in Seq(Waiter),
         NEW R \in Nat, NEW E \in Nat, NEW S \in Nat, NEW P \in Nat,
         Lined(ml, w, R, E, S, P), P <= R,
         NEW e \in Event, e.kind = "prompt", e.run = R + 1
  PROVE  Lined(Append(ml, e), w, R + 1, E, S, P)
<1>0. PICK a : a = Append(ml, e)
  OBVIOUS
<1>1. PICK n \in Nat :
        /\ DOMAIN ml = 1 .. n /\ DOMAIN a = 1 .. n + 1
        /\ \A i \in 1 .. n : a[i] = ml[i]
        /\ a[n + 1] = e
  <2>1. \E n \in Nat :
          /\ DOMAIN ml = 1 .. n /\ DOMAIN Append(ml, e) = 1 .. n + 1
          /\ \A i \in 1 .. n : Append(ml, e)[i] = ml[i]
          /\ Append(ml, e)[n + 1] = e
    BY AtEnd
  <2>. QED  BY <1>0, <2>1
<1>2. \A i \in DOMAIN a : (i \in DOMAIN ml /\ a[i] = ml[i]) \/ (i = n + 1 /\ a[i] = e)
  BY <1>1
<1>3. \A i \in DOMAIN ml : i \in DOMAIN a /\ a[i] = ml[i] /\ ~ (n + 1 < i)
  BY <1>1
<1>4. ~ Own(e) /\ n + 1 \in DOMAIN a
  BY <1>1 DEF Own
<1>5. \A i \in DOMAIN ml : ml[i].run \in Nat
  BY EventRange
<1>6. Prompts(a, R + 1, P)
  <2>1. \A i \in DOMAIN a : a[i].run <= R + 1 /\ (Own(a[i]) \/ a[i].run > P)
    BY <1>2, <1>5 DEF Lined, Prompts
  <2>2. \A m \in P + 1 .. R + 1 : \E i \in DOMAIN a : ~ Own(a[i]) /\ a[i].run = m
    <3>1. \A m \in P + 1 .. R + 1 : m \in P + 1 .. R \/ m = R + 1
      OBVIOUS
    <3>. QED  BY <1>1, <1>3, <1>4, <3>1 DEF Lined, Prompts
  <2>3. \A i, j \in DOMAIN a : i < j /\ ~ Own(a[j]) => a[i].run < a[j].run
    <3>1. \A i \in DOMAIN ml : ml[i].run < e.run
      BY <1>5 DEF Lined, Prompts
    <3>. QED  BY <1>1, <1>2, <1>3, <3>1 DEF Lined, Prompts
  <2>. QED  BY <2>1, <2>2, <2>3 DEF Prompts
<1>7. Hooks(a, w, E, S, P)
  <2>1. \A m : OnWay(m, ml, w) => OnWay(m, a, w)
    BY <1>3 DEF OnWay
  <2>. QED  BY <1>2, <1>4, <2>1 DEF Lined, Hooks
<1>. QED  BY <1>0, <1>6, <1>7 DEF Lined

\* Claude runs a tool, or ends its run: E2 runs are over.
LEMMA OwnSent ==
  ASSUME NEW ml \in Seq(Event), NEW w \in Seq(Waiter),
         NEW R \in Nat, NEW E \in Nat, NEW S \in Nat, NEW P \in Nat,
         Lined(ml, w, R, E, S, P), E + 1 <= R,
         NEW e \in Event, Own(e), e.run = E + 1,
         NEW E2, E2 = IF e.kind = "stop" THEN E + 1 ELSE E
  PROVE  Lined(Append(ml, e), w, R, E2, S, P)
<1>0. PICK a : a = Append(ml, e)
  OBVIOUS
<1>1. PICK n \in Nat :
        /\ DOMAIN ml = 1 .. n /\ DOMAIN a = 1 .. n + 1
        /\ \A i \in 1 .. n : a[i] = ml[i]
        /\ a[n + 1] = e
  <2>1. \E n \in Nat :
          /\ DOMAIN ml = 1 .. n /\ DOMAIN Append(ml, e) = 1 .. n + 1
          /\ \A i \in 1 .. n : Append(ml, e)[i] = ml[i]
          /\ Append(ml, e)[n + 1] = e
    BY AtEnd
  <2>. QED  BY <1>0, <2>1
<1>2. \A i \in DOMAIN a : (i \in DOMAIN ml /\ a[i] = ml[i]) \/ (i = n + 1 /\ a[i] = e)
  BY <1>1
<1>3. \A i \in DOMAIN ml : i \in DOMAIN a /\ a[i] = ml[i] /\ ~ (n + 1 < i)
  BY <1>1
<1>4. n + 1 \in DOMAIN a /\ e.kind \in {"tool", "stop"}
  BY <1>1 DEF Own, Event
<1>5. /\ \A i \in DOMAIN ml : ml[i].run \in Nat
      /\ \A i \in DOMAIN w : w[i].event.run \in Nat
  BY EventRange
<1>6. Prompts(a, R, P)
  <2>1. \A i \in DOMAIN a : a[i].run <= R /\ (Own(a[i]) \/ a[i].run > P)
    BY <1>2, <1>5 DEF Lined, Prompts
  <2>2. \A m \in P + 1 .. R : \E i \in DOMAIN a : ~ Own(a[i]) /\ a[i].run = m
    BY <1>3 DEF Lined, Prompts
  <2>3. \A i, j \in DOMAIN a : i < j /\ ~ Own(a[j]) => a[i].run < a[j].run
    BY <1>1, <1>2, <1>3 DEF Lined, Prompts
  <2>. QED  BY <2>1, <2>2, <2>3 DEF Prompts
<1>7. \A d : Current(d, E, S) /\ d.run \in Nat => Current(d, E2, S) /\ Before(d, e)
  BY DEF Current, Before
<1>8. S <= E /\ S <= E2 /\ Current(e, E2, S)
  <2>1. S <= E
    BY DEF Lined, Hooks
  <2>. QED  BY <2>1 DEF Current
<1>9. Hooks(a, w, E2, S, P)
  <2>1. \A m \in S + 1 .. E2 : OnWay(m, a, w)
    <3>1. \A m \in S + 1 .. E2 : m \in S + 1 .. E \/ (m = e.run /\ e.kind = "stop")
      OBVIOUS
    <3>2. \A m : OnWay(m, ml, w) => OnWay(m, a, w)
      BY <1>3 DEF OnWay
    <3>3. e.kind = "stop" => OnWay(e.run, a, w)
      BY <1>1, <1>4 DEF OnWay
    <3>. QED  BY <3>1, <3>2, <3>3 DEF Lined, Hooks
  <2>2. \A i \in DOMAIN a : Own(a[i]) => Current(a[i], E2, S)
    BY <1>2, <1>5, <1>7, <1>8 DEF Lined, Hooks
  <2>3. \A i \in DOMAIN w :
          Own(w[i].event) /\ Current(w[i].event, E2, S) /\ w[i].event.run <= P
    BY <1>5, <1>7 DEF Lined, Hooks
  <2>4. \A i, j \in DOMAIN a : i < j /\ Own(a[i]) /\ Own(a[j]) => Before(a[i], a[j])
    <3>1. ASSUME NEW i \in DOMAIN a, NEW j \in DOMAIN a, i < j, Own(a[i]), Own(a[j])
          PROVE  Before(a[i], a[j])
      <4>1. i \in DOMAIN ml /\ a[i] = ml[i]
        BY <1>1, <3>1
      <4>2. CASE j \in DOMAIN ml
        BY <1>3, <3>1, <4>1, <4>2 DEF Lined, Hooks
      <4>3. CASE j = n + 1
        BY <1>1, <1>5, <1>7, <3>1, <4>1, <4>3 DEF Lined, Hooks
      <4>. QED  BY <1>2, <4>2, <4>3
    <3>. QED  BY <3>1
  <2>5. \A i \in DOMAIN w, j \in DOMAIN a : Own(a[j]) => Before(w[i].event, a[j])
    BY <1>2, <1>5, <1>7 DEF Lined, Hooks
  <2>6. \A i, j \in DOMAIN w : i < j => Before(w[i].event, w[j].event)
    BY DEF Lined, Hooks
  <2>. QED  BY <1>8, <2>1, <2>2, <2>3, <2>4, <2>5, <2>6 DEF Hooks
<1>. QED  BY <1>0, <1>6, <1>9 DEF Lined

\* The mail's first event is the next prompt, or one of a run whose prompt
\* the daemon has had.
LEMMA FirstMail ==
  ASSUME NEW ml \in Seq(Event), NEW w \in Seq(Waiter), ml # <<>>,
         NEW R \in Nat, NEW E \in Nat, NEW S \in Nat, NEW P \in Nat,
         Lined(ml, w, R, E, S, P)
  PROVE  /\ Head(ml).run \in Nat /\ Head(ml).run <= R
         /\ ~ Own(Head(ml)) => Head(ml).run = P + 1
         /\ Own(Head(ml)) => S < Head(ml).run /\ Head(ml).run <= P
         /\ Own(Head(ml)) /\ w = <<>> => Head(ml).run = S + 1
<1>0. PICK e : e = Head(ml)
  OBVIOUS
<1>1. PICK n \in Nat : n # 0 /\ DOMAIN ml = 1 .. n /\ e = ml[1]
  BY <1>0, AtFront
<1>2. \A i \in DOMAIN ml : ml[i].run \in Nat /\ (i = 1 \/ 1 < i)
  BY <1>1, EventRange
<1>3. 1 \in DOMAIN ml /\ e.run \in Nat /\ e.run <= R
  BY <1>1, <1>2 DEF Lined, Prompts
<1>4. ASSUME ~ Own(e) PROVE e.run = P + 1
  <2>1. e.run > P /\ P + 1 \in P + 1 .. R
    BY <1>1, <1>3, <1>4 DEF Lined, Prompts
  <2>2. PICK i \in DOMAIN ml : ~ Own(ml[i]) /\ ml[i].run = P + 1
    BY <2>1 DEF Lined, Prompts
  <2>3. CASE i = 1
    BY <1>1, <2>2, <2>3
  <2>4. CASE 1 < i
    <3>1. e.run < P + 1
      BY <1>1, <1>3, <2>2, <2>4 DEF Lined, Prompts
    <3>. QED  BY <1>3, <2>1, <3>1
  <2>. QED  BY <1>2, <2>3, <2>4
<1>5. ASSUME Own(e) PROVE S < e.run /\ e.run <= P
  <2>1. S < e.run
    BY <1>1, <1>3, <1>5 DEF Lined, Hooks, Current
  <2>2. ASSUME P < e.run PROVE FALSE
    <3>1. e.run \in P + 1 .. R
      BY <1>3, <2>2
    <3>2. PICK i \in DOMAIN ml : ~ Own(ml[i]) /\ ml[i].run = e.run
      BY <3>1 DEF Lined, Prompts
    <3>3. 1 < i
      BY <1>1, <1>2, <1>5, <3>2
    <3>4. e.run < e.run
      BY <1>1, <1>3, <3>2, <3>3 DEF Lined, Prompts
    <3>. QED  BY <1>3, <3>4
  <2>. QED  BY <1>3, <2>1, <2>2
<1>6. ASSUME Own(e), w = <<>> PROVE e.run = S + 1
  <2>1. ASSUME S + 1 < e.run PROVE FALSE
    <3>1. S + 1 \in S + 1 .. E /\ DOMAIN w = {}
      BY <1>1, <1>3, <1>6, <2>1 DEF Lined, Hooks, Current
    <3>2. PICK i \in DOMAIN ml : ml[i].kind = "stop" /\ ml[i].run = S + 1
      BY <3>1 DEF Lined, Hooks, OnWay
    <3>3. 1 < i /\ Own(ml[i])
      BY <1>1, <1>2, <1>3, <2>1, <3>2 DEF Own
    <3>4. Before(e, ml[i])
      BY <1>1, <1>3, <1>6, <3>3 DEF Lined, Hooks
    <3>. QED  BY <1>3, <2>1, <3>2, <3>4 DEF Before
  <2>. QED  BY <1>3, <1>5, <1>6, <2>1
<1>. QED  BY <1>0, <1>3, <1>4, <1>5, <1>6

\* So is the first held event, of the run the daemon is at.
LEMMA FirstHeld ==
  ASSUME NEW ml \in Seq(Event), NEW w \in Seq(Waiter), w # <<>>,
         NEW R \in Nat, NEW E \in Nat, NEW S \in Nat, NEW P \in Nat,
         Lined(ml, w, R, E, S, P)
  PROVE  /\ Own(Head(w).event) /\ Head(w).event.run = S + 1 /\ S + 1 <= P
<1>0. PICK e : e = Head(w).event
  OBVIOUS
<1>1. PICK n \in Nat : n # 0 /\ DOMAIN w = 1 .. n /\ e = w[1].event
  BY <1>0, AtFront
<1>2. /\ \A i \in DOMAIN w : w[i].event.run \in Nat /\ (i = 1 \/ 1 < i)
      /\ \A i \in DOMAIN ml : ml[i].run \in Nat
  BY <1>1, EventRange
<1>3. /\ 1 \in DOMAIN w /\ e.run \in Nat /\ Own(e) /\ e.run <= P /\ S < e.run
      /\ e.run <= E + 1
  BY <1>1, <1>2 DEF Lined, Hooks, Current
<1>4. ASSUME S + 1 < e.run PROVE FALSE
  <2>1. S + 1 \in S + 1 .. E
    BY <1>3, <1>4
  <2>2. OnWay(S + 1, ml, w)
    BY <2>1 DEF Lined, Hooks
  <2>3. CASE \E i \in DOMAIN w : w[i].event.kind = "stop" /\ w[i].event.run = S + 1
    <3>1. PICK i \in DOMAIN w : w[i].event.kind = "stop" /\ w[i].event.run = S + 1
      BY <2>3
    <3>2. 1 < i
      BY <1>1, <1>2, <1>3, <1>4, <3>1
    <3>3. Before(e, w[i].event)
      BY <1>1, <1>3, <3>2 DEF Lined, Hooks
    <3>. QED  BY <1>3, <1>4, <3>1, <3>3 DEF Before
  <2>4. CASE \E i \in DOMAIN ml : ml[i].kind = "stop" /\ ml[i].run = S + 1
    <3>1. PICK i \in DOMAIN ml : ml[i].kind = "stop" /\ ml[i].run = S + 1
      BY <2>4
    <3>2. Before(e, ml[i])
      BY <1>1, <1>3, <3>1 DEF Lined, Hooks, Own
    <3>. QED  BY <1>3, <1>4, <3>1, <3>2 DEF Before
  <2>. QED  BY <2>2, <2>3, <2>4 DEF OnWay
<1>. QED  BY <1>0, <1>3, <1>4

\* The mail goes on without its first event: a prompt taken, ...
LEMMA PromptTaken ==
  ASSUME NEW ml \in Seq(Event), NEW w \in Seq(Waiter), ml # <<>>,
         NEW R \in Nat, NEW E \in Nat, NEW S \in Nat, NEW P \in Nat,
         Lined(ml, w, R, E, S, P), ~ Own(Head(ml))
  PROVE  Lined(Tail(ml), w, R, E, S, P + 1)
<1>0. PICK e, a : e = Head(ml) /\ a = Tail(ml)
  OBVIOUS
<1>1. PICK n \in Nat :
        /\ n # 0 /\ DOMAIN ml = 1 .. n /\ DOMAIN a = 1 .. n - 1
        /\ \A i \in 1 .. n - 1 : a[i] = ml[i + 1]
        /\ e = ml[1]
  BY <1>0, AtFront
<1>2. /\ \A i \in DOMAIN a : i + 1 \in DOMAIN ml /\ a[i] = ml[i + 1] /\ 1 < i + 1
      /\ \A i, j \in DOMAIN a : i < j => i + 1 < j + 1
      /\ \A i \in DOMAIN ml : i = 1 \/ (i - 1 \in DOMAIN a /\ a[i - 1] = ml[i])
      /\ 1 \in DOMAIN ml
  BY <1>1
<1>3. e.run = P + 1 /\ ~ Own(e)
  BY <1>0, FirstMail
<1>4. /\ \A i \in DOMAIN ml : ml[i].run \in Nat
      /\ \A i \in DOMAIN w : w[i].event.run \in Nat
  BY EventRange
<1>5. Prompts(a, R, P + 1)
  <2>1. \A i \in DOMAIN a : a[i].run <= R /\ (Own(a[i]) \/ a[i].run > P + 1)
    <3>1. \A i \in DOMAIN a : a[i].run <= R /\ (Own(a[i]) \/ e.run < a[i].run)
      BY <1>1, <1>2 DEF Lined, Prompts
    <3>. QED  BY <1>2, <1>3, <1>4, <3>1
  <2>2. \A m \in P + 1 + 1 .. R : \E i \in DOMAIN a : ~ Own(a[i]) /\ a[i].run = m
    <3>1. \A m \in P + 1 + 1 .. R : m \in P + 1 .. R /\ m # e.run
      BY <1>3
    <3>2. \A m \in P + 1 .. R : \E i \in DOMAIN ml : ~ Own(ml[i]) /\ ml[i].run = m
      BY DEF Lined, Prompts
    <3>3. ASSUME NEW m \in P + 1 + 1 .. R
          PROVE  \E i \in DOMAIN a : ~ Own(a[i]) /\ a[i].run = m
      <4>1. PICK i \in DOMAIN ml : ~ Own(ml[i]) /\ ml[i].run = m
        BY <3>1, <3>2
      <4>2. i # 1
        BY <1>1, <3>1, <4>1
      <4>3. i - 1 \in DOMAIN a /\ a[i - 1] = ml[i]
        BY <1>2, <4>2
      <4>. QED  BY <4>1, <4>3
    <3>. QED  BY <3>3
  <2>3. \A i, j \in DOMAIN a : i < j /\ ~ Own(a[j]) => a[i].run < a[j].run
    BY <1>2 DEF Lined, Prompts
  <2>. QED  BY <2>1, <2>2, <2>3 DEF Prompts
<1>6. Hooks(a, w, E, S, P + 1)
  <2>1. \A m : OnWay(m, ml, w) => OnWay(m, a, w)
    <3>1. e.kind # "stop"
      BY <1>3 DEF Own
    <3>. QED  BY <1>1, <1>2, <3>1 DEF OnWay
  <2>2. \A i \in DOMAIN w : w[i].event.run <= P + 1
    BY <1>4 DEF Lined, Hooks
  <2>3. \A i, j \in DOMAIN a : i < j /\ Own(a[i]) /\ Own(a[j]) => Before(a[i], a[j])
    BY <1>2 DEF Lined, Hooks
  <2>4. /\ \A i \in DOMAIN a : Own(a[i]) => Current(a[i], E, S)
        /\ \A i \in DOMAIN w, j \in DOMAIN a : Own(a[j]) => Before(w[i].event, a[j])
    BY <1>2 DEF Lined, Hooks
  <2>. QED  BY <2>1, <2>2, <2>3, <2>4 DEF Lined, Hooks
<1>. QED  BY <1>0, <1>5, <1>6 DEF Lined

\* ... or a hook's event, E's own: its run is over for the daemon, S2, when
\* it is the Stop.
LEMMA OwnTaken ==
  ASSUME NEW ml \in Seq(Event), NEW w \in Seq(Waiter), ml # <<>>, w = <<>>,
         NEW R \in Nat, NEW E \in Nat, NEW S \in Nat, NEW P \in Nat,
         Lined(ml, w, R, E, S, P), Own(Head(ml)),
         NEW S2, S2 = IF Head(ml).kind = "stop" THEN S + 1 ELSE S
  PROVE  Lined(Tail(ml), w, R, E, S2, P)
<1>0. PICK e, a : e = Head(ml) /\ a = Tail(ml)
  OBVIOUS
<1>1. PICK n \in Nat :
        /\ n # 0 /\ DOMAIN ml = 1 .. n /\ DOMAIN a = 1 .. n - 1
        /\ \A i \in 1 .. n - 1 : a[i] = ml[i + 1]
        /\ e = ml[1]
  BY <1>0, AtFront
<1>2. /\ \A i \in DOMAIN a : i + 1 \in DOMAIN ml /\ a[i] = ml[i + 1] /\ 1 < i + 1
      /\ \A i, j \in DOMAIN a : i < j => i + 1 < j + 1
      /\ \A i \in DOMAIN ml : i = 1 \/ (i - 1 \in DOMAIN a /\ a[i - 1] = ml[i])
      /\ 1 \in DOMAIN ml
  BY <1>1
<1>3. e.run = S + 1 /\ Own(e) /\ DOMAIN w = {}
  <2>1. DOMAIN w = {}
    BY EmptySeq
  <2>2. Own(e) /\ e.run = S + 1
    BY <1>0, FirstMail, Zenon
  <2>. QED  BY <2>1, <2>2
<1>4. \A i \in DOMAIN ml : ml[i].run \in Nat
  BY EventRange
<1>5. Prompts(a, R, P)
  <2>1. \A i \in DOMAIN a : a[i].run <= R /\ (Own(a[i]) \/ a[i].run > P)
    BY <1>2 DEF Lined, Prompts
  <2>2. ASSUME NEW m \in P + 1 .. R
        PROVE  \E i \in DOMAIN a : ~ Own(a[i]) /\ a[i].run = m
    <3>1. PICK i \in DOMAIN ml : ~ Own(ml[i]) /\ ml[i].run = m
      BY DEF Lined, Prompts
    <3>2. i # 1
      BY <1>1, <1>3, <3>1
    <3>3. i - 1 \in DOMAIN a /\ a[i - 1] = ml[i]
      BY <1>2, <3>2
    <3>. QED  BY <3>1, <3>3
  <2>3. \A i, j \in DOMAIN a : i < j /\ ~ Own(a[j]) => a[i].run < a[j].run
    BY <1>2 DEF Lined, Prompts
  <2>. QED  BY <2>1, <2>2, <2>3 DEF Prompts
<1>6. Hooks(a, w, E, S2, P)
  <2>1. S2 \in Nat /\ S2 <= E /\ S <= S2
    BY <1>0, <1>1, <1>2, <1>3 DEF Lined, Hooks, Current
  <2>2. ASSUME NEW i \in DOMAIN a, Own(a[i]) PROVE Current(a[i], E, S2)
    <3>1. Before(e, ml[i + 1]) /\ Current(ml[i + 1], E, S) /\ ml[i + 1].run \in Nat
      BY <1>1, <1>2, <1>3, <1>4, <2>2 DEF Lined, Hooks
    <3>. QED  BY <1>0, <1>2, <1>3, <3>1 DEF Current, Before
  <2>3. \A i, j \in DOMAIN a : i < j /\ Own(a[i]) /\ Own(a[j]) => Before(a[i], a[j])
    BY <1>2 DEF Lined, Hooks
  <2>4. ASSUME NEW m \in S2 + 1 .. E PROVE OnWay(m, a, w)
    <3>1. m \in S + 1 .. E /\ ~ (e.kind = "stop" /\ m = e.run)
      BY <1>0, <1>3, <2>1
    <3>2. OnWay(m, ml, w)
      BY <3>1 DEF Lined, Hooks
    <3>. QED  BY <1>1, <1>2, <1>3, <3>1, <3>2 DEF OnWay
  <2>. QED  BY <1>3, <2>1, <2>2, <2>3, <2>4 DEF Hooks
<1>. QED  BY <1>0, <1>5, <1>6 DEF Lined

LEMMA HeldLetGo ==
  ASSUME NEW ml \in Seq(Event), NEW w \in Seq(Waiter), w # <<>>,
         NEW R \in Nat, NEW E \in Nat, NEW S \in Nat, NEW P \in Nat,
         Lined(ml, w, R, E, S, P),
         NEW S2, S2 = IF Head(w).event.kind = "stop" THEN S + 1 ELSE S
  PROVE  Lined(ml, Tail(w), R, E, S2, P)
<1>0. PICK e, a : e = Head(w).event /\ a = Tail(w)
  OBVIOUS
<1>1. PICK n \in Nat :
        /\ n # 0 /\ DOMAIN w = 1 .. n /\ DOMAIN a = 1 .. n - 1
        /\ \A i \in 1 .. n - 1 : a[i] = w[i + 1]
        /\ e = w[1].event
  BY <1>0, AtFront
<1>2. /\ \A i \in DOMAIN a : i + 1 \in DOMAIN w /\ a[i] = w[i + 1] /\ 1 < i + 1
      /\ \A i, j \in DOMAIN a : i < j => i + 1 < j + 1
      /\ \A i \in DOMAIN w : i = 1 \/ (i - 1 \in DOMAIN a /\ a[i - 1] = w[i])
      /\ 1 \in DOMAIN w
  BY <1>1
<1>3. e.run = S + 1 /\ Own(e)
  BY <1>0, FirstHeld
<1>4. /\ \A i \in DOMAIN ml : ml[i].run \in Nat
      /\ \A i \in DOMAIN w : w[i].event.run \in Nat
  BY EventRange
<1>5. S2 \in Nat /\ S2 <= E /\ S <= S2
  BY <1>0, <1>1, <1>2, <1>3 DEF Lined, Hooks, Current
<1>6. \A d : Current(d, E, S) /\ d.run \in Nat /\ Before(e, d) => Current(d, E, S2)
  BY <1>0, <1>3 DEF Current, Before
<1>7. ASSUME NEW m \in S2 + 1 .. E PROVE OnWay(m, ml, a)
  <2>1. m \in S + 1 .. E /\ ~ (e.kind = "stop" /\ m = e.run)
    BY <1>0, <1>3, <1>5
  <2>2. OnWay(m, ml, w)
    BY <2>1 DEF Lined, Hooks
  <2>. QED  BY <1>1, <1>2, <2>1, <2>2 DEF OnWay
<1>8. /\ \A i \in DOMAIN ml : Own(ml[i]) => Current(ml[i], E, S2)
      /\ \A i \in DOMAIN a :
           Own(a[i].event) /\ Current(a[i].event, E, S2) /\ a[i].event.run <= P
  <2>1. ASSUME NEW i \in DOMAIN ml, Own(ml[i]) PROVE Current(ml[i], E, S2)
    BY <1>1, <1>2, <1>4, <1>6, <2>1 DEF Lined, Hooks
  <2>2. ASSUME NEW i \in DOMAIN a
        PROVE  Own(a[i].event) /\ Current(a[i].event, E, S2) /\ a[i].event.run <= P
    <3>1. /\ Own(w[i + 1].event) /\ Current(w[i + 1].event, E, S)
          /\ w[i + 1].event.run <= P /\ Before(e, w[i + 1].event)
          /\ w[i + 1].event.run \in Nat
      BY <1>1, <1>2, <1>4 DEF Lined, Hooks
    <3>. QED  BY <1>2, <1>6, <3>1
  <2>. QED  BY <2>1, <2>2
<1>9. /\ \A i, j \in DOMAIN a : i < j => Before(a[i].event, a[j].event)
      /\ \A i \in DOMAIN a, j \in DOMAIN ml : Own(ml[j]) => Before(a[i].event, ml[j])
  BY <1>2 DEF Lined, Hooks
<1>10. \A i, j \in DOMAIN ml : i < j /\ Own(ml[i]) /\ Own(ml[j]) => Before(ml[i], ml[j])
  BY DEF Lined, Hooks
<1>11. Hooks(ml, a, E, S2, P)
  BY <1>5, <1>7, <1>8, <1>9, <1>10 DEF Hooks
<1>. QED  BY <1>0, <1>11 DEF Lined

\* An event of the mail is held.
LEMMA OwnHeld ==
  ASSUME NEW ml \in Seq(Event), NEW w \in Seq(Waiter), ml # <<>>,
         NEW R \in Nat, NEW E \in Nat, NEW S \in Nat, NEW P \in Nat,
         Lined(ml, w, R, E, S, P), Own(Head(ml)),
         NEW x \in Waiter, x.event = Head(ml)
  PROVE  Lined(Tail(ml), Append(w, x), R, E, S, P)
<1>0. PICK e, a, v : e = Head(ml) /\ a = Tail(ml) /\ v = Append(w, x)
  OBVIOUS
<1>1. PICK n \in Nat :
        /\ n # 0 /\ DOMAIN ml = 1 .. n /\ DOMAIN a = 1 .. n - 1
        /\ \A i \in 1 .. n - 1 : a[i] = ml[i + 1]
        /\ e = ml[1]
  BY <1>0, AtFront
<1>2. /\ \A i \in DOMAIN a : i + 1 \in DOMAIN ml /\ a[i] = ml[i + 1] /\ 1 < i + 1
      /\ \A i, j \in DOMAIN a : i < j => i + 1 < j + 1
      /\ \A i \in DOMAIN ml : i = 1 \/ (i - 1 \in DOMAIN a /\ a[i - 1] = ml[i])
      /\ 1 \in DOMAIN ml
  BY <1>1
<1>3. PICK k \in Nat :
        /\ DOMAIN w = 1 .. k /\ DOMAIN v = 1 .. k + 1
        /\ \A i \in 1 .. k : v[i] = w[i]
        /\ v[k + 1] = x
  <2>1. \E k \in Nat :
          /\ DOMAIN w = 1 .. k /\ DOMAIN Append(w, x) = 1 .. k + 1
          /\ \A i \in 1 .. k : Append(w, x)[i] = w[i]
          /\ Append(w, x)[k + 1] = x
    BY AtEnd
  <2>. QED  BY <1>0, <2>1
<1>4. /\ \A i \in DOMAIN v : (i \in DOMAIN w /\ v[i] = w[i]) \/ (i = k + 1 /\ v[i] = x)
      /\ \A i \in DOMAIN w : i \in DOMAIN v /\ v[i] = w[i] /\ ~ (k + 1 < i)
      /\ k + 1 \in DOMAIN v /\ ~ (k + 1 < k + 1)
  BY <1>3
<1>5. Own(e) /\ e.run <= P /\ e.run \in Nat /\ x.event = e
  BY <1>0, FirstMail
<1>6. Prompts(a, R, P)
  <2>1. \A i \in DOMAIN a : a[i].run <= R /\ (Own(a[i]) \/ a[i].run > P)
    BY <1>2 DEF Lined, Prompts
  <2>2. \A m \in P + 1 .. R : \E i \in DOMAIN a : ~ Own(a[i]) /\ a[i].run = m
    <3>1. \A m \in P + 1 .. R : \E i \in DOMAIN ml : i # 1 /\ ~ Own(ml[i]) /\ ml[i].run = m
      BY <1>1, <1>5 DEF Lined, Prompts
    <3>. QED  BY <1>2, <3>1
  <2>3. \A i, j \in DOMAIN a : i < j /\ ~ Own(a[j]) => a[i].run < a[j].run
    BY <1>2 DEF Lined, Prompts
  <2>. QED  BY <2>1, <2>2, <2>3 DEF Prompts
<1>7. Hooks(a, v, E, S, P)
  <2>1. /\ \A i \in DOMAIN a : Own(a[i]) => Current(a[i], E, S) /\ Before(e, a[i])
        /\ Current(e, E, S) /\ S <= E
    BY <1>1, <1>2, <1>5 DEF Lined, Hooks
  <2>2. \A i \in DOMAIN v :
          Own(v[i].event) /\ Current(v[i].event, E, S) /\ v[i].event.run <= P
    BY <1>4, <1>5, <2>1 DEF Lined, Hooks
  <2>3. \A i, j \in DOMAIN a : i < j /\ Own(a[i]) /\ Own(a[j]) => Before(a[i], a[j])
    BY <1>2 DEF Lined, Hooks
  <2>4. \A i \in DOMAIN w : Before(w[i].event, e)
    BY <1>1, <1>2, <1>5 DEF Lined, Hooks
  <2>5. ASSUME NEW i \in DOMAIN v, NEW j \in DOMAIN v, i < j
        PROVE  Before(v[i].event, v[j].event)
    <3>1. i \in DOMAIN w /\ v[i] = w[i]
      BY <1>3, <2>5
    <3>2. CASE j \in DOMAIN w
      BY <1>4, <2>5, <3>1, <3>2 DEF Lined, Hooks
    <3>3. CASE j = k + 1
      BY <1>3, <1>5, <2>4, <3>1, <3>3
    <3>. QED  BY <1>4, <3>2, <3>3
  <2>6. \A i \in DOMAIN v, j \in DOMAIN a : Own(a[j]) => Before(v[i].event, a[j])
    <3>1. \A i \in DOMAIN w, j \in DOMAIN a : Own(a[j]) => Before(w[i].event, a[j])
      BY <1>2 DEF Lined, Hooks
    <3>. QED  BY <1>4, <1>5, <2>1, <3>1
  <2>7. ASSUME NEW m \in S + 1 .. E PROVE OnWay(m, a, v)
    <3>1. CASE \E i \in DOMAIN w : w[i].event.kind = "stop" /\ w[i].event.run = m
      BY <1>4, <3>1 DEF OnWay
    <3>2. CASE \E i \in DOMAIN ml : ml[i].kind = "stop" /\ ml[i].run = m
      <4>1. PICK i \in DOMAIN ml : ml[i].kind = "stop" /\ ml[i].run = m
        BY <3>2
      <4>2. CASE i = 1
        BY <1>1, <1>3, <1>4, <1>5, <4>1, <4>2 DEF OnWay
      <4>3. CASE i # 1
        BY <1>2, <4>1, <4>3 DEF OnWay
      <4>. QED  BY <4>2, <4>3
    <3>. QED  BY <3>1, <3>2 DEF Lined, Hooks, OnWay
  <2>. QED  BY <2>1, <2>2, <2>3, <2>5, <2>6, <2>7 DEF Hooks
<1>. QED  BY <1>0, <1>6, <1>7 DEF Lined

\* Letting events go leaves them in line.
LEMMA SameLine ==
  ASSUME NEW ml, NEW w, NEW v, SameEvents(w, v),
         NEW R, NEW E, NEW S, NEW P, Lined(ml, w, R, E, S, P)
  PROVE  Lined(ml, v, R, E, S, P)
<1>1. \A m : OnWay(m, ml, w) => OnWay(m, ml, v)
  BY DEF SameEvents, OnWay
<1>2. Hooks(ml, v, E, S, P)
  BY <1>1 DEF Lined, Hooks, SameEvents
<1>. QED  BY <1>2 DEF Lined

-----------------------------------------------------------------------------
(* The daemon keeps to the line.                                           *)

LEMMA LineRanges ==
  ASSUME StateTypes, ClaudeLine
  PROVE  /\ Reached \in 0 .. Messages /\ RunsOver \in Nat /\ RunsOver <= Reached
         /\ typed \in Nat /\ sending \in Nat /\ run \in Nat /\ trigger \in Nat
         /\ mail \in Seq(Event) /\ waiting \in Seq(Waiter)
         /\ sending # 0 => sending = typed /\ sending \in Msgs
         /\ run # 0 => RunsOver + 1 = run /\ run <= Reached /\ run \in Msgs
<1>1. /\ typed \in 0 .. Messages /\ sending \in 0 .. Messages /\ run \in 0 .. Messages
      /\ trigger \in 0 .. Messages /\ reached \in BOOLEAN /\ Messages \in Nat
  BY MessagesAssumption DEF StateTypes
<1>2. typed \in Nat /\ sending \in Nat /\ run \in Nat /\ trigger \in Nat
  BY <1>1
<1>3. Reached \in 0 .. Messages
  BY <1>1 DEF ClaudeLine, Reached
<1>4. RunsOver \in Nat /\ RunsOver <= Reached
  BY <1>2, <1>3 DEF ClaudeLine, RunsOver
<1>5. (sending # 0 => sending = typed) /\ (run # 0 => RunsOver + 1 = run /\ run <= Reached)
  BY <1>2 DEF ClaudeLine, RunsOver
<1>7. (sending # 0 => sending \in Msgs) /\ (run # 0 => run \in Msgs)
  BY <1>1 DEF Msgs
<1>6. mail \in Seq(Event) /\ waiting \in Seq(Waiter)
  BY DEF StateTypes
<1>. QED  BY <1>2, <1>3, <1>4, <1>5, <1>6, <1>7

LEMMA LineAfter ==
  ASSUME StateTypes', ClaudeLine', NEW S \in Nat, NEW P \in Nat,
         NEW ml, NEW w, NEW R, NEW E,
         ml = mail', w = waiting', R = Reached', E = RunsOver',
         Lined(ml, w, R, E, S, P), TurnLine(S, P)'
  PROVE  LineInv'
<1>1. typed' \in 0 .. Messages /\ Messages \in Nat
  BY MessagesAssumption DEF StateTypes
<1>2. Reached' <= Messages /\ Reached' \in Int
  <2>1. Reached' = typed' - 1 \/ Reached' = typed'
    BY DEF Reached
  <2>. QED  BY <1>1, <2>1
<1>3. S <= P /\ P <= Reached'
  BY DEF TurnLine
<1>4. S \in 0 .. Messages /\ P \in 0 .. Messages
  BY <1>1, <1>2, <1>3
<1>5. Prompts(mail, Reached, P)' /\ Hooks(mail, waiting, RunsOver, S, P)'
  BY DEF Lined, Prompts, Hooks, OnWay
<1>. QED  BY <1>4, <1>5 DEF LineInv

LEMMA SameAtTurn ==
  ASSUME NEW S, AtTurn(S), UNCHANGED <<status, turns>>
  PROVE  AtTurn(S)'
BY DEF AtTurn, Turn

\* Where no message is spoilt, the step is no race.
LEMMA NoRace ==
  ASSUME spoilt' = {}
  PROVE  /\ AdoptTrigger => ~ \E i \in DOMAIN mail : mail[i].kind = "prompt"
         /\ Handed => status = "busy" \/ trigger = sending
         /\ \A e, w : Stop(e, w) => sending # e.run
<1>1. \A race, m : ~ Spoils(race, m)
  BY DEF Spoils
<1>. QED  BY <1>1 DEF AdoptTrigger, Handed, Stop

\* What Claude does is in line.
LEMMA ClaudeLined ==
  ASSUME StateTypes, StateTypes', LineInv, spoilt' = {}, AdoptTrigger \/ Reaches \/ Tool \/ End
  PROVE  LineInv'
<1>0. ClaudeLine
  BY DEF LineInv
<1>1. PICK S \in Nat, P \in Nat :
        Lined(mail, waiting, Reached, RunsOver, S, P) /\ TurnLine(S, P)
  BY DEF LineInv, Lined
<1>1a. AtTurn(S)'
  <2>1. UNCHANGED <<status, turns>>
    BY DEF AdoptTrigger, Reaches, Tool, End, turnVars
  <2>. QED  BY <1>1, <2>1, SameAtTurn DEF TurnLine
<1>2. PICK R, E : R = Reached /\ E = RunsOver
  OBVIOUS
<1>3. /\ R \in Nat /\ E \in Nat /\ E <= R /\ typed \in Nat /\ sending \in Nat
      /\ run \in Nat /\ trigger \in Nat /\ mail \in Seq(Event) /\ waiting \in Seq(Waiter)
      /\ sending # 0 => sending = typed /\ sending \in Msgs
      /\ run # 0 => E + 1 = run /\ run <= R /\ run \in Msgs
  BY <1>0, <1>2, LineRanges
<1>4. /\ S <= P /\ P <= R /\ (sending # 0 => S < sending) /\ QueuedLine(queued, S, P)
      /\ IF status = "busy" THEN trigger = S + 1 /\ S + 1 <= R
         ELSE P = S /\ trigger <= S + 1
      /\ Lined(mail, waiting, R, E, S, P)
  BY <1>1, <1>2 DEF TurnLine
<1>5. box \in Seq(Msgs) /\ DOMAIN box = 1 .. Len(box) /\ Len(box) \in Nat
  BY LenProperties DEF StateTypes
<1>6. CASE AdoptTrigger
  <2>1. /\ typed' = typed + 1 /\ sending' = typed + 1 /\ reached' = FALSE
        /\ sending = 0 /\ UNCHANGED <<run, box, mail, waiting, queued, status>>
        /\ trigger' = IF status = "busy" THEN trigger ELSE typed + 1
        /\ ~ \E i \in DOMAIN mail : mail[i].kind = "prompt"
    BY <1>6, NoRace DEF AdoptTrigger, holdVars, turnVars
  <2>2. R = typed /\ Reached' = R
    BY <1>2, <1>3, <2>1 DEF Reached
  <2>3. RunsOver' = E
    BY <1>2, <2>1, <2>2 DEF RunsOver
  <2>4. ClaudeLine'
    BY <1>0, <1>2, <2>1, <2>2 DEF ClaudeLine
  <2>5. status # "busy" => S = typed
    <3>1. \A m \in P + 1 .. R : FALSE
      BY <1>4, <2>1 DEF Lined, Prompts, Own
    <3>2. ~ (P + 1 <= R)
      <4>1. P + 1 <= R => P + 1 \in P + 1 .. R
        BY <1>3
      <4>. QED  BY <3>1, <4>1
    <3>. QED  BY <1>3, <1>4, <2>2, <3>2
  <2>6. TurnLine(S, P)'
    <3>1. QueuedLine(queued, S, P)'
      BY <1>4, <2>1 DEF QueuedLine
    <3>. QED  BY <1>1a, <1>3, <1>4, <2>1, <2>2, <2>5, <3>1 DEF TurnLine
  <2>. QED  BY <1>4, <2>1, <2>2, <2>3, <2>4, <2>6, LineAfter
<1>7. CASE Reaches
  <2>1. /\ UNCHANGED <<typed, sending, waiting, queued, status, trigger>> /\ reached' = TRUE
        /\ mail' = Append(mail, [kind |-> "prompt", run |-> sending])
        /\ sending # 0 /\ ~ reached
        /\ IF run = 0 THEN run' = sending /\ UNCHANGED box
           ELSE box' = Append(box, sending) /\ UNCHANGED run
    BY <1>7 DEF Reaches, holdVars, turnVars
  <2>2. R = typed - 1 /\ Reached' = typed /\ sending = R + 1 /\ Reached' = R + 1
    BY <1>2, <1>3, <2>1 DEF Reached
  <2>3. PICK e : e = [kind |-> "prompt", run |-> sending]
    OBVIOUS
  <2>4. e \in Event /\ e.kind = "prompt" /\ e.run = R + 1
    <3>1. sending \in Msgs
      BY <1>3, <2>1
    <3>. QED  BY <2>2, <2>3, <3>1 DEF Event
  <2>5. Lined(Append(mail, e), waiting, R + 1, E, S, P)
    BY <1>3, <1>4, <2>4, PromptSent
  <2>6. RunsOver' = E /\ ClaudeLine'
    <3>1. CASE run = 0
      <4>1. E = R
        BY <1>2, <3>1 DEF RunsOver
      <4>2. RunsOver' = E
        BY <1>3, <2>1, <2>2, <3>1, <4>1 DEF RunsOver
      <4>3. box' = <<>> /\ Len(box') = 0 /\ DOMAIN box' = {}
        BY <1>0, <2>1, <3>1, EmptySeq DEF ClaudeLine
      <4>4. ClaudeLine'
        BY <1>0, <1>3, <2>1, <2>2, <3>1, <4>3 DEF ClaudeLine
      <4>. QED  BY <4>2, <4>4
    <3>2. CASE run # 0
      <4>1. RunsOver' = E
        BY <1>2, <2>1, <3>2 DEF RunsOver
      <4>2. PICK b, n : b = box' /\ n = Len(box)
        OBVIOUS
      <4>3. /\ n \in Nat /\ DOMAIN box = 1 .. n /\ DOMAIN b = 1 .. n + 1
            /\ \A i \in 1 .. n : b[i] = box[i]
            /\ b[n + 1] = sending /\ Len(b) = n + 1
        <5>1. sending \in Msgs
          BY <1>3, <2>1
        <5>. QED  BY <1>5, <2>1, <3>2, <4>2, <5>1, AppendProperties, LenProperties
      <4>4. n = R - run /\ \A i \in 1 .. n : box[i] = run + i
        BY <1>0, <1>2, <3>2, <4>2, <4>3 DEF ClaudeLine
      <4>5. \A i \in DOMAIN b : b[i] = run + i
        <5>1. \A i \in DOMAIN b : i \in 1 .. n \/ i = n + 1
          BY <4>3
        <5>. QED  BY <1>3, <2>2, <4>3, <4>4, <5>1
      <4>6. run' = run /\ run <= R + 1 /\ Len(b) = R + 1 - run
        BY <1>3, <2>1, <3>2, <4>3, <4>4
      <4>7. ClaudeLine'
        <5>0. \A i \in DOMAIN b : b[i] = run' + i
          BY <4>5, <4>6, Zenon
        <5>3. run' # 0 /\ run' <= Reached'
          BY <2>2, <3>2, <4>6
        <5>4. Len(b) = Reached' - run'
          <6>1. PICK r, u, k : r = Reached' /\ u = run' /\ k = Len(b)
            OBVIOUS
          <6>2. r = R + 1 /\ u = run /\ k = R + 1 - run
            BY <2>2, <4>6, <6>1, Zenon
          <6>3. k = r - u
            BY <1>3, <6>2
          <6>. QED  BY <6>1, <6>3, Zenon
        <5>1. run' # 0 /\ run' <= Reached' /\ Len(b) = Reached' - run'
              /\ \A i \in DOMAIN b : b[i] = run' + i
          BY <5>0, <5>3, <5>4, Zenon
        <5>2. sending' \in {0, typed'}
          BY <1>0, <2>1 DEF ClaudeLine
        <5>. QED  BY <4>2, <5>1, <5>2 DEF ClaudeLine
      <4>. QED  BY <4>1, <4>7
    <3>. QED  BY <3>1, <3>2
  <2>7. TurnLine(S, P)'
    <3>1. QueuedLine(queued, S, P)'
      BY <1>4, <2>1 DEF QueuedLine
    <3>. QED  BY <1>1a, <1>3, <1>4, <2>1, <2>2, <3>1 DEF TurnLine
  <2>. QED  BY <2>1, <2>2, <2>3, <2>5, <2>6, <2>7, LineAfter
<1>8. CASE Tool
  <2>1. /\ UNCHANGED <<typed, sending, reached, run, box, waiting, queued, status, trigger>>
        /\ mail' = Append(mail, [kind |-> "tool", run |-> run])
        /\ run # 0
    BY <1>8 DEF Tool, holdVars, turnVars
  <2>2. PICK e : e = [kind |-> "tool", run |-> run]
    OBVIOUS
  <2>3. e \in Event /\ e.kind = "tool" /\ Own(e) /\ e.run = E + 1 /\ E + 1 <= R
    <3>1. run \in Msgs
      BY <1>3, <2>1
    <3>. QED  BY <1>3, <2>1, <2>2, <3>1 DEF Event, Own
  <2>4. Lined(Append(mail, e), waiting, R, E, S, P)
    BY <1>3, <1>4, <2>3, OwnSent
  <2>5. Reached' = R /\ RunsOver' = E /\ ClaudeLine'
    BY <1>0, <1>2, <2>1 DEF Reached, RunsOver, ClaudeLine
  <2>6. TurnLine(S, P)'
    <3>1. QueuedLine(queued, S, P)'
      BY <1>4, <2>1 DEF QueuedLine
    <3>. QED  BY <1>1a, <1>3, <1>4, <2>1, <2>5, <3>1 DEF TurnLine
  <2>. QED  BY <2>1, <2>2, <2>4, <2>5, <2>6, LineAfter
<1>9. CASE End
  <2>1. /\ UNCHANGED <<typed, sending, reached, waiting, queued, status, trigger>>
        /\ mail' = Append(mail, [kind |-> "stop", run |-> run])
        /\ run # 0
        /\ IF box = <<>> THEN run' = 0 /\ UNCHANGED box
           ELSE run' = Head(box) /\ box' = Tail(box)
    BY <1>9 DEF End, holdVars, turnVars
  <2>2. PICK e : e = [kind |-> "stop", run |-> run]
    OBVIOUS
  <2>3. e \in Event /\ e.kind = "stop" /\ Own(e) /\ e.run = E + 1 /\ E + 1 <= R
    <3>1. run \in Msgs
      BY <1>3, <2>1
    <3>. QED  BY <1>3, <2>1, <2>2, <3>1 DEF Event, Own
  <2>4. Lined(Append(mail, e), waiting, R, E + 1, S, P)
    BY <1>3, <1>4, <2>3, OwnSent
  <2>5. Reached' = R
    BY <1>2, <2>1 DEF Reached
  <2>6. RunsOver' = E + 1 /\ ClaudeLine'
    <3>1. CASE box = <<>>
      <4>1. Len(box) = 0 /\ run = R
        BY <1>0, <1>2, <1>3, <2>1, <3>1, EmptySeq DEF ClaudeLine
      <4>. QED  BY <1>0, <1>3, <2>1, <2>5, <3>1, <4>1 DEF ClaudeLine, RunsOver
    <3>2. CASE box # <<>>
      <4>1. PICK b, n : b = box' /\ n = Len(box)
        OBVIOUS
      <4>2. /\ n \in Nat /\ n # 0 /\ DOMAIN box = 1 .. n /\ DOMAIN b = 1 .. n - 1
            /\ \A i \in 1 .. n - 1 : b[i] = box[i + 1]
            /\ run' = box[1] /\ Len(b) = n - 1
        <5>1. /\ n \in Nat /\ n # 0 /\ DOMAIN box = 1 .. n
              /\ run' = box[1]
          BY <1>5, <2>1, <3>2, <4>1, HeadTailProperties, EmptySeq
        <5>2. /\ DOMAIN b = 1 .. Len(box) - 1 /\ Len(b) = Len(box) - 1
              /\ \A i \in 1 .. Len(box) - 1 : b[i] = box[i + 1]
          BY <1>5, <2>1, <3>2, <4>1, HeadTailProperties, LenProperties
        <5>. QED  BY <4>1, <5>1, <5>2
      <4>3. n = R - run /\ \A i \in 1 .. n : box[i] = run + i
        BY <1>0, <1>2, <2>1, <4>1, <4>2 DEF ClaudeLine
      <4>4. run' = run + 1 /\ run + 1 <= R /\ Len(b) = R - (run + 1)
        <5>1. 1 \in 1 .. n
          BY <4>2
        <5>. QED  BY <1>3, <4>2, <4>3, <5>1
      <4>5. \A i \in DOMAIN b : b[i] = run + 1 + i
        <5>1. \A i \in 1 .. n - 1 : i + 1 \in 1 .. n /\ i \in Nat
          BY <4>2
        <5>. QED  BY <1>3, <4>2, <4>3, <5>1
      <4>6. RunsOver' = E + 1
        BY <1>3, <2>1, <4>4 DEF RunsOver
      <4>7. ClaudeLine'
        BY <1>0, <1>3, <2>1, <2>5, <4>1, <4>4, <4>5 DEF ClaudeLine
      <4>. QED  BY <4>6, <4>7
    <3>. QED  BY <3>1, <3>2
  <2>7. TurnLine(S, P)'
    <3>1. QueuedLine(queued, S, P)'
      BY <1>4, <2>1 DEF QueuedLine
    <3>. QED  BY <1>1a, <1>3, <1>4, <2>1, <2>5, <3>1 DEF TurnLine
  <2>. QED  BY <2>1, <2>2, <2>4, <2>5, <2>6, <2>7, LineAfter
<1>. QED  BY <1>6, <1>7, <1>8, <1>9

\* An event to be handled, in the line of the runs R begun and E over: the
\* next prompt, or a hook of the run the daemon is at.
NextEvent(e, ml, w, R, E, S, P) ==
  /\ e \in Event /\ ml \in Seq(Event) /\ w \in Seq(Waiter)
  /\ HoldLine(w) /\ HeldBegun(w)
  /\ \/ ~ Own(e) /\ e.run = P + 1 /\ P + 1 <= R /\ Lined(ml, w, R, E, S, P + 1)
     \/ /\ Own(e) /\ e.run = S + 1 /\ S + 1 <= P /\ AllFree(w)
        /\ Lined(ml, w, R, E, IF e.kind = "stop" THEN S + 1 ELSE S, P)

\* The turn e was held for, w waiting when it came or was let go.
HeldFor(held, w) ==
  \/ held = 0 /\ ~ Held
  \/ held \in 1 .. Turn /\ \E i \in DOMAIN w : w[i].free /\ w[i].held = held

LEMMA FewerHeld ==
  ASSUME NEW w \in Seq(Waiter), w # <<>>
  PROVE  /\ AllFree(w) => AllFree(Tail(w))
         /\ HeldBegun(w) => HeldBegun(Tail(w))
         /\ 1 \in DOMAIN w /\ Head(w) = w[1] /\ Tail(w) \in Seq(Waiter)
<1>1. PICK a : a = Tail(w)
  OBVIOUS
<1>2. PICK n \in Nat :
        /\ n # 0 /\ DOMAIN w = 1 .. n /\ DOMAIN a = 1 .. n - 1
        /\ \A i \in 1 .. n - 1 : a[i] = w[i + 1]
        /\ Head(w) = w[1]
  BY <1>1, AtFront
<1>3. 1 \in DOMAIN w /\ \A i \in DOMAIN a : i + 1 \in DOMAIN w /\ a[i] = w[i + 1]
  BY <1>2
<1>4. Tail(w) \in Seq(Waiter)
  BY HeadTailProperties
<1>. QED  BY <1>1, <1>2, <1>3, <1>4 DEF AllFree, HeldBegun

\* An event is held, or handled in its turn.
LEMMA Delivery ==
  ASSUME StateTypes, LineInv, HoldLine(waiting), HeldBegun(waiting), Arrives \/ LetGo
  PROVE  \E S, P \in Nat :
           /\ TurnLine(S, P)
           /\ \/ /\ UNCHANGED <<typed, sending, claudeVars, turnVars, trigger, queued,
                                hold, cardVars, finishVars, requests>>
                 /\ Lined(mail', waiting', Reached, RunsOver, S, P)
                 /\ HoldLine(waiting') /\ HeldBegun(waiting')
                 /\ \A i \in DOMAIN waiting' : ~ waiting'[i].free
              \/ \E e, w, held :
                   /\ NextEvent(e, mail', w, Reached, RunsOver, S, P)
                   /\ Own(e) => HeldFor(held, waiting)
                   /\ ~ Entering /\ Handle(e, w, held)
                   /\ \A i \in DOMAIN w : \E j \in DOMAIN waiting : w[i] = waiting[j]
<1>0. ClaudeLine
  BY DEF LineInv
<1>1. PICK S \in Nat, P \in Nat :
        Lined(mail, waiting, Reached, RunsOver, S, P) /\ TurnLine(S, P)
  BY DEF LineInv, Lined
<1>2. PICK R, E : R = Reached /\ E = RunsOver
  OBVIOUS
<1>3. /\ R \in Nat /\ E \in Nat /\ mail \in Seq(Event) /\ waiting \in Seq(Waiter)
      /\ Lined(mail, waiting, R, E, S, P)
  BY <1>0, <1>1, <1>2, LineRanges
<1>4. CASE Arrives
  <2>1. PICK e, ml : e = Head(mail) /\ ml = Tail(mail)
    OBVIOUS
  <2>2. /\ mail # <<>> /\ NoneFree /\ ~ Entering /\ mail' = ml
        /\ e \in Event /\ ml \in Seq(Event)
    <3>1. mail # <<>> /\ NoneFree /\ ~ Entering /\ mail' = ml
      BY <1>4, <2>1 DEF Arrives
    <3>. QED  BY <1>3, <2>1, <3>1, HeadTailProperties
  <2>3. /\ e.run \in Nat /\ e.run <= R
        /\ ~ Own(e) => e.run = P + 1
        /\ Own(e) => S < e.run /\ e.run <= P
        /\ Own(e) /\ waiting = <<>> => e.run = S + 1
    BY <1>3, <2>1, <2>2, FirstMail
  <2>4. AllFree(waiting) => waiting = <<>>
    <3>1. AllFree(waiting) => DOMAIN waiting = {}
      BY <2>2 DEF AllFree, NoneFree
    <3>. QED  BY <1>3, <3>1, EmptySeq
  <2>5. CASE Own(e) /\ Held
    <3>1. PICK x : x = [event |-> e, held |-> hold, free |-> FALSE]
      OBVIOUS
    <3>2. /\ waiting' = Append(waiting, x)
          /\ UNCHANGED <<typed, sending, claudeVars, turnVars, trigger, queued,
                         hold, cardVars, finishVars, requests>>
      <4>1. Own(Head(mail)) /\ Held
        BY <2>1, <2>5
      <4>2. x = [event |-> Head(mail), held |-> hold, free |-> FALSE]
        BY <2>1, <3>1
      <4>. QED  BY <1>4, <4>1, <4>2 DEF Arrives, Own
    <3>3. Turn \in Nat /\ hold # 0 /\ hold = Turn /\ cardTurn # Turn
      BY <2>5, Ranges DEF Held
    <3>4. x \in Waiter /\ x.event = e /\ ~ x.free /\ x.held = Turn /\ Turn \in 1 .. Turn
      BY <2>2, <3>1, <3>3 DEF Waiter
    <3>5. Lined(ml, Append(waiting, x), R, E, S, P)
      BY <1>3, <2>1, <2>2, <2>5, <3>4, OwnHeld
    <3>6. status = "busy"
      <4>1. CASE AllFree(waiting)
        BY <1>1, <2>3, <2>4, <2>5, <4>1 DEF TurnLine
      <4>2. CASE ~ AllFree(waiting)
        BY <4>2 DEF HoldLine
      <4>. QED  BY <4>1, <4>2
    <3>7. PICK v : v = Append(waiting, x)
      OBVIOUS
    <3>8. \A i \in DOMAIN v : (i \in DOMAIN waiting /\ v[i] = waiting[i]) \/ v[i] = x
      <4>1. waiting \in Seq(Waiter) /\ x \in Waiter
        BY <1>3, <3>4
      <4>. QED  BY ONLY <3>7, <4>1, OldOrNew
    <3>9. HeldBegun(v)
      BY <3>4, <3>8 DEF HeldBegun
    <3>10. HoldLine(v)
      <4>1. \A i \in DOMAIN waiting : ~ waiting[i].free /\ waiting[i].held = Turn
        BY <2>2 DEF HoldLine, AllFree, NoneFree
      <4>. QED  BY <3>3, <3>4, <3>6, <3>8, <4>1 DEF HoldLine
    <3>11. \A i \in DOMAIN v : ~ v[i].free
      BY <2>2, <3>4, <3>8 DEF NoneFree
    <3>. QED  BY <1>1, <1>2, <2>2, <3>2, <3>5, <3>7, <3>9, <3>10, <3>11
  <2>6. CASE ~ (Own(e) /\ Held)
    <3>1. Handle(e, waiting, 0)
      BY <1>4, <2>1, <2>6 DEF Arrives, Own
    <3>2. CASE ~ Own(e)
      <4>1. Lined(ml, waiting, R, E, S, P + 1)
        BY <1>3, <2>1, <2>2, <3>2, PromptTaken
      <4>2. NextEvent(e, ml, waiting, R, E, S, P)
        BY <1>3, <2>2, <2>3, <3>2, <4>1 DEF NextEvent
      <4>. QED  BY <1>1, <1>2, <2>2, <3>1, <3>2, <4>2
    <3>3. CASE Own(e)
      <4>1. ~ Held
        BY <2>6, <3>3
      <4>2. AllFree(waiting) /\ waiting = <<>>
        BY <2>2, <2>4, <4>1, Ranges DEF HoldLine, Held
      <4>3. Lined(ml, waiting, R, E, IF e.kind = "stop" THEN S + 1 ELSE S, P)
        BY <1>3, <2>1, <2>2, <3>3, <4>2, OwnTaken
      <4>4. e.run = S + 1 /\ S + 1 <= P
        BY <2>3, <3>3, <4>2
      <4>5. NextEvent(e, ml, waiting, R, E, S, P)
        BY <1>3, <2>2, <3>3, <4>2, <4>3, <4>4 DEF NextEvent
      <4>6. HeldFor(0, waiting)
        BY <4>1 DEF HeldFor
      <4>. QED  BY <1>1, <1>2, <2>2, <3>1, <4>5, <4>6
    <3>. QED  BY <3>2, <3>3
  <2>. QED  BY <2>5, <2>6
<1>5. CASE LetGo
  <2>1. PICK e, v, held : e = Head(waiting).event /\ v = Tail(waiting) /\ held = Head(waiting).held
    OBVIOUS
  <2>2. ~ NoneFree /\ ~ Entering /\ Handle(e, v, held) /\ mail' = mail
    BY <1>5, <2>1 DEF LetGo
  <2>3. waiting # <<>> /\ AllFree(waiting)
    <3>1. AllFree(waiting)
      BY <2>2 DEF HoldLine, AllFree, NoneFree
    <3>. QED  BY <2>2, <3>1, EmptySeq DEF NoneFree
  <2>4. /\ AllFree(v) /\ HeldBegun(v) /\ v \in Seq(Waiter)
        /\ 1 \in DOMAIN waiting /\ Head(waiting) = waiting[1]
    BY <1>3, <2>1, <2>3, FewerHeld
  <2>5. e \in Event
    <3>1. Head(waiting) \in Waiter
      BY <1>3, <2>3, HeadTailProperties
    <3>. QED  BY <2>1, <3>1 DEF Waiter
  <2>6. Own(e) /\ e.run = S + 1 /\ S + 1 <= P
    BY <1>3, <2>1, <2>3, FirstHeld
  <2>7. Lined(mail, v, R, E, IF e.kind = "stop" THEN S + 1 ELSE S, P)
    BY <1>3, <2>1, <2>3, HeldLetGo
  <2>8. NextEvent(e, mail, v, R, E, S, P)
    BY <1>3, <2>4, <2>5, <2>6, <2>7 DEF NextEvent, HoldLine
  <2>9. HeldFor(held, waiting)
    BY <2>1, <2>3, <2>4 DEF HeldFor, HeldBegun, AllFree
  <2>10. \A i \in DOMAIN v : \E j \in DOMAIN waiting : v[i] = waiting[j]
    <3>1. PICK n \in Nat :
            /\ DOMAIN waiting = 1 .. n /\ DOMAIN v = 1 .. n - 1
            /\ \A i \in 1 .. n - 1 : v[i] = waiting[i + 1]
      BY <1>3, <2>1, <2>3, AtFront
    <3>2. \A i \in DOMAIN v : i + 1 \in DOMAIN waiting /\ v[i] = waiting[i + 1]
      BY <3>1
    <3>. QED  BY <3>2
  <2>. QED  BY <1>1, <1>2, <2>2, <2>8, <2>9, <2>10
<1>. QED  BY <1>4, <1>5

-----------------------------------------------------------------------------
(* The hold.                                                               *)

LEMMA FreedFree ==
  ASSUME NEW w \in Seq(Waiter)
  PROVE  AllFree(Freed(w)) /\ (HeldBegun(w) => HeldBegun(Freed(w)))
<1>1. \A x \in Waiter : [x EXCEPT !.free = TRUE].free /\ [x EXCEPT !.free = TRUE].held = x.held
  BY DEF Waiter
<1>2. \A i \in DOMAIN w : w[i] \in Waiter
  BY ElementOfSeq, LenProperties
<1>. QED  BY <1>1, <1>2 DEF Freed, AllFree, HeldBegun

\* What waits is let go, or waits on, while the turn is the same.
LEMMA HoldKept ==
  ASSUME StateTypes, NEW w \in Seq(Waiter), HeldBegun(w), Turn' \in Nat, Turn <= Turn',
         \/ waiting' \in {w, Freed(w)} /\ AllFree(w)
         \/ waiting' = Freed(w)
         \/ /\ waiting' = w /\ HoldLine(w) /\ Turn' = Turn /\ cardTurn' # Turn
            /\ status = "busy" /\ hold = Turn => status' = "busy" /\ hold' = hold
  PROVE  HoldLine(waiting)' /\ HeldBegun(waiting)'
<1>0. Turn \in Nat
  BY Ranges
<1>1. PICK v, t : v = waiting' /\ t = Turn'
  OBVIOUS
<1>2. v \in {w, Freed(w)} /\ HeldBegun(v)
  BY <1>1, FreedFree
<1>3. \A i \in DOMAIN v : v[i].held \in 1 .. t
  BY <1>0, <1>1, <1>2 DEF HeldBegun
<1>4. AllFree(v) \/ HoldLine(waiting)'
  <2>1. CASE waiting' \in {w, Freed(w)} /\ AllFree(w)
    BY <1>1, <2>1, FreedFree
  <2>2. CASE waiting' = Freed(w)
    BY <1>1, <2>2, FreedFree
  <2>3. CASE /\ waiting' = w /\ HoldLine(w) /\ Turn' = Turn /\ cardTurn' # Turn
             /\ status = "busy" /\ hold = Turn => status' = "busy" /\ hold' = hold
    BY <1>1, <2>3 DEF HoldLine
  <2>. QED  BY <2>1, <2>2, <2>3
<1>5. HoldLine(waiting)'
  BY <1>1, <1>4 DEF HoldLine, AllFree
<1>. QED  BY <1>1, <1>3, <1>5 DEF HeldBegun

LEMMA HoldCalm ==
  ASSUME NEW w, HoldLine(w), HeldBegun(w), waiting' = w,
         UNCHANGED <<hold, turns, status, cardTurn>>
  PROVE  HoldLine(waiting)' /\ HeldBegun(waiting)'
BY DEF HoldLine, HeldBegun, AllFree, Turn

\* A turn begun has the number after the ones there are.
LEMMA NewTurn ==
  ASSUME StateTypes, NEW m \in Msgs
  PROVE  /\ status = "busy" => TurnsAfter(m) = turns
         /\ status # "busy" =>
              /\ TurnsAfter(m) = Append(turns, m) /\ Len(TurnsAfter(m)) = Turn + 1
              /\ TurnsAfter(m)[Turn + 1] = m
         /\ Turn <= Len(TurnsAfter(m)) /\ Len(TurnsAfter(m)) \in Nat
<1>1. turns \in Seq(Msgs) /\ Turn = Len(turns) /\ Turn \in Nat
  BY Ranges DEF Turn
<1>2. Len(Append(turns, m)) = Turn + 1 /\ Append(turns, m)[Turn + 1] = m
  BY <1>1, AppendProperties
<1>. QED  BY <1>1, <1>2 DEF TurnsAfter

LEMMA AskHold ==
  ASSUME StateTypes, NEW w \in Seq(Waiter), HoldLine(w), HeldBegun(w),
         NEW why, NEW m, NEW m2 \in Msgs, Ask(why, m, TurnsAfter(m2), w),
         turns' = TurnsAfter(m2), status' = "busy", UNCHANGED cardTurn
  PROVE  HoldLine(waiting)' /\ HeldBegun(waiting)'
<1>1. Turn \in Nat /\ Turn' \in Nat /\ Turn <= Turn' /\ Turn' = Len(TurnsAfter(m2))
  BY NewTurn, Ranges DEF Turn
<1>2. \/ HoldNewest(Len(TurnsAfter(m2)), w)
      \/ waiting' = w /\ UNCHANGED hold
  BY DEF Ask
<1>3. CASE AllFree(w)
  BY <1>1, <1>2, <1>3, HoldKept DEF HoldNewest
<1>4. CASE ~ AllFree(w)
  <2>1. status = "busy" /\ hold = Turn /\ cardTurn # Turn
    BY <1>4 DEF HoldLine
  <2>2. Turn' = Turn
    BY <1>1, <2>1, NewTurn DEF Turn
  <2>3. waiting' = w /\ hold' = hold
    BY <1>1, <1>2, <2>1, <2>2 DEF HoldNewest
  <2>. QED  BY <1>1, <2>1, <2>2, <2>3, HoldKept
<1>. QED  BY <1>3, <1>4

LEMMA RequestHold ==
  ASSUME StateTypes, Begun, HoldLine(waiting), HeldBegun(waiting),
         NEW q \in requests, RequestStep(q)
  PROVE  HoldLine(waiting)' /\ HeldBegun(waiting)'
<1>0. /\ UNCHANGED <<turns, status>> /\ waiting \in Seq(Waiter) /\ Turn \in Nat
      /\ hold \in Nat /\ q.turn \in Nat /\ Turn' = Turn
  <2>1. UNCHANGED <<turns, status>>
    BY DEF RequestStep, GateOpens, Drop, SendAgain, Supersede, StartTurn,
           Superseded, Sent, turnVars
  <2>. QED  BY <2>1, Ranges DEF StateTypes, Request, Turn
<1>1. CASE GateOpens(q) \/ SendAgain(q) \/ Supersede(q)
  BY <1>0, <1>1, HoldCalm DEF GateOpens, SendAgain, Supersede, holdVars, cardVars
<1>2. CASE Drop(q) \/ Sent(q)
  <2>1. UNCHANGED cardTurn
    BY <1>2 DEF Drop, Sent, cardVars
  <2>2. waiting' = Freed(waiting) \/ UNCHANGED <<hold, waiting>>
    BY <1>2 DEF Drop, Sent, Return, Release, holdVars
  <2>. QED  BY <1>0, <2>1, <2>2, HoldCalm, HoldKept
<1>3. CASE StartTurn(q) \/ Superseded(q)
  <2>1. cardTurn' = q.turn /\ Release(q.turn)
    BY <1>3 DEF StartTurn, Superseded, Reset
  <2>2. CASE hold # 0 /\ hold <= q.turn
    BY <1>0, <2>1, <2>2, HoldKept DEF Release
  <2>3. CASE ~ (hold # 0 /\ hold <= q.turn)
    <3>1. UNCHANGED <<hold, waiting>>
      BY <2>1, <2>3 DEF Release, holdVars
    <3>2. CASE AllFree(waiting)
      BY <1>0, <3>1, <3>2, HoldKept
    <3>3. CASE ~ AllFree(waiting)
      <4>1. hold = Turn /\ Turn # 0
        BY <3>3 DEF HoldLine
      <4>2. cardTurn' # Turn
        BY <1>0, <2>1, <2>3, <4>1
      <4>. QED  BY <1>0, <3>1, <4>2, HoldKept
    <3>. QED  BY <3>2, <3>3
  <2>. QED  BY <2>2, <2>3
<1>. QED  BY <1>1, <1>2, <1>3 DEF RequestStep

-----------------------------------------------------------------------------
(* An event in its turn.                                                   *)

\* A hook of a run comes while the daemon is at the run's turn.
LEMMA AtItsTurn ==
  ASSUME NEW S \in Nat, NEW P \in Nat, TurnLine(S, P),
         NEW e, NEW ml, NEW w, NEW R, NEW E, NextEvent(e, ml, w, R, E, S, P), Own(e)
  PROVE  status = "busy" /\ trigger = e.run /\ AllFree(w)
BY DEF NextEvent, TurnLine

LEMMA HandleHold ==
  ASSUME StateTypes, NEW S \in Nat, NEW P \in Nat, TurnLine(S, P),
         NEW e, NEW ml, NEW w, NEW R, NEW E, NextEvent(e, ml, w, R, E, S, P),
         NEW held, Handle(e, w, held)
  PROVE  HoldLine(waiting)' /\ HeldBegun(waiting)'
<1>0. /\ w \in Seq(Waiter) /\ HoldLine(w) /\ HeldBegun(w) /\ e \in Event /\ e.run \in Msgs
      /\ Turn \in Nat
  BY Ranges DEF NextEvent, Event
<1>1. CASE Prompt(e, w)
  <2>1. UNCHANGED cardTurn
    BY <1>1 DEF Prompt, cardVars
  <2>2. CASE status = "busy"
    BY <1>0, <1>1, <2>1, <2>2, HoldCalm DEF Prompt, turnVars
  <2>3. CASE status # "busy"
    BY <1>0, <1>1, <2>1, <2>3, AskHold DEF Prompt, ToBusy
  <2>. QED  BY <2>2, <2>3
<1>2. CASE PreToolUse(e, w, held)
  <2>1. status = "busy"
    BY <1>2, AtItsTurn DEF PreToolUse, Own
  <2>2. UNCHANGED <<hold, turns, status, cardTurn>> /\ waiting' = w
    BY <1>2, <2>1 DEF PreToolUse, ToBusy, TurnsAfter
  <2>. QED  BY <1>0, <2>2, HoldCalm
<1>3. CASE Stop(e, w)
  <2>1. AllFree(w)
    BY <1>3, AtItsTurn DEF Stop, Own
  <2>2. waiting' \in {w, Freed(w)}
    BY <1>3 DEF Stop, HoldNewest
  <2>3. Turn' \in Nat /\ Turn <= Turn'
    <3>1. turns \in Seq(Msgs) /\ queued \in Seq(Msgs)
      BY DEF StateTypes
    <3>2. CASE UNCHANGED turns
      BY <1>0, <3>2 DEF Turn
    <3>3. CASE queued # <<>> /\ turns' = Append(turns, Head(queued))
      <4>1. Head(queued) \in Msgs
        BY <3>1, <3>3, HeadTailProperties
      <4>2. Turn' = Turn + 1
        BY <3>1, <3>3, <4>1, AppendProperties DEF Turn
      <4>. QED  BY <1>0, <4>2
    <3>. QED  BY <1>3, <3>2, <3>3 DEF Stop
  <2>. QED  BY <1>0, <2>1, <2>2, <2>3, HoldKept
<1>. QED  BY <1>1, <1>2, <1>3 DEF Handle

LEMMA HandleLined ==
  ASSUME StateTypes, StateTypes', ClaudeLine, spoilt' = {},
         NEW S \in Nat, NEW P \in Nat, TurnLine(S, P),
         NEW R, NEW E, R = Reached, E = RunsOver,
         NEW e, NEW w, NEW ml, ml = mail', NextEvent(e, ml, w, R, E, S, P),
         NEW held, Handle(e, w, held)
  PROVE  LineInv'
<1>0. UNCHANGED <<typed, sending, reached, run, box>>
  BY DEF Handle, claudeVars
<1>1. Reached' = R /\ RunsOver' = E /\ ClaudeLine'
  BY <1>0 DEF Reached, RunsOver, ClaudeLine
<1>2. /\ R \in Nat /\ E \in Nat /\ sending \in Nat /\ trigger \in Nat
      /\ w \in Seq(Waiter) /\ e \in Event /\ e.run \in Nat
      /\ queued \in Seq(Msgs) /\ Len(queued) \in Nat /\ DOMAIN queued = 1 .. Len(queued)
  <2>1. R \in Nat /\ E \in Nat /\ sending \in Nat /\ trigger \in Nat
    BY LineRanges
  <2>2. w \in Seq(Waiter) /\ e \in Event /\ e.run \in Nat
    BY DEF NextEvent, Event, Msgs
  <2>. QED  BY <2>1, <2>2, LenProperties DEF StateTypes
<1>3. /\ S <= P /\ P <= R /\ (sending # 0 => S < sending) /\ QueuedLine(queued, S, P)
      /\ IF status = "busy" THEN trigger = S + 1 /\ S + 1 <= R
         ELSE P = S /\ trigger <= S + 1
  BY DEF TurnLine
<1>4. SameEvents(w, waiting')
  BY <1>2, HandleFins
<1>5. PICK v : v = waiting'
  OBVIOUS
<1>6. ASSUME NEW s \in Nat, NEW p \in Nat, Lined(ml, w, R, E, s, p), TurnLine(s, p)'
      PROVE  LineInv'
  BY <1>1, <1>4, <1>5, <1>6, SameLine, LineAfter
<1>6a. Turn \in Nat /\ AtTurn(S) /\ turns \in Seq(Msgs)
  BY Ranges DEF TurnLine, StateTypes
<1>6b. ASSUME NEW m \in Msgs, turns' = Append(turns, m) PROVE Turn' = Turn + 1
  BY <1>6a, <1>6b, AppendProperties DEF Turn
<1>7. CASE Prompt(e, w)
  <2>1. e.run = P + 1 /\ P + 1 <= R /\ Lined(ml, w, R, E, S, P + 1)
    BY <1>7 DEF Prompt, NextEvent, Own
  <2>2. TurnLine(S, P + 1)'
    <3>1. CASE status = "busy" /\ e.run = trigger
      <4>1. UNCHANGED <<queued, status, trigger, turns>>
        BY <1>7, <3>1 DEF Prompt, turnVars
      <4>1a. AtTurn(S)'
        BY <1>6a, <4>1, SameAtTurn
      <4>2. QueuedLine(queued, S, P + 1)
        BY <1>3, <2>1, <3>1 DEF QueuedLine
      <4>3. QueuedLine(queued, S, P + 1)'
        BY <4>1, <4>2 DEF QueuedLine
      <4>. QED  BY <1>0, <1>1, <1>2, <1>3, <2>1, <3>1, <4>1, <4>1a, <4>3 DEF TurnLine
    <3>2. CASE status = "busy" /\ e.run # trigger
      <4>1. UNCHANGED <<status, trigger, turns>> /\ queued' = Append(queued, e.run)
        BY <1>7, <3>2 DEF Prompt, turnVars
      <4>1a. AtTurn(S)'
        BY <1>6a, <4>1, SameAtTurn
      <4>2. PICK qd, n : qd = queued' /\ n = Len(queued)
        OBVIOUS
      <4>3. /\ n \in Nat /\ DOMAIN queued = 1 .. n /\ DOMAIN qd = 1 .. n + 1
            /\ \A i \in 1 .. n : qd[i] = queued[i]
            /\ qd[n + 1] = e.run /\ Len(qd) = n + 1
        <5>1. e.run \in Msgs
          BY <1>2 DEF Event
        <5>. QED  BY <1>2, <4>1, <4>2, <5>1, AppendProperties, LenProperties
      <4>4. P >= S + 1 /\ n = P - (S + 1)
        <5>1. P >= S + 1
          BY <1>2, <1>3, <2>1, <3>2
        <5>2. n = IF P <= S + 1 THEN 0 ELSE P - (S + 1)
          BY <1>3, <4>2 DEF QueuedLine
        <5>. QED  BY <5>1, <5>2
      <4>5. \A i \in DOMAIN qd : qd[i] = S + 1 + i
        <5>1. \A i \in 1 .. n : queued[i] = S + 1 + i
          BY <1>3, <4>3 DEF QueuedLine
        <5>2. \A i \in DOMAIN qd : i \in 1 .. n \/ i = n + 1
          BY <4>3
        <5>. QED  BY <2>1, <4>3, <4>4, <5>1, <5>2
      <4>6. Len(qd) = IF P + 1 <= S + 1 THEN 0 ELSE P + 1 - (S + 1)
        BY <4>3, <4>4
      <4>7. QueuedLine(queued, S, P + 1)'
        BY <4>2, <4>5, <4>6 DEF QueuedLine
      <4>. QED  BY <1>0, <1>1, <1>2, <1>3, <2>1, <3>2, <4>1, <4>1a, <4>7 DEF TurnLine
    <3>3. CASE status # "busy"
      <4>1. /\ UNCHANGED queued /\ trigger' = e.run /\ status' = "busy"
            /\ turns' = Append(turns, e.run)
        BY <1>7, <3>3 DEF Prompt, ToBusy, TurnsAfter
      <4>1a. AtTurn(S)'
        <5>1. e.run \in Msgs
          BY <1>2 DEF Event
        <5>2. Turn' = Turn + 1
          BY <1>6b, <4>1, <5>1
        <5>. QED  BY <1>6a, <3>3, <4>1, <5>2 DEF AtTurn
      <4>2. QueuedLine(queued, S, P + 1)
        BY <1>3, <3>3 DEF QueuedLine
      <4>3. QueuedLine(queued, S, P + 1)'
        BY <4>1, <4>2 DEF QueuedLine
      <4>. QED  BY <1>0, <1>1, <1>2, <1>3, <2>1, <3>3, <4>1, <4>1a, <4>3 DEF TurnLine
    <3>. QED  BY <3>1, <3>2, <3>3
  <2>. QED  BY <1>6, <2>1, <2>2
<1>8. CASE PreToolUse(e, w, held)
  <2>1. Own(e) /\ e.kind # "stop" /\ status = "busy"
    BY <1>8, AtItsTurn DEF PreToolUse, Own
  <2>2. Lined(ml, w, R, E, S, P)
    BY <2>1 DEF NextEvent
  <2>3. UNCHANGED <<status, trigger, queued, turns>>
    BY <1>8, <2>1 DEF PreToolUse, ToBusy, TurnsAfter
  <2>3a. AtTurn(S)'
    BY <1>6a, <2>3, SameAtTurn
  <2>4. QueuedLine(queued, S, P)'
    BY <1>3, <2>3 DEF QueuedLine
  <2>5. TurnLine(S, P)'
    BY <1>0, <1>1, <1>3, <2>3, <2>3a, <2>4 DEF TurnLine
  <2>. QED  BY <1>6, <2>2, <2>5
<1>9. CASE Stop(e, w)
  <2>1. Own(e) /\ e.kind = "stop" /\ status = "busy"
    BY <1>9, AtItsTurn DEF Stop, Own
  <2>2. e.run = S + 1 /\ S + 1 <= P /\ Lined(ml, w, R, E, S + 1, P)
    BY <2>1 DEF NextEvent
  <2>3. sending # 0 => S + 1 < sending
    <3>1. sending # S + 1
      BY <1>9, <2>2, NoRace
    <3>. QED  BY <1>2, <1>3, <3>1
  <2>4. TurnLine(S + 1, P)'
    <3>1. CASE queued = <<>>
      <4>1. status' = "idle" /\ UNCHANGED <<trigger, queued, turns>>
        BY <1>9, <3>1 DEF Stop
      <4>1a. AtTurn(S + 1)'
        BY <1>6a, <2>1, <4>1 DEF AtTurn, Turn
      <4>2. Len(queued) = 0 /\ DOMAIN queued = {}
        BY <3>1, EmptySeq
      <4>3. P = S + 1
        BY <1>3, <2>2, <4>2 DEF QueuedLine
      <4>4. QueuedLine(queued, S + 1, P)
        BY <4>2, <4>3 DEF QueuedLine
      <4>5. QueuedLine(queued, S + 1, P)'
        BY <4>1, <4>4 DEF QueuedLine
      <4>6. trigger <= S + 1 + 1
        BY <1>2, <1>3, <2>1
      <4>. QED  BY <1>0, <1>1, <1>3, <2>3, <4>1, <4>1a, <4>3, <4>5, <4>6 DEF TurnLine
    <3>2. CASE queued # <<>>
      <4>1. PICK qd, n : qd = Tail(queued) /\ n = Len(queued)
        OBVIOUS
      <4>2. /\ n \in Nat /\ n # 0 /\ DOMAIN queued = 1 .. n /\ DOMAIN qd = 1 .. n - 1
            /\ \A i \in 1 .. n - 1 : qd[i] = queued[i + 1]
            /\ Head(queued) = queued[1] /\ Len(qd) = n - 1
        <5>1. n \in Nat /\ n # 0 /\ DOMAIN queued = 1 .. n /\ Head(queued) = queued[1]
          BY <1>2, <3>2, <4>1, HeadTailProperties, EmptySeq
        <5>2. /\ DOMAIN qd = 1 .. Len(queued) - 1 /\ Len(qd) = Len(queued) - 1
              /\ \A i \in 1 .. Len(queued) - 1 : qd[i] = queued[i + 1]
          BY <1>2, <3>2, <4>1, HeadTailProperties, LenProperties
        <5>. QED  BY <4>1, <5>1, <5>2
      <4>3. P > S + 1 /\ n = P - (S + 1) /\ \A i \in 1 .. n : queued[i] = S + 1 + i
        <5>1. n = IF P <= S + 1 THEN 0 ELSE P - (S + 1)
          BY <1>3, <4>1 DEF QueuedLine
        <5>2. \A i \in 1 .. n : queued[i] = S + 1 + i
          BY <1>3, <4>2 DEF QueuedLine
        <5>3. P > S + 1
          BY <4>2, <5>1
        <5>. QED  BY <5>1, <5>2, <5>3
      <4>4. Head(queued) = S + 1 + 1
        BY <4>2, <4>3
      <4>5. status' = "busy" /\ trigger' = S + 1 + 1 /\ queued' = qd
        BY <1>9, <3>2, <4>1, <4>4 DEF Stop
      <4>5a. AtTurn(S + 1)'
        <5>1. Head(queued) \in Msgs
          BY <1>2, <3>2, HeadTailProperties
        <5>2. turns' = Append(turns, Head(queued))
          BY <1>9, <3>2, <4>4 DEF Stop
        <5>3. Turn' = Turn + 1
          BY <1>6b, <5>1, <5>2
        <5>. QED  BY <1>6a, <2>1, <4>5, <5>3 DEF AtTurn
      <4>6. \A i \in DOMAIN qd : qd[i] = S + 1 + 1 + i
        <5>1. \A i \in 1 .. n - 1 : i + 1 \in 1 .. n /\ i \in Nat
          BY <4>2
        <5>. QED  BY <4>2, <4>3, <5>1
      <4>7. Len(qd) = IF P <= S + 1 + 1 THEN 0 ELSE P - (S + 1 + 1)
        BY <4>2, <4>3
      <4>8. QueuedLine(queued, S + 1, P)'
        BY <4>5, <4>6, <4>7 DEF QueuedLine
      <4>9. S + 1 + 1 <= P /\ S + 1 + 1 <= R
        BY <1>2, <1>3, <4>3
      <4>. QED  BY <1>0, <1>1, <1>3, <2>3, <4>5, <4>5a, <4>8, <4>9 DEF TurnLine
    <3>. QED  BY <3>1, <3>2
  <2>. QED  BY <1>6, <2>2, <2>4
<1>. QED  BY <1>7, <1>8, <1>9 DEF Handle

-----------------------------------------------------------------------------
(* The answers.                                                            *)

\* Card requests, and a finish, leave the line.
LEMMA LineKept ==
  ASSUME StateTypes, StateTypes', LineInv, SameEvents(waiting, waiting'),
         UNCHANGED <<typed, sending, claudeVars, mail, status, turns, queued>>,
         trigger' # trigger => status # "busy" /\ trigger' = 0
  PROVE  LineInv'
<1>1. ClaudeLine /\ UNCHANGED <<reached, run, box>>
  BY DEF LineInv, claudeVars
<1>2. PICK S \in Nat, P \in Nat :
        Lined(mail, waiting, Reached, RunsOver, S, P) /\ TurnLine(S, P)
  BY DEF LineInv, Lined
<1>3. PICK R, E, v : R = Reached /\ E = RunsOver /\ v = waiting'
  OBVIOUS
<1>4. Reached' = R /\ RunsOver' = E /\ ClaudeLine'
  BY <1>1, <1>3 DEF Reached, RunsOver, ClaudeLine
<1>5. Lined(mail, v, R, E, S, P)
  BY <1>2, <1>3, SameLine
<1>6. QueuedLine(queued, S, P)'
  BY <1>2 DEF TurnLine, QueuedLine
<1>6a. AtTurn(S)'
  BY <1>2, SameAtTurn DEF TurnLine
<1>7. TurnLine(S, P)'
  BY <1>1, <1>2, <1>3, <1>4, <1>6, <1>6a DEF TurnLine
<1>. QED  BY <1>3, <1>4, <1>5, <1>7, LineAfter

\* The message's turn is begun when its hook has not come.
LEMMA HandedLined ==
  ASSUME StateTypes, StateTypes', LineInv, spoilt' = {}, Handed
  PROVE  LineInv' /\ (status # "busy" => trigger = sending)
<1>1. ClaudeLine /\ UNCHANGED <<typed, reached, run, box, mail, trigger, queued>>
  BY DEF LineInv, Handed, claudeVars
<1>2. PICK S \in Nat, P \in Nat :
        Lined(mail, waiting, Reached, RunsOver, S, P) /\ TurnLine(S, P)
  BY DEF LineInv, Lined
<1>3. PICK R, E, v : R = Reached /\ E = RunsOver /\ v = waiting'
  OBVIOUS
<1>4. /\ sending # 0 /\ reached /\ sending' = 0 /\ status' = "busy"
      /\ status # "busy" => trigger = sending
      /\ SameEvents(waiting, waiting')
  BY AskSame, NoRace DEF Handed, ToBusy, StateTypes
<1>5. /\ R = typed /\ Reached' = R /\ RunsOver' = E /\ ClaudeLine' /\ sending = typed
      /\ typed \in Nat
  BY <1>1, <1>3, <1>4, LineRanges DEF Reached, RunsOver, ClaudeLine
<1>6. Lined(mail, v, R, E, S, P)
  BY <1>2, <1>3, <1>4, SameLine
<1>7. QueuedLine(queued, S, P)'
  BY <1>1, <1>2 DEF TurnLine, QueuedLine
<1>7a. AtTurn(S)'
  <2>1. turns' = TurnsAfter(sending) /\ AtTurn(S)
    BY <1>2 DEF Handed, ToBusy, TurnLine
  <2>2. CASE status = "busy"
    BY <1>4, <2>1, <2>2 DEF TurnsAfter, AtTurn, Turn
  <2>3. CASE status # "busy"
    <3>1. sending \in Msgs /\ turns \in Seq(Msgs) /\ Turn \in Nat
      BY <1>1, <1>4, LineRanges, Ranges DEF StateTypes
    <3>2. turns' = Append(turns, sending)
      BY <2>1, <2>3 DEF TurnsAfter
    <3>3. Turn' = Turn + 1
      BY <3>1, <3>2, AppendProperties DEF Turn
    <3>. QED  BY <1>4, <2>1, <2>3, <3>1, <3>3 DEF AtTurn
  <2>. QED  BY <2>2, <2>3
<1>8. TurnLine(S, P)'
  BY <1>1, <1>2, <1>3, <1>4, <1>5, <1>7, <1>7a DEF TurnLine
<1>. QED  BY <1>1, <1>3, <1>4, <1>5, <1>6, <1>8, LineAfter

\* What goes out under a finish's target.
LEMMA TargetKept ==
  ASSUME StateTypes, TargetOwn, NEW f \in fins, FinishStep(f)
  PROVE  TargetOwn'
<1>0. f.target = f.run
  BY DEF TargetOwn
<1>1. ASSUME NEW at, NEW c, NEW g, g = [f EXCEPT !.card = c, !.at = at]
      PROVE  g.target = g.run
  BY <1>0, <1>1 DEF StateTypes, Finish
<1>2. \A g \in fins : \A at : /\ [g EXCEPT !.at = at].target = g.target
                              /\ [g EXCEPT !.at = at].run = g.run
  BY DEF StateTypes, Finish
<1>3. \A g \in fins' : g.target = g.run
  <2>1. CASE FinishGate(f) \/ Answered(f) \/ OpenPopped(f)
    <3>1. PICK at : fins' = (fins \ {f}) \cup {[f EXCEPT !.at = at]} \/ fins' = fins \ {f}
      BY <2>1 DEF FinishGate, Answered, OpenPopped, Goes
    <3>2. PICK g : g = [f EXCEPT !.at = at]
      OBVIOUS
    <3>3. g.target = g.run
      BY <1>0, <1>2, <3>2
    <3>. QED  BY <3>1, <3>2, <3>3 DEF TargetOwn
  <2>2. CASE CloseTurn(f)
    <3>1. PICK g : g = [f EXCEPT !.card = busy,
                               !.at = IF busy = 0 THEN "answer" ELSE "card"]
      OBVIOUS
    <3>2. fins' = (fins \ {f}) \cup {g} /\ g.target = g.run
      BY <1>1, <2>2, <3>1 DEF CloseTurn
    <3>. QED  BY <3>2 DEF TargetOwn
  <2>3. CASE SettleCard(f)
    <3>1. \A h \in fins' : \E k \in fins :
            h = IF k.at = "card" THEN [k EXCEPT !.at = "answer"] ELSE k
      BY <2>3 DEF SettleCard
    <3>2. ASSUME NEW h \in fins' PROVE h.target = h.run
      <4>1. PICK k \in fins : h = IF k.at = "card" THEN [k EXCEPT !.at = "answer"] ELSE k
        BY <3>1
      <4>2. k.target = k.run
        BY DEF TargetOwn
      <4>3. [k EXCEPT !.at = "answer"].target = [k EXCEPT !.at = "answer"].run
        BY <1>2, <4>2
      <4>. QED  BY <4>1, <4>2, <4>3
    <3>. QED  BY <3>2
  <2>. QED  BY <2>1, <2>2, <2>3 DEF FinishStep
<1>4. EveryAnswerUnderOwn'
  <2>1. CASE Answered(f)
    <3>1. PICK a : a = [run |-> f.run, under |-> f.target, turn |-> f.turn]
      OBVIOUS
    <3>2. answers' = answers \cup {a} /\ a.under = a.run
      BY <1>0, <2>1, <3>1 DEF Answered
    <3>. QED  BY <3>2 DEF TargetOwn, EveryAnswerUnderOwn
  <2>2. UNCHANGED answers => EveryAnswerUnderOwn'
    BY DEF TargetOwn, EveryAnswerUnderOwn
  <2>. QED  BY <2>1, <2>2 DEF FinishStep, FinishGate, CloseTurn, SettleCard, OpenPopped
<1>. QED  BY <1>3, <1>4 DEF TargetOwn

LEMMA AnswerInit == Init => AnswerInv
<1>. SUFFICES ASSUME Init PROVE AnswerInv
  OBVIOUS
<1>1. /\ DOMAIN mail = {} /\ DOMAIN waiting = {} /\ DOMAIN queued = {} /\ Len(queued) = 0
      /\ DOMAIN box = {}
  BY EmptySeq DEF Init
<1>2. Reached = 0 /\ RunsOver = 0 /\ 0 \in 0 .. Messages
  BY MessagesAssumption DEF Init, Reached, RunsOver
<1>3. ClaudeLine
  BY DEF Init, ClaudeLine
<1>4. Prompts(mail, 0, 0) /\ Hooks(mail, waiting, 0, 0, 0)
  BY <1>1 DEF Prompts, Hooks
<1>5. QueuedLine(queued, 0, 0)
  BY <1>1 DEF QueuedLine
<1>5a. AtTurn(0)
  BY EmptySeq DEF Init, AtTurn, Turn
<1>6. TurnLine(0, 0)
  BY <1>2, <1>5, <1>5a DEF Init, TurnLine
<1>7. LineInv
  BY <1>2, <1>3, <1>4, <1>6 DEF LineInv
<1>8. HoldLine(waiting) /\ HeldBegun(waiting) /\ TargetOwn
  BY <1>1 DEF Init, HoldLine, AllFree, HeldBegun, TargetOwn, EveryAnswerUnderOwn
<1>. QED  BY <1>7, <1>8 DEF AnswerInv

LEMMA AnswerNext ==
  ASSUME spoilt' = {}
  PROVE  Inv /\ OrderInv /\ AnswerInv /\ [Next]_vars => AnswerInv'
<1>. SUFFICES ASSUME Inv, OrderInv, AnswerInv, [Next]_vars PROVE AnswerInv'
  OBVIOUS
<1>0. StateTypes /\ StateTypes' /\ Begun
  <2>1. Inv'
    BY InvNext
  <2>. QED  BY <2>1 DEF Inv
<1>1. LineInv /\ HoldLine(waiting) /\ HeldBegun(waiting) /\ TargetOwn
  BY DEF AnswerInv
<1>2. SameEvents(waiting, waiting)
  BY DEF SameEvents
<1>3. CASE AdoptTrigger \/ Reaches \/ Tool \/ End
  <2>1. UNCHANGED <<hold, turns, status, cardTurn, waiting, fins, answers>>
    BY <1>3 DEF AdoptTrigger, Reaches, Tool, End, turnVars, holdVars, cardVars, finishVars
  <2>2. HoldLine(waiting)' /\ HeldBegun(waiting)'
    BY <1>1, <2>1, HoldCalm
  <2>3. TargetOwn'
    BY <1>1, <2>1 DEF TargetOwn, EveryAnswerUnderOwn
  <2>. QED  BY <1>0, <1>1, <1>3, <2>2, <2>3, ClaudeLined DEF AnswerInv
<1>4. CASE Handed
  <2>1. HoldLine(waiting)' /\ HeldBegun(waiting)'
    <3>1. /\ turns' = TurnsAfter(sending) /\ status' = "busy" /\ sending # 0
          /\ Ask("sent", sending, TurnsAfter(sending), waiting) /\ UNCHANGED cardTurn
      BY <1>4 DEF Handed, ToBusy, cardVars
    <3>2. sending \in Msgs /\ waiting \in Seq(Waiter)
      BY <1>0, <1>1, <3>1, LineRanges DEF LineInv
    <3>. QED  BY <1>0, <1>1, <3>1, <3>2, AskHold
  <2>2. TargetOwn'
    BY <1>1, <1>4 DEF Handed, finishVars, TargetOwn, EveryAnswerUnderOwn
  <2>. QED  BY <1>0, <1>1, <1>4, <2>1, <2>2, HandedLined DEF AnswerInv
<1>5. CASE Arrives \/ LetGo
  <2>0. ClaudeLine
    BY <1>1 DEF LineInv
  <2>1. PICK S \in Nat, P \in Nat :
          /\ TurnLine(S, P)
          /\ \/ /\ UNCHANGED <<typed, sending, claudeVars, turnVars, trigger, queued,
                               hold, cardVars, finishVars, requests>>
                /\ Lined(mail', waiting', Reached, RunsOver, S, P)
                /\ HoldLine(waiting') /\ HeldBegun(waiting')
             \/ \E e, w, held :
                  /\ NextEvent(e, mail', w, Reached, RunsOver, S, P)
                  /\ Handle(e, w, held)
    BY <1>0, <1>1, <1>5, Delivery
  <2>2. PICK R, E, ml, v : R = Reached /\ E = RunsOver /\ ml = mail' /\ v = waiting'
    OBVIOUS
  <2>3. CASE /\ UNCHANGED <<typed, sending, claudeVars, turnVars, trigger, queued,
                            hold, cardVars, finishVars, requests>>
             /\ Lined(ml, v, R, E, S, P)
             /\ HoldLine(v) /\ HeldBegun(v)
    <3>1. /\ UNCHANGED <<typed, sending, reached, run, box, status, turns, trigger, queued,
                         hold, cardTurn, fins, answers>>
      BY <2>3 DEF claudeVars, turnVars, cardVars, finishVars
    <3>2. Reached' = R /\ RunsOver' = E /\ ClaudeLine'
      BY <2>0, <2>2, <3>1 DEF Reached, RunsOver, ClaudeLine
    <3>3. TurnLine(S, P)'
      <4>1. AtTurn(S)'
        BY <2>1, <3>1, SameAtTurn DEF TurnLine
      <4>. QED  BY <2>1, <2>2, <3>1, <3>2, <4>1 DEF TurnLine, QueuedLine
    <3>4. LineInv'
      BY <1>0, <2>2, <2>3, <3>2, <3>3, LineAfter
    <3>5. HoldLine(waiting)' /\ HeldBegun(waiting)'
      BY <2>2, <2>3, <3>1 DEF HoldLine, HeldBegun, AllFree, Turn
    <3>6. TargetOwn'
      BY <1>1, <3>1 DEF TargetOwn, EveryAnswerUnderOwn
    <3>. QED  BY <3>4, <3>5, <3>6 DEF AnswerInv
  <2>4. ASSUME NEW e, NEW w, NEW held, NextEvent(e, ml, w, R, E, S, P), Handle(e, w, held)
        PROVE  AnswerInv'
    <3>1. LineInv'
      BY <1>0, <2>0, <2>1, <2>2, <2>4, HandleLined
    <3>2. HoldLine(waiting)' /\ HeldBegun(waiting)'
      BY <1>0, <2>1, <2>4, HandleHold
    <3>3. TargetOwn'
      <4>1. UNCHANGED answers
        BY <2>4 DEF Handle, Prompt, PreToolUse, Stop, finishVars
      <4>2. CASE Stop(e, w)
        <5>1. trigger = e.run
          BY <2>1, <2>4, <4>2, AtItsTurn DEF Stop, Own
        <5>2. fins' = fins \cup {Finishing(e)}
          BY <4>2 DEF Stop, Finishing
        <5>3. Finishing(e).target = Finishing(e).run
          BY <5>1 DEF Finishing
        <5>. QED  BY <1>1, <4>1, <5>2, <5>3 DEF TargetOwn, EveryAnswerUnderOwn
      <4>3. CASE Prompt(e, w) \/ PreToolUse(e, w, held)
        BY <1>1, <4>3 DEF Prompt, PreToolUse, finishVars, TargetOwn, EveryAnswerUnderOwn
      <4>. QED  BY <2>4, <4>2, <4>3 DEF Handle
    <3>. QED  BY <3>1, <3>2, <3>3 DEF AnswerInv
  <2>. QED  BY <2>1, <2>2, <2>3, <2>4
<1>6. ASSUME NEW q \in requests, RequestStep(q) PROVE AnswerInv'
  <2>1. UNCHANGED <<typed, sending, claudeVars, mail, status, turns, queued, trigger,
                    fins, answers>>
    BY <1>6 DEF RequestStep, GateOpens, Drop, SendAgain, Supersede, StartTurn,
                Superseded, Sent, turnVars, finishVars
  <2>2. SameEvents(waiting, waiting')
    <3>1. CASE GateOpens(q) \/ SendAgain(q) \/ Supersede(q)
      BY <1>2, <3>1 DEF GateOpens, SendAgain, Supersede, holdVars, SameEvents
    <3>2. CASE Drop(q) \/ Sent(q)
      BY <1>0, <3>2, ReturnSame DEF Drop, Sent
    <3>3. CASE StartTurn(q) \/ Superseded(q)
      BY <1>0, <3>3, ReleaseSame DEF StartTurn, Superseded, Reset
    <3>. QED  BY <1>6, <3>1, <3>2, <3>3 DEF RequestStep
  <2>3. LineInv'
    BY <1>0, <1>1, <2>1, <2>2, LineKept
  <2>4. TargetOwn'
    BY <1>1, <2>1 DEF TargetOwn, EveryAnswerUnderOwn
  <2>. QED  BY <1>0, <1>1, <1>6, <2>3, <2>4, RequestHold DEF AnswerInv
<1>7. ASSUME NEW f \in fins, FinishStep(f) PROVE AnswerInv'
  <2>1. UNCHANGED <<typed, sending, claudeVars, mail, status, turns, queued, hold, waiting,
                    cardTurn>>
    BY <1>7 DEF FinishStep, FinishGate, CloseTurn, SettleCard, Answered, OpenPopped,
                turnVars, holdVars, cardVars
  <2>2. trigger' # trigger => status # "busy" /\ trigger' = 0
    <3>1. CASE Answered(f)
      <4>1. trigger' = TargetAfter(f)
        BY <3>1 DEF Answered
      <4>2. status = "busy" => f.turn # Turn
        <5>1. f.turn \in Nat /\ Turn \in Nat
          BY <1>0, Ranges DEF StateTypes, Finish
        <5>2. status = "busy" => f.turn < Turn
          BY DEF OrderInv, TurnInv, BusyTurn
        <5>. QED  BY <5>1, <5>2
      <4>. QED  BY <4>1, <4>2 DEF TargetAfter
    <3>2. CASE ~ Answered(f)
      BY <1>7, <3>2 DEF FinishStep, FinishGate, CloseTurn, SettleCard, OpenPopped
    <3>. QED  BY <3>1, <3>2
  <2>3. LineInv'
    BY <1>0, <1>1, <1>2, <2>1, <2>2, LineKept DEF SameEvents
  <2>4. HoldLine(waiting)' /\ HeldBegun(waiting)'
    BY <1>1, <2>1, HoldCalm
  <2>. QED  BY <1>0, <1>1, <1>7, <2>3, <2>4, TargetKept DEF AnswerInv
<1>8. CASE UNCHANGED vars
  <2>1. UNCHANGED <<typed, sending, claudeVars, mail, status, turns, queued, trigger, hold,
                    waiting, cardTurn, fins, answers>>
    BY <1>8 DEF vars, turnVars, holdVars, cardVars, finishVars
  <2>2. LineInv'
    BY <1>0, <1>1, <1>2, <2>1, LineKept DEF SameEvents
  <2>3. HoldLine(waiting)' /\ HeldBegun(waiting)' /\ TargetOwn'
    BY <1>1, <2>1, HoldCalm DEF TargetOwn, EveryAnswerUnderOwn
  <2>. QED  BY <2>2, <2>3 DEF AnswerInv
<1>. QED  BY <1>3, <1>4, <1>5, <1>6, <1>7, <1>8 DEF Next

-----------------------------------------------------------------------------
(* The rows.                                                               *)

\* The running turn's message is the target, and its turn is open.
LEMMA BusyTargetKept ==
  ASSUME Inv, OrderInv, AnswerInv, BusyTarget, spoilt' = {}, [Next]_vars
  PROVE  BusyTarget'
<1>0. /\ StateTypes /\ StateTypes' /\ Begun /\ turns \in Seq(Msgs) /\ Turn \in Nat /\ Turn = Len(turns)
      /\ closed \in Nat /\ closed <= Turn
  <2>1. Inv'
    BY InvNext
  <2>2. StateTypes /\ Begun /\ closed \in 0 .. Turn /\ Turn \in Nat /\ turns \in Seq(Msgs)
    BY Ranges DEF Inv, StateTypes
  <2>. QED  BY <2>1, <2>2 DEF Inv, Turn
<1>1. ASSUME UNCHANGED <<status, turns, closed>>, status = "busy" => trigger' = trigger
      PROVE  BusyTarget'
  BY <1>1 DEF BusyTarget, Turn
<1>2. ASSUME NEW m \in Msgs, turns' = Append(turns, m), trigger' = m, UNCHANGED closed
      PROVE  BusyTarget'
  <2>1. Turn' = Turn + 1 /\ turns'[Turn + 1] = m
    BY <1>0, <1>2, AppendProperties DEF Turn
  <2>2. Turn + 1 # 0 /\ closed < Turn + 1
    BY <1>0
  <2>. QED  BY <1>2, <2>1, <2>2 DEF BusyTarget
<1>3. CASE AdoptTrigger \/ Reaches \/ Tool \/ End
  BY <1>1, <1>3 DEF AdoptTrigger, Reaches, Tool, End, turnVars
<1>4. CASE Handed
  <2>1. sending \in Msgs
    BY <1>0, <1>4, LineRanges DEF AnswerInv, LineInv, Handed
  <2>2. /\ turns' = TurnsAfter(sending) /\ UNCHANGED <<closed, trigger>>
        /\ status' = "busy"
    BY <1>4 DEF Handed, ToBusy
  <2>3. CASE status = "busy"
    BY <1>0, <1>1, <2>1, <2>2, <2>3, NewTurn
  <2>4. CASE status # "busy"
    <3>1. trigger = sending
      BY <1>0, <1>4, <2>4, HandedLined DEF AnswerInv
    <3>. QED  BY <1>0, <1>2, <2>1, <2>2, <2>4, <3>1, NewTurn
  <2>. QED  BY <2>3, <2>4
<1>5. CASE Arrives \/ LetGo
  <2>1. PICK S \in Nat, P \in Nat :
          /\ TurnLine(S, P)
          /\ \/ UNCHANGED <<turnVars, trigger>>
             \/ \E e, w, held :
                  /\ NextEvent(e, mail', w, Reached, RunsOver, S, P)
                  /\ Handle(e, w, held)
    BY <1>0, <1>5, Delivery DEF AnswerInv
  <2>2. CASE UNCHANGED <<turnVars, trigger>>
    BY <1>1, <2>2 DEF turnVars
  <2>3. ASSUME NEW e, NEW w, NEW ml, NEW held,
               NextEvent(e, ml, w, Reached, RunsOver, S, P), Handle(e, w, held)
        PROVE  BusyTarget'
    <3>0. e.run \in Msgs
      BY <2>3 DEF NextEvent, Event
    <3>1. CASE Prompt(e, w) /\ status = "busy"
      BY <1>1, <3>1 DEF Prompt, turnVars
    <3>2. CASE Prompt(e, w) /\ status # "busy"
      <4>1. turns' = TurnsAfter(e.run) /\ trigger' = e.run /\ UNCHANGED closed
        BY <3>2 DEF Prompt, ToBusy
      <4>. QED  BY <1>0, <1>2, <3>0, <3>2, <4>1, NewTurn
    <3>3. CASE PreToolUse(e, w, held)
      <4>1. status = "busy"
        BY <2>1, <2>3, <3>3, AtItsTurn DEF PreToolUse, Own
      <4>. QED  BY <1>1, <3>3, <4>1 DEF PreToolUse, ToBusy, TurnsAfter
    <3>4. CASE Stop(e, w)
      <4>1. CASE queued = <<>>
        BY <3>4, <4>1 DEF Stop, BusyTarget
      <4>2. CASE queued # <<>>
        <5>1. Head(queued) \in Msgs
          BY <1>0, <4>2, HeadTailProperties DEF StateTypes
        <5>2. Head(queued) # 0
          BY <5>1 DEF Msgs
        <5>. QED  BY <1>2, <3>4, <4>2, <5>1, <5>2 DEF Stop
      <4>. QED  BY <4>1, <4>2
    <3>. QED  BY <2>3, <3>1, <3>2, <3>3, <3>4 DEF Handle
  <2>. QED  BY <2>1, <2>2, <2>3
<1>6. ASSUME NEW q \in requests, RequestStep(q) PROVE BusyTarget'
  BY <1>1, <1>6 DEF RequestStep, GateOpens, Drop, SendAgain, Supersede, StartTurn,
                    Superseded, Sent, turnVars
<1>7. ASSUME NEW f \in fins, FinishStep(f) PROVE BusyTarget'
  <2>0. f.turn \in Nat /\ (status = "busy" => f.turn < Turn)
    BY <1>0 DEF StateTypes, Finish, OrderInv, TurnInv, BusyTurn
  <2>1. CASE CloseTurn(f)
    <3>1. /\ closed' = IF f.turn > closed THEN f.turn ELSE closed
          /\ UNCHANGED <<status, turns, trigger>>
      BY <2>1 DEF CloseTurn
    <3>. QED  BY <1>0, <2>0, <3>1 DEF BusyTarget, Turn
  <2>2. CASE Answered(f)
    <3>1. UNCHANGED <<status, turns, closed>> /\ trigger' = TargetAfter(f)
      BY <2>2 DEF Answered, turnVars
    <3>2. status = "busy" => trigger' = trigger
      BY <1>0, <2>0, <3>1 DEF TargetAfter
    <3>. QED  BY <1>1, <3>1, <3>2
  <2>3. CASE FinishGate(f) \/ SettleCard(f) \/ OpenPopped(f)
    BY <1>1, <2>3 DEF FinishGate, SettleCard, OpenPopped, turnVars
  <2>. QED  BY <1>7, <2>1, <2>2, <2>3 DEF FinishStep
<1>8. CASE UNCHANGED vars
  BY <1>1, <1>8 DEF vars, turnVars
<1>. QED  BY <1>3, <1>4, <1>5, <1>6, <1>7, <1>8 DEF Next

\* A card request that may go on finds no other card: the older turns'
\* finishes, which settle theirs, are over.
LEMMA FreeSlot ==
  ASSUME Inv, TurnInv, CardTurns, InOrder,
         NEW q \in requests, Enters(q), ~ Stale(q), ~ SameTurn(q)
  PROVE  busy = 0
<1>1. /\ q.turn = Turn /\ ~ (q.turn <= closed) /\ q.turn # cardTurn
      /\ Turn \in Nat /\ cardTurn \in Nat /\ closed \in Nat /\ cardTurn <= Turn
  <2>1. Turn \in Nat /\ cardTurn \in 0 .. Turn /\ closed \in 0 .. Turn
    BY Ranges DEF Inv, StateTypes
  <2>. QED  BY <2>1 DEF Stale, SameTurn
<1>2. NoneBefore(q.turn, fins)
  BY DEF Enters, InOrder, AskedLast
<1>3. cardTurn <= closed
  <2>1. CASE cardTurn = 0
    BY <1>1, <2>1
  <2>2. CASE cardTurn # 0
    <3>1. cardTurn \in 1 .. Turn /\ cardTurn < Turn
      BY <1>1, <2>2
    <3>2. ~ \E f \in fins : f.at \in {"gate", "lock"} /\ f.turn = cardTurn
      BY <1>1, <1>2, <3>1 DEF NoneBefore, Holding
    <3>. QED  BY <1>1, <3>1, <3>2 DEF TurnInv, Finished
  <2>. QED  BY <2>1, <2>2
<1>4. ASSUME NEW f \in fins, f.at = "card" PROVE FALSE
  <2>1. f.turn >= q.turn /\ f.turn <= closed /\ f.turn \in Nat
    BY <1>2, <1>4 DEF NoneBefore, Holding, CardTurns, EditClosed, Inv, StateTypes, Finish
  <2>. QED  BY <1>1, <2>1
<1>. QED  BY <1>3, <1>4 DEF CardTurns, ClosedShown

\* Steps that leave the turn, its hold and its rows.
LEMMA RowsCalm ==
  ASSUME RowsHeld, UNCHANGED <<turns, status, hold, waiting, cardTurn, rows>>,
         busy' \in {busy, 0},
         \A q \in requests : q.at = "enter" => q \in requests',
         \A q \in requests' : q \in requests \/ q.at # "settling"
  PROVE  RowsHeld'
<1>1. StateHeld'
  BY DEF RowsHeld, StateHeld, Turn
<1>2. FreeTurn(waiting)' /\ NoneSettles' /\ RowsOfCard'
  BY DEF RowsHeld, FreeTurn, NoneSettles, RowsOfCard, Turn
<1>. QED  BY <1>1, <1>2 DEF RowsHeld

\* A request leaves, and lets go of its hold: it is of an older turn, or the
\* card state is the running turn's.
LEMMA LeavesRows ==
  ASSUME Inv, RowsHeld, HoldLine(waiting), HeldBegun(waiting), NEW q \in requests,
         Return(q), UNCHANGED <<turns, status, cardTurn, rows>>,
         status = "busy" /\ cardTurn # Turn => q.turn # Turn,
         status = "busy" /\ cardTurn # Turn => hold = Turn \/ busy' = busy
  PROVE  RowsHeld'
<1>0. /\ q.turn \in Nat /\ q.turn <= Turn /\ Turn \in Nat /\ hold \in Nat
      /\ waiting \in Seq(Waiter) /\ requests' = requests \ {q}
      /\ \/ waiting' = waiting /\ hold' = hold
         \/ hold # 0 /\ hold <= q.turn /\ hold' = 0 /\ waiting' = Freed(waiting)
  BY Ranges DEF Inv, Begun, StateTypes, Request, Return, Release, holdVars
<1>1. PICK v : v = waiting'
  OBVIOUS
<1>2. StateHeld'
  <2>1. ASSUME status = "busy", cardTurn # Turn
        PROVE  \/ hold' = Turn
               \/ busy' = 0 /\ \E r \in requests' : r.at = "enter" /\ r.turn = Turn
    <3>1. q.turn # Turn
      BY <2>1
    <3>2. CASE hold = Turn
      BY <1>0, <3>1, <3>2
    <3>3. CASE hold # Turn
      BY <1>0, <2>1, <3>1, <3>3 DEF RowsHeld, StateHeld
    <3>. QED  BY <3>2, <3>3
  <2>. QED  BY <2>1 DEF StateHeld, Turn
<1>3. \A i \in DOMAIN v : v[i].free /\ v[i].held = Turn /\ status = "busy" => cardTurn = Turn
  <2>1. CASE v = waiting
    BY <2>1 DEF RowsHeld, FreeTurn
  <2>2. CASE hold <= q.turn /\ v = Freed(waiting)
    <3>1. DOMAIN v = DOMAIN waiting /\ \A i \in DOMAIN waiting : v[i].held = waiting[i].held
      <4>1. \A i \in DOMAIN waiting : waiting[i] \in Waiter
        BY <1>0, ElementOfSeq, LenProperties
      <4>2. \A x \in Waiter : [x EXCEPT !.free = TRUE].held = x.held
        BY DEF Waiter
      <4>. QED  BY <2>2, <4>1, <4>2 DEF Freed
    <3>2. CASE AllFree(waiting)
      BY <3>1, <3>2 DEF AllFree, RowsHeld, FreeTurn
    <3>3. CASE ~ AllFree(waiting)
      <4>1. hold = Turn /\ status = "busy" /\ cardTurn # Turn
        BY <3>3 DEF HoldLine
      <4>. QED  BY <1>0, <2>2, <4>1
    <3>. QED  BY <3>2, <3>3
  <2>. QED  BY <1>0, <1>1, <2>1, <2>2
<1>4. FreeTurn(waiting)'
  BY <1>1, <1>3 DEF FreeTurn, Turn
<1>5. NoneSettles' /\ RowsOfCard'
  BY <1>0 DEF RowsHeld, NoneSettles, RowsOfCard
<1>. QED  BY <1>2, <1>4, <1>5 DEF RowsHeld

LEMMA RequestRows ==
  ASSUME Inv, TurnInv, CardTurns, InOrder, BusyTarget, RowsHeld,
         HoldLine(waiting), HeldBegun(waiting), NEW q \in requests, RequestStep(q)
  PROVE  RowsHeld'
<1>0. /\ q \in Request /\ q.turn \in Nat /\ Turn \in Nat /\ StateTypes /\ closed \in Nat
      /\ UNCHANGED <<turns, status>> /\ Turn' = Turn
  <2>1. UNCHANGED <<turns, status>>
    BY DEF RequestStep, GateOpens, Drop, SendAgain, Supersede, StartTurn,
           Superseded, Sent, turnVars
  <2>2. StateTypes /\ q \in Request /\ Turn \in Nat /\ closed \in 0 .. Turn
    BY Ranges DEF Inv, StateTypes
  <2>. QED  BY <2>1, <2>2 DEF Request, Turn
<1>1. CASE GateOpens(q)
  <2>1. PICK r : r = [q EXCEPT !.at = IF Locked THEN "lock" ELSE "enter"]
    OBVIOUS
  <2>2. r.at # "settling"
    BY <1>0, <2>1, MovedRequest
  <2>3. requests' = (requests \ {q}) \cup {r} /\ q.at = "gated"
    BY <1>1, <2>1 DEF GateOpens, Move
  <2>4. UNCHANGED <<hold, waiting, cardTurn, rows, busy>>
    BY <1>1 DEF GateOpens, holdVars, cardVars
  <2>. QED  BY <1>0, <2>2, <2>3, <2>4, RowsCalm
<1>2. CASE Drop(q)
  <2>1. status = "busy" /\ cardTurn # Turn => q.turn # Turn
    <3>1. ASSUME status = "busy", cardTurn # Turn, q.turn = Turn PROVE FALSE
      <4>1. ~ Stale(q)
        BY <1>0, <3>1 DEF Stale, BusyTarget
      <4>2. ~ SameTurn(q)
        BY <3>1 DEF SameTurn
      <4>3. busy = 0
        BY <1>2, <4>1, <4>2, FreeSlot DEF Drop
      <4>. QED  BY <1>2, <4>1, <4>2, <4>3 DEF Drop, Dropped
    <3>. QED  BY <3>1
  <2>2. Return(q) /\ UNCHANGED <<cardTurn, rows, busy>>
    BY <1>2 DEF Drop, cardVars
  <2>. QED  BY <1>0, <2>1, <2>2, LeavesRows
<1>3. CASE SendAgain(q)
  <2>1. cardTurn = Turn
    BY <1>3 DEF SendAgain, Dropped, Stale, SameTurn
  <2>2. PICK r : r = [q EXCEPT !.at = "sending"]
    OBVIOUS
  <2>3. r.at # "settling" /\ requests' = (requests \ {q}) \cup {r}
    BY <1>0, <1>3, <2>2, MovedRequest DEF SendAgain, Move
  <2>4. UNCHANGED <<hold, waiting, cardTurn, rows>>
    BY <1>3 DEF SendAgain, holdVars
  <2>5. StateHeld' /\ FreeTurn(waiting)'
    BY <1>0, <2>1, <2>4 DEF StateHeld, FreeTurn
  <2>6. NoneSettles' /\ RowsOfCard'
    BY <1>0, <2>3, <2>4 DEF RowsHeld, NoneSettles, RowsOfCard
  <2>. QED  BY <2>5, <2>6 DEF RowsHeld
<1>4. CASE Supersede(q)
  <2>1. ~ Stale(q) /\ ~ SameTurn(q) /\ Enters(q) /\ busy # 0
    BY <1>4 DEF Supersede, Dropped
  <2>. QED  BY <2>1, FreeSlot
<1>5. CASE StartTurn(q)
  <2>1. q.turn = Turn
    BY <1>5 DEF StartTurn, Dropped, Stale
  <2>2. PICK r : r = [q EXCEPT !.at = "sending"]
    OBVIOUS
  <2>3. r.at # "settling" /\ requests' = (requests \ {q}) \cup {r}
    BY <1>0, <1>5, <2>2, MovedRequest DEF StartTurn, Reset, Move
  <2>4. cardTurn' = Turn' /\ rows' = {}
    BY <1>0, <1>5, <2>1 DEF StartTurn, Reset
  <2>5. StateHeld' /\ FreeTurn(waiting)' /\ RowsOfCard'
    BY <2>4 DEF StateHeld, FreeTurn, RowsOfCard
  <2>6. NoneSettles'
    BY <2>3 DEF RowsHeld, NoneSettles
  <2>. QED  BY <2>5, <2>6 DEF RowsHeld
<1>6. CASE Superseded(q)
  BY <1>6 DEF Superseded, RowsHeld, NoneSettles
<1>7. CASE Sent(q)
  <2>1. q.turn = cardTurn /\ busy # 0
    BY <1>7 DEF Sent, CardTurns, SendTurn, Inv, CardInv, SendClaims, Claim
  <2>2. Return(q) /\ UNCHANGED <<cardTurn, rows>>
    BY <1>7 DEF Sent
  <2>3. status = "busy" /\ cardTurn # Turn => hold = Turn
    BY <2>1 DEF RowsHeld, StateHeld
  <2>. QED  BY <1>0, <2>1, <2>2, <2>3, LeavesRows
<1>. QED  BY <1>1, <1>2, <1>3, <1>4, <1>5, <1>6, <1>7 DEF RequestStep

\* A request made for the running turn, or for the turn that begins: then its
\* hooks are held until the request is let through, or it goes on at once.
LEMMA AskRows ==
  ASSUME Inv, TurnInv, CardTurns, InOrder, BusyTarget, RowsHeld,
         NEW w \in Seq(Waiter), HoldLine(w), HeldBegun(w), FreeTurn(w),
         NEW why, NEW m, NEW m2 \in Msgs, Ask(why, m, TurnsAfter(m2), w),
         turns' = TurnsAfter(m2), status' = "busy", UNCHANGED cardVars
  PROVE  RowsHeld'
<1>. DEFINE t == Len(TurnsAfter(m2))
            gated == gate # 0 /\ FinishingTurn < t /\ cardTurn # t
<1>0. /\ Turn \in Nat /\ cardTurn \in Nat /\ cardTurn <= Turn /\ turns \in Seq(Msgs)
      /\ closed \in Nat /\ closed <= Turn /\ Turn = Len(turns) /\ Turn' = t
      /\ StateTypes /\ Begun
  <2>1. StateTypes /\ Begun /\ Turn \in Nat /\ cardTurn \in 0 .. Turn /\ closed \in 0 .. Turn
    BY Ranges DEF Inv, StateTypes
  <2>. QED  BY <2>1, Ranges DEF Turn
<1>1. PICK q : q = [why |-> why, msg |-> m, turn |-> t,
                    gate |-> IF gated THEN gate ELSE 0,
                    at |-> IF gated THEN "gated" ELSE IF Locked THEN "lock" ELSE "enter"]
  OBVIOUS
<1>2. /\ requests' = requests \cup {q} /\ q.turn = t /\ q.at # "settling"
      /\ ~ gated /\ ~ Locked => q.at = "enter"
      /\ IF gated THEN HoldNewest(t, w) ELSE waiting' = w /\ UNCHANGED hold
  BY <1>1 DEF Ask
<1>3. UNCHANGED <<busy, cardTurn, rows>>
  BY DEF cardVars
<1>4. NoneSettles'
  BY <1>2 DEF RowsHeld, NoneSettles
<1>5. CASE status = "busy"
  <2>1. turns' = turns /\ t = Turn /\ Turn' = Turn
    BY <1>0, <1>5, NewTurn DEF Turn
  <2>2. hold' = Turn \/ hold' = hold
    BY <1>2, <2>1 DEF HoldNewest
  <2>3. StateHeld'
    BY <1>2, <1>3, <1>5, <2>1, <2>2 DEF RowsHeld, StateHeld
  <2>4. PICK v : v = waiting'
    OBVIOUS
  <2>5. \A i \in DOMAIN v : v[i].free /\ v[i].held = Turn => cardTurn = Turn
    <3>1. CASE v = w
      BY <1>5, <3>1 DEF FreeTurn
    <3>2. CASE v = Freed(w) /\ hold \notin {0, Turn}
      <4>1. AllFree(w)
        BY <3>2 DEF HoldLine
      <4>2. \A i \in DOMAIN w : w[i] \in Waiter
        BY ElementOfSeq, LenProperties
      <4>3. \A x \in Waiter : [x EXCEPT !.free = TRUE].held = x.held
        BY DEF Waiter
      <4>. QED  BY <1>5, <3>2, <4>1, <4>2, <4>3 DEF FreeTurn, AllFree, Freed
    <3>3. v = w \/ (v = Freed(w) /\ hold \notin {0, Turn})
      BY <1>2, <2>1, <2>4 DEF HoldNewest
    <3>. QED  BY <3>1, <3>2, <3>3
  <2>6. FreeTurn(waiting)'
    BY <1>3, <2>1, <2>4, <2>5 DEF FreeTurn
  <2>7. RowsOfCard'
    BY <1>3, <2>1 DEF RowsHeld, RowsOfCard
  <2>. QED  BY <1>4, <2>3, <2>6, <2>7 DEF RowsHeld
<1>6. CASE status # "busy"
  <2>1. turns' = Append(turns, m2) /\ t = Turn + 1 /\ Turn' = Turn + 1
    BY <1>0, <1>6, NewTurn
  <2>2. PICK v : v = waiting'
    OBVIOUS
  <2>3. HeldBegun(v)
    BY <1>2, <2>2, FreedFree DEF HoldNewest
  <2>4. FreeTurn(waiting)'
    BY <1>0, <2>1, <2>2, <2>3 DEF HeldBegun, FreeTurn
  <2>5. \A k \in 1 .. Turn : turns'[k] = turns[k]
    BY <1>0, <2>1, AppendProperties
  <2>6. RowsOfCard'
    BY <1>0, <1>3, <2>5 DEF RowsHeld, RowsOfCard
  <2>7. StateHeld'
    <3>1. CASE gated
      BY <1>2, <2>1, <3>1 DEF HoldNewest, StateHeld
    <3>2. CASE ~ gated
      <4>1. gate = 0
        <5>1. ASSUME gate # 0 PROVE FALSE
          <6>1. \E f \in fins : f.run = gate
            BY <5>1 DEF InOrder, Chain, GateKept
          <6>2. (CHOOSE f \in fins : f.run = gate) \in fins
            BY <6>1
          <6>3. FinishingTurn \in Nat /\ FinishingTurn <= Turn
            BY <1>0, <6>2 DEF FinishingTurn, Begun, StateTypes, Finish
          <6>. QED  BY <1>0, <2>1, <3>2, <5>1, <6>3
        <5>. QED  BY <5>1
      <4>2. \A f \in fins : ~ Holding(f)
        BY <4>1 DEF InOrder, Chain, GateKept
      <4>3. closed = Turn
        <5>1. Turn \in 1 .. Turn => Turn <= closed
          BY <1>6, <4>2 DEF TurnInv, Finished, Holding
        <5>. QED  BY <1>0, <5>1
      <4>4. ~ Locked
        <5>1. ASSUME NEW r \in requests, Inside(r) PROVE FALSE
          <6>1. r.turn > closed /\ r.turn <= Turn /\ r.turn \in Nat
            BY <1>0, <5>1 DEF CardTurns, InsideOpen, Begun, StateTypes, Request
          <6>. QED  BY <1>0, <4>3, <6>1
        <5>. QED  BY <5>1 DEF Locked, Inside
      <4>5. busy = 0
        BY <1>0, <4>2, <4>3 DEF CardTurns, ClosedShown, Holding
      <4>. QED  BY <1>2, <1>3, <2>1, <3>2, <4>4, <4>5 DEF StateHeld
    <3>. QED  BY <3>1, <3>2
  <2>. QED  BY <1>4, <2>4, <2>6, <2>7 DEF RowsHeld
<1>. QED  BY <1>5, <1>6

\* A turn's hook that is not held, or is let go, has its turn's card state.
LEMMA HandleRows ==
  ASSUME Inv, TurnInv, CardTurns, InOrder, BusyTarget, RowsHeld, HoldLine(waiting),
         NEW S \in Nat, NEW P \in Nat, TurnLine(S, P),
         NEW e, NEW ml, NEW w, NEW R, NEW E, NextEvent(e, ml, w, R, E, S, P),
         NEW held, Own(e) => HeldFor(held, waiting), ~ Entering, Handle(e, w, held),
         \A i \in DOMAIN w : \E j \in DOMAIN waiting : w[i] = waiting[j]
  PROVE  RowsHeld'
<1>0. /\ w \in Seq(Waiter) /\ HoldLine(w) /\ HeldBegun(w) /\ FreeTurn(w)
      /\ e.run \in Msgs /\ Turn \in Nat /\ StateTypes /\ turns \in Seq(Msgs)
      /\ Turn = Len(turns) /\ cardTurn \in Nat /\ cardTurn <= Turn
  <2>1. FreeTurn(w)
    BY DEF RowsHeld, FreeTurn
  <2>2. cardTurn \in 0 .. Turn /\ Turn \in Nat /\ StateTypes /\ turns \in Seq(Msgs)
    BY Ranges DEF Inv, StateTypes
  <2>. QED  BY <2>1, <2>2 DEF NextEvent, Event, Turn
<1>1. CASE Prompt(e, w)
  <2>1. UNCHANGED cardVars
    BY <1>1 DEF Prompt
  <2>2. CASE status = "busy"
    <3>1. UNCHANGED <<turns, status, hold, cardTurn, rows, busy, requests>> /\ waiting' = w
      BY <1>1, <2>2 DEF Prompt, turnVars, cardVars
    <3>2. FreeTurn(waiting)' /\ StateHeld' /\ NoneSettles' /\ RowsOfCard'
      BY <1>0, <3>1 DEF RowsHeld, FreeTurn, StateHeld, NoneSettles, RowsOfCard, Turn
    <3>. QED  BY <3>2 DEF RowsHeld
  <2>3. CASE status # "busy"
    BY <1>0, <1>1, <2>1, <2>3, AskRows DEF Prompt, ToBusy
  <2>. QED  BY <2>2, <2>3
<1>2. CASE PreToolUse(e, w, held)
  <2>1. Own(e)
    BY <1>2 DEF PreToolUse, Own
  <2>2. status = "busy" /\ trigger = e.run
    BY <2>1, AtItsTurn
  <2>3. Turn # 0 /\ turns[Turn] = e.run
    BY <2>2 DEF BusyTarget
  <2>4. /\ UNCHANGED <<turns, status, hold, cardTurn, busy, requests>> /\ waiting' = w
        /\ rows' = rows \cup {[run |-> e.run, stray |-> held # 0 /\ held # Turn]}
    BY <1>0, <1>2, <2>2 DEF PreToolUse, ToBusy, TurnsAfter
  <2>5. held = 0 \/ held = Turn => cardTurn = Turn
    <3>1. CASE held = 0 /\ ~ Held
      <4>1. hold # Turn \/ cardTurn = Turn
        BY <2>3, <3>1 DEF Held
      <4>2. ~ \E q \in requests : q.at = "enter"
        BY DEF Entering
      <4>. QED  BY <2>2, <4>1, <4>2 DEF RowsHeld, StateHeld
    <3>2. CASE held \in 1 .. Turn /\ \E i \in DOMAIN waiting : waiting[i].free /\ waiting[i].held = held
      BY <1>0, <2>2, <3>2 DEF RowsHeld, FreeTurn
    <3>. QED  BY <2>1, <3>1, <3>2 DEF HeldFor
  <2>6. RowsOfCard'
    <3>1. PICK x : x = [run |-> e.run, stray |-> held # 0 /\ held # Turn]
      OBVIOUS
    <3>2. x.run = e.run /\ (x.stray <=> held # 0 /\ held # Turn)
      BY <3>1
    <3>3. x.stray \/ (cardTurn # 0 /\ x.run = turns[cardTurn])
      BY <2>3, <2>5, <3>2
    <3>. QED  BY <2>4, <3>1, <3>3 DEF RowsHeld, RowsOfCard
  <2>7. FreeTurn(waiting)' /\ StateHeld' /\ NoneSettles'
    BY <1>0, <2>4 DEF RowsHeld, FreeTurn, StateHeld, NoneSettles, Turn
  <2>. QED  BY <2>6, <2>7 DEF RowsHeld
<1>3. CASE Stop(e, w)
  <2>1. UNCHANGED <<requests, cardTurn, rows>>
    BY <1>3 DEF Stop, cardVars
  <2>2. NoneSettles'
    BY <2>1 DEF RowsHeld, NoneSettles
  <2>3. CASE queued = <<>>
    <3>1. status' = "idle" /\ UNCHANGED turns
      BY <1>3, <2>3 DEF Stop
    <3>2. StateHeld' /\ FreeTurn(waiting)' /\ RowsOfCard'
      BY <2>1, <3>1 DEF RowsHeld, StateHeld, FreeTurn, RowsOfCard
    <3>. QED  BY <2>2, <3>2 DEF RowsHeld
  <2>4. CASE queued # <<>>
    <3>1. Head(queued) \in Msgs /\ Head(queued) # 0
      <4>1. Head(queued) \in Msgs
        BY <1>0, <2>4, HeadTailProperties DEF StateTypes
      <4>. QED  BY <4>1 DEF Msgs
    <3>2. turns' = Append(turns, Head(queued)) /\ HoldNewest(Turn + 1, w)
      BY <1>3, <2>4, <3>1 DEF Stop
    <3>3. Turn' = Turn + 1 /\ \A k \in 1 .. Turn : turns'[k] = turns[k]
      BY <1>0, <3>1, <3>2, AppendProperties DEF Turn
    <3>4. StateHeld'
      BY <3>2, <3>3 DEF HoldNewest, StateHeld
    <3>5. PICK v : v = waiting'
      OBVIOUS
    <3>6. HeldBegun(v)
      BY <1>0, <3>2, <3>5, FreedFree DEF HoldNewest
    <3>7. FreeTurn(waiting)'
      BY <1>0, <3>3, <3>5, <3>6 DEF HeldBegun, FreeTurn
    <3>8. RowsOfCard'
      BY <1>0, <2>1, <3>3 DEF RowsHeld, RowsOfCard
    <3>. QED  BY <2>2, <3>4, <3>7, <3>8 DEF RowsHeld
  <2>. QED  BY <2>3, <2>4
<1>. QED  BY <1>1, <1>2, <1>3 DEF Handle

LEMMA RowsKept ==
  ASSUME Inv, OrderInv, AnswerInv, RowInv, [Next]_vars, gaveUp = {}
  PROVE  RowsHeld'
<1>0. /\ StateTypes /\ LineInv /\ HoldLine(waiting) /\ HeldBegun(waiting)
      /\ TurnInv /\ CardTurns /\ InOrder /\ BusyTarget /\ RowsHeld
  BY DEF Inv, OrderInv, AnswerInv, RowInv
<1>1. CASE AdoptTrigger \/ Reaches \/ Tool \/ End
  BY <1>0, <1>1, RowsCalm DEF AdoptTrigger, Reaches, Tool, End, turnVars, holdVars, cardVars
<1>2. CASE Handed
  <2>1. /\ turns' = TurnsAfter(sending) /\ status' = "busy" /\ sending # 0
        /\ Ask("sent", sending, TurnsAfter(sending), waiting) /\ UNCHANGED cardVars
    BY <1>2 DEF Handed, ToBusy
  <2>2. sending \in Msgs /\ waiting \in Seq(Waiter) /\ FreeTurn(waiting)
    BY <1>0, <2>1, LineRanges DEF LineInv, RowsHeld
  <2>. QED  BY <1>0, <2>1, <2>2, AskRows
<1>3. CASE Arrives \/ LetGo
  <2>1. PICK S \in Nat, P \in Nat :
          /\ TurnLine(S, P)
          /\ \/ /\ UNCHANGED <<typed, sending, claudeVars, turnVars, trigger, queued,
                               hold, cardVars, finishVars, requests>>
                /\ \A i \in DOMAIN waiting' : ~ waiting'[i].free
             \/ \E e, w, held :
                  /\ NextEvent(e, mail', w, Reached, RunsOver, S, P)
                  /\ Own(e) => HeldFor(held, waiting)
                  /\ ~ Entering /\ Handle(e, w, held)
                  /\ \A i \in DOMAIN w : \E j \in DOMAIN waiting : w[i] = waiting[j]
    BY <1>0, <1>3, Delivery
  <2>2. CASE /\ UNCHANGED <<turnVars, hold, cardVars, requests>>
             /\ \A i \in DOMAIN waiting' : ~ waiting'[i].free
    <3>1. UNCHANGED <<status, turns, hold, busy, cardTurn, rows, requests>>
      BY <2>2 DEF turnVars, cardVars
    <3>2. FreeTurn(waiting)'
      BY <2>2 DEF FreeTurn
    <3>3. StateHeld' /\ NoneSettles' /\ RowsOfCard'
      BY <1>0, <3>1 DEF RowsHeld, StateHeld, NoneSettles, RowsOfCard, Turn
    <3>. QED  BY <3>2, <3>3 DEF RowsHeld
  <2>3. ASSUME NEW e, NEW w, NEW ml, NEW held,
               NextEvent(e, ml, w, Reached, RunsOver, S, P),
               Own(e) => HeldFor(held, waiting), ~ Entering, Handle(e, w, held),
               \A i \in DOMAIN w : \E j \in DOMAIN waiting : w[i] = waiting[j]
        PROVE  RowsHeld'
    BY <1>0, <2>1, <2>3, HandleRows
  <2>. QED  BY <2>1, <2>2, <2>3
<1>4. ASSUME NEW q \in requests, RequestStep(q) PROVE RowsHeld'
  BY <1>0, <1>4, RequestRows
<1>5. ASSUME NEW f \in fins, FinishStep(f) PROVE RowsHeld'
  <2>1. UNCHANGED <<turns, status, hold, waiting, cardTurn, rows>> /\ busy' \in {busy, 0}
    BY <1>5 DEF FinishStep, FinishGate, CloseTurn, SettleCard, Answered, OpenPopped,
                turnVars, holdVars, cardVars
  <2>2. CASE OpenPopped(f)
    <3>1. PICK q : q = [why |-> "popped", msg |-> f.popped, turn |-> f.turn + 1, gate |-> 0,
                        at |-> IF Locked THEN "lock" ELSE "enter"]
      OBVIOUS
    <3>2. requests' = requests \cup {q} /\ q.at # "settling"
      BY <2>2, <3>1 DEF OpenPopped
    <3>. QED  BY <1>0, <2>1, <3>2, RowsCalm
  <2>3. CASE ~ OpenPopped(f)
    <3>1. UNCHANGED requests
      BY <1>5, <2>3 DEF FinishStep, FinishGate, CloseTurn, SettleCard, Answered
    <3>. QED  BY <1>0, <2>1, <3>1, RowsCalm
  <2>. QED  BY <2>2, <2>3
<1>6. CASE UNCHANGED vars
  BY <1>0, <1>6, RowsCalm DEF vars, turnVars, holdVars, cardVars
<1>. QED  BY <1>1, <1>2, <1>3, <1>4, <1>5, <1>6 DEF Next

LEMMA RowInit == Init => RowInv
<1>. SUFFICES ASSUME Init PROVE RowInv
  OBVIOUS
<1>1. DOMAIN waiting = {} /\ status # "busy" /\ requests = {} /\ rows = {}
  BY EmptySeq DEF Init
<1>. QED  BY <1>1 DEF RowInv, BusyTarget, RowsHeld, StateHeld, FreeTurn, NoneSettles, RowsOfCard

LEMMA RowNext ==
  ASSUME spoilt' = {}
  PROVE  Inv /\ OrderInv /\ AnswerInv /\ RowInv /\ [Next]_vars => RowInv'
<1>. SUFFICES ASSUME Inv, OrderInv, AnswerInv, RowInv, [Next]_vars PROVE RowInv'
  OBVIOUS
<1>1. BusyTarget'
  BY BusyTargetKept DEF RowInv
<1>2. ASSUME gaveUp' = {} PROVE RowsHeld'
  <2>1. gaveUp = {}
    BY <1>2, GivenUpStays
  <2>. QED  BY <2>1, RowsKept
<1>. QED  BY <1>1, <1>2 DEF RowInv

\* All this is so as long as no message is spoilt.
LEMMA RowInvariance ==
  Spec => [](Inv /\ OrderInv /\ (spoilt = {} => AnswerInv /\ RowInv))
<1>1. Init => Inv /\ OrderInv /\ (spoilt = {} => AnswerInv /\ RowInv)
  BY InvInit, OrderInit, AnswerInit, RowInit
<1>2. ASSUME Inv, OrderInv, spoilt = {} => AnswerInv /\ RowInv, [Next]_vars, spoilt' = {}
      PROVE  AnswerInv' /\ RowInv'
  <2>1. spoilt = {}
    BY <1>2, SpoiltStays
  <2>. QED  BY <1>2, <2>1, AnswerNext, RowNext
<1>3. (Inv /\ OrderInv /\ (spoilt = {} => AnswerInv /\ RowInv)) /\ [Next]_vars
        => (Inv /\ OrderInv /\ (spoilt = {} => AnswerInv /\ RowInv))'
  BY <1>2, InvNext, OrderNext
<1>. QED  BY <1>1, <1>3, PTL DEF Spec

\* Every row of the animated card is its own turn's, or a stray one
\* (TurnCards.OwnRows), while nobody stopped waiting for a finish and until
\* the first race: a hook that comes before its turn's card state is held
\* until that state is set, and let go before a newer one.
THEOREM RowsAreOwn == Spec => []OwnRows
<1>1. (spoilt = {} => AnswerInv /\ RowInv) => OwnRows
  BY DEF RowInv, RowsHeld, RowsOfCard, OwnRows
<1>. QED  BY <1>1, RowInvariance, PTL

-----------------------------------------------------------------------------
(* What the chat is promised: the cards and the turns.                     *)

\* The animated card runs.  A finish that has been at its card has closed its
\* turn, and one that is done with it has left no card of that turn, or of an
\* older one, running.
PastLock(f) == f.at \in {"card", "answer", "popping"}
PastCard(f) == f.at \in {"answer", "popping"}
SlotLive == busy \in DOMAIN cards => cards[busy].state = "live"
PastClosed == \A f \in fins : PastLock(f) => f.turn <= closed
PastSettled == \A f \in fins : PastCard(f) =>
  \A k \in DOMAIN cards : cards[k].state = "live" => cards[k].turn > f.turn

ChatInv == SlotLive /\ PastClosed /\ PastSettled

\* Steps that touch no card and close no turn.
LEMMA ChatCalm ==
  ASSUME StateTypes, ChatInv, UNCHANGED <<cards, closed>>, busy' \in {busy, Claim},
         \A g \in fins' : PastLock(g) =>
           \E f \in fins : PastLock(f) /\ f.turn = g.turn /\ (PastCard(g) => PastCard(f))
  PROVE  ChatInv'
<1>1. SlotLive'
  <2>1. Claim \notin DOMAIN cards
    BY CardRanges
  <2>. QED  BY <2>1 DEF ChatInv, SlotLive
<1>2. PastClosed'
  BY DEF ChatInv, PastClosed
<1>3. PastSettled'
  <2>1. \A g : PastCard(g) => PastLock(g)
    BY DEF PastCard, PastLock
  <2>. QED  BY <2>1 DEF ChatInv, PastSettled
<1>. QED  BY <1>1, <1>2, <1>3 DEF ChatInv

\* The finish f goes on, past no more than it was, or out.
LEMMA ChatGoes ==
  ASSUME StateTypes, ChatInv, UNCHANGED <<cards, closed, busy>>, NEW f \in fins, NEW at,
         fins' = fins \ {f} \/ fins' = (fins \ {f}) \cup {[f EXCEPT !.at = at]},
         at = "lock" \/ (at = "popping" /\ f.at = "answer")
  PROVE  ChatInv'
<1>1. PICK g : g = [f EXCEPT !.at = at]
  OBVIOUS
<1>2. g.at = at /\ g.turn = f.turn
  BY <1>1 DEF StateTypes, Finish
<1>3. PastLock(g) => PastLock(f) /\ PastCard(f)
  BY <1>2 DEF PastLock, PastCard
<1>. QED  BY <1>1, <1>2, <1>3, ChatCalm

LEMMA ChatCloses ==
  ASSUME StateTypes, CardInv, ChatInv, NEW f \in fins, CloseTurn(f)
  PROVE  ChatInv'
<1>1. PICK g : g = [f EXCEPT !.card = busy, !.at = IF busy = 0 THEN "answer" ELSE "card"]
  OBVIOUS
<1>2. g.turn = f.turn /\ g.at = IF busy = 0 THEN "answer" ELSE "card"
  BY <1>1 DEF StateTypes, Finish
<1>3. /\ closed' = IF f.turn > closed THEN f.turn ELSE closed
      /\ fins' = (fins \ {f}) \cup {g} /\ UNCHANGED <<busy, cards>>
  BY <1>1 DEF CloseTurn, cardVars
<1>4. PICK d : d = closed'
  OBVIOUS
<1>5. d \in Nat /\ closed \in Nat /\ closed <= d /\ f.turn <= d
  BY <1>3, <1>4, CardRanges
<1>6. PastClosed'
  <2>1. \A h \in fins : PastLock(h) => h.turn <= d
    <3>1. \A h \in fins : h.turn \in Nat
      BY CardRanges
    <3>. QED  BY <1>5, <3>1 DEF ChatInv, PastClosed
  <2>2. \A h \in fins' : PastLock(h) => h.turn <= d
    BY <1>2, <1>3, <1>5, <2>1
  <2>. QED  BY <1>4, <2>2 DEF PastClosed
<1>7. PastSettled'
  <2>1. CASE busy = 0
    <3>1. \A k \in DOMAIN cards : cards[k].state # "live"
      BY <2>1, CardRanges DEF CardInv, LiveInSlot
    <3>. QED  BY <1>3, <3>1 DEF PastSettled
  <2>2. CASE busy # 0
    <3>1. ~ PastCard(g)
      BY <1>2, <2>2 DEF PastCard
    <3>. QED  BY <1>3, <3>1 DEF ChatInv, PastSettled
  <2>. QED  BY <2>1, <2>2
<1>8. SlotLive'
  BY <1>3 DEF ChatInv, SlotLive
<1>. QED  BY <1>6, <1>7, <1>8 DEF ChatInv

LEMMA ChatSettles ==
  ASSUME StateTypes, CardInv, ChatInv, NEW f \in fins, SettleCard(f)
  PROVE  ChatInv'
<1>1. /\ f.card = busy /\ busy \in DOMAIN cards /\ f.turn \in Nat
      /\ busy' = 0 /\ cards' = Over(busy, f.turn) /\ UNCHANGED closed
  BY CardRanges DEF SettleCard, CardInv, FinishHasSlot, turnVars
<1>2. PICK c, k : c = cards' /\ k = busy
  OBVIOUS
<1>3. /\ DOMAIN c = DOMAIN cards /\ c[k].state = "over" /\ 0 \notin DOMAIN c
      /\ \A l \in DOMAIN cards \ {k} : c[l] = cards[l]
  BY <1>1, <1>2, OverCard, CardRanges
<1>4. \A l \in DOMAIN c : c[l].state # "live"
  BY <1>2, <1>3 DEF CardInv, LiveInSlot
<1>5. \A g \in fins' : PastLock(g) => \E h \in fins : PastLock(h) /\ h.turn = g.turn
  <2>1. \A h \in fins : [h EXCEPT !.at = "answer"].turn = h.turn
    BY DEF StateTypes, Finish
  <2>2. ASSUME NEW g \in fins', PastLock(g)
        PROVE  \E h \in fins : PastLock(h) /\ h.turn = g.turn
    <3>1. PICK h \in fins : g = IF h.at = "card" THEN [h EXCEPT !.at = "answer"] ELSE h
      BY DEF SettleCard
    <3>2. h.at = "card" => PastLock(h)
      BY DEF PastLock
    <3>. QED  BY <2>1, <2>2, <3>1, <3>2
  <2>. QED  BY <2>2
<1>6. PastClosed'
  BY <1>1, <1>5 DEF ChatInv, PastClosed
<1>7. SlotLive' /\ PastSettled'
  BY <1>1, <1>2, <1>3, <1>4 DEF SlotLive, PastSettled
<1>. QED  BY <1>6, <1>7 DEF ChatInv

\* The older turn's card, when the request is to replace one.
LEMMA SupersededSlot ==
  ASSUME StateTypes, CardInv, NEW q \in requests, Superseded(q)
  PROVE  /\ busy \in DOMAIN cards \cup {0} /\ busy' = Claim /\ Inside(q)
         /\ UNCHANGED <<turns, closed, fins, answers, gaveUp>>
<1>1. q.at = "settling" /\ Reset(q) /\ UNCHANGED <<turns, closed, fins, answers, gaveUp>>
  BY DEF Superseded, finishVars
<1>2. Inside(q) /\ busy' = Claim
  BY <1>1 DEF Inside, Reset
<1>3. \A r \in requests : r.at # "sending"
  BY <1>1 DEF CardInv, OneInside, Inside
<1>4. busy # Claim
  BY <1>3 DEF CardInv, ClaimSends
<1>. QED  BY <1>1, <1>2, <1>4, CardRanges

LEMMA ChatReplaces ==
  ASSUME StateTypes, CardInv, ChatInv, NEW q \in requests, Superseded(q)
  PROVE  ChatInv'
<1>1. /\ busy \in DOMAIN cards \cup {0} /\ busy' = Claim /\ UNCHANGED <<closed, fins>>
      /\ IF busy = 0 THEN UNCHANGED cards ELSE cards' = Over(busy, cards[busy].turn)
  BY SupersededSlot DEF Superseded
<1>2. CASE busy = 0
  BY <1>1, <1>2, ChatCalm
<1>3. CASE busy # 0
  <2>1. PICK c, k, t : c = cards' /\ k = busy /\ t = cards[busy].turn
    OBVIOUS
  <2>2. k \in DOMAIN cards /\ t \in Nat /\ c = Over(k, t)
    BY <1>1, <1>3, <2>1, CardRanges
  <2>3. /\ DOMAIN c = DOMAIN cards /\ c[k].state = "over" /\ Claim \notin DOMAIN c
        /\ \A l \in DOMAIN cards \ {k} : c[l] = cards[l]
    BY <2>2, OverCard, CardRanges
  <2>4. \A l \in DOMAIN c : c[l].state # "live"
    BY <2>1, <2>3 DEF CardInv, LiveInSlot
  <2>5. SlotLive' /\ PastSettled'
    BY <1>1, <2>1, <2>3, <2>4 DEF SlotLive, PastSettled
  <2>6. PastClosed'
    BY <1>1 DEF ChatInv, PastClosed
  <2>. QED  BY <2>5, <2>6 DEF ChatInv
<1>. QED  BY <1>2, <1>3

\* The new card, and the chat before it: none runs, and the turn is open.
LEMMA SentCard ==
  ASSUME StateTypes, CardInv, CardTurns, NEW q \in requests, Sent(q)
  PROVE  /\ \A k \in DOMAIN cards : cards[k].state # "live"
         /\ q.turn > closed /\ UNCHANGED <<turns, closed, fins, answers, gaveUp, spoilt>>
         /\ \E state \in {"live", "lost"} :
              /\ cards' = Append(cards, [turn |-> q.turn, state |-> state, by |-> 0])
              /\ busy' = IF state = "live" THEN Len(cards) + 1 ELSE 0
<1>1. q.at = "sending" /\ q.turn > closed /\ busy = Claim
  BY DEF Sent, CardTurns, InsideOpen, Inside, CardInv, SendClaims
<1>2. \A k \in DOMAIN cards : cards[k].state # "live"
  BY <1>1, CardRanges DEF CardInv, LiveInSlot
<1>3. UNCHANGED <<turns, closed, fins, answers, gaveUp, spoilt>>
  BY DEF Sent, turnVars, finishVars
<1>. QED  BY <1>1, <1>2, <1>3 DEF Sent

LEMMA ChatSends ==
  ASSUME StateTypes, CardInv, CardTurns, ChatInv, NEW q \in requests, Sent(q)
  PROVE  ChatInv'
<1>1. /\ \A k \in DOMAIN cards : cards[k].state # "live"
      /\ q.turn > closed /\ UNCHANGED <<closed, fins>>
  BY SentCard
<1>2. PICK state \in {"live", "lost"} :
        /\ cards' = Append(cards, [turn |-> q.turn, state |-> state, by |-> 0])
        /\ busy' = IF state = "live" THEN Len(cards) + 1 ELSE 0
  BY SentCard
<1>3. PICK c, d, n : /\ c = cards' /\ n = Len(cards)
                     /\ d = [turn |-> q.turn, state |-> state, by |-> 0]
  OBVIOUS
<1>4. c = Append(cards, d) /\ d.turn = q.turn /\ d.state = state
  BY <1>2, <1>3
<1>5. /\ n \in Nat /\ DOMAIN cards = 1 .. n /\ DOMAIN c = 1 .. n + 1
      /\ c[n + 1] = d /\ \A k \in 1 .. n : c[k] = cards[k]
  <2>1. cards \in Seq(Card)
    BY DEF StateTypes
  <2>. QED  BY <1>3, <1>4, <2>1, AppendProperties, LenProperties
<1>6. \A k \in DOMAIN c : k = n + 1 \/ c[k].state # "live"
  BY <1>1, <1>5
<1>7. SlotLive'
  <2>1. 0 \notin DOMAIN c
    BY <1>5
  <2>. QED  BY <1>2, <1>3, <1>4, <1>5, <2>1 DEF SlotLive
<1>8. PastClosed'
  BY <1>1 DEF ChatInv, PastClosed
<1>9. ASSUME NEW f \in fins, PastCard(f) PROVE q.turn > f.turn
  <2>1. PastLock(f)
    BY <1>9 DEF PastCard, PastLock
  <2>2. f.turn <= closed
    BY <2>1 DEF ChatInv, PastClosed
  <2>. QED  BY <1>1, <2>2, CardRanges
<1>10. PastSettled'
  BY <1>1, <1>3, <1>4, <1>5, <1>6, <1>9 DEF PastSettled
<1>. QED  BY <1>7, <1>8, <1>10 DEF ChatInv

LEMMA ChatKept ==
  ASSUME StateTypes, CardInv, RunInv, CardTurns, ChatInv, [Next]_vars
  PROVE  ChatInv'
<1>1. ASSUME UNCHANGED <<cards, closed, fins>>, busy' \in {busy, Claim} PROVE ChatInv'
  BY <1>1, ChatCalm
<1>2. CASE AdoptTrigger \/ Reaches \/ Handed \/ Tool \/ End \/ UNCHANGED vars
  <2>1. UNCHANGED <<cards, closed, fins, busy>>
    BY <1>2 DEF AdoptTrigger, Reaches, Handed, Tool, End, vars, turnVars, cardVars, finishVars
  <2>. QED  BY <1>1, <2>1
<1>3. CASE Arrives \/ LetGo
  <2>1. CASE UNCHANGED <<turnVars, cardVars, finishVars>>
    BY <1>1, <2>1 DEF turnVars, cardVars, finishVars
  <2>2. ASSUME NEW e, NEW w, NEW held, Handle(e, w, held) PROVE ChatInv'
    <3>1. CASE Prompt(e, w) \/ PreToolUse(e, w, held)
      <4>1. UNCHANGED <<cards, closed, fins, busy>>
        BY <3>1 DEF Prompt, PreToolUse, turnVars, cardVars, finishVars
      <4>. QED  BY <1>1, <4>1
    <3>2. CASE Stop(e, w)
      <4>1. PICK g : g = Finishing(e)
        OBVIOUS
      <4>2. fins' = fins \cup {g} /\ UNCHANGED <<cards, closed, busy>>
        BY <3>2, <4>1 DEF Stop, Finishing, cardVars
      <4>3. ~ PastLock(g)
        BY <4>1 DEF Finishing, PastLock
      <4>. QED  BY <4>2, <4>3, ChatCalm
    <3>. QED  BY <2>2, <3>1, <3>2 DEF Handle
  <2>. QED  BY <1>3, <2>1, <2>2, Delivered
<1>4. ASSUME NEW q \in requests, RequestStep(q) PROVE ChatInv'
  <2>1. CASE GateOpens(q) \/ Drop(q) \/ SendAgain(q) \/ Supersede(q) \/ StartTurn(q)
    <3>1. UNCHANGED <<cards, closed, fins>> /\ busy' \in {busy, Claim}
      BY <2>1 DEF GateOpens, Drop, SendAgain, Supersede, StartTurn, Reset, turnVars,
                  cardVars, finishVars
    <3>. QED  BY <1>1, <3>1
  <2>. QED  BY <1>4, <2>1, ChatReplaces, ChatSends DEF RequestStep
<1>5. ASSUME NEW f \in fins, FinishStep(f) PROVE ChatInv'
  <2>1. CASE FinishGate(f) \/ Answered(f) \/ OpenPopped(f)
    <3>1. UNCHANGED <<cards, closed, busy>>
      BY <2>1 DEF FinishGate, Answered, OpenPopped, turnVars, cardVars
    <3>2. \/ fins' = fins \ {f} \/ fins' = (fins \ {f}) \cup {[f EXCEPT !.at = "lock"]}
          \/ f.at = "answer" /\ fins' = (fins \ {f}) \cup {[f EXCEPT !.at = "popping"]}
      BY <2>1 DEF FinishGate, Answered, OpenPopped, Goes
    <3>. QED  BY <3>1, <3>2, ChatGoes
  <2>. QED  BY <1>5, <2>1, ChatCloses, ChatSettles DEF FinishStep
<1>. QED  BY <1>2, <1>3, <1>4, <1>5 DEF Next

LEMMA ChatInit == Init => ChatInv
<1>. SUFFICES ASSUME Init PROVE ChatInv
  OBVIOUS
<1>1. DOMAIN cards = {} /\ fins = {}
  BY EmptySeq DEF Init
<1>. QED  BY <1>1 DEF ChatInv, SlotLive, PastClosed, PastSettled

-----------------------------------------------------------------------------
(* A message is answered once.                                             *)

\* An answered run has ended, its Stop is not on its way and its finish does
\* not hold the gate.
AnsweredOver == \A a \in answers :
  /\ a.run \notin Unended /\ ~ OnWay(a.run, mail, waiting)
  /\ \A f \in fins : Holding(f) => f.run # a.run

\* The finishes go on: one that holds its gate gives it back with its answer.
FinsGoOn ==
  /\ \A g \in fins' : \E f \in fins :
       /\ g.run = f.run /\ g.turn = f.turn /\ g.target = f.target
       /\ Holding(g) => Holding(f)
  /\ \A f \in fins : Holding(f) =>
       \/ \E g \in fins' : g.run = f.run /\ Holding(g)
       \/ Answered(f)

LEMMA FinsGo ==
  ASSUME StateTypes, NEW f \in fins, FinishStep(f)
  PROVE  FinsGoOn
<1>1. ASSUME NEW g, g.run = f.run, g.turn = f.turn, g.target = f.target, Holding(g), Holding(f),
             fins' = (fins \ {f}) \cup {g}
      PROVE  FinsGoOn
  BY <1>1 DEF FinsGoOn
<1>2. CASE FinishGate(f)
  <2>1. PICK g : g = [f EXCEPT !.at = "lock"]
    OBVIOUS
  <2>2. g.run = f.run /\ g.turn = f.turn /\ g.target = f.target /\ g.at = "lock" /\ f.at = "gate"
    BY <1>2, <2>1 DEF FinishGate, StateTypes, Finish
  <2>3. fins' = (fins \ {f}) \cup {g}
    BY <1>2, <2>1 DEF FinishGate, Goes
  <2>. QED  BY <1>1, <2>2, <2>3 DEF Holding
<1>3. CASE CloseTurn(f)
  <2>1. PICK g : g = [f EXCEPT !.card = busy, !.at = IF busy = 0 THEN "answer" ELSE "card"]
    OBVIOUS
  <2>2. g.run = f.run /\ g.turn = f.turn /\ g.target = f.target /\ g.at # "popping" /\ f.at = "lock"
    BY <1>3, <2>1 DEF CloseTurn, StateTypes, Finish
  <2>3. fins' = (fins \ {f}) \cup {g}
    BY <1>3, <2>1 DEF CloseTurn
  <2>. QED  BY <1>1, <2>2, <2>3 DEF Holding
<1>4. CASE SettleCard(f)
  <2>1. \A h \in fins : LET g == [h EXCEPT !.at = "answer"]
                        IN g.run = h.run /\ g.turn = h.turn /\ g.target = h.target /\ g.at = "answer"
    BY DEF StateTypes, Finish
  <2>2. fins' = {IF g.at = "card" THEN [g EXCEPT !.at = "answer"] ELSE g : g \in fins}
    BY <1>4 DEF SettleCard
  <2>3. ASSUME NEW g \in fins'
        PROVE  \E h \in fins : /\ g.run = h.run /\ g.turn = h.turn /\ g.target = h.target
                               /\ Holding(g) => Holding(h)
    <3>1. PICK h \in fins : g = IF h.at = "card" THEN [h EXCEPT !.at = "answer"] ELSE h
      BY <2>2
    <3>. QED  BY <2>1, <3>1 DEF Holding
  <2>4. ASSUME NEW h \in fins, Holding(h)
        PROVE  \E g \in fins' : g.run = h.run /\ Holding(g)
    <3>1. PICK g : g = IF h.at = "card" THEN [h EXCEPT !.at = "answer"] ELSE h
      OBVIOUS
    <3>2. g \in fins'
      BY <2>2, <3>1
    <3>3. g.run = h.run /\ Holding(g)
      BY <2>1, <2>4, <3>1 DEF Holding
    <3>. QED  BY <3>2, <3>3
  <2>5. \A g \in fins' : \E h \in fins :
          /\ g.run = h.run /\ g.turn = h.turn /\ g.target = h.target
          /\ Holding(g) => Holding(h)
    BY <2>3
  <2>6. \A h \in fins : Holding(h) => \E g \in fins' : g.run = h.run /\ Holding(g)
    BY <2>4
  <2>. QED  BY <2>5, <2>6 DEF FinsGoOn
<1>5. CASE Answered(f)
  <2>1. PICK g : g = [f EXCEPT !.at = "popping"]
    OBVIOUS
  <2>2. g.run = f.run /\ g.turn = f.turn /\ g.target = f.target /\ ~ Holding(g)
    BY <2>1 DEF StateTypes, Finish, Holding
  <2>3. fins' = fins \ {f} \/ fins' = (fins \ {f}) \cup {g}
    BY <1>5, <2>1 DEF Answered, Goes
  <2>4. \A h \in fins' : \E k \in fins :
          h.run = k.run /\ h.turn = k.turn /\ h.target = k.target /\ (Holding(h) => Holding(k))
    BY <2>2, <2>3
  <2>5. \A h \in fins : h = f \/ h \in fins'
    BY <2>3
  <2>. QED  BY <1>5, <2>4, <2>5 DEF FinsGoOn
<1>6. CASE OpenPopped(f)
  BY <1>6 DEF OpenPopped, FinsGoOn, Holding
<1>. QED  BY <1>2, <1>3, <1>4, <1>5, <1>6 DEF FinishStep

\* What a step does to the finishes and the answers.
LEMMA FinsAfter ==
  ASSUME StateTypes, RunInv, [Next]_vars
  PROVE  \/ FinsGoOn /\ UNCHANGED answers
         \/ \E f \in fins : FinsGoOn /\ Answered(f)
         \/ \E e, w : /\ Stop(e, w) /\ e \in Event /\ OnWay(e.run, mail, waiting)
                      /\ fins' = fins \cup {Finishing(e)} /\ UNCHANGED answers
<1>1. UNCHANGED fins => FinsGoOn
  BY DEF FinsGoOn
<1>2. CASE AdoptTrigger \/ Reaches \/ Handed \/ Tool \/ End \/ UNCHANGED vars
  BY <1>1, <1>2 DEF AdoptTrigger, Reaches, Handed, Tool, End, vars, finishVars
<1>3. CASE Arrives \/ LetGo
  <2>1. CASE UNCHANGED finishVars
    BY <1>1, <2>1 DEF finishVars
  <2>2. ASSUME NEW e, NEW w, NEW held, Taken(e, mail', w), Handle(e, w, held)
        PROVE  \/ UNCHANGED <<fins, answers>>
               \/ /\ Stop(e, w) /\ e \in Event /\ OnWay(e.run, mail, waiting)
                  /\ fins' = fins \cup {Finishing(e)} /\ UNCHANGED answers
    <3>1. CASE Stop(e, w)
      BY <2>2, <3>1 DEF Taken, Stop, Finishing
    <3>2. CASE Prompt(e, w) \/ PreToolUse(e, w, held)
      BY <3>2 DEF Prompt, PreToolUse, finishVars
    <3>. QED  BY <2>2, <3>1, <3>2 DEF Handle
  <2>3. CASE \E e, w, held : Taken(e, mail', w) /\ Handle(e, w, held)
    BY <1>1, <2>2, <2>3
  <2>. QED  BY <1>3, <2>1, <2>3, Delivered
<1>4. ASSUME NEW q \in requests, RequestStep(q) PROVE FinsGoOn /\ UNCHANGED answers
  <2>1. UNCHANGED <<fins, answers>>
    BY <1>4 DEF RequestStep, GateOpens, Drop, SendAgain, Supersede, StartTurn,
                Superseded, Sent, finishVars
  <2>. QED  BY <1>1, <2>1
<1>5. ASSUME NEW f \in fins, FinishStep(f)
      PROVE  FinsGoOn /\ (UNCHANGED answers \/ Answered(f))
  <2>1. FinsGoOn
    BY <1>5, FinsGo
  <2>. QED  BY <1>5, <2>1 DEF FinishStep, FinishGate, CloseTurn, SettleCard, OpenPopped
<1>. QED  BY <1>2, <1>3, <1>4, <1>5 DEF Next

\* What is answered is the run of the finish; nobody answers it again.
LEMMA AnsweredKept ==
  ASSUME StateTypes, RunInv, AnsweredOver, [Next]_vars
  PROVE  AnsweredOver'
<1>1. PICK U, ml, w, F, A :
        U = Unended' /\ ml = mail' /\ w = waiting' /\ F = fins' /\ A = answers'
  OBVIOUS
<1>2. /\ U \subseteq Unended
      /\ \A r \in Msgs : OnWay(r, ml, w) => OnWay(r, mail, waiting) \/ r \in Unended
  BY <1>1, RunsKept DEF StopsCome
<1>3. \A a \in answers : a.run \in Msgs
  BY DEF StateTypes
<1>4. \A a \in answers : a.run \notin U /\ ~ OnWay(a.run, ml, w)
  BY <1>2, <1>3 DEF AnsweredOver
<1>5. SUFFICES \A a \in A : /\ a.run \notin U /\ ~ OnWay(a.run, ml, w)
                            /\ \A g \in F : Holding(g) => g.run # a.run
  BY <1>1 DEF AnsweredOver
<1>6. ASSUME NEW a \in answers, FinsGoOn
      PROVE  \A g \in F : Holding(g) => g.run # a.run
  BY <1>1, <1>6 DEF AnsweredOver, FinsGoOn
<1>7. CASE FinsGoOn /\ UNCHANGED answers
  BY <1>1, <1>4, <1>6, <1>7
<1>8. ASSUME NEW f \in fins, FinsGoOn, Answered(f)
      PROVE  \A a \in A : /\ a.run \notin U /\ ~ OnWay(a.run, ml, w)
                          /\ \A g \in F : Holding(g) => g.run # a.run
  <2>1. PICK b, h : /\ b = [run |-> f.run, under |-> f.target, turn |-> f.turn]
                    /\ h = [f EXCEPT !.at = "popping"]
    OBVIOUS
  <2>2. /\ A = answers \cup {b} /\ b.run = f.run
        /\ F = fins \ {f} \/ F = (fins \ {f}) \cup {h}
    BY <1>1, <1>8, <2>1 DEF Answered, Goes
  <2>3. ~ Holding(h) /\ f.run \in Msgs
    BY <2>1 DEF StateTypes, Finish, Holding
  <2>4. Known(f.run, fins, gate)
    BY DEF Known
  <2>5. f.run \notin Unended /\ ~ OnWay(f.run, mail, waiting)
    BY <2>3, <2>4 DEF RunInv, Ended, Fresh
  <2>6. f.run \notin U /\ ~ OnWay(f.run, ml, w)
    BY <1>2, <2>3, <2>5
  <2>7. \A g \in F : Holding(g) => g.run # f.run
    BY <2>2, <2>3 DEF RunInv, OwnRun
  <2>. QED  BY <1>4, <1>6, <1>8, <2>2, <2>6, <2>7
<1>9. ASSUME NEW e, e \in Event, OnWay(e.run, mail, waiting),
             fins' = fins \cup {Finishing(e)}, UNCHANGED answers
      PROVE  \A a \in A : /\ a.run \notin U /\ ~ OnWay(a.run, ml, w)
                          /\ \A g \in F : Holding(g) => g.run # a.run
  <2>1. PICK h : h = Finishing(e)
    OBVIOUS
  <2>2. h.run = e.run /\ F = fins \cup {h} /\ A = answers
    BY <1>1, <1>9, <2>1 DEF Finishing
  <2>3. \A a \in answers : a.run # e.run
    BY <1>9 DEF AnsweredOver
  <2>. QED  BY <1>4, <2>2, <2>3 DEF AnsweredOver
<1>. QED  BY <1>7, <1>8, <1>9, FinsAfter

-----------------------------------------------------------------------------
(* The turns are the messages', and the answers come in their order.       *)

\* The turns whose Stop has come.
Ends == IF status = "busy" THEN Turn - 1 ELSE Turn
Answerd(m) == \E a \in answers : a.run = m

\* Turn t is message t's, and so is its finish; a turn whose Stop has come is
\* answered, or its finish holds the gate.
TurnsOwn == \A t \in 1 .. Turn : turns[t] = t
TargetTurn == status = "busy" => Turn # 0 /\ trigger = Turn /\ turns[Turn] = Turn
FinsOwn == \A f \in fins : f.turn = f.run /\ f.run \in 1 .. Ends
AllFinished == \A n \in 1 .. Ends :
  Answerd(n) \/ \E f \in fins : Holding(f) /\ f.run = n

AnswersLined == gaveUp = {} =>
  \A a \in answers : \A m \in 1 .. a.run : \E b \in answers : b.run = m

TurnsLine == TurnsOwn /\ TargetTurn /\ FinsOwn /\ AllFinished /\ AnswersLined

\* The running turn is the target's, and the daemon is at the turn after the
\* last that was over.
LEMMA TargetAfterwards ==
  ASSUME LineInv', BusyTarget'
  PROVE  TargetTurn'
<1>1. PICK S \in Nat, P \in Nat : TurnLine(S, P)'
  BY MessagesAssumption DEF LineInv
<1>2. status' = "busy" => trigger' = S + 1 /\ Turn' = S + 1
  BY <1>1 DEF TurnLine, AtTurn
<1>3. status' = "busy" => turns'[Turn'] = trigger' /\ Turn' # 0
  BY DEF BusyTarget
<1>. QED  BY <1>2, <1>3 DEF TargetTurn

\* How the turns and the status go on.
TurnsGoOn ==
  \/ UNCHANGED <<status, turns>>
  \/ /\ status # "busy" /\ status' = "busy"
     /\ \E m \in Msgs : turns' = Append(turns, m)
TurnEnds ==
  /\ status = "busy"
  /\ \/ status' # "busy" /\ UNCHANGED turns
     \/ status' = "busy" /\ \E m \in Msgs : turns' = Append(turns, m)

LEMMA TurnsStep ==
  ASSUME StateTypes, LineInv, HoldLine(waiting), HeldBegun(waiting), RunInv, [Next]_vars
  PROVE  \/ TurnsGoOn /\ FinsGoOn /\ UNCHANGED answers
         \/ TurnsGoOn /\ FinsGoOn /\ \E f \in fins : Answered(f)
         \/ \E e : /\ TurnEnds /\ e \in Event /\ trigger = e.run
                   /\ fins' = fins \cup {Finishing(e)} /\ UNCHANGED answers
<1>1. UNCHANGED fins => FinsGoOn
  BY DEF FinsGoOn
<1>2. CASE AdoptTrigger \/ Reaches \/ Tool \/ End \/ UNCHANGED vars
  BY <1>1, <1>2 DEF AdoptTrigger, Reaches, Tool, End, vars, turnVars, finishVars, TurnsGoOn
<1>3. CASE Handed
  <2>1. sending \in Msgs
    BY <1>3, LineRanges DEF Handed, LineInv
  <2>2. TurnsGoOn
    BY <1>3, <2>1 DEF Handed, ToBusy, TurnsAfter, TurnsGoOn
  <2>. QED  BY <1>1, <1>3, <2>2 DEF Handed, finishVars
<1>4. CASE Arrives \/ LetGo
  <2>1. PICK S \in Nat, P \in Nat :
          /\ TurnLine(S, P)
          /\ \/ UNCHANGED <<turnVars, finishVars>>
             \/ \E e, w, held :
                  /\ NextEvent(e, mail', w, Reached, RunsOver, S, P)
                  /\ Handle(e, w, held)
    BY <1>4, Delivery
  <2>2. CASE UNCHANGED <<turnVars, finishVars>>
    BY <1>1, <2>2 DEF turnVars, finishVars, TurnsGoOn
  <2>3. ASSUME NEW e, NEW w, NEW ml, NEW held,
               NextEvent(e, ml, w, Reached, RunsOver, S, P), Handle(e, w, held)
        PROVE  \/ TurnsGoOn /\ FinsGoOn /\ UNCHANGED answers
               \/ /\ TurnEnds /\ e \in Event /\ trigger = e.run
                  /\ fins' = fins \cup {Finishing(e)} /\ UNCHANGED answers
    <3>0. e \in Event /\ e.run \in Msgs
      BY <2>3 DEF NextEvent, Event
    <3>1. CASE Prompt(e, w)
      <4>1. TurnsGoOn
        BY <3>0, <3>1 DEF Prompt, ToBusy, TurnsAfter, turnVars, TurnsGoOn
      <4>. QED  BY <1>1, <3>1, <4>1 DEF Prompt, finishVars
    <3>2. CASE PreToolUse(e, w, held)
      <4>1. status = "busy"
        BY <2>1, <2>3, <3>2, AtItsTurn DEF PreToolUse, Own
      <4>2. TurnsGoOn
        BY <3>2, <4>1 DEF PreToolUse, ToBusy, TurnsAfter, TurnsGoOn
      <4>. QED  BY <1>1, <3>2, <4>2 DEF PreToolUse, finishVars
    <3>3. CASE Stop(e, w)
      <4>1. status = "busy" /\ trigger = e.run
        BY <2>1, <2>3, <3>3, AtItsTurn DEF Stop, Own
      <4>2. fins' = fins \cup {Finishing(e)} /\ UNCHANGED answers
        BY <3>3 DEF Stop, Finishing
      <4>3. TurnEnds
        <5>1. CASE queued = <<>>
          BY <3>3, <4>1, <5>1 DEF Stop, TurnEnds
        <5>2. CASE queued # <<>>
          <6>1. Head(queued) \in Msgs
            BY <5>2, HeadTailProperties DEF StateTypes
          <6>2. Head(queued) # 0
            BY <6>1 DEF Msgs
          <6>3. status' = "busy" /\ turns' = Append(turns, Head(queued))
            BY <3>3, <5>2, <6>2 DEF Stop
          <6>. QED  BY <4>1, <6>1, <6>3 DEF TurnEnds
        <5>. QED  BY <5>1, <5>2
      <4>. QED  BY <3>0, <4>1, <4>2, <4>3
    <3>. QED  BY <2>3, <3>1, <3>2, <3>3 DEF Handle
  <2>. QED  BY <2>1, <2>2, <2>3
<1>5. ASSUME NEW q \in requests, RequestStep(q)
      PROVE  TurnsGoOn /\ FinsGoOn /\ UNCHANGED answers
  <2>1. UNCHANGED <<status, turns, fins, answers>>
    BY <1>5 DEF RequestStep, GateOpens, Drop, SendAgain, Supersede, StartTurn,
                Superseded, Sent, turnVars, finishVars
  <2>. QED  BY <1>1, <2>1 DEF TurnsGoOn
<1>6. ASSUME NEW f \in fins, FinishStep(f)
      PROVE  TurnsGoOn /\ FinsGoOn /\ (UNCHANGED answers \/ Answered(f))
  <2>1. FinsGoOn
    BY <1>6, FinsGo
  <2>2. UNCHANGED <<status, turns>>
    BY <1>6 DEF FinishStep, FinishGate, CloseTurn, SettleCard, Answered, OpenPopped, turnVars
  <2>. QED  BY <1>6, <2>1, <2>2 DEF FinishStep, FinishGate, CloseTurn, SettleCard, OpenPopped,
                                    TurnsGoOn
<1>. QED  BY <1>2, <1>3, <1>4, <1>5, <1>6 DEF Next

\* One turn more.
LEMMA TurnsGrow ==
  ASSUME StateTypes, TurnsOwn, TargetTurn', TurnsGoOn \/ TurnEnds
  PROVE  /\ TurnsOwn' /\ Turn \in Nat
         /\ Ends' = IF TurnsGoOn THEN Ends ELSE Ends + 1
         /\ turns' # turns => turns' = Append(turns, Turn + 1) /\ Turn + 1 \in Msgs
<1>1. turns \in Seq(Msgs) /\ Turn \in Nat /\ Turn = Len(turns)
  BY Ranges DEF StateTypes, Turn
<1>2. ASSUME NEW m \in Msgs, turns' = Append(turns, m), status' = "busy"
      PROVE  TurnsOwn' /\ Turn' = Turn + 1 /\ m = Turn + 1
  <2>1. PICK s, n : s = turns' /\ n = Turn
    OBVIOUS
  <2>2. /\ n \in Nat /\ Len(s) = n + 1 /\ s[n + 1] = m
        /\ \A i \in 1 .. n : s[i] = turns[i]
    BY <1>1, <1>2, <2>1, AppendProperties, LenProperties
  <2>3. Turn' = n + 1
    BY <2>1, <2>2 DEF Turn
  <2>4. s[n + 1] = n + 1
    BY <1>2, <2>1, <2>3 DEF TargetTurn
  <2>5. \A i \in 1 .. n + 1 : i = n + 1 \/ i \in 1 .. n
    BY <2>2
  <2>6. \A i \in 1 .. n : turns[i] = i
    BY <2>1 DEF TurnsOwn
  <2>7. \A i \in 1 .. n + 1 : s[i] = i
    BY <2>2, <2>4, <2>5, <2>6
  <2>. QED  BY <2>1, <2>2, <2>3, <2>4, <2>7 DEF TurnsOwn
<1>3. ASSUME UNCHANGED turns PROVE TurnsOwn' /\ Turn' = Turn
  BY <1>3 DEF TurnsOwn, Turn
<1>4. CASE TurnsGoOn
  BY <1>1, <1>2, <1>3, <1>4 DEF TurnsGoOn, Ends
<1>5. CASE TurnEnds
  <2>1. ~ TurnsGoOn
    <3>1. \A m \in Msgs : turns' = Append(turns, m) => Turn' = Turn + 1 \/ status' # "busy"
      BY <1>2
    <3>2. \A m \in Msgs : turns' = Append(turns, m) /\ status' = "busy" => turns' # turns
      BY <1>1, <3>1 DEF Turn
    <3>. QED  BY <1>5, <3>2 DEF TurnEnds, TurnsGoOn
  <2>. QED  BY <1>1, <1>2, <1>3, <1>5, <2>1 DEF TurnEnds, Ends
<1>. QED  BY <1>4, <1>5

\* The finish that answers is the oldest: all the runs before it are answered.
LEMMA AnswersNext ==
  ASSUME StateTypes, InOrder, AllFinished, FinsOwn, NEW f \in fins, f.at = "answer"
  PROVE  \A m \in 1 .. f.run - 1 : Answerd(m)
<1>1. fins \in SUBSET Finish /\ f.run \in Nat /\ f.turn = f.run /\ Turn \in Nat
  BY Ranges DEF StateTypes, Finish, Msgs, FinsOwn
<1>2. First(f, fins)
  BY DEF First, Holding, Follows
<1>3. NoneBefore(f.turn, fins)
  BY <1>1, <1>2, FirstLeast DEF InOrder
<1>4. ASSUME NEW m \in 1 .. f.run - 1 PROVE Answerd(m)
  <2>1. m \in 1 .. Ends
    <3>1. f.run \in 1 .. Ends /\ Ends \in Int
      BY <1>1 DEF FinsOwn, Ends
    <3>. QED  BY <1>1, <3>1
  <2>2. ~ \E g \in fins : Holding(g) /\ g.run = m
    <3>1. \A g \in fins : Holding(g) => g.turn >= f.turn /\ g.turn = g.run
      BY <1>3 DEF NoneBefore, FinsOwn
    <3>. QED  BY <1>1, <3>1
  <2>. QED  BY <2>1, <2>2 DEF AllFinished
<1>. QED  BY <1>4

LEMMA LineGoesOn ==
  ASSUME StateTypes, StateTypes', AnsweredOver, TurnsLine, gaveUp' = {} => gaveUp = {} /\ InOrder,
         TurnsGoOn, FinsGoOn, UNCHANGED answers \/ \E f \in fins : Answered(f),
         TargetTurn'
  PROVE  TurnsLine'
<1>1. /\ TurnsOwn' /\ Ends' = Ends
      /\ TurnsOwn /\ FinsOwn /\ AllFinished /\ AnswersLined
  BY TurnsGrow DEF TurnsLine
<1>2. FinsOwn'
  BY <1>1 DEF FinsOwn, FinsGoOn
<1>3. \A m : Answerd(m) => Answerd(m)'
  BY DEF Answerd, Answered
<1>4. AllFinished'
  <2>1. PICK A, E, F : A = answers' /\ E = Ends' /\ F = fins'
    OBVIOUS
  <2>2. \A f \in fins : Answered(f) => \E a \in A : a.run = f.run
    <3>1. ASSUME NEW f \in fins, Answered(f) PROVE \E a \in A : a.run = f.run
      <4>1. PICK b : b = [run |-> f.run, under |-> f.target, turn |-> f.turn]
        OBVIOUS
      <4>2. b \in A /\ b.run = f.run
        BY <2>1, <3>1, <4>1 DEF Answered
      <4>. QED  BY <4>2
    <3>. QED  BY <3>1
  <2>3. answers \subseteq A
    BY <2>1 DEF Answered
  <2>4. ASSUME NEW n \in 1 .. E
        PROVE  (\E a \in A : a.run = n) \/ \E g \in F : Holding(g) /\ g.run = n
    <3>1. CASE Answerd(n)
      BY <2>3, <3>1 DEF Answerd
    <3>2. ASSUME NEW f \in fins, Holding(f), f.run = n
          PROVE  (\E a \in A : a.run = n) \/ \E g \in F : Holding(g) /\ g.run = n
      BY <2>1, <2>2, <3>2 DEF FinsGoOn
    <3>. QED  BY <1>1, <2>1, <3>1, <3>2 DEF AllFinished
  <2>. QED  BY <2>1, <2>4 DEF AllFinished, Answerd
<1>5. AnswersLined'
  <2>1. PICK A : A = answers'
    OBVIOUS
  <2>2. SUFFICES ASSUME gaveUp' = {}, NEW a \in A, NEW m \in 1 .. a.run
                 PROVE  \E b \in A : b.run = m
    BY <2>1 DEF AnswersLined
  <2>3. gaveUp = {} /\ InOrder /\ answers \subseteq A
    BY <2>1, <2>2 DEF Answered
  <2>4. CASE a \in answers
    BY <1>1, <2>2, <2>3, <2>4 DEF AnswersLined
  <2>5. ASSUME NEW f \in fins, Answered(f), a \notin answers
        PROVE  \E b \in A : b.run = m
    <3>1. PICK b : b = [run |-> f.run, under |-> f.target, turn |-> f.turn]
      OBVIOUS
    <3>0. f.run \in Nat
      <4>1. f.run \in Msgs
        BY <2>5 DEF StateTypes, Finish
      <4>. QED  BY <4>1, MessagesAssumption DEF Msgs
    <3>2. A = answers \cup {b} /\ b.run = f.run /\ f.at = "answer" /\ f.run \in Nat
      BY <2>1, <2>5, <3>0, <3>1 DEF Answered
    <3>3. a = b
      BY <2>5, <3>2
    <3>4. m = f.run \/ m \in 1 .. f.run - 1
      BY <2>2, <3>2, <3>3
    <3>5. m \in 1 .. f.run - 1 => Answerd(m)
      BY <1>1, <2>3, <3>2, AnswersNext
    <3>. QED  BY <3>2, <3>3, <3>4, <3>5 DEF Answerd
  <2>. QED  BY <2>1, <2>4, <2>5
<1>. QED  BY <1>1, <1>2, <1>4, <1>5 DEF TurnsLine

LEMMA LineEnds ==
  ASSUME StateTypes, StateTypes', TurnsLine, gaveUp' = {} => gaveUp = {},
         TurnEnds, NEW e \in Event, trigger = e.run, TargetTurn',
         fins' = fins \cup {Finishing(e)}, UNCHANGED answers
  PROVE  TurnsLine'
<1>1. /\ TurnsOwn /\ TargetTurn /\ FinsOwn /\ AllFinished /\ AnswersLined
      /\ Turn \in Nat
  BY Ranges DEF TurnsLine
<1>2. status = "busy" /\ Turn # 0 /\ e.run = Turn /\ Ends = Turn - 1 /\ Ends \in Nat
  BY <1>1 DEF TurnEnds, TargetTurn, Ends
<1>3. ~ TurnsGoOn
  <2>1. turns \in Seq(Msgs) /\ \A m \in Msgs : Len(Append(turns, m)) = Len(turns) + 1
    BY AppendProperties DEF StateTypes
  <2>2. Len(turns) \in Nat
    BY <1>1 DEF Turn
  <2>3. \A m \in Msgs : turns' = Append(turns, m) => turns' # turns
    BY <2>1, <2>2
  <2>. QED  BY <2>3 DEF TurnEnds, TurnsGoOn
<1>4. TurnsOwn' /\ Ends' = Turn
  BY <1>1, <1>2, <1>3, TurnsGrow
<1>5. PICK h, E : h = Finishing(e) /\ E = Ends'
  OBVIOUS
<1>6. h.run = Turn /\ h.turn = Turn /\ Holding(h)
  BY <1>2, <1>5 DEF Finishing, Holding
<1>7. E = Turn /\ \A n \in 1 .. E : n = Turn \/ n \in 1 .. Ends
  BY <1>1, <1>2, <1>4, <1>5
<1>8. \A n \in 1 .. Ends : n \in 1 .. E
  BY <1>1, <1>2, <1>7
<1>9. FinsOwn'
  <2>1. Turn \in 1 .. E
    BY <1>1, <1>2, <1>7
  <2>. QED  BY <1>1, <1>5, <1>6, <1>8, <2>1 DEF FinsOwn
<1>10. AllFinished'
  BY <1>1, <1>5, <1>6, <1>7 DEF AllFinished, Answerd
<1>11. AnswersLined'
  BY <1>1 DEF AnswersLined
<1>. QED  BY <1>4, <1>9, <1>10, <1>11 DEF TurnsLine

LEMMA TurnsLineNext ==
  ASSUME Inv, OrderInv, AnswerInv, BusyTarget, AnsweredOver, TurnsLine, [Next]_vars,
         spoilt' = {}
  PROVE  TurnsLine'
<1>1. StateTypes /\ StateTypes' /\ RunInv /\ LineInv /\ HoldLine(waiting) /\ HeldBegun(waiting)
  BY InvNext DEF Inv, OrderInv, AnswerInv
<1>2. LineInv' /\ BusyTarget'
  BY AnswerNext, BusyTargetKept DEF AnswerInv
<1>3. TargetTurn'
  BY <1>2, TargetAfterwards
<1>4. gaveUp' = {} => gaveUp = {} /\ InOrder
  BY GivenUpStays DEF OrderInv
<1>. QED  BY <1>1, <1>3, <1>4, TurnsStep, LineGoesOn, LineEnds

LEMMA TurnsLineInit == Init => TurnsLine
<1>. SUFFICES ASSUME Init PROVE TurnsLine
  OBVIOUS
<1>1. Turn = 0 /\ Ends = 0 /\ fins = {} /\ answers = {} /\ status # "busy"
  BY EmptySeq DEF Init, Turn, Ends
<1>. QED  BY <1>1 DEF TurnsLine, TurnsOwn, TargetTurn, FinsOwn, AllFinished, AnswersLined

LEMMA ChatInvariance ==
  Spec => [](Inv /\ OrderInv /\ ChatInv /\ AnsweredOver)
<1>1. Init => Inv /\ OrderInv /\ ChatInv /\ AnsweredOver
  <2>1. Init => AnsweredOver
    BY DEF Init, AnsweredOver
  <2>. QED  BY <2>1, InvInit, OrderInit, ChatInit
<1>2. (Inv /\ OrderInv /\ ChatInv /\ AnsweredOver) /\ [Next]_vars
        => (Inv /\ OrderInv /\ ChatInv /\ AnsweredOver)'
  <2>1. Inv /\ OrderInv /\ ChatInv /\ [Next]_vars => ChatInv'
    BY ChatKept DEF Inv, OrderInv
  <2>2. Inv /\ OrderInv /\ AnsweredOver /\ [Next]_vars => AnsweredOver'
    BY AnsweredKept DEF Inv, OrderInv
  <2>. QED  BY <2>1, <2>2, InvNext, OrderNext
<1>. QED  BY <1>1, <1>2, PTL DEF Spec

\* All this is so as long as no message is spoilt.
Straight == spoilt = {} => AnswerInv /\ BusyTarget /\ TurnsLine

LEMMA TurnsLineInvariance == Spec => []Straight
<1>1. Init => Straight
  BY AnswerInit, RowInit, TurnsLineInit DEF RowInv, Straight
<1>2. ASSUME Inv, OrderInv, AnsweredOver, Straight, [Next]_vars, spoilt' = {}
      PROVE  AnswerInv' /\ BusyTarget' /\ TurnsLine'
  <2>1. spoilt = {}
    BY <1>2, SpoiltStays
  <2>2. AnswerInv /\ BusyTarget /\ TurnsLine
    BY <1>2, <2>1 DEF Straight
  <2>. QED  BY <1>2, <2>2, AnswerNext, BusyTargetKept, TurnsLineNext
<1>3. (Inv /\ OrderInv /\ ChatInv /\ AnsweredOver) /\ Straight /\ [Next]_vars
        => Straight'
  BY <1>2 DEF Straight
<1>. QED  BY <1>1, <1>3, ChatInvariance, PTL DEF Spec

\* The answers come in the order of the messages (TurnCards.AnswersInOrder),
\* until the first race and while nobody stopped waiting for a finish: every
\* finish that comes waits for the one it finds at the gate, and the one that
\* answers is the oldest that is out.
THEOREM AnswersComeInOrder == Spec => []AnswersInOrder
<1>1. Straight => AnswersInOrder
  BY DEF Straight, TurnsLine, AnswersLined, AnswersInOrder
<1>. QED  BY <1>1, TurnsLineInvariance, PTL

-----------------------------------------------------------------------------
(* After a race.                                                           *)

\* What a race may spoil are the runs whose Stop has not come; the finishes
\* that are out then keep the target and the turn they have read.
OwnFinish(f) == f.target = f.run /\ f.turn = f.run
StoppedOwn ==
  /\ spoilt # {} => Msgs \ Stopped \subseteq spoilt
  /\ \A f \in fins : f.run \in spoilt \/ OwnFinish(f)
  /\ \A f \in fins : Holding(f) \/ Answerd(f.run)
  /\ AnswerUnderOwn

\* A step spoils nothing, or all the runs that have not stopped.
LEMMA SpoiltAfter ==
  ASSUME Inv, OrderInv, [Next]_vars
  PROVE  spoilt' = spoilt \/ Msgs \ Stopped \subseteq spoilt'
<1>1. ASSUME NEW race, NEW m, Spoils(race, m) PROVE Msgs \ Stopped \subseteq spoilt'
  BY <1>1 DEF Spoils
<1>2. ASSUME NEW q \in requests, RequestStep(q) PROVE spoilt' = spoilt
  BY <1>2 DEF RequestStep, GateOpens, Drop, SendAgain, Supersede, StartTurn,
              Superseded, Sent
<1>3. ASSUME NEW f \in fins, FinishStep(f) PROVE spoilt' = spoilt
  BY <1>3 DEF FinishStep, FinishGate, CloseTurn, SettleCard, Answered, OpenPopped
<1>4. CASE Arrives \/ LetGo
  <2>1. ASSUME NEW e, NEW w, NEW held, Handle(e, w, held)
        PROVE  spoilt' = spoilt \/ Msgs \ Stopped \subseteq spoilt'
    BY <1>1, <2>1 DEF Handle, Prompt, PreToolUse, Stop
  <2>2. CASE UNCHANGED <<typed, sending, spoilt, claudeVars, turnVars, trigger, queued,
                         hold, cardVars, finishVars, requests>>
    BY <2>2
  <2>. QED  BY <1>4, <2>1, <2>2 DEF Arrives, LetGo
<1>5. CASE AdoptTrigger \/ Handed
  BY <1>1, <1>5 DEF AdoptTrigger, Handed
<1>6. CASE Reaches \/ Tool \/ End \/ UNCHANGED vars
  BY <1>6 DEF Reaches, Tool, End, vars
<1>. QED  BY <1>2, <1>3, <1>4, <1>5, <1>6 DEF Next

LEMMA StoppedNext ==
  ASSUME Inv, OrderInv, AnsweredOver, StoppedOwn, [Next]_vars,
         Straight'
  PROVE  StoppedOwn'
<1>0. StateTypes /\ RunInv
  BY DEF Inv, OrderInv
<1>1. PICK F, A, X : F = fins' /\ A = answers' /\ X = spoilt'
  OBVIOUS
<1>2. spoilt \subseteq X /\ (X = spoilt \/ Msgs \ Stopped \subseteq X)
  BY <1>1, SpoiltStays, SpoiltAfter
<1>3. X # {} => Msgs \ Stopped \subseteq X
  BY <1>2 DEF StoppedOwn
<1>4. \A f \in fins : f.run \in X \/ OwnFinish(f)
  BY <1>2 DEF StoppedOwn
<1>5. \A a \in answers : a.under = a.run \/ a.run \in X
  BY <1>2 DEF StoppedOwn, AnswerUnderOwn
<1>6. ASSUME \A r \in Stopped : (\E f \in F : f.run = r) \/ (\E a \in A : a.run = r),
             \A f \in F : f.run \in X \/ OwnFinish(f),
             \A f \in F : Holding(f) \/ \E a \in A : a.run = f.run,
             \A a \in A : a.under = a.run \/ a.run \in X
      PROVE  StoppedOwn'
  <2>1. (spoilt # {} => Msgs \ Stopped \subseteq spoilt)'
    <3>1. Stopped \subseteq Stopped'
      BY <1>1, <1>6 DEF Stopped
    <3>. QED  BY <1>1, <1>3, <3>1 DEF Msgs
  <2>2. \A f \in fins' : Holding(f) \/ Answerd(f.run)'
    BY <1>1, <1>6 DEF Answerd
  <2>. QED  BY <1>1, <1>6, <2>1, <2>2 DEF StoppedOwn, OwnFinish, Holding, AnswerUnderOwn
<1>7. ASSUME FinsGoOn PROVE \A f \in F : f.run \in X \/ OwnFinish(f)
  BY <1>1, <1>4, <1>7 DEF FinsGoOn, OwnFinish
<1>8. ASSUME NEW f \in fins, Answered(f) PROVE StoppedOwn'
  <2>1. PICK b, h : /\ b = [run |-> f.run, under |-> f.target, turn |-> f.turn]
                    /\ h = [f EXCEPT !.at = "popping"]
    OBVIOUS
  <2>2. /\ A = answers \cup {b} /\ b.run = f.run /\ b.under = f.target
        /\ F = fins \ {f} \/ F = (fins \ {f}) \cup {h}
    BY <1>1, <1>8, <2>1 DEF Answered, Goes
  <2>3. h.run = f.run /\ h.turn = f.turn /\ h.target = f.target
    BY <1>0, <2>1 DEF StateTypes, Finish
  <2>4. \A r \in Stopped : (\E g \in F : g.run = r) \/ (\E a \in A : a.run = r)
    BY <2>2 DEF Stopped
  <2>5. \A g \in F : g.run \in X \/ OwnFinish(g)
    BY <1>4, <2>2, <2>3 DEF OwnFinish
  <2>6. \A a \in A : a.under = a.run \/ a.run \in X
    BY <1>4, <1>5, <2>2 DEF OwnFinish
  <2>7. \A g \in F : Holding(g) \/ \E a \in A : a.run = g.run
    BY <2>2, <2>3 DEF StoppedOwn, Answerd
  <2>. QED  BY <1>6, <2>4, <2>5, <2>6, <2>7
<1>9. ASSUME NEW e, e \in Event, OnWay(e.run, mail, waiting),
             fins' = fins \cup {Finishing(e)}, UNCHANGED answers
      PROVE  StoppedOwn'
  <2>1. PICK h : h = Finishing(e)
    OBVIOUS
  <2>2. h.run = e.run /\ F = fins \cup {h} /\ A = answers
    BY <1>1, <1>9, <2>1 DEF Finishing
  <2>3. e.run \in Msgs \ Stopped
    <3>1. e.run \in Msgs
      BY <1>9 DEF Event
    <3>2. ~ Known(e.run, fins, gate)
      BY <1>0, <1>9, <3>1 DEF RunInv, Fresh
    <3>3. \A a \in answers : a.run # e.run
      BY <1>9 DEF AnsweredOver
    <3>. QED  BY <3>1, <3>2, <3>3 DEF Known, Stopped
  <2>4. h.run \in X \/ OwnFinish(h)
    <3>1. CASE X = {}
      <4>1. h.target = h.run /\ h.turn = h.run
        BY <1>1, <2>2, <3>1 DEF Straight, AnswerInv, TargetOwn, TurnsLine, FinsOwn
      <4>. QED  BY <4>1 DEF OwnFinish
    <3>2. CASE X # {}
      BY <1>3, <2>2, <2>3, <3>2
    <3>. QED  BY <3>1, <3>2
  <2>5. \A r \in Stopped : (\E f \in F : f.run = r) \/ (\E a \in A : a.run = r)
    BY <2>2 DEF Stopped
  <2>6. \A f \in F : Holding(f) \/ \E a \in A : a.run = f.run
    <3>1. Holding(h)
      BY <2>1 DEF Finishing, Holding
    <3>. QED  BY <2>2, <3>1 DEF StoppedOwn, Answerd
  <2>. QED  BY <1>4, <1>5, <1>6, <2>2, <2>4, <2>5, <2>6
<1>10. CASE FinsGoOn /\ UNCHANGED answers /\ ~ \E f \in fins : Answered(f)
  <2>1. \A f \in fins : Holding(f) => \E g \in F : g.run = f.run /\ Holding(g)
    BY <1>1, <1>10 DEF FinsGoOn
  <2>2. \A g \in F : \E f \in fins : g.run = f.run
    BY <1>1, <1>10 DEF FinsGoOn
  <2>3. \A f, g \in F : f.run = g.run => f = g
    <3>1. RunInv'
      BY <1>0, RunsKept
    <3>. QED  BY <1>1, <3>1 DEF RunInv, OwnRun
  <2>4. \A g \in F : Holding(g) \/ \E a \in A : a.run = g.run
    BY <1>1, <1>10, <2>1, <2>2, <2>3 DEF StoppedOwn, Answerd
  <2>5. \A r \in Stopped : (\E f \in F : f.run = r) \/ (\E a \in A : a.run = r)
    BY <1>1, <1>10, <2>1 DEF StoppedOwn, Stopped, Answerd
  <2>. QED  BY <1>1, <1>5, <1>6, <1>7, <1>10, <2>4, <2>5
<1>. QED  BY <1>0, <1>8, <1>9, <1>10, FinsAfter

LEMMA StoppedInvariance == Spec => []StoppedOwn
<1>1. Init => StoppedOwn
  BY DEF Init, StoppedOwn, AnswerUnderOwn
<1>2. (Inv /\ OrderInv /\ ChatInv /\ AnsweredOver) /\ StoppedOwn /\ Straight' /\ [Next]_vars
        => StoppedOwn'
  BY StoppedNext
<1>. QED  BY <1>1, <1>2, ChatInvariance, TurnsLineInvariance, PTL DEF Spec

\* Every answer goes under the message that was sent for it
\* (TurnCards.AnswerUnderOwn), whatever finishes are out and whichever of
\* them somebody stopped waiting for; a race misleads at most the answers of
\* the runs whose Stop comes after it.
THEOREM AnswersUnderOwn == Spec => []AnswerUnderOwn
<1>1. StoppedOwn => AnswerUnderOwn
  BY DEF StoppedOwn
<1>. QED  BY <1>1, StoppedInvariance, PTL

-----------------------------------------------------------------------------
(* The chat keeps its promise.                                             *)

chatVars == <<turns, closed, cards, answers, gaveUp = {}, spoilt>>

\* A turn is begun, or messages are spoilt.
LEMMA ChatBegins ==
  ASSUME StateTypes, NEW m \in Msgs, spoilt' = {} => TurnsOwn',
         spoilt \subseteq spoilt', spoilt' \subseteq Msgs,
         UNCHANGED <<closed, cards, answers, gaveUp>>,
         turns' = turns \/ turns' = Append(turns, m)
  PROVE  Chat!Begin \/ Chat!LoseTrack
<1>0. Chat!Spoil
  BY DEF Chat!Spoil, Msgs
<1>1. CASE turns' = turns
  BY <1>0, <1>1 DEF Chat!LoseTrack
<1>2. CASE turns' = Append(turns, m)
  <2>1. turns \in Seq(Msgs) /\ Turn \in Nat /\ Turn = Len(turns)
    BY Ranges DEF StateTypes, Turn
  <2>2. Turn' = Turn + 1 /\ turns'[Turn + 1] = m
    BY <1>2, <2>1, AppendProperties DEF Turn
  <2>3. spoilt' = {} => m = Len(turns) + 1
    BY <2>1, <2>2 DEF TurnsOwn
  <2>. QED  BY <1>0, <1>2, <2>3 DEF Chat!Begin, Msgs
<1>. QED  BY <1>1, <1>2

\* What Claude does, what a message does and what a hook does.
LEMMA TurnsChat ==
  ASSUME StateTypes, RunInv, spoilt' = {} => TurnsOwn',
         spoilt \subseteq spoilt', spoilt' \subseteq Msgs,
         AdoptTrigger \/ Reaches \/ Handed \/ Tool \/ End \/ Arrives \/ LetGo
           \/ UNCHANGED vars
  PROVE  Chat!Begin \/ Chat!LoseTrack
<1>1. 1 \in Msgs
  BY MessagesAssumption DEF Msgs
<1>2. ASSUME UNCHANGED <<turns, closed, cards, answers, gaveUp>>
      PROVE  Chat!LoseTrack
  BY <1>2 DEF Chat!LoseTrack, Chat!Spoil, Msgs
<1>3. CASE AdoptTrigger \/ Reaches \/ Tool \/ End \/ UNCHANGED vars
  BY <1>2, <1>3 DEF AdoptTrigger, Reaches, Tool, End, vars, turnVars, cardVars, finishVars
<1>4. CASE Handed
  <2>1. sending \in Msgs
    BY <1>4, Ranges DEF Handed, StateTypes
  <2>2. /\ UNCHANGED <<closed, cards, answers, gaveUp>>
        /\ turns' = turns \/ turns' = Append(turns, sending)
    BY <1>4 DEF Handed, ToBusy, TurnsAfter, cardVars, finishVars
  <2>. QED  BY <2>1, <2>2, ChatBegins
<1>5. ASSUME NEW e \in Event, NEW w, NEW held, Handle(e, w, held)
      PROVE  Chat!Begin \/ Chat!LoseTrack
  <2>1. e.run \in Msgs
    BY DEF Event
  <2>2. UNCHANGED <<closed, cards, answers, gaveUp>>
    BY <1>5 DEF Handle, Prompt, PreToolUse, Stop, turnVars, cardVars, finishVars
  <2>3. CASE Prompt(e, w) \/ PreToolUse(e, w, held)
    <3>1. turns' = turns \/ turns' = Append(turns, e.run)
      BY <2>3 DEF Prompt, PreToolUse, ToBusy, TurnsAfter, turnVars
    <3>. QED  BY <2>1, <2>2, <3>1, ChatBegins
  <2>4. CASE Stop(e, w)
    <3>1. CASE queued = <<>>
      <4>1. UNCHANGED turns
        BY <2>4, <3>1 DEF Stop
      <4>. QED  BY <1>2, <2>2, <4>1
    <3>2. CASE queued # <<>>
      <4>1. Head(queued) \in Msgs
        BY <3>2, HeadTailProperties DEF StateTypes
      <4>2. Head(queued) # 0
        BY <4>1, MessagesAssumption DEF Msgs
      <4>3. turns' = Append(turns, Head(queued))
        BY <2>4, <3>2, <4>2 DEF Stop
      <4>. QED  BY <2>2, <4>1, <4>3, ChatBegins
    <3>. QED  BY <3>1, <3>2
  <2>. QED  BY <1>5, <2>3, <2>4 DEF Handle
<1>6. CASE Arrives \/ LetGo
  <2>1. CASE UNCHANGED <<turnVars, cardVars, finishVars>>
    BY <1>2, <2>1 DEF turnVars, cardVars, finishVars
  <2>2. CASE \E e, w, held : Taken(e, mail', w) /\ Handle(e, w, held)
    BY <1>5, <2>2 DEF Taken
  <2>. QED  BY <1>6, <2>1, <2>2, Delivered
<1>. QED  BY <1>3, <1>4, <1>6

\* The cards of the requests.
LEMMA RequestChat ==
  ASSUME Inv, OrderInv, ChatInv, NEW q \in requests, RequestStep(q)
  PROVE  Chat!Next \/ UNCHANGED chatVars
<1>0. /\ StateTypes /\ CardInv /\ CardTurns /\ Begun /\ (gaveUp = {} => Shown)
      /\ q.turn \in Nat /\ q.turn <= Turn /\ Turn \in Nat /\ Turn = Len(turns)
  BY CardRanges DEF Inv, OrderInv, Begun, Turn
<1>1. CASE GateOpens(q)
  <2>1. UNCHANGED <<turns, closed, cards, answers, spoilt>>
    BY <1>1 DEF GateOpens, turnVars, cardVars
  <2>2. CASE UNCHANGED gaveUp
    BY <2>1, <2>2 DEF chatVars
  <2>3. CASE gaveUp' = gaveUp \cup {q.gate}
    BY <2>1, <2>3 DEF Chat!LoseWait, Chat!Next
  <2>. QED  BY <1>1, <2>2, <2>3 DEF GateOpens
<1>2. CASE Drop(q) \/ SendAgain(q) \/ Supersede(q) \/ StartTurn(q)
  <2>1. UNCHANGED <<turns, closed, cards, answers, gaveUp, spoilt>>
    BY <1>2 DEF Drop, SendAgain, Supersede, StartTurn, turnVars, cardVars, finishVars
  <2>. QED  BY <2>1 DEF chatVars
<1>3. CASE Superseded(q)
  <2>1. /\ busy \in DOMAIN cards \cup {0} /\ UNCHANGED <<turns, closed, answers, gaveUp, spoilt>>
        /\ IF busy = 0 THEN UNCHANGED cards ELSE cards' = Over(busy, cards[busy].turn)
    BY <1>0, <1>3, SupersededSlot DEF Superseded
  <2>2. CASE busy = 0
    BY <2>1, <2>2 DEF chatVars
  <2>3. CASE busy # 0
    <3>1. PICK k, t : k = busy /\ t = cards[busy].turn
      OBVIOUS
    <3>2. k \in DOMAIN cards /\ cards[k].state = "live" /\ t = cardTurn
      BY <1>0, <2>1, <2>3, <3>1 DEF ChatInv, SlotLive, CardTurns, SlotTurn
    <3>3. t < q.turn /\ t \in Nat
      BY <1>0, <1>3, <3>2, CardRanges DEF Superseded, CardTurns, SettleNewer
    <3>4. t \in 0 .. Len(turns) /\ t < Len(turns)
      BY <1>0, <3>3
    <3>5. Chat!Settle(k, t)
      BY <2>1, <2>3, <3>1, <3>2, <3>4 DEF Chat!Settle, Chat!Running, Over
    <3>. QED  BY <3>2, <3>4, <3>5 DEF Chat!Next
  <2>. QED  BY <2>1, <2>2, <2>3
<1>4. CASE Sent(q)
  <2>1. /\ \A k \in DOMAIN cards : cards[k].state # "live"
        /\ q.turn > closed /\ UNCHANGED <<turns, closed, answers, gaveUp, spoilt>>
        /\ \E state \in {"live", "lost"} :
             cards' = Append(cards, [turn |-> q.turn, state |-> state, by |-> 0])
    BY <1>0, <1>4, SentCard
  <2>2. gaveUp = {} => \A k \in DOMAIN cards :
                         cards[k].turn = q.turn => cards[k].state = "lost"
    BY <1>0, <1>4 DEF Sent, Shown, FirstSend
  <2>3. Chat!Show(q.turn)
    BY <2>1, <2>2 DEF Chat!Show, Chat!Running
  <2>4. q.turn \in 0 .. Len(turns)
    BY <1>0
  <2>. QED  BY <2>3, <2>4 DEF Chat!Next
<1>. QED  BY <1>1, <1>2, <1>3, <1>4 DEF RequestStep

\* The last edits and the answers of the finishes.
LEMMA FinishChat ==
  ASSUME Inv, OrderInv, ChatInv, AnsweredOver,
         StoppedOwn, spoilt = {} => TurnsLine, NEW f \in fins, FinishStep(f)
  PROVE  Chat!Next \/ UNCHANGED chatVars
<1>0. /\ StateTypes /\ CardInv /\ CardTurns /\ Begun /\ (gaveUp = {} => Shown /\ InOrder)
      /\ f.turn \in Nat /\ f.turn <= Turn /\ Turn \in Nat /\ Turn = Len(turns)
      /\ f.run \in Msgs /\ f.target \in Msgs \cup {0} /\ f.turn \in 0 .. Len(turns)
      /\ closed \in Nat
  <2>1. StateTypes /\ CardInv /\ CardTurns /\ Begun /\ (gaveUp = {} => Shown /\ InOrder)
    BY DEF Inv, OrderInv
  <2>2. /\ f.turn \in Nat /\ f.turn <= Turn /\ Turn \in Nat /\ closed \in Nat
        /\ f.run \in Msgs /\ f.target \in Msgs \cup {0}
    BY <2>1, CardRanges DEF Begun, StateTypes, Finish
  <2>. QED  BY <2>1, <2>2 DEF Turn
<1>1. CASE FinishGate(f)
  <2>1. UNCHANGED <<turns, closed, cards, answers, spoilt>>
    BY <1>1 DEF FinishGate, turnVars, cardVars
  <2>2. CASE UNCHANGED gaveUp
    BY <2>1, <2>2 DEF chatVars
  <2>3. CASE gaveUp' = gaveUp \cup {f.prev}
    BY <2>1, <2>3 DEF Chat!LoseWait, Chat!Next
  <2>. QED  BY <1>1, <2>2, <2>3 DEF FinishGate
<1>2. CASE CloseTurn(f)
  <2>1. /\ UNCHANGED <<turns, cards, answers, gaveUp, spoilt>>
        /\ closed' = IF f.turn > closed THEN f.turn ELSE closed
    BY <1>2 DEF CloseTurn, cardVars
  <2>2. CASE f.turn > closed
    BY <1>0, <2>1, <2>2 DEF Chat!Close, Chat!Next
  <2>3. CASE ~ (f.turn > closed)
    BY <2>1, <2>3 DEF chatVars
  <2>. QED  BY <2>2, <2>3
<1>3. CASE SettleCard(f)
  <2>1. /\ f.at = "card" /\ cards' = Over(f.card, f.turn)
        /\ UNCHANGED <<turns, closed, answers, gaveUp, spoilt>>
    BY <1>3 DEF SettleCard, turnVars
  <2>2. f.card \in DOMAIN cards /\ cards[f.card].state = "live"
    BY <1>0, <2>1 DEF CardInv, FinishHasSlot, ChatInv, SlotLive
  <2>3. gaveUp = {} => f.turn = cards[f.card].turn /\ f.turn <= closed
    BY <1>0, <2>1 DEF Shown, OwnEdit, CardTurns, EditClosed
  <2>4. Chat!Settle(f.card, f.turn)
    BY <2>1, <2>2, <2>3 DEF Chat!Settle, Chat!Running, Over
  <2>. QED  BY <1>0, <2>2, <2>4 DEF Chat!Next
<1>4. CASE Answered(f)
  <2>1. /\ f.at = "answer"
        /\ answers' = answers \cup {[run |-> f.run, under |-> f.target, turn |-> f.turn]}
        /\ UNCHANGED <<turns, closed, cards, gaveUp, spoilt>>
    BY <1>4 DEF Answered, turnVars, cardVars
  <2>2. ~ Chat!Answered(f.run)
    <3>1. Holding(f)
      BY <2>1 DEF Holding
    <3>. QED  BY <3>1 DEF AnsweredOver, Chat!Answered
  <2>3. \A k \in DOMAIN cards : Chat!Running(k) => cards[k].turn > f.turn
    <3>1. PastCard(f)
      BY <2>1 DEF PastCard
    <3>. QED  BY <3>1 DEF ChatInv, PastSettled, Chat!Running
  <2>4. f.turn \in 0 .. closed
    <3>1. PastLock(f)
      BY <2>1 DEF PastLock
    <3>2. f.turn <= closed
      BY <3>1 DEF ChatInv, PastClosed
    <3>. QED  BY <1>0, <3>2
  <2>5. f.run \notin spoilt => f.turn = f.run /\ f.target = f.run
    BY DEF StoppedOwn, OwnFinish
  <2>6. spoilt = {} /\ gaveUp = {} => \A n \in 1 .. f.run - 1 : Chat!Answered(n)
    <3>1. ASSUME spoilt = {}, gaveUp = {} PROVE \A n \in 1 .. f.run - 1 : Answerd(n)
      BY <1>0, <2>1, <3>1, AnswersNext DEF TurnsLine
    <3>. QED  BY <3>1 DEF Answerd, Chat!Answered
  <2>7. Chat!Answer(f.run, f.turn, f.target)
    BY <2>1, <2>2, <2>3, <2>5, <2>6 DEF Chat!Answer
  <2>8. f.run \in 1 .. Messages /\ f.target \in 0 .. Messages
    BY <1>0, MessagesAssumption DEF Msgs
  <2>. QED  BY <2>4, <2>7, <2>8 DEF Chat!Next
<1>5. CASE OpenPopped(f)
  <2>1. UNCHANGED <<turns, closed, cards, answers, gaveUp, spoilt>>
    BY <1>5 DEF OpenPopped, turnVars, cardVars
  <2>. QED  BY <2>1 DEF chatVars
<1>. QED  BY <1>1, <1>2, <1>3, <1>4, <1>5 DEF FinishStep

LEMMA ChatStep ==
  ASSUME Inv, OrderInv, ChatInv, AnsweredOver, StoppedOwn,
         spoilt = {} => TurnsLine, spoilt' = {} => TurnsOwn', [Next]_vars
  PROVE  [Chat!Next]_chatVars
<1>1. CASE AdoptTrigger \/ Reaches \/ Handed \/ Tool \/ End \/ Arrives \/ LetGo
             \/ UNCHANGED vars
  <2>1. spoilt \subseteq spoilt'
    BY SpoiltStays
  <2>2. spoilt' \subseteq Msgs
    BY InvNext DEF Inv, Msgs
  <2>. QED  BY <1>1, <2>1, <2>2, TurnsChat DEF Inv, OrderInv, Chat!Next
<1>. QED  BY <1>1, RequestChat, FinishChat DEF Next

LEMMA ChatStarts == Init => Chat!Init
BY DEF Init, Chat!Init

\* The daemon's chat keeps its promise (TurnCards.KeepsChatPromise, TurnPromise):
\* in every mode at most one card runs, a closed turn gets none, and a message
\* is answered once, when no card of its turn or an older one runs; a message
\* that no race has spoilt has its own turn and its own target; and until the
\* first race, while no finish was given up, the answers come in order, one
\* card to a turn.
THEOREM ChatPromiseKept == Spec => KeepsChatPromise
<1>1. (Inv /\ OrderInv /\ ChatInv /\ AnsweredOver) /\ StoppedOwn
      /\ Straight /\ Straight' /\ [Next]_vars
        => [Chat!Next]_<<turns, closed, cards, answers, gaveUp = {}, spoilt>>
  <2>1. SUFFICES ASSUME Inv, OrderInv, ChatInv, AnsweredOver, StoppedOwn, Straight,
                        Straight', [Next]_vars
                 PROVE  [Chat!Next]_chatVars
    BY DEF chatVars
  <2>2. (spoilt = {} => TurnsLine) /\ (spoilt' = {} => TurnsLine')
    BY <2>1 DEF Straight
  <2>3. TurnsLine' => TurnsOwn'
    BY DEF TurnsLine
  <2>. QED  BY <2>1, <2>2, <2>3, ChatStep
<1>. QED  BY <1>1, ChatInvariance, StoppedInvariance, TurnsLineInvariance, ChatStarts, PTL
          DEF Spec, KeepsChatPromise, Chat!Spec
=============================================================================
