-------------------------- MODULE OpenPromptsProofs --------------------------
(***************************************************************************)
(* Proofs about OpenPrompts, for any finite set of prompts, any of them    *)
(* the rules may deny, every set of faults and any bound.                  *)
(*                                                                         *)
(* The inductive invariant follows a prompt from its request datagram over *)
(* its record to its end: a prompt that a person or its hook may still     *)
(* answer has a record once its request was handled, and the order in      *)
(* which the datagrams were handled bounds the order of the dialogs in the *)
(* terminal.                                                               *)
(***************************************************************************)
EXTENDS OpenPrompts, FiniteSetTheorems, SequenceTheorems, TLAPS

What == {"request", "timeout", "report"}
Datagram == [what : What, for : Prompts,
             channel : BOOLEAN]
Order == [arrived : Nat, timedOut : Nat, channel : BOOLEAN]
Refusal == {"none", "due", "settle", "reading", "typing"}

\* The prompts with a record, the card's included.
Rec == extra \cup {card}

\* The datagrams of one kind about p, by their place in the mail.
Places(ms, w, p) == {i \in DOMAIN ms : ms[i].what = w /\ ms[i].for = p}
Stamp(w, p) == IF w = "request" THEN order[p].arrived ELSE order[p].timedOut

\* The place of a dialog in the terminal.
Before(d, a, b) ==
  \E i, j \in DOMAIN d : i < j /\ d[i] = a /\ d[j] = b
Distinct(d) == \A i, j \in DOMAIN d : d[i] = d[j] => i = j

-----------------------------------------------------------------------------
\* A prompt not asked yet is nowhere.
Fresh ==
  \A p \in Prompts : hook[p] = "idle" =>
    /\ p \notin Up \cup ran \cup Rec \cup first
    /\ refusal[p] = "none" /\ tap.for # p
    /\ \A w \in What : Places(mail, w, p) = {}

\* A request is the first datagram of its prompt, sent once and handled once;
\* till then the daemon has nothing of it.
FirstSent(ms) ==
  \A p \in Prompts : \A i \in Places(ms, "request", p) :
    \A w \in What : \A j \in Places(ms, w, p) : i <= j /\ (w = "request" => i = j)

Requested ==
  /\ FirstSent(mail)
  /\ \A p \in Prompts :
       /\ Places(mail, "request", p) # {} =>
            /\ p \notin Rec \cup first
            /\ refusal[p] = "none" /\ tap.for # p /\ hook[p] # "answered"
       /\ p \in Rec => p \notin first

\* What a prompt's record says of its order.
Ordered ==
  \A p \in Prompts :
    /\ p \notin Rec => order[p] = NoOrder
    /\ p \in Rec => order[p].arrived > 0
    /\ order[p].timedOut > 0 => order[p].arrived < order[p].timedOut

\* A wait that is over has no prompts and no refusals but those whose key is
\* out; a refusal has its record till then.
Refusals ==
  /\ ~waiting => extra = {}
  /\ \A p \in Prompts :
       /\ refusal[p] \in {"due", "settle", "reading"} => p \in extra
       /\ refusal[p] # "none" => hook[p] = "left" /\ tap.for # p /\ card # p
       /\ p \in first => hook[p] # "parked" /\ refusal[p] = "none" /\ tap.for # p

\* A due refusal that may be typed is not alone: another that may be, or its
\* key, is on the way.
Woken ==
  waiting =>
    \A r \in extra : refusal[r] = "due" /\ OnTop(r) =>
      \E s \in extra : /\ OnTop(s)
                       /\ refusal[s] \in {"settle", "reading", "typing"}

\* The prompt can still be answered: its hook waits, or its dialog is there.
Answerable(p) == hook[p] = "parked" \/ (p \in Up /\ hook[p] # "answered")

Recorded ==
  \A p \in Prompts \ (missed \cup dropped) :
    Answerable(p) /\ Places(mail, "request", p) = {} => p \in Open \cup first

\* What is over stays over.
EndedOf(p) ==
  /\ p \in ran \/ Places(mail, "report", p) # {} => hook[p] = "left" /\ p \notin Up
  /\ tap.for = p /\ tap.phase = "key" => hook[p] = "left"
  /\ tap.for = p /\ tap.phase = "toast" =>
       \/ p \in missed
       \/ hook[p] = "answered"
       \/ hook[p] = "left" /\ p \notin Up
  /\ tap.for = p => tap.phase # "none"
  /\ p \in Rec /\ hook[p] = "answered" => tap.for = p /\ tap.phase = "toast"
  /\ (p \in Rec \/ Places(mail, "request", p) # {})
       /\ hook[p] = "left" /\ p \notin Up =>
       p \in missed \cup byHand \/ (tap.for = p /\ tap.phase = "toast")
Ended == Distinct(dialogs) /\ \A p \in Prompts : EndedOf(p)

\* A hook that waits has sent no timeout, and the dialog of a prompt of
\* Claude's own is there meanwhile; a background agent's dialog comes with
\* one, unless it had no channel.
Timeouts ==
  \A p \in Prompts :
    /\ hook[p] \in {"idle", "parked"} => Places(mail, "timeout", p) = {} /\ order[p].timedOut = 0
    /\ p \in Up /\ kind[p] = "background" => hook[p] # "parked"
    /\ hook[p] = "parked" /\ kind[p] \in {"ordinary", "countdown"} => p \in Up
    /\ p \in Up /\ kind[p] = "background" /\ Places(mail, "timeout", p) = {} =>
         /\ order[p].channel => order[p].timedOut > 0
         /\ \A i \in Places(mail, "request", p) : ~mail[i].channel

\* Of two dialogs, what the first one came with was sent before what the second
\* one came with at the latest.
Ahead(w, q, v, p) ==
  /\ \A i \in Places(mail, v, p), j \in Places(mail, w, q) : j < i
  /\ Stamp(v, p) > 0 => Places(mail, w, q) = {} /\ Stamp(w, q) < Stamp(v, p)

Los(q) == {"request"} \cup (IF kind[q] = "background" THEN {"timeout"} ELSE {})
His(p) == IF kind[p] = "ordinary" THEN {"request"} ELSE {"timeout"}

InOrder ==
  \A q, p \in Prompts :
    Before(dialogs, q, p) /\ kind[q] # "countdown" /\ kind[p] # "countdown" =>
      \A w \in Los(q), v \in His(p) : Ahead(w, q, v, p)

\* While a key for p is out, p's dialog is before those of the verdict.
KeysAhead ==
  \A p \in Prompts :
    /\ refusal[p] = "reading" => known[p] \subseteq {p}
    /\ KeyOut(p) => \A q \in known[p] : q \in Up \/ hook[q] = "left"
    /\ KeyOut(p) /\ p \notin missed \cup byHand =>
         \A q \in known[p] \ {p} : q \in Up => Before(dialogs, p, q)

TapTyped == tap.phase # "none" => tap.for \in Prompts

IInv == /\ TypeOK /\ TapTyped /\ Fresh /\ Requested /\ Ordered /\ Refusals /\ Woken
        /\ Recorded /\ Ended /\ Timeouts /\ InOrder /\ KeysAhead

-----------------------------------------------------------------------------
(* Naturals and sequences.                                                 *)

\* A finite, non-empty set of naturals has a greatest element.
LEMMA MaxOfFinite ==
  ASSUME NEW S \in SUBSET Nat, IsFiniteSet(S), S # {}
  PROVE  Max(S) \in S /\ \A n \in S : n <= Max(S)
<1> DEFINE Bad == {T \in FiniteSubsetsOf(Nat) :
                    T # {} /\ ~ \E m \in T : \A n \in T : n <= m}
<1>1. Bad = {}
  <2> SUFFICES ASSUME Bad # {} PROVE FALSE
    OBVIOUS
  <2>1. IsWellFoundedOn(StrictSubsetOrdering(Nat), FiniteSubsetsOf(Nat))
    BY FS_StrictSubsetOrderingWellFounded
  <2>2. Bad \subseteq FiniteSubsetsOf(Nat)
    OBVIOUS
  <2> HIDE DEF Bad
  <2>3. PICK T \in Bad : \A U \in Bad : <<U, T>> \notin StrictSubsetOrdering(Nat)
    BY <2>1, <2>2, WFMin
  <2>4. T \in SUBSET Nat /\ IsFiniteSet(T) /\ T # {}
    BY DEF Bad, FiniteSubsetsOf
  <2>5. PICK x \in T : TRUE
    BY <2>4
  <2>6. T \ {x} \in SUBSET Nat /\ IsFiniteSet(T \ {x})
    BY <2>4, FS_RemoveElement
  <2>7. T \ {x} \notin Bad
    BY <2>3, <2>4, <2>5, <2>6 DEF StrictSubsetOrdering
  <2>8. CASE T \ {x} = {}
    <3>1. \A n \in T : n <= x
      BY <2>4, <2>5, <2>8
    <3> QED BY <2>5, <3>1 DEF Bad
  <2>9. CASE T \ {x} # {}
    <3>1. PICK m \in T \ {x} : \A n \in T \ {x} : n <= m
      BY <2>6, <2>7, <2>9 DEF Bad, FiniteSubsetsOf
    <3>2. CASE m <= x
      <4>1. \A n \in T : n <= x
        BY <2>4, <2>5, <3>1, <3>2
      <4> QED BY <2>5, <4>1 DEF Bad
    <3>3. CASE x <= m
      <4>1. \A n \in T : n <= m
        BY <2>4, <2>5, <3>1, <3>3
      <4> QED BY <3>1, <4>1 DEF Bad
    <3> QED BY <2>4, <2>5, <3>1, <3>2, <3>3
  <2> QED BY <2>8, <2>9
<1>2. S \in FiniteSubsetsOf(Nat)
  BY DEF FiniteSubsetsOf
<1>3. \E m \in S : \A n \in S : m >= n
  BY <1>1, <1>2
<1> QED BY <1>3 DEF Max

Elems(d) == {d[i] : i \in DOMAIN d}

\* What an append, a prepend and a removal do to the order of a sequence.
LEMMA Appended ==
  ASSUME NEW S, NEW d \in Seq(S), NEW x \in S
  PROVE  /\ Append(d, x) \in Seq(S)
         /\ Elems(Append(d, x)) = Elems(d) \cup {x}
         /\ Distinct(d) /\ x \notin Elems(d) => Distinct(Append(d, x))
         /\ \A a, b : Before(Append(d, x), a, b) =>
                       Before(d, a, b) \/ (a \in Elems(d) /\ b = x)
         /\ \A a, b : Before(d, a, b) => Before(Append(d, x), a, b)
<1>1. /\ Append(d, x) \in Seq(S) /\ DOMAIN d = 1 .. Len(d) /\ Len(d) \in Nat
      /\ DOMAIN Append(d, x) = 1 .. (Len(d) + 1)
      /\ \A i \in 1 .. Len(d) : Append(d, x)[i] = d[i]
      /\ Append(d, x)[Len(d) + 1] = x
  OBVIOUS
<1> DEFINE e == Append(d, x)
<1> HIDE DEF e
<1>2. Elems(e) = Elems(d) \cup {x}
  BY <1>1 DEF Elems, e
<1>3. Distinct(d) /\ x \notin Elems(d) => Distinct(e)
  BY <1>1 DEF Elems, e, Distinct
<1>4. ASSUME NEW a, NEW b, Before(e, a, b)
      PROVE  Before(d, a, b) \/ (a \in Elems(d) /\ b = x)
  BY <1>1, <1>4 DEF Elems, e, Before
<1>5. ASSUME NEW a, NEW b, Before(d, a, b) PROVE Before(e, a, b)
  BY <1>1, <1>5 DEF e, Before
<1> QED BY <1>1, <1>2, <1>3, <1>4, <1>5 DEF e

LEMMA Prepended ==
  ASSUME NEW S, NEW d \in Seq(S), NEW x \in S
  PROVE  /\ <<x>> \o d \in Seq(S)
         /\ Elems(<<x>> \o d) = Elems(d) \cup {x}
         /\ Distinct(d) /\ x \notin Elems(d) => Distinct(<<x>> \o d)
         /\ \A a, b : Before(<<x>> \o d, a, b) =>
                       Before(d, a, b) \/ (a = x /\ b \in Elems(d))
         /\ \A a, b : Before(d, a, b) => Before(<<x>> \o d, a, b)
<1>1. /\ <<x>> \o d \in Seq(S) /\ DOMAIN d = 1 .. Len(d) /\ Len(d) \in Nat
      /\ DOMAIN (<<x>> \o d) = 1 .. (Len(d) + 1)
      /\ \A i \in 2 .. (Len(d) + 1) : (<<x>> \o d)[i] = d[i - 1]
      /\ (<<x>> \o d)[1] = x
  OBVIOUS
<1> DEFINE e == <<x>> \o d
<1> HIDE DEF e
<1>0. \A i \in 1 .. Len(d) : i + 1 \in DOMAIN e /\ e[i + 1] = d[i]
  BY <1>1 DEF e
<1>2. Elems(e) = Elems(d) \cup {x}
  <2>1. Elems(e) \subseteq Elems(d) \cup {x}
    BY <1>1 DEF Elems, e
  <2>2. Elems(d) \subseteq Elems(e)
    BY <1>0, <1>1 DEF Elems
  <2>3. x \in Elems(e)
    BY <1>1 DEF Elems, e
  <2> QED BY <2>1, <2>2, <2>3
<1>3. Distinct(d) /\ x \notin Elems(d) => Distinct(e)
  BY <1>1 DEF Elems, e, Distinct
<1>4. ASSUME NEW a, NEW b, Before(e, a, b)
      PROVE  Before(d, a, b) \/ (a = x /\ b \in Elems(d))
  BY <1>1, <1>4 DEF Elems, e, Before
<1>5. ASSUME NEW a, NEW b, Before(d, a, b) PROVE Before(e, a, b)
  <2>1. PICK i, j \in DOMAIN d : i < j /\ d[i] = a /\ d[j] = b
    BY <1>5 DEF Before
  <2>2. /\ i + 1 \in DOMAIN e /\ j + 1 \in DOMAIN e /\ i + 1 < j + 1
        /\ e[i + 1] = a /\ e[j + 1] = b
    BY <1>0, <1>1, <2>1
  <2> QED BY <2>2 DEF Before
<1> QED BY <1>1, <1>2, <1>3, <1>4, <1>5 DEF e

\* The sequence less its k-th element (Removed of the dialogs).
Less(d, k) == [j \in 1 .. (Len(d) - 1) |-> IF j < k THEN d[j] ELSE d[j + 1]]

LEMMA Removal ==
  ASSUME NEW S, NEW d \in Seq(S), Distinct(d), NEW k \in DOMAIN d
  PROVE  /\ Less(d, k) \in Seq(S)
         /\ Elems(Less(d, k)) = Elems(d) \ {d[k]}
         /\ Distinct(Less(d, k))
         /\ \A a, b : Before(Less(d, k), a, b) => Before(d, a, b)
         /\ \A a, b : Before(d, a, b) /\ d[k] \notin {a, b} => Before(Less(d, k), a, b)
<1>1. DOMAIN d = 1 .. Len(d) /\ Len(d) \in Nat /\ Len(d) > 0 /\ Len(d) - 1 \in Nat
      /\ \A i \in 1 .. Len(d) : d[i] \in S
  OBVIOUS
<1> DEFINE e == Less(d, k)
           old(j) == IF j < k THEN j ELSE j + 1
<1>2. /\ DOMAIN e = 1 .. (Len(d) - 1)
      /\ \A j \in DOMAIN e : old(j) \in DOMAIN d /\ old(j) # k /\ e[j] = d[old(j)]
  BY <1>1 DEF Less
<1>3. e \in Seq(S)
  <2>1. \A j \in 1 .. (Len(d) - 1) : (IF j < k THEN d[j] ELSE d[j + 1]) \in S
    BY <1>1
  <2> QED BY <1>1, <2>1, IsASeq DEF Less
<1>4. \A i \in DOMAIN d \ {k} : \E j \in DOMAIN e : old(j) = i
  <2> SUFFICES ASSUME NEW i \in DOMAIN d \ {k} PROVE \E j \in DOMAIN e : old(j) = i
    OBVIOUS
  <2>1. CASE i < k
    BY <1>1, <1>2, <2>1
  <2>2. CASE i > k
    <3>1. i - 1 \in DOMAIN e /\ old(i - 1) = i
      BY <1>1, <1>2, <2>2
    <3> QED BY <3>1
  <2> QED BY <1>1, <2>1, <2>2
<1>5. \A i, j \in DOMAIN e : i < j <=> old(i) < old(j)
  BY <1>1, <1>2
<1>6. \A j \in DOMAIN e : j \in Nat /\ old(j) \in Nat
  BY <1>1, <1>2
<1> HIDE DEF e, old
<1>7. Elems(e) = Elems(d) \ {d[k]}
  <2>1. Elems(e) \subseteq Elems(d) \ {d[k]}
    BY <1>1, <1>2 DEF Elems, Distinct
  <2>2. Elems(d) \ {d[k]} \subseteq Elems(e)
    BY <1>2, <1>4 DEF Elems
  <2> QED BY <2>1, <2>2
<1>8. Distinct(e)
  <2> SUFFICES ASSUME NEW i \in DOMAIN e, NEW j \in DOMAIN e, e[i] = e[j] PROVE i = j
    BY DEF Distinct
  <2>1. old(i) = old(j)
    BY <1>2 DEF Distinct
  <2>2. ~(i < j) /\ ~(j < i)
    BY <1>5, <1>6, <2>1
  <2> QED BY <1>6, <2>2
<1>9. ASSUME NEW a, NEW b, Before(e, a, b) PROVE Before(d, a, b)
  BY <1>2, <1>5, <1>9 DEF Before
<1>10. ASSUME NEW a, NEW b, Before(d, a, b), d[k] \notin {a, b} PROVE Before(e, a, b)
  <2>1. PICK i, j \in DOMAIN d \ {k} : i < j /\ d[i] = a /\ d[j] = b
    BY <1>10 DEF Before
  <2>2. PICK i1, j1 \in DOMAIN e : old(i1) = i /\ old(j1) = j
    BY <1>4
  <2>3. i1 < j1 /\ e[i1] = a /\ e[j1] = b
    BY <1>2, <1>5, <2>1, <2>2
  <2> QED BY <2>3 DEF Before
<1> QED BY <1>3, <1>7, <1>8, <1>9, <1>10 DEF e

LEMMA TailIsLess ==
  ASSUME NEW S, NEW d \in Seq(S), d # <<>>
  PROVE  Tail(d) = Less(d, 1) /\ 1 \in DOMAIN d /\ Head(d) = d[1]
<1>1. /\ Len(d) \in Nat \ {0} /\ DOMAIN d = 1 .. Len(d) /\ Head(d) = d[1]
      /\ Tail(d) \in Seq(S) /\ Len(Tail(d)) = Len(d) - 1
      /\ \A i \in 1 .. (Len(d) - 1) : Tail(d)[i] = d[i + 1] /\ d[i + 1] \in S
  OBVIOUS
<1>2. Less(d, 1) = [j \in 1 .. (Len(d) - 1) |-> d[j + 1]]
  BY <1>1 DEF Less
<1>3. Tail(d) \in [1 .. (Len(d) - 1) -> S]
  BY <1>1, LenProperties
<1> QED BY <1>1, <1>2, <1>3

-----------------------------------------------------------------------------
(* The types.                                                              *)

\* The time of handling is later than every stamp.
LEMMA NowIsLater ==
  ASSUME TypeOK, NEW p \in Prompts
  PROVE  /\ Now \in Nat /\ Now > 0
         /\ \A q \in Prompts : order[q].arrived < Now /\ order[q].timedOut < Now
<1> DEFINE A == {order[q].arrived : q \in Prompts}
           T == {order[q].timedOut : q \in Prompts}
<1>1. A \subseteq Nat /\ T \subseteq Nat
  BY DEF TypeOK
<1>2. IsFiniteSet(A) /\ IsFiniteSet(T)
  <2> DEFINE arrivals == [q \in Prompts |-> order[q].arrived]
             timeouts == [q \in Prompts |-> order[q].timedOut]
  <2>1. A = Range(arrivals) /\ T = Range(timeouts)
    BY DEF Range
  <2>2. arrivals \in Surjection(Prompts, Range(arrivals))
        /\ timeouts \in Surjection(Prompts, Range(timeouts))
    BY DEF Range, Surjection
  <2> QED BY <2>1, <2>2, PromptsAssumption, FS_Surjection
<1>3. IsFiniteSet(A \cup T) /\ A \cup T # {} /\ A \cup T \in SUBSET Nat
  BY <1>1, <1>2, FS_Union
<1>4. Max(A \cup T) \in A \cup T /\ \A n \in A \cup T : n <= Max(A \cup T)
  BY <1>3, MaxOfFinite
<1>5. Now = 1 + Max(A \cup T)
  BY DEF Now
<1>6. \A q \in Prompts : order[q].arrived \in A \cup T /\ order[q].timedOut \in A \cup T
  OBVIOUS
<1> HIDE DEF A, T
<1>7. Max(A \cup T) \in Nat
  BY <1>1, <1>4
<1>8. \A n \in A \cup T : n \in Nat /\ n < 1 + Max(A \cup T)
  BY <1>1, <1>4, <1>7
<1>9. Now \in Nat /\ Now > 0
  BY <1>5, <1>7
<1>10. \A n \in A \cup T : n < Now
  BY <1>5, <1>8
<1> QED BY <1>6, <1>9, <1>10

\* A run of the due refusals wakes one at most.
LEMMA RunDueTyped ==
  ASSUME NEW from \in [Prompts -> Refusal], RunDueRefusals(from), extra' \subseteq Prompts
  PROVE  refusal' \in [Prompts -> Refusal]
BY DEF RunDueRefusals, Refusal

LEMMA OrderTyped ==
  ASSUME NEW f \in [Prompts -> Order], OrderOnRecord(f)
  PROVE  order' \in [Prompts -> Order]
BY DEF OrderOnRecord, Order, NoOrder

LEMMA ClearedTyped ==
  ASSUME refusal \in [Prompts -> Refusal], NEW ps
  PROVE  Cleared(ps) \in [Prompts -> Refusal]
BY DEF Cleared, Refusal

LEMMA TakeKeyTyped ==
  ASSUME TypeOK, TakeKey
  PROVE  /\ dialogs' \in Seq(Prompts) /\ ran' \subseteq Prompts
         /\ hook' \in [Prompts -> {"idle", "parked", "answered", "left"}]
         /\ dialogs # <<>> => Head(dialogs) \in Prompts
<1>1. dialogs # <<>> => Head(dialogs) \in Prompts /\ Tail(dialogs) \in Seq(Prompts)
  BY DEF TypeOK
<1> QED BY <1>1 DEF TypeOK, TakeKey

LEMMA ClosePromptTyped ==
  ASSUME TypeOK, NEW p \in Prompts, ClosePrompt(p)
  PROVE  /\ waiting' \in BOOLEAN /\ extra' \subseteq Prompts
         /\ card' \in Prompts \cup {NoPrompt}
         /\ order' \in [Prompts -> Order] /\ refusal' \in [Prompts -> Refusal]
<1>1. /\ waiting' \in BOOLEAN /\ extra' \subseteq Prompts
      /\ card' \in Prompts \cup {NoPrompt} /\ OrderOnRecord(order)
      /\ refusal' = Cleared(extra) \/ RunDueRefusals(Cleared({p}))
  BY DEF ClosePrompt, EndWait, TypeOK
<1>2. order' \in [Prompts -> Order]
  BY <1>1, OrderTyped DEF TypeOK, Order
<1>3. \A ps : Cleared(ps) \in [Prompts -> Refusal]
  BY ClearedTyped DEF TypeOK, Refusal
<1> QED BY <1>1, <1>2, <1>3, RunDueTyped

LEMMA InitIInv == Init => IInv
<1> SUFFICES ASSUME Init PROVE IInv
  OBVIOUS
<1>1. TypeOK /\ TapTyped
  <2>1. NoOrder \in Order /\ "ordinary" \in Kinds /\ NoTap.phase = "none"
    BY DEF NoOrder, Order, Kinds, NoTap
  <2>2. NoTap \in [for : Prompts \cup {NoPrompt}, phase : {"none", "key", "toast"},
                   onCard : BOOLEAN]
    BY DEF NoTap
  <2>3. \A S : <<>> \in Seq(S)
    OBVIOUS
  <2> QED BY <2>1, <2>2, <2>3 DEF Init, TypeOK, TapTyped, Order
<1>2. Up = {} /\ DOMAIN mail = {} /\ DOMAIN dialogs = {}
  BY DEF Init, Up
<1>3. Fresh /\ Requested /\ Ordered /\ Refusals /\ Woken
  BY <1>2, NoPromptAssumption DEF Init, Fresh, Requested, Ordered, Refusals, Woken, Rec, NoTap,
       NoOrder, Places, FirstSent
<1>4. Recorded /\ Ended /\ Timeouts
  BY <1>2, NoPromptAssumption DEF Init, Recorded, Ended, EndedOf, Timeouts, Answerable, Rec, NoTap,
       NoOrder, Distinct, Places
<1>5. InOrder /\ KeysAhead
  BY <1>2, NoPromptAssumption DEF Init, InOrder, KeysAhead, Before, KeyOut, NoTap
<1> QED BY <1>1, <1>3, <1>4, <1>5 DEF IInv

\* The types are kept by what Claude Code and its hooks do.
LEMMA ClaudeTyped ==
  ASSUME TypeOK, TapTyped, NEW p \in Prompts,
         \/ Ask(p) \/ HookGivesUp(p) \/ HookAnswerRead(p) \/ Report(p)
         \/ AnswerInTerminal
  PROVE  TypeOK' /\ TapTyped'
<1>0. TapTyped'
  BY DEF Ask, HookGivesUp, HookAnswerRead, Report, AnswerInTerminal, TapTyped
<1>1. \A m \in Datagram : Append(mail, m) \in Seq(Datagram)
  BY DEF TypeOK, Datagram, What
<1>2. Append(dialogs, p) \in Seq(Prompts) /\ <<p>> \o dialogs \in Seq(Prompts)
  BY DEF TypeOK
<1>3. Enter(p) => dialogs' \in Seq(Prompts)
  BY <1>2 DEF Enter
<1>4. CASE Ask(p)
  <2>1. Request(p, TRUE) \in Datagram /\ Request(p, FALSE) \in Datagram
    BY DEF Request, Datagram, What
  <2>2. mail' \in Seq(Datagram)
    BY <1>1, <1>4, <2>1 DEF Ask
  <2>3. dialogs' \in Seq(Prompts)
    BY <1>3, <1>4 DEF Ask, TypeOK
  <2>4. /\ kind' \in [Prompts -> Kinds]
        /\ hook' \in [Prompts -> {"idle", "parked", "answered", "left"}]
    <3>1. /\ kind \in [Prompts -> Kinds]
          /\ hook \in [Prompts -> {"idle", "parked", "answered", "left"}]
      BY DEF TypeOK
    <3>2. /\ \E k \in Kinds : kind' = [kind EXCEPT ![p] = k]
          /\ \E h \in {"parked", "left"} : hook' = [hook EXCEPT ![p] = h]
      BY <1>4 DEF Ask
    <3> QED BY <3>1, <3>2
  <2> QED BY <1>0, <1>4, <2>2, <2>3, <2>4 DEF Ask, TypeOK, records, history, Datagram, What
<1>5. CASE HookGivesUp(p)
  <2>1. mail' \in Seq(Datagram) /\ dialogs' \in Seq(Prompts)
    BY <1>1, <1>3, <1>5 DEF HookGivesUp, TypeOK, Message, Datagram, What
  <2> QED BY <1>0, <1>5, <2>1 DEF HookGivesUp, TypeOK, records, history, Datagram, What
<1>6. CASE HookAnswerRead(p)
  <2>1. dialogs' \in Seq(Prompts)
    <3>1. \A i \in DOMAIN dialogs : Removed(i) \in Seq(Prompts)
      <4> SUFFICES ASSUME NEW i \in DOMAIN dialogs PROVE Removed(i) \in Seq(Prompts)
        OBVIOUS
      <4>0. dialogs \in Seq(Prompts)
        BY DEF TypeOK
      <4>1. /\ Len(dialogs) - 1 \in Nat
            /\ \A j \in 1 .. (Len(dialogs) - 1) :
                  (IF j < i THEN dialogs[j] ELSE dialogs[j + 1]) \in Prompts
        BY <4>0
      <4> QED BY <4>1, IsASeq DEF Removed
    <3> QED BY <1>6, <3>1 DEF HookAnswerRead, TypeOK
  <2>2. hook' \in [Prompts -> {"idle", "parked", "answered", "left"}]
    <3>1. hook' = [hook EXCEPT ![p] = "left"]
      BY <1>6 DEF HookAnswerRead
    <3> QED BY <3>1 DEF TypeOK
  <2>3. mail' \in Seq(Datagram)
    <3>1. mail' = mail
      BY <1>6 DEF HookAnswerRead
    <3> QED BY <3>1 DEF TypeOK, Datagram, What
  <2>4. /\ ran' = ran \cup {p}
        /\ UNCHANGED <<kind, byHand, order, records, refusal, first, tap, known, history>>
    BY <1>6 DEF HookAnswerRead
  <2> QED BY <1>0, <2>1, <2>2, <2>3, <2>4 DEF TypeOK, records, history, Datagram, What
<1>7. CASE Report(p)
  <2>1. mail' \in Seq(Datagram)
    BY <1>1, <1>7 DEF Report, TypeOK, Message, Datagram, What
  <2> QED BY <1>0, <1>7, <2>1 DEF Report, TypeOK, records, history, Datagram, What
<1>8. CASE AnswerInTerminal
  BY <1>0, <1>8, TakeKeyTyped DEF AnswerInTerminal, TypeOK, records, history
<1> QED BY <1>4, <1>5, <1>6, <1>7, <1>8

\* The types are kept by the datagrams' handlers.
LEMMA MailTyped ==
  ASSUME TypeOK, TapTyped, NEW p \in Prompts,
         HandleRequest(p) \/ HandleTimeout(p) \/ HandleReport(p)
  PROVE  TypeOK' /\ TapTyped'
<1>0. TapTyped'
  BY DEF HandleRequest, HandleTimeout, HandleReport, TapTyped
<1>1. mail # <<>> /\ mail' = Tail(mail) /\ mail' \in Seq(Datagram) /\ Head(mail) \in Datagram
  <2>1. mail # <<>> /\ mail' = Tail(mail)
    BY DEF HandleRequest, HandleTimeout, HandleReport, Receive
  <2>2. mail \in Seq(Datagram)
    BY DEF TypeOK, Datagram, What
  <2> QED BY <2>1, <2>2
<1>2. refusal \in [Prompts -> Refusal] /\ order \in [Prompts -> Order]
  BY DEF TypeOK, Refusal, Order
<1>3. CASE HandleRequest(p)
  <2> DEFINE stamped == [order EXCEPT ![p] = [arrived |-> Now, timedOut |-> 0,
                                              channel |-> Head(mail).channel]]
  <2>1. stamped \in [Prompts -> Order]
    BY <1>1, <1>2, NowIsLater DEF Order, Datagram, What
  <2> HIDE DEF stamped
  <2>2. OpenFirst(p, stamped) \/ OpenExtra(p, stamped)
    BY <1>3 DEF HandleRequest, stamped
  <2>3. order' \in [Prompts -> Order]
    BY <1>2, <2>1, <2>2, OrderTyped DEF OpenFirst, OpenExtra
  <2>4. /\ hook' \in [Prompts -> {"idle", "parked", "answered", "left"}]
        /\ waiting' \in BOOLEAN /\ card' \in Prompts \cup {NoPrompt}
        /\ extra' \subseteq Prompts /\ first' \subseteq Prompts
    BY <2>2 DEF OpenFirst, OpenExtra, SendDecision, TypeOK
  <2>5. refusal' \in [Prompts -> Refusal]
    <3>1. [refusal EXCEPT ![p] = "due"] \in [Prompts -> Refusal]
      BY <1>2 DEF Refusal
    <3> QED BY <1>2, <2>2, <2>4, <3>1, RunDueTyped DEF OpenFirst, OpenExtra
  <2> QED BY <1>0, <1>1, <1>3, <2>3, <2>4, <2>5
          DEF HandleRequest, TypeOK, history, Datagram, What, Order, Refusal
<1>4. CASE HandleTimeout(p)
  <2>1. order' \in [Prompts -> Order]
    BY <1>2, <1>4, NowIsLater DEF HandleTimeout, Order
  <2>2. refusal' \in [Prompts -> Refusal]
    BY <1>2, <1>4, RunDueTyped DEF HandleTimeout, records, TypeOK
  <2> QED BY <1>0, <1>1, <1>4, <2>1, <2>2
          DEF HandleTimeout, TypeOK, claude, records, history, Datagram, What, Order, Refusal
<1>5. CASE HandleReport(p)
  <2>1. /\ waiting' \in BOOLEAN /\ extra' \subseteq Prompts
        /\ card' \in Prompts \cup {NoPrompt}
        /\ order' \in [Prompts -> Order] /\ refusal' \in [Prompts -> Refusal]
    BY <1>2, <1>5, ClosePromptTyped DEF HandleReport, records, TypeOK
  <2> QED BY <1>0, <1>1, <1>5, <2>1
          DEF HandleReport, TypeOK, claude, history, Datagram, What, Order, Refusal
<1> QED BY <1>3, <1>4, <1>5

\* The types are kept by the taps and the refusals.
LEMMA AnswersTyped ==
  ASSUME TypeOK, TapTyped, NEW p \in Prompts,
         \/ FirstRefusalLands(p) \/ Tap(p) \/ TapKeyLands \/ TapEnds
         \/ RefusalSettles(p) \/ QueueRead(p) \/ RefusalLands(p)
  PROVE  TypeOK' /\ TapTyped'
<1>1. refusal \in [Prompts -> Refusal] /\ order \in [Prompts -> Order]
  BY DEF TypeOK, Refusal, Order
<1>2. \A ps : Cleared(ps) \in [Prompts -> Refusal]
  BY <1>1, ClearedTyped
<1>3. Open \subseteq Prompts
  BY DEF Open, TypeOK
<1>4. TakeKey => \A q : Missed(q) \subseteq {q} \cup Prompts
  BY TakeKeyTyped DEF Missed
<1>5. CASE FirstRefusalLands(p)
  <2>1. order' \in [Prompts -> Order] /\ refusal' \in [Prompts -> Refusal]
    BY <1>1, <1>2, <1>5, OrderTyped DEF FirstRefusalLands, EndWait
  <2> QED BY <1>3, <1>4, <1>5, <2>1, TakeKeyTyped
          DEF FirstRefusalLands, EndWait, TypeOK, TapTyped, Order, Refusal
<1>6. CASE Tap(p)
  <2>1. KnownToDaemon \subseteq Prompts
    BY <1>3 DEF KnownToDaemon
  <2>2. /\ known' \in [Prompts -> SUBSET Prompts]
        /\ hook' \in [Prompts -> {"idle", "parked", "answered", "left"}]
        /\ tap' \in [for : Prompts \cup {NoPrompt}, phase : {"none", "key", "toast"},
                      onCard : BOOLEAN]
        /\ tap'.for = p
    <3>1. /\ known \in [Prompts -> SUBSET Prompts]
          /\ hook \in [Prompts -> {"idle", "parked", "answered", "left"}]
      BY DEF TypeOK
    <3>2. /\ known' = known \/ known' = [known EXCEPT ![p] = KnownToDaemon]
          /\ hook' = hook \/ hook' = [hook EXCEPT ![p] = "answered"]
          /\ \E f \in {"key", "toast"} :
               tap' = [for |-> p, phase |-> f, onCard |-> card = p]
      BY <1>6 DEF Tap, SendDecision
    <3> QED BY <2>1, <3>1, <3>2
  <2> QED BY <1>6, <2>2 DEF Tap, TypeOK, TapTyped, records, history
<1>7. CASE TapKeyLands
  <2>1. tap.for \in Prompts
    BY <1>7 DEF TapKeyLands, TapTyped
  <2>2. /\ tap' \in [for : Prompts \cup {NoPrompt}, phase : {"none", "key", "toast"},
                      onCard : BOOLEAN]
        /\ tap'.for = tap.for
    BY <1>7 DEF TapKeyLands, TypeOK
  <2>3. known' \in [Prompts -> SUBSET Prompts] /\ missed' \subseteq Prompts
    BY <1>4, <1>7, <2>1 DEF TapKeyLands, TypeOK
  <2> QED BY <1>7, <2>1, <2>2, <2>3, TakeKeyTyped
          DEF TapKeyLands, TypeOK, TapTyped, records
<1>8. CASE TapEnds
  <2>1. tap.for \in Prompts
    BY <1>8 DEF TapEnds, TapTyped
  <2>2. /\ waiting' \in BOOLEAN /\ extra' \subseteq Prompts
        /\ card' \in Prompts \cup {NoPrompt}
        /\ order' \in [Prompts -> Order] /\ refusal' \in [Prompts -> Refusal]
        /\ dropped' \subseteq Prompts
    <3>1. CASE ClosePrompt(tap.for) /\ UNCHANGED dropped
      BY <2>1, <3>1, ClosePromptTyped DEF TypeOK
    <3>2. CASE EndWait /\ dropped' = dropped \cup Open /\ UNCHANGED card
      BY <1>1, <1>2, <1>3, <3>2, OrderTyped DEF EndWait, TypeOK
    <3>3. CASE UNCHANGED <<waiting, extra, order, dropped, card>> /\ RunDueRefusals(refusal)
      BY <1>1, <3>3, RunDueTyped DEF TypeOK
    <3> QED BY <1>8, <3>1, <3>2, <3>3 DEF TapEnds
  <2> QED BY <1>8, <2>2 DEF TapEnds, TypeOK, TapTyped, NoTap, claude, Order, Refusal
<1>9. CASE RefusalSettles(p)
  <2>1. KnownToRefusal \subseteq Prompts
    BY DEF KnownToRefusal, Up, TypeOK
  <2>2. refusal' \in [Prompts -> Refusal] /\ known' \in [Prompts -> SUBSET Prompts]
    <3>1. known \in [Prompts -> SUBSET Prompts]
      BY DEF TypeOK
    <3>2. /\ \E f \in Refusal : refusal' = [refusal EXCEPT ![p] = f]
          /\ known' = known \/ \E ps \in SUBSET Prompts : known' = [known EXCEPT ![p] = ps]
      BY <1>9, <2>1, <3>1 DEF RefusalSettles, BackToDue, Refusal
    <3> QED BY <1>1, <3>1, <3>2
  <2> QED BY <1>9, <2>2
          DEF RefusalSettles, TypeOK, TapTyped, claude, records, history, Refusal
<1>10. CASE QueueRead(p)
  <2>1. KnownToDaemon \subseteq Prompts
    BY <1>3 DEF KnownToDaemon
  <2>2. refusal' \in [Prompts -> Refusal] /\ known' \in [Prompts -> SUBSET Prompts]
    <3>1. known \in [Prompts -> SUBSET Prompts]
      BY DEF TypeOK
    <3>2. /\ \E f \in Refusal : refusal' = [refusal EXCEPT ![p] = f]
          /\ known' = known \/ \E ps \in SUBSET Prompts : known' = [known EXCEPT ![p] = ps]
      BY <1>10, <2>1, <3>1 DEF QueueRead, BackToDue, Refusal
    <3> QED BY <1>1, <3>1, <3>2
  <2> QED BY <1>10, <2>2
          DEF QueueRead, TypeOK, TapTyped, claude, records, history, Refusal
<1>11. CASE RefusalLands(p)
  <2>1. order' \in [Prompts -> Order]
    BY <1>1, <1>11, OrderTyped DEF RefusalLands
  <2>2. refusal' \in [Prompts -> Refusal]
    <3>1. [refusal EXCEPT ![p] = "none"] \in [Prompts -> Refusal] /\ extra' \subseteq Prompts
      BY <1>1, <1>11 DEF RefusalLands, Refusal, TypeOK
    <3> QED BY <1>11, <3>1, RunDueTyped DEF RefusalLands
  <2> QED BY <1>4, <1>11, <2>1, <2>2, TakeKeyTyped
          DEF RefusalLands, TypeOK, TapTyped, Order, Refusal
<1> QED BY <1>5, <1>6, <1>7, <1>8, <1>9, <1>10, <1>11

-----------------------------------------------------------------------------
(* The due refusals.                                                       *)

\* The verdict goes by the records, their order and their kinds.
LEMMA SameVerdict ==
  ASSUME UNCHANGED <<waiting, extra, card>>, NEW p,
         \A q \in Open \cup {p} : kind'[q] = kind[q] /\ order'[q] = order[q]
  PROVE  Open' = Open /\ (OnTop(p)' <=> OnTop(p))
<1>1. Open' = Open
  BY DEF Open
<1> QED BY <1>1 DEF OnTop, CertainlyAbsent, Parked, MayBeAbsent, Lo, Hi

\* A dialog that is there entered no later than it is taken to have.
LEMMA LoBeforeHi ==
  ASSUME TypeOK, Ordered, NEW p \in Prompts, ~MayBeAbsent(p)
  PROVE  Lo(p) \in Nat /\ Hi(p) \in Nat /\ Lo(p) <= Hi(p)
<1>1. order[p].arrived \in Nat /\ order[p].timedOut \in Nat
  BY DEF TypeOK
<1>2. order[p].timedOut > 0 => order[p].arrived < order[p].timedOut
  BY DEF Ordered
<1> QED BY <1>1, <1>2 DEF MayBeAbsent, Lo, Hi

\* Two prompts are on top only while no dialog is there at all: one more
\* prompt leaves both or none of them on top.
LEMMA SharedVerdict ==
  ASSUME TypeOK, Ordered, NEW r \in Open, NEW s \in Open, r # s, Open \subseteq Prompts,
         Open \subseteq Open',
         \A q \in Open : kind'[q] = kind[q] /\ order'[q] = order[q],
         OnTop(s), OnTop(r)'
  PROVE  OnTop(s)'
<1>1. /\ CertainlyAbsent(r)' <=> CertainlyAbsent(r)
      /\ MayBeAbsent(r)' <=> MayBeAbsent(r)
      /\ CertainlyAbsent(s)' <=> CertainlyAbsent(s)
      /\ Lo(s)' = Lo(s) /\ Hi(r)' = Hi(r)
      /\ CertainlyAbsent(r) => MayBeAbsent(r)
      /\ CertainlyAbsent(s) => MayBeAbsent(s)
  BY DEF CertainlyAbsent, Parked, MayBeAbsent, Lo, Hi
<1>2. /\ \A q \in Open' : kind'[q] # "countdown"
      /\ \/ \A q \in Open' \ {r} : CertainlyAbsent(q)'
         \/ /\ ~MayBeAbsent(r)'
            /\ \A q \in Open' \ {r} : ~CertainlyAbsent(q)' => Hi(r)' < Lo(q)'
  <2>1. Open' \ {r} # {}
    OBVIOUS
  <2> QED BY <2>1 DEF OnTop
<1>3. \/ \A q \in Open \ {s} : CertainlyAbsent(q)
      \/ /\ ~MayBeAbsent(s)
         /\ \A q \in Open \ {s} : ~CertainlyAbsent(q) => Hi(s) < Lo(q)
  <2>1. Open \ {s} # {}
    OBVIOUS
  <2> QED BY <2>1 DEF OnTop
<1>4. CASE ~CertainlyAbsent(r)
  <2>1. ~MayBeAbsent(s) /\ Hi(s) < Lo(r)
    BY <1>3, <1>4
  <2>2. /\ ~CertainlyAbsent(s)' /\ s \in Open' \ {r}
        /\ MayBeAbsent(r)' <=> MayBeAbsent(r)
        /\ Lo(s)' = Lo(s) /\ Hi(r)' = Hi(r)
    BY <1>1, <2>1
  <2>3. ~MayBeAbsent(r) /\ Hi(r) < Lo(s)
    BY <1>2, <2>2
  <2> QED BY <2>1, <2>3, LoBeforeHi
<1>5. CASE CertainlyAbsent(r)
  <2>0. CertainlyAbsent(r)' /\ MayBeAbsent(r)'
    BY <1>1, <1>5
  <2>1. \A q \in Open' : CertainlyAbsent(q)'
    BY <1>2, <2>0
  <2> QED BY <1>2, <2>1 DEF OnTop
<1> QED BY <1>4, <1>5

\* A prompt on top of more prompts is on top of fewer.
LEMMA FewerPrompts ==
  ASSUME NEW r \in Open, Open \subseteq Open',
         \A q \in Open : kind'[q] = kind[q] /\ order'[q] = order[q],
         OnTop(r)'
  PROVE  OnTop(r)
<1>1. CASE Open \ {r} = {}
  BY <1>1 DEF OnTop
<1>2. CASE Open \ {r} # {}
  <2>1. /\ \A q \in Open' : kind'[q] # "countdown"
        /\ \/ \A q \in Open' \ {r} : CertainlyAbsent(q)'
           \/ /\ ~MayBeAbsent(r)'
              /\ \A q \in Open' \ {r} : ~CertainlyAbsent(q)' => Hi(r)' < Lo(q)'
    BY <1>2 DEF OnTop
  <2>2. \A q \in Open : kind[q] # "countdown"
    BY <2>1
  <2>3. \/ \A q \in Open \ {r} : CertainlyAbsent(q)
        \/ /\ ~MayBeAbsent(r)
           /\ \A q \in Open \ {r} : ~CertainlyAbsent(q) => Hi(r) < Lo(q)
    BY <2>1 DEF CertainlyAbsent, Parked, MayBeAbsent, Lo, Hi
  <2> QED BY <1>2, <2>2, <2>3 DEF OnTop
<1> QED BY <1>1, <1>2

\* A run of the due refusals leaves none asleep.
LEMMA RunWakes ==
  ASSUME NEW from \in [Prompts -> Refusal], RunDueRefusals(from), extra' \subseteq Prompts
  PROVE  Woken'
<1> SUFFICES ASSUME waiting', NEW r \in extra', refusal'[r] = "due", OnTop(r)'
             PROVE  \E s \in extra' : /\ OnTop(s)'
                                      /\ refusal'[s] \in {"settle", "reading", "typing"}
  BY DEF Woken
<1> DEFINE ready == {q \in extra' : from[q] = "due" /\ OnTop(q)'}
<1>1. CASE ready = {}
  <2>1. refusal' = from
    BY <1>1 DEF RunDueRefusals
  <2> QED BY <1>1, <2>1
<1>2. CASE ready # {}
  <2>1. PICK s \in ready : refusal' = [from EXCEPT ![s] = "settle"]
    BY <1>2 DEF RunDueRefusals
  <2>2. s \in extra' /\ OnTop(s)' /\ refusal'[s] = "settle"
    BY <2>1
  <2> QED BY <2>2
<1> QED BY <1>1, <1>2

\* A run of the due refusals moves due ones to settle, and nothing else.
LEMMA RunMoves ==
  ASSUME NEW from \in [Prompts -> Refusal], RunDueRefusals(from), extra' \subseteq Prompts
  PROVE  \A p \in Prompts : \/ refusal'[p] = from[p]
                            \/ from[p] = "due" /\ refusal'[p] = "settle" /\ p \in extra'
BY DEF RunDueRefusals

\* What a request of p meets: p is in no record and has no refusal.
LEMMA RequestIsNew ==
  ASSUME IInv, NEW p \in Prompts, Receive("request", p)
  PROVE  /\ p \notin Rec \cup first /\ refusal[p] = "none" /\ tap.for # p
         /\ hook[p] \in {"parked", "left"} /\ order[p] = NoOrder
<1>1. 1 \in DOMAIN mail /\ mail[1].what = "request" /\ mail[1].for = p
  BY DEF Receive, IInv, TypeOK
<1>2. hook[p] # "idle"
  BY <1>1 DEF IInv, Fresh, Places, What
<1> QED BY <1>1, <1>2 DEF IInv, Requested, Ordered, TypeOK, Places

LEMMA WokenKept ==
  ASSUME IInv, [Next]_vars, TypeOK' PROVE Woken'
<1> USE DEF IInv
<1>1. refusal \in [Prompts -> Refusal] /\ extra \subseteq Prompts /\ extra' \subseteq Prompts
      /\ Open \subseteq Prompts
  BY DEF TypeOK, Refusal, Open
<1>2. \A ps : Cleared(ps) \in [Prompts -> Refusal]
  BY <1>1, ClearedTyped
<1>3. ASSUME UNCHANGED <<waiting, extra, card, order, refusal>>,
             \A q \in Open : kind'[q] = kind[q]
      PROVE  Woken'
  <2>1. waiting => \A q \in extra : OnTop(q)' <=> OnTop(q)
    <3>1. waiting => extra \subseteq Open
      BY <1>1, NoPromptAssumption DEF Open
    <3> QED BY <1>3, <3>1, SameVerdict
  <2> QED BY <1>3, <2>1 DEF Woken
<1>4. ASSUME NEW p \in Prompts,
             Ask(p) \/ HookGivesUp(p) \/ HookAnswerRead(p) \/ Report(p) \/ Tap(p)
      PROVE  Woken'
  <2>1. UNCHANGED <<waiting, extra, card, order, refusal>>
    BY <1>4 DEF Ask, HookGivesUp, HookAnswerRead, Report, Tap, records
  <2>2. CASE Ask(p)
    <3>1. p \notin Open
      BY <2>2 DEF Ask, Fresh, Open, Rec
    <3>2. \E k \in Kinds : kind' = [kind EXCEPT ![p] = k]
      BY <2>2 DEF Ask
    <3> QED BY <1>1, <1>3, <2>1, <3>1, <3>2 DEF TypeOK
  <2>3. CASE ~Ask(p)
    <3>1. UNCHANGED kind
      BY <1>4, <2>3 DEF HookGivesUp, HookAnswerRead, Report, Tap
    <3> QED BY <1>3, <2>1, <3>1
  <2> QED BY <2>2, <2>3
<1>13. CASE TapKeyLands \/ AnswerInTerminal \/ UNCHANGED vars
  BY <1>3, <1>13 DEF TapKeyLands, AnswerInTerminal, vars, records
<1>5. ASSUME NEW p \in Prompts, HandleRequest(p) PROVE Woken'
  <2>1. PICK stamped : /\ stamped \in [Prompts -> Order]
                       /\ \A q \in Prompts \ {p} : stamped[q] = order[q]
                       /\ OpenFirst(p, stamped) \/ OpenExtra(p, stamped)
    <3>1. Head(mail) \in Datagram
      <4>1. mail # <<>> /\ mail \in Seq(Datagram)
        BY <1>5 DEF HandleRequest, Receive, TypeOK, Datagram, What
      <4> QED BY <4>1
    <3>2. order \in [Prompts -> Order]
      BY DEF TypeOK, Order
    <3>3. [arrived |-> Now, timedOut |-> 0, channel |-> Head(mail).channel] \in Order
      BY <3>1, NowIsLater DEF Order, Datagram, What
    <3> QED BY <1>5, <3>2, <3>3 DEF HandleRequest
  <2>2. p \notin Rec /\ refusal[p] = "none" /\ UNCHANGED kind
    BY <1>5, RequestIsNew DEF HandleRequest
  <2>3. CASE OpenFirst(p, stamped)
    BY <2>3 DEF OpenFirst, Woken
  <2>4. CASE OpenExtra(p, stamped) /\ extra' = extra /\ order' = order
    <3>1. CASE refusal' = refusal
      BY <1>3, <2>2, <2>4, <3>1 DEF OpenExtra
    <3>2. CASE RunDueRefusals([refusal EXCEPT ![p] = "due"])
      <4>1. [refusal EXCEPT ![p] = "due"] \in [Prompts -> Refusal]
        BY <1>1 DEF Refusal
      <4> QED BY <1>1, <3>2, <4>1, RunWakes
    <3> QED BY <2>4, <3>1, <3>2 DEF OpenExtra
  <2>5. CASE /\ OpenExtra(p, stamped) /\ extra' = extra \cup {p} /\ refusal' = refusal
             /\ OrderOnRecord(stamped)
    <3>0. waiting /\ waiting' /\ card' = card
      BY <2>5 DEF OpenExtra
    <3>1. \A q \in Open : kind'[q] = kind[q] /\ order'[q] = order[q]
      <4>1. \A q \in Open : q # p /\ q \in extra' \cup {card'}
        BY <2>2, <2>5, <3>0 DEF Open, Rec
      <4> QED BY <1>1, <2>1, <2>2, <2>5, <4>1 DEF OrderOnRecord
    <3>2. Open \subseteq Open' /\ extra \subseteq Open
      BY <1>1, <2>5, <3>0, NoPromptAssumption DEF Open
    <3> SUFFICES ASSUME NEW r \in extra', refusal[r] = "due", OnTop(r)'
                 PROVE  \E s \in extra' : /\ OnTop(s)'
                                          /\ refusal[s] \in {"settle", "reading", "typing"}
      BY <2>5 DEF Woken
    <3>3. r \in extra
      BY <2>2, <2>5
    <3>4. OnTop(r)
      BY <3>1, <3>2, <3>3, FewerPrompts
    <3>5. PICK s \in extra : /\ OnTop(s)
                             /\ refusal[s] \in {"settle", "reading", "typing"}
      BY <3>0, <3>3, <3>4 DEF Woken
    <3>6. OnTop(s)'
      BY <1>1, <3>1, <3>2, <3>3, <3>5, SharedVerdict
    <3> QED BY <2>5, <3>5, <3>6
  <2>6. CASE RunDueRefusals([refusal EXCEPT ![p] = "due"])
    <3>1. [refusal EXCEPT ![p] = "due"] \in [Prompts -> Refusal]
      BY <1>1 DEF Refusal
    <3> QED BY <1>1, <2>6, <3>1, RunWakes
  <2> QED BY <2>1, <2>3, <2>4, <2>5, <2>6 DEF OpenExtra
<1>6. ASSUME NEW p \in Prompts, HandleTimeout(p) PROVE Woken'
  BY <1>1, <1>6, RunWakes DEF HandleTimeout
<1>7. ASSUME NEW p \in Prompts, ClosePrompt(p) PROVE Woken'
  <2>1. CASE EndWait
    BY <2>1 DEF EndWait, Woken
  <2>2. CASE RunDueRefusals(Cleared({p}))
    BY <1>1, <1>2, <2>2, RunWakes
  <2> QED BY <1>7, <2>1, <2>2 DEF ClosePrompt
<1>8. ASSUME NEW p \in Prompts, HandleReport(p) PROVE Woken'
  BY <1>3, <1>7, <1>8 DEF HandleReport, records
<1>9. ASSUME NEW p \in Prompts, FirstRefusalLands(p) PROVE Woken'
  BY <1>9 DEF FirstRefusalLands, EndWait, Woken
<1>10. CASE TapEnds
  <2>1. tap.for \in Prompts
    BY <1>10 DEF TapEnds, TapTyped
  <2>2. CASE ClosePrompt(tap.for)
    BY <1>7, <2>1, <2>2
  <2>3. CASE EndWait
    BY <2>3 DEF EndWait, Woken
  <2>4. CASE RunDueRefusals(refusal)
    BY <1>1, <2>4, RunWakes
  <2> QED BY <1>10, <2>2, <2>3, <2>4 DEF TapEnds
<1>11. ASSUME NEW p \in Prompts, RefusalSettles(p) \/ QueueRead(p) PROVE Woken'
  <2>1. UNCHANGED <<waiting, extra, card, order, kind>> /\ refusal[p] \in {"settle", "reading"}
    BY <1>11 DEF RefusalSettles, QueueRead, records
  <2>3. p \in extra /\ waiting
    BY <2>1 DEF Refusals
  <2>4. CASE BackToDue(p) /\ ~MayType(p)
    <3>1. ~OnTop(p)
      BY <2>3, <2>4 DEF MayType
    <3>2. \A q \in Prompts \ {p} : refusal'[q] = refusal[q]
      BY <1>1, <2>4 DEF BackToDue
    <3> SUFFICES ASSUME NEW r \in extra, refusal'[r] = "due", OnTop(r)'
                 PROVE  \E s \in extra' : /\ OnTop(s)'
                                          /\ refusal'[s] \in {"settle", "reading", "typing"}
      BY <2>1 DEF Woken
    <3>3. OnTop(r)
      BY <2>1, SameVerdict
    <3>4. PICK s \in extra : /\ OnTop(s)
                             /\ refusal[s] \in {"settle", "reading", "typing"}
      BY <1>1, <2>3, <3>1, <3>2, <3>3 DEF Woken
    <3>5. OnTop(s)'
      BY <2>1, <3>4, SameVerdict
    <3>6. refusal'[s] = refusal[s]
      BY <1>1, <3>1, <3>2, <3>4
    <3> QED BY <2>1, <3>4, <3>5, <3>6
  <2>5. CASE \E a \in {"reading", "typing"} : refusal' = [refusal EXCEPT ![p] = a]
    <3>1. /\ \A q \in Prompts \ {p} : refusal'[q] = refusal[q]
          /\ refusal'[p] \in {"reading", "typing"}
      BY <1>1, <2>5
    <3> SUFFICES ASSUME NEW r \in extra, refusal'[r] = "due", OnTop(r)'
                 PROVE  \E s \in extra' : /\ OnTop(s)'
                                          /\ refusal'[s] \in {"settle", "reading", "typing"}
      BY <2>1 DEF Woken
    <3>2. OnTop(r)
      BY <2>1, SameVerdict
    <3>3. PICK s \in extra : /\ OnTop(s)
                             /\ refusal[s] \in {"settle", "reading", "typing"}
      BY <1>1, <2>3, <3>1, <3>2 DEF Woken
    <3>4. OnTop(s)'
      BY <2>1, <3>3, SameVerdict
    <3>5. refusal'[s] \in {"settle", "reading", "typing"}
      BY <1>1, <3>1, <3>3
    <3> QED BY <2>1, <3>4, <3>5
  <2> QED BY <1>11, <2>4, <2>5 DEF RefusalSettles, QueueRead
<1>12. ASSUME NEW p \in Prompts, RefusalLands(p) PROVE Woken'
  <2>1. [refusal EXCEPT ![p] = "none"] \in [Prompts -> Refusal]
    BY <1>1 DEF Refusal
  <2> QED BY <1>1, <1>12, <2>1, RunWakes DEF RefusalLands
<1> QED BY <1>4, <1>5, <1>6, <1>8, <1>9, <1>10, <1>11, <1>12, <1>13 DEF Next

-----------------------------------------------------------------------------
(* What the steps do to the mail, the dialogs and the records.             *)

LEMMA MailAppended ==
  ASSUME NEW ms \in Seq(Datagram), NEW m \in Datagram
  PROVE  \E n \in Nat :
           /\ \A w, p : Places(Append(ms, m), w, p) =
                Places(ms, w, p) \cup (IF m.what = w /\ m.for = p THEN {n} ELSE {})
           /\ \A w, p : \A i \in Places(ms, w, p) : i \in Nat /\ i < n /\ Append(ms, m)[i] = ms[i]
           /\ Append(ms, m)[n] = m
<1>1. /\ DOMAIN Append(ms, m) = DOMAIN ms \cup {Len(ms) + 1}
      /\ DOMAIN ms \subseteq Nat /\ Len(ms) \in Nat
      /\ \A i \in DOMAIN ms : i < Len(ms) + 1 /\ Append(ms, m)[i] = ms[i]
      /\ Append(ms, m)[Len(ms) + 1] = m
  OBVIOUS
<1> QED BY <1>1 DEF Places

LEMMA MailTaken ==
  ASSUME NEW ms \in Seq(Datagram), ms # <<>>
  PROVE  /\ Head(ms) \in Datagram /\ 1 \in Places(ms, Head(ms).what, Head(ms).for)
         /\ Head(ms) = ms[1]
         /\ \A w, p : \A i \in Places(Tail(ms), w, p) :
              i \in Nat /\ i >= 1 /\ i + 1 \in Places(ms, w, p) /\ Tail(ms)[i] = ms[i + 1]
         /\ \A w, p : \A i \in Places(ms, w, p) :
              /\ i \in Nat /\ i >= 1
              /\ i = 1 \/ i - 1 \in Places(Tail(ms), w, p)
              /\ i = 1 => w = Head(ms).what /\ p = Head(ms).for
<1>1. /\ Len(ms) \in Nat \ {0} /\ DOMAIN ms = 1 .. Len(ms) /\ Head(ms) = ms[1]
      /\ DOMAIN Tail(ms) = 1 .. (Len(ms) - 1)
      /\ \A i \in 1 .. (Len(ms) - 1) : Tail(ms)[i] = ms[i + 1]
      /\ ms[1] \in Datagram
  OBVIOUS
<1>2. \A i \in DOMAIN Tail(ms) :
        i \in Nat /\ i >= 1 /\ i + 1 \in DOMAIN ms /\ Tail(ms)[i] = ms[i + 1]
  BY <1>1
<1>3. \A i \in DOMAIN ms \ {1} : i - 1 \in DOMAIN Tail(ms) /\ Tail(ms)[i - 1] = ms[i]
  <2> SUFFICES ASSUME NEW i \in DOMAIN ms \ {1}
               PROVE  i - 1 \in DOMAIN Tail(ms) /\ Tail(ms)[i - 1] = ms[i]
    OBVIOUS
  <2>1. i - 1 \in 1 .. (Len(ms) - 1) /\ (i - 1) + 1 = i
    BY <1>1
  <2> QED BY <1>1, <2>1
<1>4. \A i \in DOMAIN ms : i \in Nat /\ i >= 1
  BY <1>1
<1>5. \A w, p : \A i \in Places(Tail(ms), w, p) :
         i \in Nat /\ i >= 1 /\ i + 1 \in Places(ms, w, p) /\ Tail(ms)[i] = ms[i + 1]
  BY <1>2 DEF Places
<1>6. ASSUME NEW w, NEW p, NEW i \in Places(ms, w, p)
      PROVE  /\ i \in Nat /\ i >= 1
             /\ i = 1 \/ i - 1 \in Places(Tail(ms), w, p)
             /\ i = 1 => w = Head(ms).what /\ p = Head(ms).for
  BY <1>1, <1>3, <1>4 DEF Places
<1>7. 1 \in Places(ms, Head(ms).what, Head(ms).for)
  BY <1>1 DEF Places
<1> QED BY <1>1, <1>5, <1>6, <1>7

\* A datagram of p's goes out: behind every other.
SentAt(n, w, p) ==
  /\ \A v \in What : \A q \in Prompts :
       /\ Places(mail', v, q) = Places(mail, v, q) \cup (IF v = w /\ q = p THEN {n} ELSE {})
       /\ \A i \in Places(mail, v, q) : i \in Nat /\ i < n /\ mail'[i] = mail[i]
  /\ FirstSent(mail')

LEMMA SentFacts ==
  ASSUME mail \in Seq(Datagram), FirstSent(mail), NEW m \in Datagram, mail' = Append(mail, m),
         m.what = "request" => \A w \in What : Places(mail, w, m.for) = {}
  PROVE  \E n \in Nat : SentAt(n, m.what, m.for) /\ mail'[n] = m
<1> DEFINE sent == Append(mail, m)
<1>0. PICK n \in Nat :
         /\ \A w, p : Places(sent, w, p) =
              Places(mail, w, p) \cup (IF m.what = w /\ m.for = p THEN {n} ELSE {})
         /\ \A w, p : \A i \in Places(mail, w, p) : i \in Nat /\ i < n /\ sent[i] = mail[i]
         /\ sent[n] = m
  BY MailAppended
<1> HIDE DEF sent
<1>1. /\ \A w, p : Places(mail', w, p) =
           Places(mail, w, p) \cup (IF m.what = w /\ m.for = p THEN {n} ELSE {})
      /\ \A w, p : \A i \in Places(mail, w, p) : i \in Nat /\ i < n /\ mail'[i] = mail[i]
      /\ mail'[n] = m
  BY <1>0 DEF sent
<1>2. FirstSent(mail')
  <2> SUFFICES ASSUME NEW p \in Prompts, NEW i \in Places(mail', "request", p),
                      NEW w \in What, NEW j \in Places(mail', w, p)
               PROVE  i <= j /\ (w = "request" => i = j)
    BY DEF FirstSent
  <2>1. CASE i \in Places(mail, "request", p) /\ j \in Places(mail, w, p)
    BY <2>1 DEF FirstSent
  <2>2. CASE i \in Places(mail, "request", p) /\ j \notin Places(mail, w, p)
    <3>1. m.for = p /\ m.what = w /\ j = n /\ w # "request"
      BY <1>1, <2>2 DEF What
    <3>2. i \in Nat /\ i < n
      BY <1>1, <2>2
    <3>3. i <= j
      BY <3>1, <3>2
    <3> QED BY <3>1, <3>3
  <2>3. CASE i \notin Places(mail, "request", p)
    <3>1. m.for = p /\ m.what = "request" /\ i = n
      BY <1>1, <2>3
    <3>2. j = n /\ w = "request"
      BY <1>1, <3>1
    <3> QED BY <3>1, <3>2
  <2> QED BY <2>1, <2>2, <2>3
<1>3. \A v, q : \A i \in Places(mail, v, q) : i \in Nat /\ i < n /\ mail'[i] = mail[i]
  BY <1>1
<1>4. \A v, q : Places(mail', v, q) =
         Places(mail, v, q) \cup (IF v = m.what /\ q = m.for THEN {n} ELSE {})
  BY <1>1
<1>5. SentAt(n, m.what, m.for)
  <2>1. FirstSent(mail')
    BY <1>2
  <2> QED BY <1>3, <1>4, <2>1 DEF SentAt
<1>6. mail'[n] = m
  BY <1>1
<1> QED BY <1>5, <1>6

\* One of p's is handled: the first of all.
Taken(w, p) ==
  /\ mail # <<>> /\ Head(mail) = mail[1] /\ Head(mail) \in Datagram
  /\ 1 \in Places(mail, w, p)
  /\ \A v \in What : \A q \in Prompts :
       /\ \A i \in Places(mail', v, q) :
            i \in Nat /\ i >= 1 /\ i + 1 \in Places(mail, v, q) /\ mail'[i] = mail[i + 1]
       /\ \A i \in Places(mail, v, q) : i \in Nat /\ i >= 1
       /\ v # w \/ q # p => (Places(mail, v, q) = {} <=> Places(mail', v, q) = {})
  /\ FirstSent(mail')
  /\ Places(mail', "request", p) = {}

LEMMA TakenFacts ==
  ASSUME mail \in Seq(Datagram), FirstSent(mail), NEW w \in What, NEW p \in Prompts, Receive(w, p)
  PROVE  Taken(w, p)
<1>1. /\ mail # <<>> /\ mail' = Tail(mail) /\ Head(mail).what = w /\ Head(mail).for = p
  BY DEF Receive
<1> DEFINE rest == Tail(mail)
<1>0. /\ Head(mail) \in Datagram /\ 1 \in Places(mail, Head(mail).what, Head(mail).for)
      /\ Head(mail) = mail[1]
      /\ \A v, q : \A i \in Places(rest, v, q) :
           i \in Nat /\ i >= 1 /\ i + 1 \in Places(mail, v, q) /\ rest[i] = mail[i + 1]
      /\ \A v, q : \A i \in Places(mail, v, q) :
           /\ i \in Nat /\ i >= 1
           /\ i = 1 \/ i - 1 \in Places(rest, v, q)
           /\ i = 1 => v = Head(mail).what /\ q = Head(mail).for
  BY <1>1, MailTaken
<1> HIDE DEF rest
<1>2. /\ Head(mail) \in Datagram /\ 1 \in Places(mail, w, p) /\ Head(mail) = mail[1]
      /\ \A v, q : \A i \in Places(mail', v, q) :
           i \in Nat /\ i >= 1 /\ i + 1 \in Places(mail, v, q) /\ mail'[i] = mail[i + 1]
      /\ \A v, q : \A i \in Places(mail, v, q) :
           /\ i \in Nat /\ i >= 1
           /\ i = 1 \/ i - 1 \in Places(mail', v, q)
           /\ i = 1 => v = w /\ q = p
  <2>1. mail' = rest
    BY <1>1 DEF rest
  <2>2. Head(mail).what = w /\ Head(mail).for = p
    BY <1>1
  <2>3. \A v, q : \A i \in Places(mail', v, q) :
           i \in Nat /\ i >= 1 /\ i + 1 \in Places(mail, v, q) /\ mail'[i] = mail[i + 1]
    BY <1>0, <2>1
  <2>4. \A v, q : \A i \in Places(mail, v, q) :
           /\ i \in Nat /\ i >= 1
           /\ i = 1 \/ i - 1 \in Places(mail', v, q)
           /\ i = 1 => v = w /\ q = p
    BY <1>0, <2>1, <2>2
  <2> QED BY <1>0, <2>2, <2>3, <2>4
<1>3. ASSUME NEW v, NEW q, v # w \/ q # p
      PROVE  Places(mail, v, q) = {} <=> Places(mail', v, q) = {}
  BY <1>2, <1>3
<1>4. FirstSent(mail')
  <2> SUFFICES ASSUME NEW q \in Prompts, NEW i \in Places(mail', "request", q),
                      NEW v \in What, NEW j \in Places(mail', v, q)
               PROVE  i <= j /\ (v = "request" => i = j)
    BY DEF FirstSent
  <2>1. /\ i + 1 \in Places(mail, "request", q) /\ j + 1 \in Places(mail, v, q)
        /\ i \in Nat /\ j \in Nat
    BY <1>2
  <2>2. i + 1 <= j + 1 /\ (v = "request" => i + 1 = j + 1)
    BY <2>1 DEF FirstSent
  <2> QED BY <2>1, <2>2
<1>5. Places(mail', "request", p) = {}
  <2> SUFFICES ASSUME NEW i \in Places(mail', "request", p) PROVE FALSE
    OBVIOUS
  <2>1. i + 1 \in Places(mail, "request", p) /\ i \in Nat /\ i >= 1
    BY <1>2
  <2>2. i + 1 <= 1
    BY <1>2, <2>1 DEF FirstSent
  <2> QED BY <2>1, <2>2
<1>6. \A v \in What : \A q \in Prompts :
        /\ \A i \in Places(mail', v, q) :
             i \in Nat /\ i >= 1 /\ i + 1 \in Places(mail, v, q) /\ mail'[i] = mail[i + 1]
        /\ \A i \in Places(mail, v, q) : i \in Nat /\ i >= 1
        /\ v # w \/ q # p => (Places(mail, v, q) = {} <=> Places(mail', v, q) = {})
  BY <1>2, <1>3
<1>7. mail # <<>> /\ Head(mail) = mail[1] /\ Head(mail) \in Datagram /\ 1 \in Places(mail, w, p)
  BY <1>1, <1>2
<1> QED BY <1>4, <1>5, <1>6, <1>7 DEF Taken

\* The dialog of p enters the terminal.
LEMMA EnterFacts ==
  ASSUME TypeOK, Distinct(dialogs), NEW p \in Prompts, p \notin Up, Enter(p)
  PROVE  /\ Up' = Up \cup {p} /\ Distinct(dialogs')
         /\ \A a, b : Before(dialogs', a, b) =>
              \/ Before(dialogs, a, b)
              \/ kind'[p] # "countdown" /\ a \in Up /\ b = p
              \/ kind'[p] = "countdown" /\ a = p /\ b \in Up
         /\ \A a, b : Before(dialogs, a, b) => Before(dialogs', a, b)
<1>1. dialogs \in Seq(Prompts) /\ Up = Elems(dialogs) /\ Up' = Elems(dialogs')
  BY DEF TypeOK, Up, Elems
<1>2. CASE kind'[p] = "countdown"
  <2>1. dialogs' = <<p>> \o dialogs
    BY <1>2 DEF Enter
  <2> QED BY <1>1, <1>2, <2>1, Prepended
<1>3. CASE kind'[p] # "countdown"
  <2>1. dialogs' = Append(dialogs, p)
    BY <1>3 DEF Enter
  <2> QED BY <1>1, <1>3, <2>1, Appended
<1> QED BY <1>2, <1>3

\* The dialog of x leaves it.
Leaves(x) ==
  /\ Up' = Up \ {x} /\ Distinct(dialogs')
  /\ \A a, b : Before(dialogs', a, b) => Before(dialogs, a, b)
  /\ \A a, b : Before(dialogs, a, b) /\ x \notin {a, b} => Before(dialogs', a, b)

LEMMA LeaveFacts ==
  ASSUME TypeOK, Distinct(dialogs), NEW k \in DOMAIN dialogs, dialogs' = Less(dialogs, k)
  PROVE  Leaves(dialogs[k])
<1>1. dialogs \in Seq(Prompts) /\ Up = Elems(dialogs) /\ Up' = Elems(dialogs')
  BY DEF TypeOK, Up, Elems
<1> QED BY <1>1, Removal DEF Leaves

NoDialog == dialogs = <<>> /\ Up = {} /\ UNCHANGED <<dialogs, hook, ran>>
FirstGoes(x) ==
  /\ dialogs # <<>> /\ x = Head(dialogs) /\ x \in Up
  /\ Leaves(x)
  /\ hook' = [hook EXCEPT ![x] = "left"] /\ ran' = ran \cup {x}
  /\ \A b \in Up \ {x} : Before(dialogs, x, b)

LEMMA TakeKeyFacts ==
  ASSUME TypeOK, Distinct(dialogs), TakeKey
  PROVE  NoDialog \/ \E x \in Prompts : FirstGoes(x)
<1>1. CASE dialogs = <<>>
  <2>1. Up = {}
    BY <1>1 DEF Up
  <2> QED BY <1>1, <2>1 DEF TakeKey, NoDialog
<1>2. CASE dialogs # <<>>
  <2>1. dialogs \in Seq(Prompts)
    BY DEF TypeOK
  <2>2. Tail(dialogs) = Less(dialogs, 1) /\ 1 \in DOMAIN dialogs /\ Head(dialogs) = dialogs[1]
    BY <1>2, <2>1, TailIsLess
  <2>3. Leaves(dialogs[1])
    BY <1>2, <2>2, LeaveFacts DEF TakeKey
  <2>4. \A b \in Up \ {dialogs[1]} : Before(dialogs, dialogs[1], b)
    <3>1. \A i \in DOMAIN dialogs \ {1} : 1 < i
      BY <2>1
    <3> QED BY <2>2, <3>1 DEF Up, Before
  <2>5. dialogs[1] \in Up /\ dialogs[1] \in Prompts
    BY <2>1, <2>2 DEF Up
  <2>6. hook' = [hook EXCEPT ![dialogs[1]] = "left"] /\ ran' = ran \cup {dialogs[1]}
    BY <1>2, <2>2 DEF TakeKey
  <2> QED BY <1>2, <2>2, <2>3, <2>4, <2>5, <2>6 DEF FirstGoes
<1> QED BY <1>1, <1>2

\* Records go, none comes; the refusals that stay have theirs.
Shrinks ==
  /\ extra' \subseteq extra /\ card' \in {card, NoPrompt}
  /\ ~waiting' => extra' = {}
  /\ \A q \in Prompts :
       /\ refusal'[q] \in {"due", "settle", "reading"} => q \in extra'
       /\ refusal'[q] # "none" => refusal[q] # "none"
OrderGoes == order' = [q \in Prompts |-> IF q \in Rec' THEN order[q] ELSE NoOrder]

\* No key goes out, and none is about to.
NoNewKey ==
  \A q \in Prompts : refusal'[q] \in {"reading", "typing"} => refusal'[q] = refusal[q]

LEMMA OrderStays ==
  ASSUME TypeOK, Ordered, UNCHANGED <<extra, card, order>>
  PROVE  OrderGoes
<1>1. Rec' = Rec /\ order' = order /\ order = [q \in Prompts |-> order[q]]
  BY DEF Rec, TypeOK
<1> QED BY <1>1 DEF Ordered, OrderGoes

LEMMA EndWaitFacts ==
  ASSUME TypeOK, Refusals, EndWait, card' \in {card, NoPrompt}
  PROVE  Shrinks /\ OrderGoes /\ NoNewKey
BY DEF EndWait, Shrinks, OrderGoes, NoNewKey, OrderOnRecord, Cleared, Refusals, Rec, TypeOK

LEMMA RunShrinks ==
  ASSUME TypeOK, NEW from \in [Prompts -> Refusal], RunDueRefusals(from),
         extra' \subseteq extra, card' \in {card, NoPrompt}, ~waiting' => extra' = {},
         \A q \in Prompts :
           /\ from[q] \in {"due", "settle", "reading"} => q \in extra'
           /\ from[q] # "none" => from[q] = refusal[q]
  PROVE  Shrinks /\ NoNewKey
<1>1. \A q \in Prompts : \/ refusal'[q] = from[q]
                         \/ from[q] = "due" /\ refusal'[q] = "settle" /\ q \in extra'
  <2>1. extra' \subseteq Prompts
    BY DEF TypeOK
  <2> QED BY <2>1, RunMoves
<1>2. \A q \in Prompts :
       /\ refusal'[q] \in {"due", "settle", "reading"} => q \in extra'
       /\ refusal'[q] # "none" => refusal[q] # "none"
       /\ refusal'[q] \in {"reading", "typing"} => refusal'[q] = refusal[q]
  BY <1>1
<1> QED BY <1>2 DEF Shrinks, NoNewKey

LEMMA ClosePromptFacts ==
  ASSUME TypeOK, Refusals, NEW p \in Prompts, ClosePrompt(p)
  PROVE  /\ Shrinks /\ OrderGoes /\ NoNewKey
         /\ p \notin Rec' /\ Open \ {p} \subseteq Open'
<1>1. /\ card' = IF card = p THEN NoPrompt ELSE card
      /\ extra \subseteq Prompts /\ refusal \in [Prompts -> Refusal]
  BY DEF ClosePrompt, TypeOK, Refusal
<1>2. CASE Open \ {p} = {}
  <2>1. EndWait
    BY <1>2 DEF ClosePrompt
  <2>2. p \notin extra'
    BY <2>1 DEF EndWait
  <2> QED BY <1>1, <1>2, <2>1, <2>2, EndWaitFacts, NoPromptAssumption DEF Rec
<1>3. CASE Open \ {p} # {}
  <2>1. /\ extra' = extra \ {p} /\ waiting' = waiting /\ OrderOnRecord(order)
        /\ RunDueRefusals(Cleared({p}))
    BY <1>3 DEF ClosePrompt
  <2>2. waiting
    BY <1>3 DEF Open
  <2>3. p \notin Rec' /\ Open \ {p} \subseteq Open'
    BY <1>1, <2>1, <2>2, NoPromptAssumption DEF Rec, Open
  <2>4. Cleared({p}) \in [Prompts -> Refusal]
    BY <1>1, ClearedTyped
  <2>5. OrderGoes
    BY <2>1 DEF OrderOnRecord, Rec, OrderGoes
  <2>6. \A q \in Prompts :
          /\ Cleared({p})[q] \in {"due", "settle", "reading"} => q \in extra'
          /\ Cleared({p})[q] # "none" => Cleared({p})[q] = refusal[q]
    BY <2>1 DEF Cleared, Refusals
  <2>7. card' \in {card, NoPrompt} /\ extra' \subseteq extra /\ (~waiting' => extra' = {})
    BY <1>1, <2>1, <2>2
  <2>8. Shrinks /\ NoNewKey
    BY <2>1, <2>4, <2>6, <2>7, RunShrinks
  <2> QED BY <2>3, <2>5, <2>8
<1> QED BY <1>2, <1>3

LEMMA RefusalLandsFacts ==
  ASSUME TypeOK, Refusals, NEW p \in Prompts, RefusalLands(p)
  PROVE  /\ Shrinks /\ OrderGoes /\ NoNewKey
         /\ p \notin extra' /\ refusal'[p] = "none" /\ Open \ {p} \subseteq Open'
<1>1. /\ extra' = extra \ {p} /\ waiting' = (Open \ {p} # {}) /\ card' = card
      /\ OrderOnRecord(order) /\ RunDueRefusals([refusal EXCEPT ![p] = "none"])
  BY DEF RefusalLands
<1> DEFINE from == [refusal EXCEPT ![p] = "none"]
<1>2. from \in [Prompts -> Refusal] /\ extra \subseteq Prompts /\ from[p] = "none"
      /\ \A q \in Prompts \ {p} : from[q] = refusal[q]
  BY DEF TypeOK, Refusal
<1> HIDE DEF from
<1>3. RunDueRefusals(from)
  BY <1>1 DEF from
<1>4. Open \ {p} \subseteq Open' /\ (~waiting' => extra' = {})
  BY <1>1, <1>2, NoPromptAssumption DEF Open, Refusals
<1>5. OrderGoes
  BY <1>1 DEF OrderOnRecord, Rec, OrderGoes
<1>6. \A q \in Prompts :
        /\ from[q] \in {"due", "settle", "reading"} => q \in extra'
        /\ from[q] # "none" => from[q] = refusal[q]
  BY <1>1, <1>2 DEF Refusals
<1>7. Shrinks /\ NoNewKey
  BY <1>1, <1>2, <1>3, <1>4, <1>6, RunShrinks
<1>8. refusal'[p] = "none"
  <2>1. extra' \subseteq Prompts
    BY <1>1, <1>2
  <2> QED BY <1>2, <1>3, <2>1, RunMoves
<1> QED BY <1>1, <1>4, <1>5, <1>7, <1>8

LEMMA TapEndsFacts ==
  ASSUME TypeOK, TapTyped, Refusals, Ordered, TapEnds
  PROVE  /\ Shrinks /\ OrderGoes /\ NoNewKey
         /\ tap.for \in Prompts /\ tap.for \notin Rec' /\ dropped \subseteq dropped'
         /\ Open \ {tap.for} \subseteq Open' \cup dropped'
<1>1. tap.for \in Prompts
  BY DEF TapEnds, TapTyped
<1>2. CASE ClosePrompt(tap.for) /\ UNCHANGED dropped
  BY <1>1, <1>2, ClosePromptFacts
<1>3. CASE /\ tap.for \notin Open /\ card # tap.for /\ UNCHANGED card
           /\ EndWait /\ dropped' = dropped \cup Open
  BY <1>1, <1>3, EndWaitFacts DEF EndWait, Rec
<1>4. CASE /\ tap.for \notin Open /\ card # tap.for /\ UNCHANGED card
           /\ UNCHANGED <<waiting, extra, order, dropped>> /\ RunDueRefusals(refusal)
  <2>1. refusal \in [Prompts -> Refusal]
    BY DEF TypeOK, Refusal
  <2>2. OrderGoes
    BY <1>4, OrderStays
  <2>3. Shrinks /\ NoNewKey
    BY <1>4, <2>1, RunShrinks DEF Refusals
  <2>4. tap.for \notin extra
    BY <1>1, <1>4, NoPromptAssumption DEF Open, Refusals
  <2> QED BY <1>1, <1>4, <2>2, <2>3, <2>4 DEF Open, Rec
<1> QED BY <1>2, <1>3, <1>4 DEF TapEnds

-----------------------------------------------------------------------------
(* What keeps each part of the invariant.                                  *)

\* Records that go, datagrams and hooks that move on.
LEMMA RecordsFrame ==
  ASSUME IInv, Shrinks, first' \subseteq first, FirstSent(mail'),
         \/ tap'.for \in {tap.for, NoPrompt}
         \/ tap'.for \in Rec /\ refusal[tap'.for] = "none" /\ hook[tap'.for] # "idle",
         \A p \in Prompts :
           /\ Places(mail, "request", p) = {} => Places(mail', "request", p) = {}
           /\ hook'[p] \in {hook[p], "left"} \/ (p \in Rec /\ hook[p] = "parked" /\ hook'[p] = "answered")
           /\ hook'[p] = "idle" => p \notin Up' \cup ran' /\ \A w \in What : Places(mail', w, p) = {}
           /\ hook'[p] = "parked" => hook[p] = "parked"
  PROVE  Fresh' /\ Requested' /\ Refusals'
<1>1. \A p \in Prompts : p \in Rec' => p \in Rec
  BY NoPromptAssumption DEF Shrinks, Rec
<1>2. \A p \in Prompts :
        /\ hook'[p] = "idle" => hook[p] = "idle"
        /\ hook[p] = "left" => hook'[p] = "left"
        /\ refusal'[p] # "none" => refusal[p] # "none"
        /\ tap'.for = p => tap.for = p \/ (p \in Rec /\ refusal[p] = "none" /\ hook[p] # "idle")
        /\ card' = p => card = p
  BY NoPromptAssumption DEF Shrinks
<1>3. Fresh'
  <2> SUFFICES ASSUME NEW p \in Prompts, hook'[p] = "idle"
               PROVE  /\ p \notin (Up \cup ran \cup Rec \cup first)'
                      /\ refusal'[p] = "none" /\ tap'.for # p
                      /\ \A w \in What : Places(mail', w, p) = {}
    BY DEF Fresh
  <2> QED BY <1>1, <1>2 DEF IInv, Fresh
<1>4. Requested'
  <2>1. ASSUME NEW p \in Prompts, Places(mail', "request", p) # {}
        PROVE  /\ p \notin (Rec \cup first)' /\ refusal'[p] = "none" /\ tap'.for # p
               /\ hook'[p] # "answered"
    <3>1. /\ p \notin Rec \cup first /\ refusal[p] = "none" /\ tap.for # p
          /\ hook[p] # "answered"
      BY <2>1 DEF IInv, Requested
    <3> QED BY <1>1, <1>2, <3>1
  <2>2. \A p \in Prompts : p \in Rec' => p \notin first'
    BY <1>1 DEF IInv, Requested
  <2> QED BY <2>1, <2>2 DEF Requested
<1>5. Refusals'
  <2>1. ASSUME NEW p \in Prompts, refusal'[p] # "none"
        PROVE  hook'[p] = "left" /\ tap'.for # p /\ card' # p
    BY <1>2, <2>1 DEF IInv, Refusals
  <2>2. ASSUME NEW p \in Prompts, p \in first'
        PROVE  hook'[p] # "parked" /\ refusal'[p] = "none" /\ tap'.for # p
    <3>1. hook[p] # "parked" /\ refusal[p] = "none" /\ tap.for # p /\ p \notin Rec
      BY <2>2 DEF IInv, Refusals, Requested
    <3> QED BY <1>2, <3>1
  <2> QED BY <2>1, <2>2 DEF Refusals, Shrinks
<1> QED BY <1>3, <1>4, <1>5

LEMMA OrderFrame ==
  ASSUME TypeOK, Ordered, Shrinks, OrderGoes
  PROVE  /\ Ordered'
         /\ \A q \in Prompts : order'[q] = order[q] \/ order'[q] = NoOrder
<1>1. \A q \in Prompts : order'[q] = IF q \in Rec' THEN order[q] ELSE NoOrder
  BY DEF OrderGoes
<1>2. \A p \in Prompts : p \in Rec' => p \in Rec
  BY NoPromptAssumption DEF Shrinks, Rec
<1>3. NoOrder.timedOut = 0
  BY DEF NoOrder
<1> QED BY <1>1, <1>2, <1>3 DEF Ordered

\* Nothing but reports goes out; the mail moves up by at most one.
Shifted(s) ==
  \A w \in {"request", "timeout"} : \A p \in Prompts :
    /\ \A i \in Places(mail', w, p) :
         i \in Nat /\ i + s \in Places(mail, w, p) /\ mail'[i] = mail[i + s]
    /\ \A i \in Places(mail, w, p) : i \in Nat
MailStill == \E s \in {0, 1} : Shifted(s)

LEMMA StillMail ==
  ASSUME TypeOK, FirstSent(mail),
         \/ mail' = mail
         \/ \E w \in What, p \in Prompts : Taken(w, p)
         \/ \E p \in Prompts, n \in Nat : SentAt(n, "report", p)
  PROVE  MailStill /\ FirstSent(mail')
<1>1. \A w, p : \A i \in Places(mail, w, p) : i \in Nat /\ i + 0 = i
  <2>1. DOMAIN mail \subseteq Nat
    BY DEF TypeOK
  <2> QED BY <2>1 DEF Places
<1>2. CASE mail' = mail
  <2>1. Shifted(0)
    BY <1>1, <1>2 DEF Shifted
  <2> QED BY <1>2, <2>1 DEF MailStill
<1>3. ASSUME NEW w \in What, NEW p \in Prompts, Taken(w, p) PROVE MailStill /\ FirstSent(mail')
  <2>1. Shifted(1)
    BY <1>3 DEF Shifted, Taken, What
  <2> QED BY <1>3, <2>1 DEF MailStill, Taken
<1>4. ASSUME NEW p \in Prompts, NEW n \in Nat, SentAt(n, "report", p)
      PROVE  MailStill /\ FirstSent(mail')
  <2>1. \A w \in {"request", "timeout"} : \A q \in Prompts :
          Places(mail', w, q) = Places(mail, w, q)
    BY <1>4 DEF SentAt, What
  <2>2. \A w \in {"request", "timeout"} : \A q \in Prompts :
          \A i \in Places(mail, w, q) : mail'[i] = mail[i]
    BY <1>4 DEF SentAt, What
  <2>3. Shifted(0)
    BY <1>1, <2>1, <2>2 DEF Shifted
  <2> QED BY <1>4, <2>3 DEF MailStill, SentAt
<1> QED BY <1>2, <1>3, <1>4

LEMMA TimeoutsFrame ==
  ASSUME Timeouts, kind' = kind, MailStill,
         \A p \in Prompts :
           /\ p \in Up' => p \in Up
           /\ hook'[p] \in {"idle", "parked"} => hook'[p] = hook[p]
           /\ hook'[p] = "parked" /\ p \in Up => p \in Up'
           /\ order'[p] = order[p] \/ order'[p] = NoOrder
           /\ Places(mail', "timeout", p) = {} => Places(mail, "timeout", p) = {}
  PROVE  Timeouts'
<1>1. PICK s \in {0, 1} : Shifted(s)
  BY DEF MailStill
<1>2. NoOrder.timedOut = 0 /\ NoOrder.channel = FALSE
  BY DEF NoOrder
<1> SUFFICES ASSUME NEW p \in Prompts
             PROVE  /\ hook'[p] \in {"idle", "parked"} =>
                         Places(mail', "timeout", p) = {} /\ order'[p].timedOut = 0
                    /\ p \in Up' /\ kind'[p] = "background" => hook'[p] # "parked"
                    /\ hook'[p] = "parked" /\ kind'[p] \in {"ordinary", "countdown"} => p \in Up'
                    /\ p \in Up' /\ kind'[p] = "background" /\ Places(mail', "timeout", p) = {} =>
                         /\ order'[p].channel => order'[p].timedOut > 0
                         /\ \A i \in Places(mail', "request", p) : ~mail'[i].channel
  BY DEF Timeouts
<1>3. Places(mail, "timeout", p) = {} => Places(mail', "timeout", p) = {}
  BY <1>1 DEF Shifted
<1>4. (\A i \in Places(mail, "request", p) : ~mail[i].channel) =>
         \A i \in Places(mail', "request", p) : ~mail'[i].channel
  BY <1>1 DEF Shifted
<1> QED BY <1>2, <1>3, <1>4 DEF Timeouts

\* What kept the dialogs in order keeps them so when stamps go.
LEMMA AheadStays ==
  ASSUME TypeOK, MailStill, NEW w \in {"request", "timeout"}, NEW v \in {"request", "timeout"},
         NEW q \in Prompts, NEW p \in Prompts, Ahead(w, q, v, p),
         order'[q] = order[q] \/ order'[q] = NoOrder,
         order'[p] = order[p] \/ order'[p] = NoOrder
  PROVE  Ahead(w, q, v, p)'
<1>1. PICK s \in {0, 1} : Shifted(s)
  BY DEF MailStill
<1>2. \A i \in Places(mail', v, p), j \in Places(mail', w, q) : j < i
  <2> SUFFICES ASSUME NEW i \in Places(mail', v, p), NEW j \in Places(mail', w, q)
               PROVE  j < i
    OBVIOUS
  <2>1. i \in Nat /\ j \in Nat /\ i + s \in Places(mail, v, p) /\ j + s \in Places(mail, w, q)
    BY <1>1 DEF Shifted
  <2>2. j + s < i + s
    BY <2>1 DEF Ahead
  <2> QED BY <2>1, <2>2
<1>3. Stamp(v, p)' > 0 => Places(mail', w, q) = {} /\ Stamp(w, q)' < Stamp(v, p)'
  <2> SUFFICES ASSUME Stamp(v, p)' > 0
               PROVE  Places(mail', w, q) = {} /\ Stamp(w, q)' < Stamp(v, p)'
    OBVIOUS
  <2>1. Stamp(v, p)' = Stamp(v, p)
    BY DEF Stamp, NoOrder
  <2>2. Places(mail, w, q) = {} /\ Stamp(w, q) < Stamp(v, p)
    BY <2>1 DEF Ahead
  <2>3. Places(mail', w, q) = {}
    BY <1>1, <2>2 DEF Shifted
  <2>4. Stamp(w, q)' = Stamp(w, q) \/ Stamp(w, q)' = 0
    BY DEF Stamp, NoOrder
  <2> QED BY <2>1, <2>2, <2>3, <2>4
<1> QED BY <1>2, <1>3 DEF Ahead

LEMMA InOrderFrame ==
  ASSUME TypeOK, InOrder, kind' = kind, MailStill,
         \A a, b : Before(dialogs', a, b) => Before(dialogs, a, b),
         \A p \in Prompts : order'[p] = order[p] \/ order'[p] = NoOrder
  PROVE  InOrder'
<1> SUFFICES ASSUME NEW q \in Prompts, NEW p \in Prompts,
                    Before(dialogs', q, p), kind'[q] # "countdown", kind'[p] # "countdown",
                    NEW w \in Los(q)', NEW v \in His(p)'
             PROVE  Ahead(w, q, v, p)'
  BY DEF InOrder
<1>1. w \in Los(q) /\ v \in His(p) /\ w \in {"request", "timeout"} /\ v \in {"request", "timeout"}
  BY DEF Los, His
<1>2. Ahead(w, q, v, p)
  BY <1>1 DEF InOrder
<1> QED BY <1>1, <1>2, AheadStays

\* No key comes out; a dialog of the verdict is there till its hook is over.
LEMMA KeysFrame ==
  ASSUME TypeOK, KeysAhead, NoNewKey,
         \A p \in Prompts :
           /\ (tap'.for = p /\ tap'.phase = "key" => tap.for = p /\ tap.phase = "key")
           /\ known'[p] = known[p] \/ known'[p] = {}
           /\ p \in Up => p \in Up' \/ hook'[p] = "left"
           /\ hook[p] = "left" => hook'[p] = "left" /\ (p \in Up' => p \in Up),
         missed \subseteq missed', byHand \subseteq byHand',
         \A p, q \in Prompts :
           /\ Before(dialogs, p, q) /\ p \notin missed' \cup byHand' /\ q \in Up'
           /\ refusal[p] = "typing" \/ (tap.for = p /\ tap.phase = "key")
           /\ refusal'[p] = "typing" \/ (tap'.for = p /\ tap'.phase = "key")
           => Before(dialogs', p, q)
  PROVE  KeysAhead'
<1> SUFFICES ASSUME NEW p \in Prompts
             PROVE  /\ refusal'[p] = "reading" => known'[p] \subseteq {p}
                    /\ refusal'[p] = "typing" \/ (tap'.for = p /\ tap'.phase = "key") =>
                         \A q \in known'[p] : q \in Up' \/ hook'[q] = "left"
                    /\ /\ refusal'[p] = "typing" \/ (tap'.for = p /\ tap'.phase = "key")
                       /\ p \notin missed' \cup byHand'
                       => \A q \in known'[p] \ {p} : q \in Up' => Before(dialogs', p, q)
  BY DEF KeysAhead, KeyOut
<1>1. /\ refusal'[p] = "reading" => refusal[p] = "reading"
      /\ refusal'[p] = "typing" => refusal[p] = "typing"
  BY DEF NoNewKey
<1>2. refusal'[p] = "reading" => known'[p] \subseteq {p}
  BY <1>1 DEF KeysAhead
<1>3. known'[p] \subseteq known[p] /\ known[p] \subseteq Prompts
  BY DEF TypeOK
<1> SUFFICES ASSUME refusal'[p] = "typing" \/ (tap'.for = p /\ tap'.phase = "key"),
                    NEW q \in known'[p]
             PROVE  /\ q \in Up' \/ hook'[q] = "left"
                    /\ p \notin missed' \cup byHand' /\ q # p /\ q \in Up' =>
                         Before(dialogs', p, q)
  BY <1>2
<1>4. KeyOut(p) /\ (refusal[p] = "typing" \/ (tap.for = p /\ tap.phase = "key"))
  BY <1>1 DEF KeyOut
<1>5. q \in Up \/ hook[q] = "left"
  BY <1>3, <1>4 DEF KeysAhead
<1>6. /\ q \in Up' => q \in Up
      /\ q \in Up' \/ hook'[q] = "left"
  BY <1>3, <1>5
<1>7. p \notin missed \cup byHand /\ q # p /\ q \in Up => Before(dialogs, p, q)
  BY <1>3, <1>4 DEF KeysAhead
<1> QED BY <1>3, <1>4, <1>6, <1>7

-----------------------------------------------------------------------------
(* Every action keeps the invariant.                                       *)

Rest == /\ Fresh /\ Requested /\ Ordered /\ Refusals /\ Recorded /\ Ended /\ Timeouts
        /\ InOrder /\ KeysAhead

LEMMA SameRecords ==
  ASSUME IInv, UNCHANGED <<waiting, extra, card, order, refusal>>
  PROVE  Shrinks /\ OrderGoes /\ NoNewKey /\ Rec' = Rec /\ Open' = Open
<1>1. OrderGoes
  BY OrderStays DEF IInv
<1>2. Shrinks /\ NoNewKey /\ Rec' = Rec /\ Open' = Open
  BY DEF IInv, Refusals, Shrinks, NoNewKey, Rec, Open
<1> QED BY <1>1, <1>2

LEMMA HookAnswerReadKeeps ==
  ASSUME IInv, NEW p \in Prompts, HookAnswerRead(p)
  PROVE  Rest'
<1>1. /\ UNCHANGED <<kind, byHand, mail, order, waiting, card, extra, refusal, first, tap, known,
                     missed, dropped>>
      /\ hook[p] = "answered" /\ ran' = ran \cup {p}
      /\ \A q \in Prompts : hook'[q] = IF q = p THEN "left" ELSE hook[q]
  BY DEF HookAnswerRead, records, history, IInv, TypeOK
<1>2. /\ Up' = Up \ {p} /\ Distinct(dialogs')
      /\ \A a, b : Before(dialogs', a, b) => Before(dialogs, a, b)
      /\ \A a, b : Before(dialogs, a, b) /\ p \notin {a, b} => Before(dialogs', a, b)
  <2>1. CASE p \in Up
    <3>1. PICK i \in DOMAIN dialogs : dialogs[i] = p /\ dialogs' = Removed(i)
      BY <2>1 DEF HookAnswerRead
    <3>2. dialogs' = Less(dialogs, i)
      BY <3>1 DEF Removed, Less
    <3> QED BY <3>1, <3>2, LeaveFacts DEF IInv, Ended, Leaves
  <2>2. CASE p \notin Up
    <3>1. dialogs' = dialogs
      BY <2>2 DEF HookAnswerRead
    <3> QED BY <2>2, <3>1 DEF IInv, Ended, Up
  <2> QED BY <2>1, <2>2
<1>3. Shrinks /\ OrderGoes /\ NoNewKey /\ Rec' = Rec /\ Open' = Open
  BY <1>1, SameRecords
<1>4. MailStill /\ FirstSent(mail')
  BY <1>1, StillMail DEF IInv, Requested
<1>5. Fresh' /\ Requested' /\ Refusals'
  <2>1. \A q \in Prompts : hook'[q] = "idle" =>
          q \notin Up' \cup ran' /\ \A w \in What : Places(mail', w, q) = {}
    BY <1>1, <1>2 DEF IInv, Fresh
  <2> QED BY <1>1, <1>3, <1>4, <2>1, RecordsFrame
<1>6. Ordered' /\ \A q \in Prompts : order'[q] = order[q] \/ order'[q] = NoOrder
  BY <1>3, OrderFrame DEF IInv
<1>7. Recorded'
  BY <1>1, <1>2, <1>3 DEF IInv, Recorded, Answerable
<1>8. Ended'
  <2> SUFFICES ASSUME NEW q \in Prompts PROVE EndedOf(q)'
    BY <1>2 DEF Ended
  <2>1. EndedOf(q)
    BY DEF IInv, Ended
  <2>2. Places(mail, "request", p) = {}
    BY <1>1 DEF IInv, Requested
  <2> QED BY <1>1, <1>2, <1>3, <2>1, <2>2 DEF EndedOf
<1>9. Timeouts'
  BY <1>1, <1>2, <1>4, <1>6, TimeoutsFrame DEF IInv
<1>10. InOrder'
  BY <1>1, <1>2, <1>4, <1>6, InOrderFrame DEF IInv
<1>11. KeysAhead'
  <2>1. \A q \in Prompts : refusal[q] = "typing" \/ (tap.for = q /\ tap.phase = "key") => q # p
    BY <1>1 DEF IInv, Refusals, Ended, EndedOf
  <2> QED BY <1>1, <1>2, <1>3, <2>1, KeysFrame DEF IInv
<1> QED BY <1>5, <1>6, <1>7, <1>8, <1>9, <1>10, <1>11 DEF Rest

\* A key ends the dialog shown first, with its hook, and no other.
LEMMA KeyTaken ==
  ASSUME IInv, TakeKey
  PROVE  /\ Distinct(dialogs')
         /\ \A a, b : Before(dialogs', a, b) => Before(dialogs, a, b)
         /\ \A a, b : Before(dialogs, a, b) /\ a \in Up' /\ b \in Up' => Before(dialogs', a, b)
         /\ \A q \in Prompts :
              /\ q \in Up' => q \in Up /\ q \in Missed(q)
              /\ q \in Up /\ q \notin Up' => hook'[q] = "left" /\ dialogs # <<>> /\ q = Head(dialogs)
              /\ hook'[q] = hook[q] \/ (hook'[q] = "left" /\ q \in Up /\ q \notin Up')
              /\ q \in ran' => q \in ran \/ (q \in Up /\ q \notin Up')
         /\ \A q, r \in Prompts : q \in Up /\ q \notin Up' /\ q # r => q \in Missed(r)
<1>1. CASE NoDialog
  BY <1>1 DEF NoDialog, Up, IInv, Ended
<1>2. ASSUME NEW x \in Prompts, FirstGoes(x)
      PROVE  /\ Distinct(dialogs')
             /\ \A a, b : Before(dialogs', a, b) => Before(dialogs, a, b)
             /\ \A a, b : Before(dialogs, a, b) /\ a \in Up' /\ b \in Up' => Before(dialogs', a, b)
             /\ \A q \in Prompts :
                  /\ q \in Up' => q \in Up /\ q \in Missed(q)
                  /\ q \in Up /\ q \notin Up' => hook'[q] = "left" /\ dialogs # <<>> /\ q = Head(dialogs)
                  /\ hook'[q] = hook[q] \/ (hook'[q] = "left" /\ q \in Up /\ q \notin Up')
                  /\ q \in ran' => q \in ran \/ (q \in Up /\ q \notin Up')
             /\ \A q, r \in Prompts : q \in Up /\ q \notin Up' /\ q # r => q \in Missed(r)
  <2>1. /\ dialogs # <<>> /\ x = Head(dialogs) /\ x \in Up /\ Up' = Up \ {x}
        /\ Distinct(dialogs') /\ ran' = ran \cup {x}
        /\ \A a, b : Before(dialogs', a, b) => Before(dialogs, a, b)
        /\ \A a, b : Before(dialogs, a, b) /\ x \notin {a, b} => Before(dialogs', a, b)
    BY <1>2 DEF FirstGoes, Leaves
  <2>2. \A q \in Prompts : hook'[q] = IF q = x THEN "left" ELSE hook[q]
    BY <1>2 DEF FirstGoes, IInv, TypeOK
  <2>3. \A r : r # x => {r, x} = Missed(r)
    BY <2>1 DEF Missed
  <2> QED BY <2>1, <2>2, <2>3
<1> QED BY <1>1, <1>2, TakeKeyFacts DEF IInv, Ended

LEMMA AnswerInTerminalKeeps ==
  ASSUME IInv, AnswerInTerminal
  PROVE  Rest'
<1>1. /\ UNCHANGED <<kind, mail, order, waiting, card, extra, refusal, first, tap, known, missed,
                     dropped>>
      /\ TakeKey /\ byHand' = byHand \cup {Head(dialogs)}
  BY DEF AnswerInTerminal, records, history
<1>2. /\ Distinct(dialogs')
      /\ \A a, b : Before(dialogs', a, b) => Before(dialogs, a, b)
      /\ \A a, b : Before(dialogs, a, b) /\ a \in Up' /\ b \in Up' => Before(dialogs', a, b)
      /\ \A q \in Prompts :
           /\ q \in Up' => q \in Up
           /\ q \in Up /\ q \notin Up' => hook'[q] = "left" /\ q \in byHand'
           /\ hook'[q] = hook[q] \/ (hook'[q] = "left" /\ q \in Up /\ q \notin Up')
           /\ q \in ran' => q \in ran \/ (q \in Up /\ q \notin Up')
  BY <1>1, KeyTaken
<1>3. Shrinks /\ OrderGoes /\ NoNewKey /\ Rec' = Rec /\ Open' = Open
  BY <1>1, SameRecords
<1>4. MailStill /\ FirstSent(mail')
  BY <1>1, StillMail DEF IInv, Requested
<1>5. Fresh' /\ Requested' /\ Refusals'
  <2>1. \A q \in Prompts : hook'[q] = "idle" =>
          q \notin Up' \cup ran' /\ \A w \in What : Places(mail', w, q) = {}
    BY <1>1, <1>2 DEF IInv, Fresh
  <2>2. \A q \in Prompts : hook'[q] \in {hook[q], "left"}
    BY <1>2
  <2> QED BY <1>1, <1>3, <1>4, <2>1, <2>2, RecordsFrame
<1>6. Ordered' /\ \A q \in Prompts : order'[q] = order[q] \/ order'[q] = NoOrder
  BY <1>3, OrderFrame DEF IInv
<1>7. Recorded'
  BY <1>1, <1>2, <1>3 DEF IInv, Recorded, Answerable
<1>8. Ended'
  <2> SUFFICES ASSUME NEW q \in Prompts PROVE EndedOf(q)'
    BY <1>2 DEF Ended
  <2>1. EndedOf(q)
    BY DEF IInv, Ended
  <2> QED BY <1>1, <1>2, <1>3, <2>1 DEF EndedOf
<1>9. Timeouts'
  BY <1>1, <1>2, <1>4, <1>6, TimeoutsFrame DEF IInv
<1>10. InOrder'
  BY <1>1, <1>2, <1>4, <1>6, InOrderFrame DEF IInv
<1>11. KeysAhead'
  <2>1. \A q \in Prompts : refusal[q] = "typing" \/ (tap.for = q /\ tap.phase = "key") =>
          hook[q] = "left"
    BY DEF IInv, Refusals, Ended, EndedOf
  <2>2. \A q, r \in Prompts : Before(dialogs, q, r) /\ q \notin byHand' /\ r \in Up' =>
          Before(dialogs', q, r)
    <3>1. \A q, r : Before(dialogs, q, r) => q \in Up
      BY DEF Before, Up
    <3> QED BY <1>2, <3>1
  <2> QED BY <1>1, <1>2, <1>3, <2>1, <2>2, KeysFrame DEF IInv
<1> QED BY <1>5, <1>6, <1>7, <1>8, <1>9, <1>10, <1>11 DEF Rest

LEMMA ReportKeeps ==
  ASSUME IInv, NEW p \in Prompts, Report(p)
  PROVE  Rest'
<1>1. /\ UNCHANGED <<kind, hook, dialogs, byHand, order, waiting, card, extra, refusal, first, tap,
                     known, missed, dropped>>
      /\ mail' = Append(mail, Message("report", p)) /\ p \in ran /\ ran' = ran \ {p}
  BY DEF Report, records, history
<1>2. PICK n \in Nat : SentAt(n, "report", p)
  <2>1. /\ Message("report", p) \in Datagram
        /\ Message("report", p).what = "report" /\ Message("report", p).for = p
    BY DEF Message, Datagram, What
  <2>2. mail \in Seq(Datagram) /\ FirstSent(mail)
    BY DEF IInv, TypeOK, Requested, Datagram, What
  <2> QED BY <1>1, <2>1, <2>2, SentFacts
<1>3. Shrinks /\ OrderGoes /\ NoNewKey /\ Rec' = Rec /\ Open' = Open /\ Up' = Up
  BY <1>1, SameRecords DEF Up
<1>4. MailStill /\ FirstSent(mail')
  BY <1>2, StillMail DEF IInv, Requested
<1>5. \A w \in What, q \in Prompts : w # "report" \/ q # p => Places(mail', w, q) = Places(mail, w, q)
  BY <1>2 DEF SentAt
<1>6. Fresh' /\ Requested' /\ Refusals'
  <2>1. \A q \in Prompts : hook'[q] = "idle" =>
          q \notin Up' \cup ran' /\ \A w \in What : Places(mail', w, q) = {}
    BY <1>1, <1>3, <1>5 DEF IInv, Fresh
  <2> QED BY <1>1, <1>3, <1>4, <1>5, <2>1, RecordsFrame DEF What
<1>7. Ordered'
  BY <1>3, OrderFrame DEF IInv
<1>8. Recorded'
  BY <1>1, <1>3, <1>5 DEF IInv, Recorded, Answerable, What
<1>9. Ended'
  <2> SUFFICES ASSUME NEW q \in Prompts PROVE EndedOf(q)'
    BY <1>1 DEF IInv, Ended
  <2>1. EndedOf(q)
    BY DEF IInv, Ended
  <2> QED BY <1>1, <1>3, <1>5, <2>1 DEF EndedOf, What
<1>10. Timeouts'
  BY <1>1, <1>3, <1>4, <1>5, TimeoutsFrame DEF IInv, What
<1>11. InOrder'
  BY <1>1, <1>4, InOrderFrame DEF IInv
<1>12. KeysAhead'
  BY <1>1, <1>3, KeysFrame DEF IInv
<1> QED BY <1>6, <1>7, <1>8, <1>9, <1>10, <1>11, <1>12 DEF Rest

LEMMA HandleReportKeeps ==
  ASSUME IInv, NEW p \in Prompts, HandleReport(p)
  PROVE  Rest'
<1>1. /\ UNCHANGED <<kind, hook, dialogs, ran, byHand, first, tap, known, missed, dropped>>
      /\ Receive("report", p)
  BY DEF HandleReport, claude, history
<1>2. Taken("report", p)
  BY <1>1, TakenFacts DEF IInv, TypeOK, Requested, Datagram, What
<1>3. /\ Shrinks /\ OrderGoes /\ NoNewKey /\ Up' = Up
      /\ \A q \in Prompts : q \in Open /\ q # p => q \in Open'
  <2>1. CASE p \in Open /\ ClosePrompt(p)
    BY <1>1, <2>1, ClosePromptFacts DEF IInv, Up
  <2>2. CASE UNCHANGED <<waiting, card, extra, order, refusal>>
    BY <1>1, <2>2, SameRecords DEF Up
  <2> QED BY <2>1, <2>2 DEF HandleReport, records
<1>4. MailStill /\ FirstSent(mail')
  BY <1>2, StillMail DEF IInv, Requested, What
<1>5. /\ hook[p] = "left" /\ p \notin Up
      /\ \A w \in What, q \in Prompts :
           Places(mail, w, q) = {} => Places(mail', w, q) = {}
      /\ \A w \in {"request", "timeout"}, q \in Prompts :
           Places(mail', w, q) = {} => Places(mail, w, q) = {}
  <2>1. EndedOf(p) /\ Places(mail, "report", p) # {}
    BY <1>2 DEF IInv, Ended, Taken
  <2> QED BY <1>2, <2>1 DEF EndedOf, Taken, What
<1>6. Fresh' /\ Requested' /\ Refusals'
  <2>1. \A q \in Prompts : hook'[q] = "idle" =>
          q \notin Up' \cup ran' /\ \A w \in What : Places(mail', w, q) = {}
    BY <1>1, <1>3, <1>5 DEF IInv, Fresh
  <2> QED BY <1>1, <1>3, <1>4, <1>5, <2>1, RecordsFrame DEF What
<1>7. Ordered' /\ \A q \in Prompts : order'[q] = order[q] \/ order'[q] = NoOrder
  BY <1>3, OrderFrame DEF IInv
<1>8. Recorded'
  BY <1>1, <1>3, <1>5 DEF IInv, Recorded, Answerable, What
<1>9. Ended'
  <2> SUFFICES ASSUME NEW q \in Prompts PROVE EndedOf(q)'
    BY <1>1 DEF IInv, Ended
  <2>1. EndedOf(q)
    BY DEF IInv, Ended
  <2>2. q \in Rec' => q \in Rec
    BY <1>3, NoPromptAssumption DEF Shrinks, Rec
  <2> QED BY <1>1, <1>3, <1>5, <2>1, <2>2 DEF EndedOf, What
<1>10. Timeouts'
  BY <1>1, <1>3, <1>4, <1>5, <1>7, TimeoutsFrame DEF IInv, What
<1>11. InOrder'
  BY <1>1, <1>4, <1>7, InOrderFrame DEF IInv
<1>12. KeysAhead'
  BY <1>1, <1>3, KeysFrame DEF IInv
<1> QED BY <1>6, <1>7, <1>8, <1>9, <1>10, <1>11, <1>12 DEF Rest

LEMMA FirstRefusalLandsKeeps ==
  ASSUME IInv, NEW p \in Prompts, FirstRefusalLands(p)
  PROVE  Rest'
<1>1. /\ UNCHANGED <<kind, byHand, mail, tap, known>> /\ TakeKey
      /\ p \in first /\ first' = first \ {p}
      /\ dropped' = dropped \cup Open /\ missed' = missed \cup Missed(p)
      /\ card' = NoPrompt
  BY DEF FirstRefusalLands
<1>2. /\ hook[p] # "parked" /\ refusal[p] = "none" /\ tap.for # p /\ p \notin Rec
      /\ Places(mail, "request", p) = {}
  BY <1>1 DEF IInv, Refusals, Requested
<1>3. /\ Distinct(dialogs')
      /\ \A a, b : Before(dialogs', a, b) => Before(dialogs, a, b)
      /\ \A a, b : Before(dialogs, a, b) /\ a \in Up' /\ b \in Up' => Before(dialogs', a, b)
      /\ \A q \in Prompts :
           /\ q \in Up' => q \in Up /\ (q = p => q \in missed')
           /\ q \in Up /\ q \notin Up' => hook'[q] = "left" /\ (q # p => q \in missed')
           /\ hook'[q] = hook[q] \/ (hook'[q] = "left" /\ q \in Up /\ q \notin Up')
           /\ q \in ran' => q \in ran \/ (q \in Up /\ q \notin Up')
  BY <1>1, KeyTaken
<1>4. Shrinks /\ OrderGoes /\ NoNewKey
  <2>1. CASE waiting
    BY <1>1, <2>1, EndWaitFacts DEF FirstRefusalLands, IInv
  <2>2. CASE ~waiting
    <3>1. /\ waiting' = waiting /\ extra' = extra /\ refusal' = refusal
          /\ OrderOnRecord(order) /\ extra = {}
      BY <2>2 DEF FirstRefusalLands, IInv, Refusals
    <3>2. OrderGoes
      BY <3>1 DEF OrderOnRecord, OrderGoes, Rec
    <3> QED BY <1>1, <2>2, <3>1, <3>2 DEF Shrinks, NoNewKey, IInv, Refusals
  <2> QED BY <2>1, <2>2
<1>5. MailStill /\ FirstSent(mail')
  BY <1>1, StillMail DEF IInv, Requested
<1>6. Fresh' /\ Requested' /\ Refusals'
  <2>1. \A q \in Prompts : hook'[q] = "idle" =>
          q \notin Up' \cup ran' /\ \A w \in What : Places(mail', w, q) = {}
    BY <1>1, <1>3 DEF IInv, Fresh
  <2>2. \A q \in Prompts : hook'[q] \in {hook[q], "left"}
    BY <1>3
  <2> QED BY <1>1, <1>4, <1>5, <2>1, <2>2, RecordsFrame
<1>7. Ordered' /\ \A q \in Prompts : order'[q] = order[q] \/ order'[q] = NoOrder
  BY <1>4, OrderFrame DEF IInv
<1>8. Recorded'
  BY <1>1, <1>2, <1>3 DEF IInv, Recorded, Answerable
<1>9. Ended'
  <2> SUFFICES ASSUME NEW q \in Prompts PROVE EndedOf(q)'
    BY <1>3 DEF Ended
  <2>1. EndedOf(q)
    BY DEF IInv, Ended
  <2>2. q \in Rec' => q \in Rec
    BY <1>4, NoPromptAssumption DEF Shrinks, Rec
  <2> QED BY <1>1, <1>2, <1>3, <2>1, <2>2 DEF EndedOf
<1>10. Timeouts'
  BY <1>1, <1>3, <1>5, <1>7, TimeoutsFrame DEF IInv
<1>11. InOrder'
  BY <1>1, <1>3, <1>5, <1>7, InOrderFrame DEF IInv
<1>12. KeysAhead'
  <2>1. \A q \in Prompts : refusal[q] = "typing" \/ (tap.for = q /\ tap.phase = "key") =>
          hook[q] = "left" /\ q # p
    BY <1>2 DEF IInv, Refusals, Ended, EndedOf
  <2>2. \A q, r \in Prompts : Before(dialogs, q, r) /\ q # p /\ q \notin missed' /\ r \in Up' =>
          Before(dialogs', q, r)
    <3>1. \A q, r : Before(dialogs, q, r) => q \in Up
      BY DEF Before, Up
    <3> QED BY <1>3, <3>1
  <2> QED BY <1>1, <1>3, <1>4, <2>1, <2>2, KeysFrame DEF IInv
<1> QED BY <1>6, <1>7, <1>8, <1>9, <1>10, <1>11, <1>12 DEF Rest

LEMMA TapKeyLandsKeeps ==
  ASSUME IInv, TapKeyLands
  PROVE  Rest'
<1> DEFINE p == tap.for
<1>1. /\ UNCHANGED <<kind, byHand, mail, order, waiting, card, extra, refusal, first, dropped>>
      /\ TakeKey /\ p \in Prompts /\ tap.phase = "key"
      /\ tap'.for = p /\ tap'.phase = "toast"
      /\ missed' = missed \cup Missed(p)
      /\ \A q \in Prompts : known'[q] = IF q = p THEN {} ELSE known[q]
  BY DEF TapKeyLands, records, IInv, TapTyped, TypeOK
<1>2. hook[p] = "left" /\ refusal[p] = "none"
  <2>1. EndedOf(p)
    BY <1>1 DEF IInv, Ended
  <2> QED BY <1>1, <2>1 DEF IInv, EndedOf, Refusals
<1>3. /\ Distinct(dialogs')
      /\ \A a, b : Before(dialogs', a, b) => Before(dialogs, a, b)
      /\ \A a, b : Before(dialogs, a, b) /\ a \in Up' /\ b \in Up' => Before(dialogs', a, b)
      /\ \A q \in Prompts :
           /\ q \in Up' => q \in Up /\ (q = p => q \in missed')
           /\ q \in Up /\ q \notin Up' => hook'[q] = "left" /\ (q # p => q \in missed')
           /\ hook'[q] = hook[q] \/ (hook'[q] = "left" /\ q \in Up /\ q \notin Up')
           /\ q \in ran' => q \in ran \/ (q \in Up /\ q \notin Up')
  BY <1>1, KeyTaken
<1>4. Shrinks /\ OrderGoes /\ NoNewKey /\ Rec' = Rec /\ Open' = Open
  BY <1>1, SameRecords
<1>5. MailStill /\ FirstSent(mail')
  BY <1>1, StillMail DEF IInv, Requested
<1>6. Fresh' /\ Requested' /\ Refusals'
  <2>1. \A q \in Prompts : hook'[q] = "idle" =>
          q \notin Up' \cup ran' /\ \A w \in What : Places(mail', w, q) = {}
    BY <1>1, <1>3 DEF IInv, Fresh
  <2>2. \A q \in Prompts : hook'[q] \in {hook[q], "left"}
    BY <1>3
  <2> QED BY <1>1, <1>4, <1>5, <2>1, <2>2, RecordsFrame
<1>7. Ordered' /\ \A q \in Prompts : order'[q] = order[q] \/ order'[q] = NoOrder
  BY <1>4, OrderFrame DEF IInv
<1>8. Recorded'
  BY <1>1, <1>3, <1>4 DEF IInv, Recorded, Answerable
<1>9. Ended'
  <2> SUFFICES ASSUME NEW q \in Prompts PROVE EndedOf(q)'
    BY <1>3 DEF Ended
  <2>1. EndedOf(q)
    BY DEF IInv, Ended
  <2>2. q = p \/ tap.for # q
    OBVIOUS
  <2> HIDE DEF p
  <2> QED BY <1>1, <1>2, <1>3, <1>4, <2>1, <2>2 DEF EndedOf
<1>10. Timeouts'
  BY <1>1, <1>3, <1>5, <1>7, TimeoutsFrame DEF IInv
<1>11. InOrder'
  BY <1>1, <1>3, <1>5, <1>7, InOrderFrame DEF IInv
<1>12. KeysAhead'
  <2>1. \A q \in Prompts : refusal[q] = "typing" \/ (tap.for = q /\ tap.phase = "key") =>
          hook[q] = "left"
    BY DEF IInv, Refusals, Ended, EndedOf
  <2>2. \A q, r \in Prompts : Before(dialogs, q, r) /\ q # p /\ q \notin missed' /\ r \in Up' =>
          Before(dialogs', q, r)
    <3>1. \A q, r : Before(dialogs, q, r) => q \in Up
      BY DEF Before, Up
    <3> QED BY <1>3, <3>1
  <2>3. refusal'[p] # "typing" /\ tap'.phase # "key"
    BY <1>1, <1>2
  <2> HIDE DEF p
  <2> QED BY <1>1, <1>3, <1>4, <2>1, <2>2, <2>3, KeysFrame DEF IInv
<1> QED BY <1>6, <1>7, <1>8, <1>9, <1>10, <1>11, <1>12 DEF Rest

LEMMA RefusalLandsKeeps ==
  ASSUME IInv, NEW p \in Prompts, RefusalLands(p)
  PROVE  Rest'
<1>1. /\ UNCHANGED <<kind, byHand, mail, card, first, tap, dropped>>
      /\ TakeKey /\ refusal[p] = "typing"
      /\ missed' = missed \cup Missed(p)
      /\ \A q \in Prompts : known'[q] = IF q = p THEN {} ELSE known[q]
  BY DEF RefusalLands, IInv, TypeOK
<1>2. hook[p] = "left" /\ tap.for # p /\ card # p /\ Places(mail, "request", p) = {}
  BY <1>1 DEF IInv, Refusals, Requested
<1>3. /\ Distinct(dialogs')
      /\ \A a, b : Before(dialogs', a, b) => Before(dialogs, a, b)
      /\ \A a, b : Before(dialogs, a, b) /\ a \in Up' /\ b \in Up' => Before(dialogs', a, b)
      /\ \A q \in Prompts :
           /\ q \in Up' => q \in Up /\ (q = p => q \in missed')
           /\ q \in Up /\ q \notin Up' => hook'[q] = "left" /\ (q # p => q \in missed')
           /\ hook'[q] = hook[q] \/ (hook'[q] = "left" /\ q \in Up /\ q \notin Up')
           /\ q \in ran' => q \in ran \/ (q \in Up /\ q \notin Up')
  BY <1>1, KeyTaken
<1>4. /\ Shrinks /\ OrderGoes /\ NoNewKey
      /\ p \notin Rec' /\ refusal'[p] = "none" /\ \A q \in Prompts : q \in Open /\ q # p => q \in Open'
  BY <1>1, <1>2, RefusalLandsFacts DEF IInv, Rec
<1>5. MailStill /\ FirstSent(mail')
  BY <1>1, StillMail DEF IInv, Requested
<1>6. Fresh' /\ Requested' /\ Refusals'
  <2>1. \A q \in Prompts : hook'[q] = "idle" =>
          q \notin Up' \cup ran' /\ \A w \in What : Places(mail', w, q) = {}
    BY <1>1, <1>3 DEF IInv, Fresh
  <2>2. \A q \in Prompts : hook'[q] \in {hook[q], "left"}
    BY <1>3
  <2> QED BY <1>1, <1>4, <1>5, <2>1, <2>2, RecordsFrame
<1>7. Ordered' /\ \A q \in Prompts : order'[q] = order[q] \/ order'[q] = NoOrder
  BY <1>4, OrderFrame DEF IInv
<1>8. Recorded'
  BY <1>1, <1>2, <1>3, <1>4 DEF IInv, Recorded, Answerable
<1>9. Ended'
  <2> SUFFICES ASSUME NEW q \in Prompts PROVE EndedOf(q)'
    BY <1>3 DEF Ended
  <2>1. EndedOf(q)
    BY DEF IInv, Ended
  <2>2. q \in Rec' => q \in Rec /\ q # p
    BY <1>4, NoPromptAssumption DEF Shrinks, Rec
  <2> QED BY <1>1, <1>2, <1>3, <2>1, <2>2 DEF EndedOf
<1>10. Timeouts'
  BY <1>1, <1>3, <1>5, <1>7, TimeoutsFrame DEF IInv
<1>11. InOrder'
  BY <1>1, <1>3, <1>5, <1>7, InOrderFrame DEF IInv
<1>12. KeysAhead'
  <2>1. \A q \in Prompts : refusal[q] = "typing" \/ (tap.for = q /\ tap.phase = "key") =>
          hook[q] = "left"
    BY DEF IInv, Refusals, Ended, EndedOf
  <2>2. \A q, r \in Prompts : Before(dialogs, q, r) /\ q # p /\ q \notin missed' /\ r \in Up' =>
          Before(dialogs', q, r)
    <3>1. \A q, r : Before(dialogs, q, r) => q \in Up
      BY DEF Before, Up
    <3> QED BY <1>3, <3>1
  <2> QED BY <1>1, <1>2, <1>3, <1>4, <2>1, <2>2, KeysFrame DEF IInv
<1> QED BY <1>6, <1>7, <1>8, <1>9, <1>10, <1>11, <1>12 DEF Rest

LEMMA TapEndsKeeps ==
  ASSUME IInv, TapEnds
  PROVE  Rest'
<1> DEFINE p == tap.for
<1>1. /\ UNCHANGED <<kind, hook, dialogs, ran, byHand, mail, first, known, missed>>
      /\ tap.phase = "toast" /\ tap'.for = NoPrompt /\ tap'.phase = "none"
  BY DEF TapEnds, claude, NoTap
<1>2. /\ Shrinks /\ OrderGoes /\ NoNewKey /\ p \in Prompts /\ p \notin Rec' /\ dropped \subseteq dropped'
      /\ \A q \in Prompts : q \in Open /\ q # p => q \in Open' \cup dropped'
  BY TapEndsFacts DEF IInv
<1>3. Up' = Up /\ Distinct(dialogs')
  BY <1>1 DEF Up, IInv, Ended
<1>4. MailStill /\ FirstSent(mail')
  BY <1>1, StillMail DEF IInv, Requested
<1>5. /\ p \in missed \/ ~Answerable(p)
      /\ Places(mail, "request", p) = {}
  <2>1. EndedOf(p)
    BY <1>2 DEF IInv, Ended
  <2>2. Places(mail, "request", p) = {}
    BY <1>2 DEF IInv, Requested
  <2> QED BY <1>1, <2>1, <2>2 DEF EndedOf, Answerable
<1>6. Fresh' /\ Requested' /\ Refusals'
  <2>1. \A q \in Prompts : hook'[q] = "idle" =>
          q \notin Up' \cup ran' /\ \A w \in What : Places(mail', w, q) = {}
    BY <1>1, <1>3 DEF IInv, Fresh
  <2> QED BY <1>1, <1>2, <1>4, <2>1, RecordsFrame
<1>7. Ordered' /\ \A q \in Prompts : order'[q] = order[q] \/ order'[q] = NoOrder
  BY <1>2, OrderFrame DEF IInv
<1>8. Recorded'
  BY <1>1, <1>2, <1>3, <1>5 DEF IInv, Recorded, Answerable
<1>9. Ended'
  <2> SUFFICES ASSUME NEW q \in Prompts PROVE EndedOf(q)'
    BY <1>3 DEF Ended
  <2>1. EndedOf(q)
    BY DEF IInv, Ended
  <2>2. q \in Rec' => q \in Rec /\ q # p
    BY <1>2, NoPromptAssumption DEF Shrinks, Rec
  <2>3. q # p => tap.for # q
    OBVIOUS
  <2> HIDE DEF p
  <2> QED BY <1>1, <1>3, <1>5, <2>1, <2>2, <2>3, NoPromptAssumption DEF EndedOf
<1>10. Timeouts'
  BY <1>1, <1>3, <1>4, <1>7, TimeoutsFrame DEF IInv
<1>11. InOrder'
  BY <1>1, <1>4, <1>7, InOrderFrame DEF IInv
<1>12. KeysAhead'
  BY <1>1, <1>2, <1>3, KeysFrame DEF IInv
<1> QED BY <1>6, <1>7, <1>8, <1>9, <1>10, <1>11, <1>12 DEF Rest

\* Of two dialogs one is before the other.
LEMMA SomeOrder ==
  ASSUME dialogs \in Seq(Prompts), NEW p \in Up, NEW q \in Up, p # q
  PROVE  Before(dialogs, p, q) \/ Before(dialogs, q, p)
<1>1. PICK i, j \in DOMAIN dialogs : dialogs[i] = p /\ dialogs[j] = q
  BY DEF Up
<1>2. i < j \/ j < i
  <2>1. i \in Nat /\ j \in Nat /\ i # j
    BY <1>1
  <2> QED BY <2>1
<1> QED BY <1>1, <1>2 DEF Before

\* A prompt certainly on top is before every dialog the daemon was told of.
LEMMA VerdictOrders ==
  ASSUME IInv, NEW p \in Prompts, p \in Open, hook[p] = "left", tap.for # p,
         p \notin missed \cup byHand, OnTop(p),
         NEW q \in Prompts, q \in KnownToDaemon, q # p
  PROVE  Before(dialogs, p, q)
<1>1. /\ q \in Open /\ q \in Up /\ \A w \in What : Places(mail, w, q) = {}
      /\ p \in Rec /\ q \in Rec
  BY DEF KnownToDaemon, Told, Places, Open, Rec
<1>2. p \in Up
  BY <1>1 DEF IInv, Ended, EndedOf
<1>3. ~CertainlyAbsent(q)
  BY <1>1 DEF CertainlyAbsent, Parked, IInv, Timeouts, What
<1>4. /\ kind[p] # "countdown" /\ kind[q] # "countdown"
      /\ ~MayBeAbsent(p) /\ Hi(p) < Lo(q)
  BY <1>1, <1>3 DEF OnTop
<1>5. ASSUME Before(dialogs, q, p) PROVE FALSE
  <2>1. \A w \in Los(q), v \in His(p) : Ahead(w, q, v, p)
    BY <1>4, <1>5 DEF IInv, InOrder
  <2>2. \E v \in His(p) : Hi(p) = Stamp(v, p) /\ Stamp(v, p) > 0
    <3>1. order[p].arrived > 0 /\ order[p].timedOut \in Nat /\ kind[p] \in Kinds
      BY <1>1 DEF IInv, Ordered, TypeOK
    <3>2. CASE kind[p] = "ordinary"
      BY <3>1, <3>2 DEF His, Hi, Stamp
    <3>3. CASE kind[p] \in {"background", "unplaced"}
      BY <1>4, <3>1, <3>3 DEF His, Hi, Stamp, MayBeAbsent
    <3> QED BY <1>4, <3>1, <3>2, <3>3 DEF Kinds
  <2>3. \E w \in Los(q) : Lo(q) = Stamp(w, q)
    BY DEF Lo, Los, Stamp
  <2>4. Lo(q) < Hi(p)
    BY <2>1, <2>2, <2>3 DEF Ahead
  <2>5. Lo(q) \in Nat /\ Hi(p) \in Nat
    BY DEF IInv, TypeOK, Lo, Hi
  <2> QED BY <1>4, <2>4, <2>5
<1> QED BY <1>1, <1>2, <1>5, SomeOrder DEF IInv, TypeOK

LEMMA VerdictKeeps ==
  ASSUME IInv, NEW p \in Prompts, RefusalSettles(p) \/ QueueRead(p)
  PROVE  Rest'
<1>1. /\ UNCHANGED <<kind, hook, dialogs, ran, byHand, mail, order, waiting, card, extra, first, tap,
                     missed, dropped>>
      /\ refusal[p] \in {"settle", "reading"}
      /\ \A q \in Prompts \ {p} : refusal'[q] = refusal[q]
      /\ refusal'[p] \in {"due", "reading", "typing"}
  BY DEF RefusalSettles, QueueRead, BackToDue, claude, records, history, IInv, TypeOK
<1>2. p \in extra /\ hook[p] = "left" /\ tap.for # p /\ card # p
  BY <1>1 DEF IInv, Refusals
<1>3. Up' = Up /\ Rec' = Rec /\ Open' = Open
  BY <1>1 DEF Up, Rec, Open
<1>4. Shrinks /\ OrderGoes
  <2>1. OrderGoes
    BY <1>1, OrderStays DEF IInv
  <2>2. Shrinks
    BY <1>1, <1>2 DEF IInv, Refusals, Shrinks
  <2> QED BY <2>1, <2>2
<1>5. MailStill /\ FirstSent(mail')
  BY <1>1, StillMail DEF IInv, Requested
<1>6. Fresh' /\ Requested' /\ Refusals'
  <2>1. \A q \in Prompts : hook'[q] = "idle" =>
          q \notin Up' \cup ran' /\ \A w \in What : Places(mail', w, q) = {}
    BY <1>1, <1>3 DEF IInv, Fresh
  <2> QED BY <1>1, <1>4, <1>5, <2>1, RecordsFrame
<1>7. Ordered' /\ \A q \in Prompts : order'[q] = order[q] \/ order'[q] = NoOrder
  BY <1>4, OrderFrame DEF IInv
<1>8. Recorded'
  BY <1>1, <1>3 DEF IInv, Recorded, Answerable
<1>9. Ended'
  <2> SUFFICES ASSUME NEW q \in Prompts PROVE EndedOf(q)'
    BY <1>1 DEF IInv, Ended
  <2>1. EndedOf(q)
    BY DEF IInv, Ended
  <2> QED BY <1>1, <1>3, <2>1 DEF EndedOf
<1>10. Timeouts'
  BY <1>1, <1>3, <1>5, <1>7, TimeoutsFrame DEF IInv
<1>11. InOrder'
  BY <1>1, <1>5, <1>7, InOrderFrame DEF IInv
<1>12. KeysAhead'
  <2>1. \A q \in Prompts : q # p => known'[q] = known[q]
    BY DEF RefusalSettles, QueueRead, BackToDue, IInv, TypeOK
  <2>2. refusal'[p] \in {"reading", "typing"} =>
          /\ OnTop(p) /\ p \in Open
          /\ refusal'[p] = "reading" => known'[p] \subseteq {p}
          /\ known'[p] \subseteq KnownToDaemon \cup {p}
    <3>1. p \in Prompts /\ known \in [Prompts -> SUBSET Prompts]
          /\ refusal \in [Prompts -> Refusal]
      BY DEF IInv, TypeOK, Refusal
    <3>2. MayType(p) => OnTop(p) /\ p \in Open
      BY DEF MayType, Open
    <3>3. CASE BackToDue(p)
      BY <3>1, <3>3 DEF BackToDue
    <3>4. CASE RefusalSettles(p) /\ ~BackToDue(p)
      <4>1. /\ MayType(p) /\ Settled
            /\ refusal' = [refusal EXCEPT ![p] = IF Open = {p} THEN "reading" ELSE "typing"]
            /\ known' = [known EXCEPT ![p] = KnownToRefusal]
        BY <3>4 DEF RefusalSettles
      <4>2. KnownToRefusal \subseteq KnownToDaemon
        BY <4>1 DEF Settled, KnownToRefusal, KnownToDaemon
      <4>3. KnownToDaemon \subseteq Open
        BY DEF KnownToDaemon
      <4>4. known'[p] = KnownToRefusal /\ (refusal'[p] = "reading" => Open = {p})
        BY <3>1, <4>1
      <4> QED BY <3>2, <4>1, <4>2, <4>3, <4>4
    <3>5. CASE QueueRead(p) /\ ~BackToDue(p)
      <4>1. /\ MayType(p) /\ refusal[p] = "reading"
            /\ refusal' = [refusal EXCEPT ![p] = "typing"]
            /\ known' = [known EXCEPT ![p] = @ \cup KnownToDaemon]
        BY <3>5 DEF QueueRead
      <4>2. known[p] \subseteq {p}
        BY <4>1 DEF IInv, KeysAhead
      <4>3. known'[p] = known[p] \cup KnownToDaemon /\ refusal'[p] = "typing"
        BY <3>1, <4>1
      <4> QED BY <3>2, <4>1, <4>2, <4>3
    <3> QED BY <3>3, <3>4, <3>5
  <2> SUFFICES ASSUME NEW q \in Prompts
               PROVE  /\ refusal'[q] = "reading" => known'[q] \subseteq {q}
                      /\ refusal'[q] = "typing" \/ (tap'.for = q /\ tap'.phase = "key") =>
                           \A r \in known'[q] : r \in Up' \/ hook'[r] = "left"
                      /\ /\ refusal'[q] = "typing" \/ (tap'.for = q /\ tap'.phase = "key")
                         /\ q \notin missed' \cup byHand'
                         => \A r \in known'[q] \ {q} : r \in Up' => Before(dialogs', q, r)
    BY DEF KeysAhead, KeyOut
  <2>3. CASE q # p
    <3>1. refusal'[q] = refusal[q] /\ known'[q] = known[q]
      BY <1>1, <2>1, <2>3
    <3> QED BY <1>1, <1>3, <3>1 DEF IInv, KeysAhead, KeyOut
  <2>4. CASE q = p
    <3>1. \A r \in KnownToDaemon : r \in Up /\ r \in Prompts
      BY DEF KnownToDaemon, Up, IInv, TypeOK
    <3>2. p \notin missed \cup byHand /\ OnTop(p) /\ p \in Open =>
            \A r \in KnownToDaemon \ {p} : Before(dialogs, p, r)
      BY <1>2, <3>1, VerdictOrders
    <3> QED BY <1>1, <1>2, <1>3, <2>2, <2>4, <3>1, <3>2
  <2> QED BY <2>3, <2>4
<1> QED BY <1>6, <1>7, <1>8, <1>9, <1>10, <1>11, <1>12 DEF Rest

LEMMA TapKeeps ==
  ASSUME IInv, NEW p \in Prompts, Tap(p)
  PROVE  Rest'
<1>1. /\ UNCHANGED <<kind, dialogs, ran, byHand, mail, order, waiting, card, extra, refusal, first,
                     missed, dropped>>
      /\ tap.for = NoPrompt /\ tap.phase = "none" /\ p \in Open /\ p \in Rec /\ refusal[p] = "none"
      /\ tap'.for = p
      /\ \A q \in Prompts \ {p} : known'[q] = known[q] /\ hook'[q] = hook[q]
  BY DEF Tap, SendDecision, records, history, NoTap, Open, Rec, IInv, TypeOK
<1>2. \/ /\ hook[p] = "parked" /\ hook'[p] = "answered" /\ tap'.phase = "toast"
         /\ known'[p] = known[p]
      \/ /\ hook[p] = "left" /\ hook'[p] = "left" /\ tap'.phase = "key"
         /\ OnTop(p) /\ known'[p] = KnownToDaemon
  <2>1. EndedOf(p)
    BY DEF IInv, Ended
  <2>2. hook[p] # "idle" /\ hook[p] # "answered" /\ hook[p] \in {"idle", "parked", "answered", "left"}
    BY <1>1, <2>1, NoPromptAssumption DEF EndedOf, IInv, Fresh, TypeOK
  <2>3. hook \in [Prompts -> {"idle", "parked", "answered", "left"}]
        /\ known \in [Prompts -> SUBSET Prompts]
    BY DEF IInv, TypeOK
  <2> QED BY <2>2, <2>3 DEF Tap, SendDecision
<1>3. /\ Up' = Up /\ Distinct(dialogs')
      /\ Shrinks /\ OrderGoes /\ NoNewKey /\ Rec' = Rec /\ Open' = Open
  BY <1>1, SameRecords DEF Up, IInv, Ended
<1>4. MailStill /\ FirstSent(mail')
  BY <1>1, StillMail DEF IInv, Requested
<1>5. Fresh' /\ Requested' /\ Refusals'
  <2>1. \A q \in Prompts : hook'[q] = "idle" =>
          q \notin Up' \cup ran' /\ \A w \in What : Places(mail', w, q) = {}
    BY <1>1, <1>2, <1>3 DEF IInv, Fresh
  <2>2. \A q \in Prompts :
          /\ hook'[q] \in {hook[q], "left"} \/ (q \in Rec /\ hook[q] = "parked" /\ hook'[q] = "answered")
          /\ hook'[q] = "parked" => hook[q] = "parked"
    BY <1>1, <1>2
  <2>3. tap'.for \in Rec /\ refusal[tap'.for] = "none" /\ hook[tap'.for] # "idle"
    BY <1>1, <1>2
  <2> QED BY <1>1, <1>3, <1>4, <2>1, <2>2, <2>3, RecordsFrame
<1>6. Ordered' /\ \A q \in Prompts : order'[q] = order[q] \/ order'[q] = NoOrder
  BY <1>3, OrderFrame DEF IInv
<1>7. Recorded'
  BY <1>1, <1>2, <1>3 DEF IInv, Recorded, Answerable
<1>8. Ended'
  <2> SUFFICES ASSUME NEW q \in Prompts PROVE EndedOf(q)'
    BY <1>3 DEF Ended
  <2>1. EndedOf(q)
    BY DEF IInv, Ended
  <2> QED BY <1>1, <1>2, <1>3, <2>1, NoPromptAssumption DEF EndedOf
<1>9. Timeouts'
  <2>1. \A q \in Prompts :
          /\ hook'[q] \in {"idle", "parked"} => hook'[q] = hook[q]
          /\ hook'[q] = "parked" /\ q \in Up => q \in Up'
    BY <1>1, <1>2, <1>3
  <2> QED BY <1>1, <1>3, <1>4, <1>6, <2>1, TimeoutsFrame DEF IInv
<1>10. InOrder'
  BY <1>1, <1>4, <1>6, InOrderFrame DEF IInv
<1>11. KeysAhead'
  <2> SUFFICES ASSUME NEW q \in Prompts
               PROVE  /\ refusal'[q] = "reading" => known'[q] \subseteq {q}
                      /\ refusal'[q] = "typing" \/ (tap'.for = q /\ tap'.phase = "key") =>
                           \A r \in known'[q] : r \in Up' \/ hook'[r] = "left"
                      /\ /\ refusal'[q] = "typing" \/ (tap'.for = q /\ tap'.phase = "key")
                         /\ q \notin missed' \cup byHand'
                         => \A r \in known'[q] \ {q} : r \in Up' => Before(dialogs', q, r)
    BY DEF KeysAhead, KeyOut
  <2>1. known[q] \subseteq Prompts
    BY DEF IInv, TypeOK
  <2>2. \A r \in Prompts : hook[r] = "left" => hook'[r] = "left"
    BY <1>1, <1>2
  <2>3. CASE q # p
    <3>1. refusal'[q] = refusal[q] /\ known'[q] = known[q] /\ tap'.for # q
      BY <1>1, <2>3
    <3> QED BY <1>1, <1>3, <2>1, <2>2, <3>1 DEF IInv, KeysAhead, KeyOut
  <2>4. CASE q = p
    <3>1. \A r \in KnownToDaemon : r \in Up /\ r \in Prompts
      BY DEF KnownToDaemon, Up, IInv, TypeOK
    <3>2. hook[p] = "left" /\ p \notin missed \cup byHand /\ OnTop(p) =>
            \A r \in KnownToDaemon \ {p} : Before(dialogs, p, r)
      BY <1>1, <3>1, VerdictOrders, NoPromptAssumption
    <3> QED BY <1>1, <1>2, <1>3, <2>4, <3>1, <3>2
  <2> QED BY <2>3, <2>4
<1> QED BY <1>5, <1>6, <1>7, <1>8, <1>9, <1>10, <1>11 DEF Rest

\* A datagram that goes out leaves the dialogs in order, but for those that
\* came with it.
LEMMA AheadSent ==
  ASSUME NEW n \in Nat, NEW w0 \in What, NEW p0 \in Prompts, SentAt(n, w0, p0), UNCHANGED order,
         NEW w \in {"request", "timeout"}, NEW v \in {"request", "timeout"},
         NEW q \in Prompts, NEW p \in Prompts, ~(w = w0 /\ q = p0),
         Ahead(w, q, v, p) \/ (Places(mail, v, p) = {} /\ Stamp(v, p) = 0)
  PROVE  Ahead(w, q, v, p)'
<1>0. /\ w \in What /\ v \in What
      /\ \A u \in What : \A r \in Prompts :
           /\ Places(mail', u, r) = Places(mail, u, r) \cup (IF u = w0 /\ r = p0 THEN {n} ELSE {})
           /\ \A i \in Places(mail, u, r) : i \in Nat /\ i < n
  BY DEF SentAt, What
<1>1. /\ Places(mail', w, q) = Places(mail, w, q)
      /\ \A j \in Places(mail, w, q) : j < n
      /\ \A i \in Places(mail', v, p) : i \in Places(mail, v, p) \/ i = n
  <2>1. Places(mail', w, q) = Places(mail, w, q)
    BY <1>0
  <2>2. \A j \in Places(mail, w, q) : j < n
    BY <1>0
  <2>3. Places(mail', v, p) \subseteq Places(mail, v, p) \cup {n}
    BY <1>0
  <2> QED BY <2>1, <2>2, <2>3
<1>2. Stamp(v, p)' = Stamp(v, p) /\ Stamp(w, q)' = Stamp(w, q)
  BY DEF Stamp
<1> QED BY <1>1, <1>2 DEF Ahead

LEMMA HookGivesUpKeeps ==
  ASSUME IInv, NEW p \in Prompts, HookGivesUp(p)
  PROVE  Rest'
<1>1. /\ UNCHANGED <<kind, ran, byHand, order, waiting, card, extra, refusal, first, tap, known,
                     missed, dropped>>
      /\ mail' = Append(mail, Message("timeout", p)) /\ hook[p] = "parked"
      /\ \A q \in Prompts : hook'[q] = IF q = p THEN "left" ELSE hook[q]
  BY DEF HookGivesUp, records, history, IInv, TypeOK
<1>2. PICK n \in Nat : SentAt(n, "timeout", p)
  <2>1. /\ Message("timeout", p) \in Datagram
        /\ Message("timeout", p).what = "timeout" /\ Message("timeout", p).for = p
    BY DEF Message, Datagram, What
  <2>2. mail \in Seq(Datagram) /\ FirstSent(mail)
    BY DEF IInv, TypeOK, Requested, Datagram, What
  <2> QED BY <1>1, <2>1, <2>2, SentFacts
<1>3. /\ Up' = Up \cup {p} /\ Distinct(dialogs')
      /\ \A a, b : Before(dialogs', a, b) =>
           \/ Before(dialogs, a, b)
           \/ kind[p] # "countdown" /\ a \in Up /\ b = p /\ p \notin Up
           \/ kind[p] = "countdown" /\ a = p
      /\ \A a, b : Before(dialogs, a, b) => Before(dialogs', a, b)
  <2>1. CASE p \in Up
    <3>1. dialogs' = dialogs
      BY <2>1 DEF HookGivesUp
    <3> QED BY <2>1, <3>1 DEF Up, IInv, Ended
  <2>2. CASE p \notin Up
    <3>1. Enter(p) /\ kind' = kind
      BY <2>2 DEF HookGivesUp
    <3> QED BY <2>2, <3>1, EnterFacts DEF IInv, Ended
  <2> QED BY <2>1, <2>2
<1>4. Shrinks /\ OrderGoes /\ NoNewKey /\ Rec' = Rec /\ Open' = Open
  BY <1>1, SameRecords
<1>5. /\ FirstSent(mail')
      /\ \A w \in What, q \in Prompts : w # "timeout" \/ q # p =>
           Places(mail', w, q) = Places(mail, w, q)
      /\ n \in Places(mail', "timeout", p)
      /\ \A q \in Prompts : \A i \in Places(mail, "request", q) : mail'[i] = mail[i]
  <2>1. /\ FirstSent(mail')
        /\ \A v \in What : \A q \in Prompts :
             /\ Places(mail', v, q) = Places(mail, v, q)
                                        \cup (IF v = "timeout" /\ q = p THEN {n} ELSE {})
             /\ \A i \in Places(mail, v, q) : mail'[i] = mail[i]
    BY <1>2 DEF SentAt
  <2>2. "timeout" \in What /\ "request" \in What
    BY DEF What
  <2>3. ASSUME NEW w \in What, NEW q \in Prompts, w # "timeout" \/ q # p
        PROVE  Places(mail', w, q) = Places(mail, w, q)
    <3>1. Places(mail', w, q) = Places(mail, w, q) \cup (IF w = "timeout" /\ q = p THEN {n} ELSE {})
      BY <2>1
    <3> QED BY <2>3, <3>1
  <2>4. n \in Places(mail', "timeout", p)
    BY <2>1, <2>2
  <2>5. \A q \in Prompts : \A i \in Places(mail, "request", q) : mail'[i] = mail[i]
    BY <2>1, <2>2
  <2> QED BY <2>1, <2>3, <2>4, <2>5
<1>6. Fresh' /\ Requested' /\ Refusals'
  <2>1. \A q \in Prompts : hook'[q] = "idle" =>
          q \notin Up' \cup ran' /\ \A w \in What : Places(mail', w, q) = {}
    BY <1>1, <1>3, <1>5 DEF IInv, Fresh
  <2> QED BY <1>1, <1>4, <1>5, <2>1, RecordsFrame DEF What
<1>7. Ordered'
  BY <1>4, OrderFrame DEF IInv
<1>8. Recorded'
  BY <1>1, <1>3, <1>4, <1>5 DEF IInv, Recorded, Answerable, What
<1>9. Ended'
  <2> SUFFICES ASSUME NEW q \in Prompts PROVE EndedOf(q)'
    BY <1>3 DEF Ended
  <2>1. EndedOf(q)
    BY DEF IInv, Ended
  <2> QED BY <1>1, <1>3, <1>4, <1>5, <2>1 DEF EndedOf, What
<1>10. Timeouts'
  <2> SUFFICES ASSUME NEW q \in Prompts
               PROVE  /\ hook'[q] \in {"idle", "parked"} =>
                           Places(mail', "timeout", q) = {} /\ order'[q].timedOut = 0
                      /\ q \in Up' /\ kind'[q] = "background" => hook'[q] # "parked"
                      /\ hook'[q] = "parked" /\ kind'[q] \in {"ordinary", "countdown"} => q \in Up'
                      /\ q \in Up' /\ kind'[q] = "background" /\ Places(mail', "timeout", q) = {} =>
                           /\ order'[q].channel => order'[q].timedOut > 0
                           /\ \A i \in Places(mail', "request", q) : ~mail'[i].channel
    BY DEF Timeouts
  <2> QED BY <1>1, <1>3, <1>5 DEF IInv, Timeouts, What
<1>11. InOrder'
  <2> SUFFICES ASSUME NEW q \in Prompts, NEW r \in Prompts,
                      Before(dialogs', q, r), kind'[q] # "countdown", kind'[r] # "countdown",
                      NEW w \in Los(q)', NEW v \in His(r)'
               PROVE  Ahead(w, q, v, r)'
    BY DEF InOrder
  <2>1. w \in Los(q) /\ v \in His(r) /\ w \in {"request", "timeout"} /\ v \in {"request", "timeout"}
    BY <1>1 DEF Los, His
  <2>2. q \in Up /\ ~(w = "timeout" /\ q = p)
    <3>1. Before(dialogs, q, r) => q \in Up
      BY DEF Before, Up
    <3>2. q \in Up
      BY <1>1, <1>3, <3>1
    <3> QED BY <1>1, <2>1, <3>2 DEF Los, IInv, Timeouts
  <2>3. CASE Before(dialogs, q, r)
    <3>1. Ahead(w, q, v, r)
      BY <1>1, <2>1, <2>3 DEF IInv, InOrder
    <3> QED BY <1>1, <1>2, <2>1, <2>2, <3>1, AheadSent DEF What
  <2>4. CASE r = p /\ p \notin Up
    <3>1. kind[p] \notin {"ordinary", "countdown"}
      BY <1>1, <2>4 DEF IInv, Timeouts
    <3>2. v = "timeout"
      BY <2>1, <2>4, <3>1 DEF His
    <3>3. Places(mail, v, r) = {} /\ Stamp(v, r) = 0
      BY <1>1, <2>4, <3>2 DEF IInv, Timeouts, Stamp
    <3> QED BY <1>1, <1>2, <2>1, <2>2, <3>3, AheadSent DEF What
  <2> QED BY <1>1, <1>3, <2>3, <2>4
<1>12. KeysAhead'
  BY <1>1, <1>3, <1>4, KeysFrame DEF IInv
<1> QED BY <1>6, <1>7, <1>8, <1>9, <1>10, <1>11, <1>12 DEF Rest

LEMMA AskKeeps ==
  ASSUME IInv, NEW p \in Prompts, Ask(p)
  PROVE  Rest'
<1>1. /\ UNCHANGED <<ran, byHand, order, waiting, card, extra, refusal, first, tap, known, missed,
                     dropped>>
      /\ hook[p] = "idle"
      /\ kind'[p] \in Kinds /\ \A q \in Prompts \ {p} : kind'[q] = kind[q] /\ hook'[q] = hook[q]
  BY DEF Ask, records, history, IInv, TypeOK
<1>2. /\ p \notin Up \cup ran \cup Rec \cup first /\ refusal[p] = "none" /\ tap.for # p
      /\ \A w \in What : Places(mail, w, p) = {}
      /\ order[p] = NoOrder
  BY <1>1 DEF IInv, Fresh, Ordered
<1>3. PICK ch \in BOOLEAN :
        /\ mail' = Append(mail, Request(p, ch))
        /\ hook'[p] = IF ch THEN "parked" ELSE "left"
        /\ \/ Enter(p) /\ (ch => kind'[p] # "background")
           \/ ch /\ dialogs' = dialogs /\ kind'[p] \in {"background", "unplaced"}
  BY DEF Ask, EntersAtOnce, EntersLater, IInv, TypeOK
<1>4. PICK n \in Nat : SentAt(n, "request", p) /\ mail'[n] = Request(p, ch)
  <2>1. /\ Request(p, ch) \in Datagram
        /\ Request(p, ch).what = "request" /\ Request(p, ch).for = p
    BY DEF Request, Datagram, What
  <2>2. mail \in Seq(Datagram) /\ FirstSent(mail)
    BY DEF IInv, TypeOK, Requested, Datagram, What
  <2> QED BY <1>2, <1>3, <2>1, <2>2, SentFacts
<1>5. /\ \A q \in Prompts : q # p => (q \in Up' <=> q \in Up)
      /\ p \notin Up' => ch /\ kind'[p] \in {"background", "unplaced"}
      /\ p \in Up' => ~ch \/ kind'[p] # "background"
      /\ Distinct(dialogs')
      /\ \A a, b : Before(dialogs', a, b) =>
           \/ Before(dialogs, a, b)
           \/ kind'[p] # "countdown" /\ a \in Up /\ b = p
           \/ kind'[p] = "countdown" /\ a = p
      /\ \A a, b : Before(dialogs, a, b) => Before(dialogs', a, b)
  <2>1. CASE Enter(p) /\ (ch => kind'[p] # "background")
    BY <1>2, <2>1, EnterFacts DEF IInv, Ended
  <2>2. CASE ch /\ dialogs' = dialogs /\ kind'[p] \in {"background", "unplaced"}
    BY <1>2, <2>2 DEF Up, IInv, Ended
  <2> QED BY <1>3, <2>1, <2>2
<1>6. Shrinks /\ OrderGoes /\ NoNewKey /\ Rec' = Rec /\ Open' = Open
  BY <1>1, SameRecords
<1>7. /\ FirstSent(mail')
      /\ \A w \in What, q \in Prompts : w # "request" \/ q # p =>
           Places(mail', w, q) = Places(mail, w, q)
      /\ Places(mail', "request", p) = {n}
      /\ \A q \in Prompts : \A i \in Places(mail, "request", q) : mail'[i] = mail[i]
  <2>1. Places(mail', "request", p) = Places(mail, "request", p) \cup {n}
    BY <1>4 DEF SentAt, What
  <2>2. Places(mail, "request", p) = {}
    BY <1>2 DEF What
  <2>3. \A w \in What, q \in Prompts : w # "request" \/ q # p =>
           Places(mail', w, q) = Places(mail, w, q)
    BY <1>4 DEF SentAt, What
  <2>4. /\ FirstSent(mail')
        /\ \A q \in Prompts : \A i \in Places(mail, "request", q) : mail'[i] = mail[i]
    BY <1>4 DEF SentAt, What
  <2> QED BY <2>1, <2>2, <2>3, <2>4
<1>8. Fresh'
  BY <1>1, <1>3, <1>5, <1>6, <1>7 DEF IInv, Fresh
<1>9. Requested'
  BY <1>1, <1>2, <1>3, <1>6, <1>7 DEF IInv, Requested, What
<1>10. Ordered'
  BY <1>6, OrderFrame DEF IInv
<1>11. Refusals'
  BY <1>1, <1>2 DEF IInv, Refusals
<1>12. Recorded'
  BY <1>1, <1>5, <1>6, <1>7 DEF IInv, Recorded, Answerable, What
<1>13. Ended'
  <2> SUFFICES ASSUME NEW q \in Prompts PROVE EndedOf(q)'
    BY <1>5 DEF Ended
  <2>1. EndedOf(q)
    BY DEF IInv, Ended
  <2>2. CASE q # p
    BY <1>1, <1>5, <1>6, <1>7, <2>1, <2>2 DEF EndedOf, What
  <2>3. CASE q = p
    BY <1>1, <1>2, <1>3, <1>5, <1>6, <1>7, <2>3 DEF EndedOf, What
  <2> QED BY <2>2, <2>3
<1>14. Timeouts'
  <2> SUFFICES ASSUME NEW q \in Prompts
               PROVE  /\ hook'[q] \in {"idle", "parked"} =>
                           Places(mail', "timeout", q) = {} /\ order'[q].timedOut = 0
                      /\ q \in Up' /\ kind'[q] = "background" => hook'[q] # "parked"
                      /\ hook'[q] = "parked" /\ kind'[q] \in {"ordinary", "countdown"} => q \in Up'
                      /\ q \in Up' /\ kind'[q] = "background" /\ Places(mail', "timeout", q) = {} =>
                           /\ order'[q].channel => order'[q].timedOut > 0
                           /\ \A i \in Places(mail', "request", q) : ~mail'[i].channel
    BY DEF Timeouts
  <2>1. CASE q # p
    BY <1>1, <1>5, <1>7, <2>1 DEF IInv, Timeouts, What
  <2>2. CASE q = p
    <3>1. order[p].timedOut = 0 /\ order[p].channel = FALSE /\ Places(mail', "timeout", p) = {}
      BY <1>2, <1>7 DEF NoOrder, What
    <3>2. mail'[n].channel = ch
      BY <1>4 DEF Request
    <3> QED BY <1>1, <1>3, <1>5, <1>7, <2>2, <3>1, <3>2
  <2> QED BY <2>1, <2>2
<1>15. InOrder'
  <2> SUFFICES ASSUME NEW q \in Prompts, NEW r \in Prompts,
                      Before(dialogs', q, r), kind'[q] # "countdown", kind'[r] # "countdown",
                      NEW w \in Los(q)', NEW v \in His(r)'
               PROVE  Ahead(w, q, v, r)'
    BY DEF InOrder
  <2>0. \A a, b : Before(dialogs, a, b) => a \in Up /\ b \in Up
    BY DEF Before, Up
  <2>1. q \in Up /\ q # p /\ kind'[q] = kind[q]
    BY <1>1, <1>2, <1>5, <2>0
  <2>2. w \in Los(q) /\ w \in {"request", "timeout"} /\ v \in {"request", "timeout"}
    BY <2>1 DEF Los, His
  <2>3. CASE Before(dialogs, q, r)
    <3>1. kind'[r] = kind[r]
      BY <1>1, <1>2, <2>0, <2>3
    <3>2. v \in His(r)
      BY <3>1 DEF His
    <3>3. Ahead(w, q, v, r)
      BY <2>1, <2>2, <2>3, <3>1, <3>2 DEF IInv, InOrder
    <3> QED BY <1>1, <1>4, <2>1, <2>2, <3>3, AheadSent DEF What
  <2>4. CASE r = p
    <3>1. Places(mail, v, r) = {} /\ Stamp(v, r) = 0
      BY <1>2, <2>2, <2>4 DEF Stamp, NoOrder, What
    <3> QED BY <1>1, <1>4, <2>1, <2>2, <3>1, AheadSent DEF What
  <2> QED BY <1>5, <2>3, <2>4
<1>16. KeysAhead'
  BY <1>1, <1>2, <1>5, <1>6, KeysFrame DEF IInv
<1> QED BY <1>8, <1>9, <1>10, <1>11, <1>12, <1>13, <1>14, <1>15, <1>16 DEF Rest

\* The handling of a datagram stamps its prompt: what the datagram came with
\* is then later than all that was stamped, and sooner than all that will be.
LEMMA AheadTaken ==
  ASSUME TypeOK, NEW w0 \in {"request", "timeout"}, NEW p0 \in Prompts, Taken(w0, p0),
         \A r \in Prompts :
           /\ order'[r].arrived \in {order[r].arrived, 0}
              \/ (w0 = "request" /\ r = p0 /\ order'[r].arrived = Now)
           /\ order'[r].timedOut \in {order[r].timedOut, 0}
              \/ (w0 = "timeout" /\ r = p0 /\ order'[r].timedOut = Now),
         NEW w \in {"request", "timeout"}, NEW v \in {"request", "timeout"},
         NEW q \in Prompts, NEW p \in Prompts, q # p, Ahead(w, q, v, p)
  PROVE  Ahead(w, q, v, p)'
<1>1. Shifted(1)
  BY DEF Shifted, Taken, What
<1>2. \A i \in Places(mail', v, p), j \in Places(mail', w, q) : j < i
  <2> SUFFICES ASSUME NEW i \in Places(mail', v, p), NEW j \in Places(mail', w, q)
               PROVE  j < i
    OBVIOUS
  <2>1. i \in Nat /\ j \in Nat /\ i + 1 \in Places(mail, v, p) /\ j + 1 \in Places(mail, w, q)
    BY <1>1 DEF Shifted
  <2>2. j + 1 < i + 1
    BY <2>1 DEF Ahead
  <2> QED BY <2>1, <2>2
<1>3. ASSUME NEW u \in {"request", "timeout"}, NEW r \in Prompts
      PROVE  /\ Stamp(u, r)' \in {Stamp(u, r), 0} \/ (u = w0 /\ r = p0 /\ Stamp(u, r)' = Now)
             /\ Stamp(u, r) \in Nat /\ Stamp(u, r) < Now /\ Now \in Nat /\ Now > 0
  BY NowIsLater DEF Stamp, TypeOK
<1>4. Stamp(v, p)' > 0 => Places(mail', w, q) = {} /\ Stamp(w, q)' < Stamp(v, p)'
  <2> SUFFICES ASSUME Stamp(v, p)' > 0
               PROVE  Places(mail', w, q) = {} /\ Stamp(w, q)' < Stamp(v, p)'
    OBVIOUS
  <2>1. CASE Stamp(v, p)' = Stamp(v, p)
    <3>1. Places(mail, w, q) = {} /\ Stamp(w, q) < Stamp(v, p)
      BY <2>1 DEF Ahead
    <3>2. ~(w = w0 /\ q = p0)
      BY <3>1 DEF Taken
    <3>3. Stamp(w, q)' \in {Stamp(w, q), 0}
      BY <1>3, <3>2
    <3>4. Places(mail', w, q) = {}
      BY <1>1, <3>1 DEF Shifted
    <3> QED BY <1>3, <2>1, <3>1, <3>3, <3>4
  <2>2. CASE v = w0 /\ p = p0 /\ Stamp(v, p)' = Now
    <3>1. 1 \in Places(mail, v, p)
      BY <2>2 DEF Taken
    <3>2. \A j \in Places(mail, w, q) : j < 1
      BY <3>1 DEF Ahead
    <3>3. \A j \in Places(mail, w, q) : j \in Nat /\ j >= 1
      BY DEF Taken, What
    <3>4. Places(mail, w, q) = {}
      BY <3>2, <3>3
    <3>5. Places(mail', w, q) = {}
      BY <1>1, <3>4 DEF Shifted
    <3>6. Stamp(w, q)' \in {Stamp(w, q), 0}
      BY <1>3, <2>2
    <3> QED BY <1>3, <2>2, <3>5, <3>6
  <2>3. Stamp(v, p)' \in {Stamp(v, p), 0} \/ (v = w0 /\ p = p0 /\ Stamp(v, p)' = Now)
    BY <1>3
  <2> QED BY <2>1, <2>2, <2>3
<1> QED BY <1>2, <1>4 DEF Ahead

LEMMA StampedInOrder ==
  ASSUME IInv, NEW w0 \in {"request", "timeout"}, NEW p0 \in Prompts, Taken(w0, p0),
         UNCHANGED <<kind, dialogs>>,
         \A r \in Prompts :
           /\ order'[r].arrived \in {order[r].arrived, 0}
              \/ (w0 = "request" /\ r = p0 /\ order'[r].arrived = Now)
           /\ order'[r].timedOut \in {order[r].timedOut, 0}
              \/ (w0 = "timeout" /\ r = p0 /\ order'[r].timedOut = Now)
  PROVE  InOrder'
<1> SUFFICES ASSUME NEW q \in Prompts, NEW p \in Prompts,
                    Before(dialogs', q, p), kind'[q] # "countdown", kind'[p] # "countdown",
                    NEW w \in Los(q)', NEW v \in His(p)'
             PROVE  Ahead(w, q, v, p)'
  BY DEF InOrder
<1>1. w \in Los(q) /\ v \in His(p) /\ w \in {"request", "timeout"} /\ v \in {"request", "timeout"}
  BY DEF Los, His
<1>2. Ahead(w, q, v, p)
  BY <1>1 DEF IInv, InOrder
<1>3. q # p
  <2>1. PICK i, j \in DOMAIN dialogs : i < j /\ dialogs[i] = q /\ dialogs[j] = p
    BY DEF Before
  <2>2. i \in Nat /\ j \in Nat
    <3>1. dialogs \in Seq(Prompts)
      BY DEF IInv, TypeOK
    <3> QED BY <3>1
  <2> QED BY <2>1, <2>2 DEF IInv, Ended, Distinct
<1> QED BY <1>1, <1>2, <1>3, AheadTaken DEF IInv

LEMMA HandleTimeoutKeeps ==
  ASSUME IInv, NEW p \in Prompts, HandleTimeout(p)
  PROVE  Rest'
<1>1. /\ UNCHANGED <<kind, hook, dialogs, ran, byHand, waiting, card, extra, first, tap, known, missed,
                     dropped>>
      /\ Receive("timeout", p) /\ RunDueRefusals(refusal)
      /\ \A q \in Prompts \ {p} : order'[q] = order[q]
      /\ order'[p].arrived = order[p].arrived /\ order'[p].channel = order[p].channel
      /\ order'[p].timedOut = IF p \in Rec THEN Now ELSE order[p].timedOut
  BY DEF HandleTimeout, claude, records, history, Rec, IInv, TypeOK
<1>2. Taken("timeout", p)
  BY <1>1, TakenFacts DEF IInv, TypeOK, Requested, Datagram, What
<1>3. Shrinks /\ NoNewKey /\ Rec' = Rec /\ Open' = Open /\ Up' = Up
  <2>1. refusal \in [Prompts -> Refusal]
    BY DEF IInv, TypeOK, Refusal
  <2>2. Shrinks /\ NoNewKey
    BY <1>1, <2>1, RunShrinks DEF IInv, Refusals
  <2> QED BY <1>1, <2>2 DEF Rec, Open, Up
<1>4. /\ FirstSent(mail')
      /\ \A w \in What, q \in Prompts :
           Places(mail, w, q) = {} => Places(mail', w, q) = {}
      /\ \A w \in What, q \in Prompts :
           w # "timeout" \/ q # p => (Places(mail', w, q) = {} => Places(mail, w, q) = {})
      /\ \A q \in Prompts : (\A i \in Places(mail, "request", q) : ~mail[i].channel) =>
           \A i \in Places(mail', "request", q) : ~mail'[i].channel
      /\ Places(mail', "request", p) = {}
  BY <1>2 DEF Taken, What
<1>5. Now \in Nat /\ Now > 0 /\ order[p].arrived < Now /\ order[p].arrived \in Nat
      /\ hook[p] \notin {"idle", "parked"}
  <2>1. Places(mail, "timeout", p) # {}
    BY <1>2 DEF Taken
  <2> QED BY <2>1, NowIsLater DEF IInv, TypeOK, Timeouts
<1>6. Fresh' /\ Requested' /\ Refusals'
  <2>1. \A q \in Prompts : hook'[q] = "idle" =>
          q \notin Up' \cup ran' /\ \A w \in What : Places(mail', w, q) = {}
    BY <1>1, <1>3, <1>4 DEF IInv, Fresh
  <2> QED BY <1>1, <1>3, <1>4, <2>1, RecordsFrame DEF What
<1>7. Ordered'
  <2> SUFFICES ASSUME NEW q \in Prompts
               PROVE  /\ q \notin Rec' => order'[q] = NoOrder
                      /\ q \in Rec' => order'[q].arrived > 0
                      /\ order'[q].timedOut > 0 => order'[q].arrived < order'[q].timedOut
    BY DEF Ordered
  <2>1. CASE q # p
    BY <1>1, <1>3, <2>1 DEF IInv, Ordered
  <2>2. CASE q = p
    <3>1. p \notin Rec => order'[p] = order[p]
      BY DEF HandleTimeout, Rec
    <3> QED BY <1>1, <1>3, <1>5, <2>2, <3>1 DEF IInv, Ordered
  <2> QED BY <2>1, <2>2
<1>8. Recorded'
  BY <1>1, <1>3, <1>4 DEF IInv, Recorded, Answerable, What
<1>9. Ended'
  <2> SUFFICES ASSUME NEW q \in Prompts PROVE EndedOf(q)'
    BY <1>1 DEF IInv, Ended
  <2>1. EndedOf(q)
    BY DEF IInv, Ended
  <2> QED BY <1>1, <1>3, <1>4, <2>1 DEF EndedOf, What
<1>10. Timeouts'
  <2> SUFFICES ASSUME NEW q \in Prompts
               PROVE  /\ hook'[q] \in {"idle", "parked"} =>
                           Places(mail', "timeout", q) = {} /\ order'[q].timedOut = 0
                      /\ q \in Up' /\ kind'[q] = "background" => hook'[q] # "parked"
                      /\ hook'[q] = "parked" /\ kind'[q] \in {"ordinary", "countdown"} => q \in Up'
                      /\ q \in Up' /\ kind'[q] = "background" /\ Places(mail', "timeout", q) = {} =>
                           /\ order'[q].channel => order'[q].timedOut > 0
                           /\ \A i \in Places(mail', "request", q) : ~mail'[i].channel
    BY DEF Timeouts
  <2>1. CASE q # p
    BY <1>1, <1>3, <1>4, <2>1 DEF IInv, Timeouts, What
  <2>2. CASE q = p
    <3>1. order'[p].channel => order'[p].timedOut > 0
      <4>1. p \notin Rec => order[p].channel = FALSE
        BY DEF IInv, Ordered, NoOrder
      <4> QED BY <1>1, <1>5, <4>1
    <3> QED BY <1>1, <1>3, <1>4, <1>5, <2>2, <3>1 DEF IInv, Timeouts
  <2> QED BY <2>1, <2>2
<1>11. InOrder'
  BY <1>1, <1>2, StampedInOrder
<1>12. KeysAhead'
  BY <1>1, <1>3, KeysFrame DEF IInv
<1> QED BY <1>6, <1>7, <1>8, <1>9, <1>10, <1>11, <1>12 DEF Rest

\* What a request does to the records: p's comes, or a decision goes to its
\* hook, or a refusal of it is on the way; nothing else goes.
LEMMA HandleRequestFacts ==
  ASSUME IInv, NEW p \in Prompts, HandleRequest(p)
  PROVE  /\ \A q \in Prompts \ {p} : hook'[q] = hook[q]
         /\ hook'[p] = hook[p] \/ (hook[p] = "parked" /\ hook'[p] = "answered" /\ p \notin Rec')
         /\ \A q \in Prompts : q \in Rec' => q \in Rec \/ q = p
         /\ first' \subseteq first \cup {p}
         /\ p \in first' => p \notin Rec' /\ hook'[p] = "left" /\ refusal'[p] = "none"
         /\ hook'[p] = "answered" \/ p \in Open' \cup first'
         /\ \A q \in Prompts : q # p /\ q \in Open \cup first => q \in Open' \cup first'
         /\ \A q \in Prompts :
              /\ refusal'[q] \in {"due", "settle", "reading"} => q \in extra'
              /\ q # p => refusal'[q] = refusal[q] \/ (refusal[q] = "due" /\ refusal'[q] = "settle")
         /\ refusal'[p] \in {"none", "due", "settle"}
         /\ refusal'[p] # "none" => hook'[p] = "left" /\ card' # p
         /\ ~waiting' => extra' = {}
         /\ card' \in {card, p, NoPrompt}
         /\ \A q \in Prompts :
              /\ q \notin Rec' => order'[q] = NoOrder
              /\ q \in Rec' /\ q # p => order'[q] = order[q]
         /\ p \in Rec' => order'[p] = [arrived |-> Now, timedOut |-> 0, channel |-> Head(mail).channel]
<1>1. /\ p \notin Rec \cup first /\ refusal[p] = "none" /\ tap.for # p
      /\ hook[p] \in {"parked", "left"} /\ order[p] = NoOrder
  BY RequestIsNew DEF HandleRequest
<1>2. /\ hook \in [Prompts -> {"idle", "parked", "answered", "left"}]
      /\ refusal \in [Prompts -> Refusal] /\ extra \subseteq Prompts
      /\ order \in [Prompts -> Order] /\ card \in Prompts \cup {NoPrompt}
  BY DEF IInv, TypeOK, Refusal, Order
<1>3. PICK stamped : /\ stamped[p] = [arrived |-> Now, timedOut |-> 0, channel |-> Head(mail).channel]
                     /\ \A q \in Prompts \ {p} : stamped[q] = order[q]
                     /\ OpenFirst(p, stamped) \/ OpenExtra(p, stamped)
  BY <1>2 DEF HandleRequest
<1>4. CASE OpenFirst(p, stamped)
  <2>1. /\ ~waiting /\ extra' = {} /\ extra = {} /\ refusal' = refusal /\ OrderOnRecord(stamped)
    BY <1>4 DEF OpenFirst, IInv, Refusals
  <2>2. Open = {} /\ card # p
    BY <1>1, <2>1 DEF Open, Rec
  <2>3. \/ waiting' /\ card' = p /\ hook' = hook /\ first' = first
        \/ /\ hook[p] = "parked" /\ hook' = [hook EXCEPT ![p] = "answered"]
           /\ card' = NoPrompt /\ waiting' = waiting /\ first' = first
        \/ /\ hook[p] # "parked" /\ first' = first \cup {p} /\ waiting' /\ hook' = hook /\ card' = card
    BY <1>4 DEF OpenFirst, SendDecision
  <2>4. \A q \in Prompts :
          /\ q \notin Rec' => order'[q] = NoOrder
          /\ q \in Rec' => order'[q] = stamped[q]
    BY <2>1 DEF OrderOnRecord, Rec
  <2>5. \A q \in Prompts : refusal[q] \notin {"due", "settle", "reading"}
    BY <2>1 DEF IInv, Refusals
  <2>6. CASE waiting' /\ card' = p /\ hook' = hook /\ first' = first
    <3>1. Open' = {p} /\ Rec' = {p}
      BY <2>1, <2>6, NoPromptAssumption DEF Open, Rec
    <3> QED BY <1>1, <1>3, <2>1, <2>2, <2>4, <2>5, <2>6, <3>1
  <2>7. CASE /\ hook[p] = "parked" /\ hook' = [hook EXCEPT ![p] = "answered"]
             /\ card' = NoPrompt /\ waiting' = waiting /\ first' = first
    <3>1. Rec' = {NoPrompt}
      BY <2>1, <2>7 DEF Rec
    <3> QED BY <1>1, <1>2, <2>1, <2>2, <2>4, <2>5, <2>7, <3>1, NoPromptAssumption
  <2>8. CASE hook[p] # "parked" /\ first' = first \cup {p} /\ waiting' /\ hook' = hook /\ card' = card
    <3>1. Rec' = {card} /\ \A q \in Prompts : q \in Rec' => q \in Rec
      BY <2>1, <2>8 DEF Rec
    <3> QED BY <1>1, <1>3, <2>1, <2>2, <2>4, <2>5, <2>8, <3>1
  <2> QED BY <2>3, <2>6, <2>7, <2>8
<1>5. CASE OpenExtra(p, stamped)
  <2>1. waiting /\ waiting' = waiting /\ card' = card /\ first' = first /\ card # p
    BY <1>1, <1>5 DEF OpenExtra, Rec
  <2>2. \/ extra' = extra \cup {p} /\ OrderOnRecord(stamped) /\ hook' = hook /\ refusal' = refusal
        \/ /\ hook[p] = "parked" /\ hook' = [hook EXCEPT ![p] = "answered"]
           /\ extra' = extra /\ order' = order /\ refusal' = refusal
        \/ /\ hook[p] # "parked" /\ extra' = extra \cup {p} /\ OrderOnRecord(stamped) /\ hook' = hook
           /\ RunDueRefusals([refusal EXCEPT ![p] = "due"])
    BY <1>5 DEF OpenExtra, SendDecision
  <2>3. /\ extra' \subseteq extra \cup {p} /\ extra \subseteq extra'
        /\ \A q \in Prompts : q \in Rec' => q \in Rec \/ q = p
        /\ \A q \in Prompts : q \in Open => q \in Open'
        /\ p \in extra' => p \in Open'
    BY <1>1, <2>1, <2>2, NoPromptAssumption DEF Rec, Open
  <2>4. \A q \in Prompts : refusal[q] \in {"due", "settle", "reading"} => q \in extra'
    BY <2>3 DEF IInv, Refusals
  <2>5. CASE /\ hook[p] = "parked" /\ hook' = [hook EXCEPT ![p] = "answered"]
             /\ extra' = extra /\ order' = order /\ refusal' = refusal
    <3>1. Rec' = Rec
      BY <2>1, <2>5 DEF Rec
    <3>2. \A q \in Prompts : q \notin Rec => order[q] = NoOrder
      BY DEF IInv, Ordered
    <3> QED BY <1>1, <1>2, <2>1, <2>3, <2>4, <2>5, <3>1, <3>2
  <2>6. OrderOnRecord(stamped) =>
          \A q \in Prompts :
            /\ q \notin Rec' => order'[q] = NoOrder
            /\ q \in Rec' => order'[q] = stamped[q]
    BY DEF OrderOnRecord, Rec
  <2>7. CASE extra' = extra \cup {p} /\ OrderOnRecord(stamped) /\ hook' = hook /\ refusal' = refusal
    BY <1>1, <1>3, <2>1, <2>3, <2>4, <2>6, <2>7
  <2>8. CASE /\ hook[p] # "parked" /\ extra' = extra \cup {p} /\ OrderOnRecord(stamped) /\ hook' = hook
             /\ RunDueRefusals([refusal EXCEPT ![p] = "due"])
    <3> DEFINE from == [refusal EXCEPT ![p] = "due"]
    <3>1. from \in [Prompts -> Refusal] /\ from[p] = "due"
          /\ \A q \in Prompts \ {p} : from[q] = refusal[q]
      BY <1>2 DEF Refusal
    <3> HIDE DEF from
    <3>2. \A q \in Prompts : \/ refusal'[q] = from[q]
                             \/ from[q] = "due" /\ refusal'[q] = "settle" /\ q \in extra'
      <4>1. extra' \subseteq Prompts
        BY <1>2, <2>8
      <4>2. RunDueRefusals(from)
        BY <2>8 DEF from
      <4> QED BY <3>1, <4>1, <4>2, RunMoves
    <3>3. refusal'[p] \in {"due", "settle"} /\ hook'[p] = "left"
      BY <1>1, <2>8, <3>1, <3>2
    <3>4. \A q \in Prompts :
            /\ refusal'[q] \in {"due", "settle", "reading"} => q \in extra'
            /\ q # p => refusal'[q] = refusal[q] \/ (refusal[q] = "due" /\ refusal'[q] = "settle")
      BY <2>4, <2>8, <3>1, <3>2
    <3> QED BY <1>1, <1>3, <2>1, <2>3, <2>6, <2>8, <3>3, <3>4
  <2> QED BY <2>2, <2>5, <2>7, <2>8
<1> QED BY <1>3, <1>4, <1>5

LEMMA HandleRequestKeeps ==
  ASSUME IInv, NEW p \in Prompts, HandleRequest(p)
  PROVE  Rest'
<1>1. /\ UNCHANGED <<kind, dialogs, ran, byHand, tap, known, missed, dropped>>
      /\ Receive("request", p)
  BY DEF HandleRequest, history
<1>2. Taken("request", p)
  BY <1>1, TakenFacts DEF IInv, TypeOK, Requested, Datagram, What
<1>3. /\ p \notin Rec \cup first /\ refusal[p] = "none" /\ tap.for # p
      /\ hook[p] \in {"parked", "left"} /\ order[p] = NoOrder
  BY <1>1, RequestIsNew
<1>4. /\ \A q \in Prompts \ {p} : hook'[q] = hook[q]
      /\ hook'[p] = hook[p] \/ (hook[p] = "parked" /\ hook'[p] = "answered" /\ p \notin Rec')
      /\ \A q \in Prompts : q \in Rec' => q \in Rec \/ q = p
      /\ first' \subseteq first \cup {p}
      /\ p \in first' => p \notin Rec' /\ hook'[p] = "left" /\ refusal'[p] = "none"
  BY HandleRequestFacts
<1>5. /\ hook'[p] = "answered" \/ p \in Open' \cup first'
      /\ \A q \in Prompts : q # p /\ q \in Open \cup first => q \in Open' \cup first'
  BY HandleRequestFacts
<1>6. /\ \A q \in Prompts :
           /\ refusal'[q] \in {"due", "settle", "reading"} => q \in extra'
           /\ q # p => refusal'[q] = refusal[q] \/ (refusal[q] = "due" /\ refusal'[q] = "settle")
      /\ refusal'[p] \in {"none", "due", "settle"}
      /\ refusal'[p] # "none" => hook'[p] = "left" /\ card' # p
      /\ ~waiting' => extra' = {}
      /\ card' \in {card, p, NoPrompt}
  BY HandleRequestFacts
<1>7. /\ \A q \in Prompts :
           /\ q \notin Rec' => order'[q] = NoOrder
           /\ q \in Rec' /\ q # p => order'[q] = order[q]
      /\ p \in Rec' => order'[p] = [arrived |-> Now, timedOut |-> 0, channel |-> Head(mail).channel]
  BY HandleRequestFacts
<1>8. Up' = Up
  BY <1>1 DEF Up
<1>9. /\ FirstSent(mail')
      /\ \A w \in What, q \in Prompts :
           Places(mail, w, q) = {} => Places(mail', w, q) = {}
      /\ \A w \in What, q \in Prompts :
           w # "request" \/ q # p => (Places(mail', w, q) = {} => Places(mail, w, q) = {})
      /\ \A q \in Prompts : (\A i \in Places(mail, "request", q) : ~mail[i].channel) =>
           \A i \in Places(mail', "request", q) : ~mail'[i].channel
      /\ Places(mail', "request", p) = {}
      /\ Head(mail) = mail[1] /\ 1 \in Places(mail, "request", p)
  BY <1>2 DEF Taken, What
<1>10. Now \in Nat /\ Now > 0
  BY NowIsLater DEF IInv
<1>11. Fresh'
  BY <1>1, <1>3, <1>4, <1>6, <1>8, <1>9 DEF IInv, Fresh
<1>12. Requested'
  <2> SUFFICES ASSUME NEW q \in Prompts
               PROVE  /\ Places(mail', "request", q) # {} =>
                           /\ q \notin (Rec \cup first)'
                           /\ refusal'[q] = "none" /\ tap'.for # q /\ hook'[q] # "answered"
                      /\ q \in Rec' => q \notin first'
    BY <1>9 DEF Requested
  <2>1. CASE q = p
    BY <1>3, <1>4, <1>9, <2>1
  <2>2. CASE q # p
    BY <1>1, <1>4, <1>6, <1>9, <2>2 DEF IInv, Requested, What
  <2> QED BY <2>1, <2>2
<1>13. Ordered'
  <2>1. NoOrder.timedOut = 0
    BY DEF NoOrder
  <2> SUFFICES ASSUME NEW q \in Prompts
               PROVE  /\ q \notin Rec' => order'[q] = NoOrder
                      /\ q \in Rec' => order'[q].arrived > 0
                      /\ order'[q].timedOut > 0 => order'[q].arrived < order'[q].timedOut
    BY DEF Ordered
  <2> QED BY <1>4, <1>7, <1>10, <2>1 DEF IInv, Ordered
<1>14. Refusals'
  <2> SUFFICES ASSUME NEW q \in Prompts
               PROVE  /\ refusal'[q] \in {"due", "settle", "reading"} => q \in extra'
                      /\ refusal'[q] # "none" => hook'[q] = "left" /\ tap'.for # q /\ card' # q
                      /\ q \in first' => hook'[q] # "parked" /\ refusal'[q] = "none" /\ tap'.for # q
    BY <1>6 DEF Refusals
  <2>1. CASE q = p
    BY <1>1, <1>3, <1>4, <1>6, <2>1
  <2>2. CASE q # p
    BY <1>1, <1>4, <1>6, <2>2, NoPromptAssumption DEF IInv, Refusals
  <2> QED BY <2>1, <2>2
<1>15. Recorded'
  <2> SUFFICES ASSUME NEW q \in Prompts, q \notin missed' \cup dropped', Answerable(q)',
                      Places(mail', "request", q) = {}
               PROVE  q \in Open' \cup first'
    BY DEF Recorded
  <2>1. CASE q = p
    BY <1>5, <2>1 DEF Answerable
  <2>2. CASE q # p
    <3>1. Answerable(q) /\ Places(mail, "request", q) = {}
      BY <1>4, <1>8, <1>9, <2>2 DEF Answerable, What
    <3> QED BY <1>1, <1>5, <2>2, <3>1 DEF IInv, Recorded
  <2> QED BY <2>1, <2>2
<1>16. Ended'
  <2> SUFFICES ASSUME NEW q \in Prompts PROVE EndedOf(q)'
    BY <1>1 DEF IInv, Ended
  <2>1. EndedOf(q)
    BY DEF IInv, Ended
  <2>2. CASE q # p
    BY <1>1, <1>4, <1>8, <1>9, <2>1, <2>2 DEF EndedOf, What
  <2>3. CASE q = p
    BY <1>1, <1>3, <1>4, <1>8, <1>9, <2>1, <2>3 DEF EndedOf, What
  <2> QED BY <2>2, <2>3
<1>17. Timeouts'
  <2>0. NoOrder.timedOut = 0 /\ NoOrder.channel = FALSE
    BY DEF NoOrder
  <2> SUFFICES ASSUME NEW q \in Prompts
               PROVE  /\ hook'[q] \in {"idle", "parked"} =>
                           Places(mail', "timeout", q) = {} /\ order'[q].timedOut = 0
                      /\ q \in Up' /\ kind'[q] = "background" => hook'[q] # "parked"
                      /\ hook'[q] = "parked" /\ kind'[q] \in {"ordinary", "countdown"} => q \in Up'
                      /\ q \in Up' /\ kind'[q] = "background" /\ Places(mail', "timeout", q) = {} =>
                           /\ order'[q].channel => order'[q].timedOut > 0
                           /\ \A i \in Places(mail', "request", q) : ~mail'[i].channel
    BY DEF Timeouts
  <2>1. CASE q # p
    BY <1>1, <1>4, <1>7, <1>8, <1>9, <2>0, <2>1 DEF IInv, Timeouts, What
  <2>2. CASE q = p
    BY <1>1, <1>4, <1>7, <1>8, <1>9, <2>0, <2>2 DEF IInv, Timeouts, What
  <2> QED BY <2>1, <2>2
<1>18. InOrder'
  <2>1. \A q \in Prompts :
          /\ order'[q].arrived \in {order[q].arrived, 0} \/ (q = p /\ order'[q].arrived = Now)
          /\ order'[q].timedOut \in {order[q].timedOut, 0}
    BY <1>7 DEF NoOrder
  <2> QED BY <1>1, <1>2, <2>1, StampedInOrder
<1>19. KeysAhead'
  <2>1. NoNewKey
    BY <1>3, <1>6 DEF NoNewKey
  <2>2. \A q \in Prompts : hook[q] = "left" => hook'[q] = "left"
    BY <1>4
  <2> QED BY <1>1, <1>8, <2>1, <2>2, KeysFrame DEF IInv
<1> QED BY <1>11, <1>12, <1>13, <1>14, <1>15, <1>16, <1>17, <1>18, <1>19 DEF Rest

LEMMA StutterKeeps ==
  ASSUME IInv, UNCHANGED vars
  PROVE  Rest'
<1>1. /\ UNCHANGED <<kind, hook, dialogs, ran, byHand, mail, order, waiting, card, extra, refusal,
                     first, tap, known, missed, dropped>>
  BY DEF vars
<1>2. Up' = Up /\ Rec' = Rec /\ Open' = Open
  BY <1>1 DEF Up, Rec, Open
<1>3. Fresh' /\ Requested' /\ Ordered' /\ Refusals'
  BY <1>1, <1>2 DEF IInv, Fresh, Requested, FirstSent, Ordered, Refusals
<1>4. Recorded' /\ Ended' /\ Timeouts'
  BY <1>1, <1>2 DEF IInv, Recorded, Answerable, Ended, EndedOf, Timeouts
<1>5. InOrder' /\ KeysAhead'
  BY <1>1, <1>2 DEF IInv, InOrder, Ahead, Stamp, Los, His, KeysAhead, KeyOut
<1> QED BY <1>3, <1>4, <1>5 DEF Rest

\* The types, by every action.
LEMMA TypesKept ==
  ASSUME IInv, [Next]_vars
  PROVE  TypeOK' /\ TapTyped'
<1>1. ASSUME NEW p \in Prompts,
             Ask(p) \/ HookGivesUp(p) \/ HookAnswerRead(p) \/ Report(p)
      PROVE  TypeOK' /\ TapTyped'
  BY <1>1, ClaudeTyped DEF IInv
<1>2. ASSUME NEW p \in Prompts, HandleRequest(p) \/ HandleTimeout(p) \/ HandleReport(p)
      PROVE  TypeOK' /\ TapTyped'
  BY <1>2, MailTyped DEF IInv
<1>3. ASSUME NEW p \in Prompts,
             FirstRefusalLands(p) \/ Tap(p) \/ RefusalSettles(p) \/ QueueRead(p) \/ RefusalLands(p)
      PROVE  TypeOK' /\ TapTyped'
  BY <1>3, AnswersTyped DEF IInv
<1>4. CASE TapKeyLands \/ TapEnds
  <2>1. tap.for \in Prompts
    BY <1>4 DEF IInv, TapTyped, TapKeyLands, TapEnds
  <2> QED BY <1>4, <2>1, AnswersTyped DEF IInv
<1>5. CASE AnswerInTerminal
  <2>1. Head(dialogs) \in Prompts
    BY <1>5 DEF AnswerInTerminal, IInv, TypeOK
  <2> QED BY <1>5, <2>1, ClaudeTyped DEF IInv
<1>6. CASE UNCHANGED vars
  BY <1>6 DEF IInv, TypeOK, TapTyped, vars
<1> QED BY <1>1, <1>2, <1>3, <1>4, <1>5, <1>6 DEF Next

LEMMA NextIInv ==
  ASSUME IInv, [Next]_vars
  PROVE  IInv'
<1>1. TypeOK' /\ TapTyped' /\ Woken'
  BY TypesKept, WokenKept
<1>2. ASSUME NEW p \in Prompts, Ask(p) \/ HookGivesUp(p) \/ HookAnswerRead(p) \/ Report(p)
      PROVE  Rest'
  BY <1>2, AskKeeps, HookGivesUpKeeps, HookAnswerReadKeeps, ReportKeeps
<1>3. ASSUME NEW p \in Prompts, HandleRequest(p) \/ HandleTimeout(p) \/ HandleReport(p)
      PROVE  Rest'
  BY <1>3, HandleRequestKeeps, HandleTimeoutKeeps, HandleReportKeeps
<1>4. ASSUME NEW p \in Prompts,
             FirstRefusalLands(p) \/ Tap(p) \/ RefusalSettles(p) \/ QueueRead(p) \/ RefusalLands(p)
      PROVE  Rest'
  BY <1>4, FirstRefusalLandsKeeps, TapKeeps, VerdictKeeps, RefusalLandsKeeps
<1>5. ASSUME TapKeyLands \/ TapEnds \/ AnswerInTerminal \/ UNCHANGED vars
      PROVE  Rest'
  BY <1>5, TapKeyLandsKeeps, TapEndsKeeps, AnswerInTerminalKeeps, StutterKeeps
<1>6. Rest'
  BY <1>2, <1>3, <1>4, <1>5 DEF Next
<1> QED BY <1>1, <1>6 DEF Rest, IInv

-----------------------------------------------------------------------------
(* The theorems.                                                           *)

\* The invariant holds in every state: it is what the theorems below follow
\* from.
THEOREM Invariance == Spec => []IInv
<1>1. Init => IInv
  BY InitIInv
<1>2. IInv /\ [Next]_vars => IInv'
  BY NextIInv
<1> QED BY <1>1, <1>2, PTL DEF Spec

\* The records, the hooks, the dialogs and the datagrams stay in their ranges,
\* whatever prompts are asked and whatever the rules deny.
THEOREM TypeCorrect == Spec => []TypeOK
<1>1. IInv => TypeOK
  BY DEF IInv
<1> QED BY <1>1, Invariance, PTL

\* A tap's or a refusal's key never lands in the dialog of another prompt the
\* daemon knew of when keys_verdict said "yes" (known: a dialog on record with
\* nothing about it still in the mail; for a refusal, which waits out the
\* settle time, also one a hook decision had just been given for).  Other
\* dialogs are not covered: one opened, told of or answered through its hook
\* after that.  Nor are the keys of a prompt that an earlier key was for or
\* met by mistake (missed), or that was answered in the terminal (byHand).
THEOREM KeysLand == Spec => []KeysMeetTheirDialog
<1>1. IInv => KeysMeetTheirDialog
  <2> SUFFICES ASSUME IInv, NEW p \in Prompts, KeyOut(p), p \notin missed \cup byHand,
                      dialogs # <<>>, Head(dialogs) \in known[p] \ {p}
               PROVE  FALSE
    BY DEF KeysMeetTheirDialog
  <2> DEFINE q == Head(dialogs)
  <2>1. dialogs \in Seq(Prompts) /\ 1 \in DOMAIN dialogs /\ q = dialogs[1] /\ q \in Prompts
    BY DEF IInv, TypeOK
  <2>2. q \in Up
    BY <2>1 DEF Up
  <2>3. Before(dialogs, p, q)
    BY <2>2 DEF IInv, KeysAhead
  <2>4. PICK i, j \in DOMAIN dialogs : i < j /\ dialogs[j] = q
    BY <2>3 DEF Before
  <2>5. i \in Nat \ {0} /\ j \in Nat \ {0}
    BY <2>1
  <2>6. j = 1
    BY <2>1, <2>4 DEF IInv, Ended, Distinct
  <2> QED BY <2>4, <2>5, <2>6
<1> QED BY <1>1, Invariance, PTL

\* A dialog in the terminal that waits for an answer, and about which the daemon
\* was told all there is, has its record, or its refusal on the way.  Exempt are
\* the prompts whose key met another dialog, and the prompt of that dialog
\* (missed), and those whose record went when the wait was ended for another
\* one's answer, or by a refusal typed blind (dropped).
THEOREM DialogsOnRecord == Spec => []DialogOnRecord
<1>1. IInv => DialogOnRecord
  <2> SUFFICES ASSUME IInv, NEW p \in Up \ (missed \cup dropped), hook[p] # "answered", Told(p)
               PROVE  p \in Open \cup first
    BY DEF DialogOnRecord
  <2>1. p \in Prompts
    BY DEF IInv, TypeOK, Up
  <2>2. Places(mail, "request", p) = {}
    BY DEF Told, Places
  <2> QED BY <2>1, <2>2 DEF IInv, Recorded, Answerable
<1> QED BY <1>1, Invariance, PTL

\* A due refusal that may be typed is never left with none on the way.
THEOREM RefusalsWoken == Spec => []RefusalWoken
<1>1. IInv => RefusalWoken
  BY DEF IInv, Woken, RefusalWoken
<1> QED BY <1>1, Invariance, PTL

=============================================================================
