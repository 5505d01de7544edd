--------------------------- MODULE Billing_proofs ---------------------------
(***************************************************************************)
(* Theorems about Billing, for every number of subscriptions, prices,      *)
(* tabs, requests, changes and events.                                     *)
(***************************************************************************)
EXTENDS Billing, FiniteSetTheorems, SequenceTheorems, WellFoundedInduction, TLAPS

SlotRec == [pc: PC, tab: Tab \cup {NoTab}, x: Sub \cup {NoSub}, cur: Sub \cup {NoSub},
            price: Price \cup {Free}, ends: BOOLEAN, list: [Sub -> Snap], todo: SUBSET Sub]
PanelRec == [view: Price \cup {Free, "unknown"}, sub: Sub \cup {NoSub},
             stage: {"idle", "asking", "form", "done"}]

Exists(snap) == snap.status # "none"

\* The requests that act for a tab, by the row or the answer of Stripe they hold.
Buying     == {"coVoid", "coCancel", "coDelete", "coCreate", "coUpsert"}
Abandoning == {"abRetrieve", "abVoid", "abCancel", "abDelete"}
Planning   == {"chUpdate", "chUpsert", "caUpdate"}

\* What a program counter says of the locals it goes with.
Carries(r) ==
  /\ r.pc \in {"coUpsert"} \cup Abandoning \cup Planning => r.x \in Sub
  /\ r.pc \in {"coCancel", "coDelete"} => r.cur \in Sub
  /\ r.pc \in {"stUpsert"} \cup Buying \cup Planning => r.tab \in Tab
  /\ r.pc = "stUpsert" => \A x \in r.todo : Exists(r.list[x])
  /\ r.pc \in {"chUpsert"} \cup Buying /\ r.x \in Sub => Exists(r.list[r.x])

StripeInv ==
  /\ stripe \in [Sub -> Snap]
  /\ ending \subseteq Sub /\ void \subseteq Sub /\ paying \subseteq Sub
  /\ changes \in 0..MaxChange

MirrorInv ==
  /\ row \in [Sub -> Snap]
  /\ order \in Seq(Sub) /\ IsInjective(order)
  /\ ToSet(order) = {x \in Sub : row[x] # None}

EventInv ==
  /\ events \subseteq (Sub \X Snap) /\ \A e \in events : Exists(e[2])
  /\ IsFiniteSet(events) /\ Cardinality(events) <= MaxEvent

PanelInv ==
  /\ panel \in [Tab -> PanelRec]
  /\ \A b \in Tab : panel[b].stage \in {"form", "done"} => panel[b].sub \in Sub

SlotInv == s \in [Slot -> SlotRec] /\ \A i \in Slot : Carries(s[i])

HistoryInv == told \subseteq Sub /\ crossed \subseteq Sub /\ late \subseteq Slot

\* TypeOK is not inductive: what is written to a row is the snapshot of a
\* subscription that exists, which requests and events hold since they read it.
TypeInv == StripeInv /\ MirrorInv /\ EventInv /\ PanelInv /\ SlotInv

\* Who voids the invoice of a subscription finds it unpaid, and so does an abandon
\* that is about to cancel it, unless it was paid since.
Unpaid(x) == stripe[x].status \in {"incomplete", "canceled"}

PaidInv ==
  /\ \A x \in void : Unpaid(x)
  /\ \A i \in Slot : /\ s[i].pc = "coCancel" => s[i].cur \in void
                     /\ s[i].pc \in {"abVoid", "abCancel"} => Unpaid(s[i].x) \/ i \in late

\* Between the two steps of a plan change a subscription does not end, whatever
\* the user still thinks; otherwise the user thinks of it what is so.
ToldInv ==
  \A x \in Sub \ crossed :
    /\ Changing(x) => x \notin ending
    /\ ~Changing(x) => (x \in ending <=> x \in told)

-----------------------------------------------------------------------------
(* What the operators that rank and order rows return.                     *)

\* A set of bounded numbers has a greatest one.
LEMMA MaxIsIn ==
  ASSUME NEW n \in Nat, NEW S \in SUBSET (0..n), S # {}
  PROVE  Max(S) \in S /\ \A y \in S : Max(S) >= y
<1> DEFINE T == {n - k : k \in S}
<1>1. T \subseteq Nat /\ T # {}
  <2>1. \A k \in S : k \in 0..n /\ n - k \in Nat
    OBVIOUS
  <2> QED
    BY <2>1
<1>2. PICK m \in T : \A y \in T : ~ <<y, m>> \in OpToRel(<, Nat)
  BY <1>1, WFMin, NatLessThanWellFounded
<1>3. \A y \in T : ~ y < m
  BY <1>1, <1>2 DEF OpToRel
<1>4. PICK k \in S : m = n - k
  OBVIOUS
<1>5. \A y \in S : k >= y
  <2> SUFFICES ASSUME NEW y \in S PROVE k >= y
    OBVIOUS
  <2>1. n - y \in T /\ y \in 0..n /\ k \in 0..n
    OBVIOUS
  <2>2. ~ (n - y < n - k)
    BY <1>3, <1>4, <2>1
  <2> QED
    BY <2>1, <2>2
<1> QED
  BY <1>4, <1>5 DEF Max

LEMMA OrderDrops ==
  ASSUME NEW q \in Seq(Sub), IsInjective(q), NEW k \in DOMAIN q
  PROVE  /\ RemoveAt(q, k) \in Seq(Sub) /\ IsInjective(RemoveAt(q, k))
         /\ ToSet(RemoveAt(q, k)) = ToSet(q) \ {q[k]}
<1>1. /\ Len(q) \in Nat /\ DOMAIN q = 1..Len(q) /\ k \in 1..Len(q)
      /\ \A j \in 1..Len(q) : q[j] \in Sub
  BY LenProperties, ElementOfSeq
<1> DEFINE a == SubSeq(q, 1, k-1)
           b == SubSeq(q, k+1, Len(q))
<1>2. /\ a \in Seq(Sub) /\ Len(a) = k - 1
      /\ \A j \in 1..k-1 : a[j] = q[j]
  <2>1. 1 \in Int /\ k-1 \in Int /\ \A j \in 1..k-1 : q[j] \in Sub
    BY <1>1
  <2>2. /\ a \in Seq(Sub) /\ Len(a) = IF 1 <= k-1 THEN k-1-1+1 ELSE 0
        /\ \A j \in 1..k-1-1+1 : a[j] = q[1+j-1]
    BY <2>1, SubSeqProperties
  <2> HIDE DEF a
  <2> QED
    BY <1>1, <2>2
<1>3. /\ b \in Seq(Sub) /\ Len(b) = Len(q) - k
      /\ \A j \in 1..Len(q)-k : b[j] = q[k+j]
  <2>1. k+1 \in Int /\ Len(q) \in Int /\ \A j \in k+1..Len(q) : q[j] \in Sub
    BY <1>1
  <2>2. /\ b \in Seq(Sub) /\ Len(b) = IF k+1 <= Len(q) THEN Len(q)-(k+1)+1 ELSE 0
        /\ \A j \in 1..Len(q)-(k+1)+1 : b[j] = q[k+1+j-1]
    BY <2>1, SubSeqProperties
  <2> HIDE DEF b
  <2>3. /\ Len(q)-(k+1)+1 = Len(q)-k
        /\ (IF k+1 <= Len(q) THEN Len(q)-(k+1)+1 ELSE 0) = Len(q)-k
        /\ \A j \in 1..Len(q)-k : k+1+j-1 = k+j
    BY <1>1
  <2> QED
    BY <2>2, <2>3
<1> DEFINE c == a \o b
<1>4. RemoveAt(q, k) = c
  BY DEF RemoveAt
<1> HIDE DEF a, b
<1>5. /\ c \in Seq(Sub) /\ Len(c) = Len(q) - 1
      /\ \A j \in 1..Len(q)-1 : c[j] = IF j < k THEN q[j] ELSE q[j+1]
  <2>1. /\ c \in Seq(Sub) /\ Len(c) = Len(a) + Len(b)
        /\ \A j \in 1..Len(a)+Len(b) : c[j] = IF j <= Len(a) THEN a[j] ELSE b[j - Len(a)]
    BY <1>2, <1>3, ConcatProperties
  <2> HIDE DEF c
  <2>2. Len(c) = Len(q) - 1
    BY <1>1, <1>2, <1>3, <2>1
  <2>3. ASSUME NEW j \in 1..Len(q)-1 PROVE c[j] = IF j < k THEN q[j] ELSE q[j+1]
    <3>1. CASE j < k
      BY <1>1, <1>2, <1>3, <2>1, <3>1
    <3>2. CASE ~(j < k)
      <4>1. j \in 1..Len(a)+Len(b) /\ ~(j <= Len(a)) /\ j - Len(a) = j - k + 1
        BY <1>1, <1>2, <1>3, <3>2
      <4>2. c[j] = b[j-k+1]
        BY <2>1, <4>1
      <4>3. j-k+1 \in 1..Len(q)-k /\ k+(j-k+1) = j+1
        BY <1>1, <3>2
      <4>4. b[j-k+1] = q[k+(j-k+1)]
        BY <1>3, <4>3
      <4> QED
        BY <3>2, <4>2, <4>3, <4>4
    <3> QED
      BY <3>1, <3>2
  <2> QED
    BY <2>1, <2>2, <2>3
<1> HIDE DEF c
<1>6. DOMAIN c = 1..Len(q)-1
  BY <1>5, LenProperties
<1>7. IsInjective(c)
  <2> SUFFICES ASSUME NEW i \in 1..Len(q)-1, NEW j \in 1..Len(q)-1, c[i] = c[j] PROVE i = j
    BY <1>6 DEF IsInjective
  <2>1. \A x, y \in 1..Len(q) : q[x] = q[y] => x = y
    BY <1>1 DEF IsInjective
  <2> QED
    BY <1>1, <1>5, <2>1
<1>8. ToSet(c) = ToSet(q) \ {q[k]}
  <2>1. \A x, y \in 1..Len(q) : q[x] = q[y] => x = y
    BY <1>1 DEF IsInjective
  <2>2. ASSUME NEW j \in 1..Len(q)-1 PROVE c[j] \in {q[x] : x \in 1..Len(q)} /\ c[j] # q[k]
    <3>1. CASE j < k
      BY <1>1, <1>5, <2>1, <3>1
    <3>2. CASE ~(j < k)
      BY <1>1, <1>5, <2>1, <3>2
    <3> QED
      BY <3>1, <3>2
  <2>3. ASSUME NEW j \in 1..Len(q), j # k PROVE q[j] \in {c[x] : x \in 1..Len(q)-1}
    <3>1. CASE j < k
      <4>1. j \in 1..Len(q)-1 /\ c[j] = q[j]
        BY <1>1, <1>5, <3>1
      <4> QED
        BY <4>1
    <3>2. CASE j > k
      <4>1. j-1 \in 1..Len(q)-1 /\ ~(j-1 < k) /\ (j-1)+1 = j
        BY <1>1, <3>2
      <4>2. c[j-1] = q[j]
        BY <1>5, <4>1
      <4> QED
        BY <4>1, <4>2
    <3> QED
      BY <1>1, <2>3, <3>1, <3>2
  <2>4. ToSet(c) = {c[x] : x \in 1..Len(q)-1} /\ ToSet(q) = {q[x] : x \in 1..Len(q)}
    BY <1>1, <1>6 DEF ToSet
  <2>5. q[k] \in {q[x] : x \in 1..Len(q)}
    BY <1>1
  <2> QED
    BY <2>2, <2>3, <2>4
<1> QED
  BY <1>4, <1>5, <1>7, <1>8

LEMMA OrderGrows ==
  ASSUME NEW q \in Seq(Sub), IsInjective(q), NEW x \in Sub, x \notin ToSet(q)
  PROVE  /\ Append(q, x) \in Seq(Sub) /\ IsInjective(Append(q, x))
         /\ ToSet(Append(q, x)) = ToSet(q) \cup {x}
<1> DEFINE c == Append(q, x)
<1>1. /\ Len(q) \in Nat /\ DOMAIN q = 1..Len(q)
  BY LenProperties
<1>2. /\ c \in Seq(Sub) /\ Len(c) = Len(q)+1
      /\ \A i \in 1..Len(q) : c[i] = q[i]
      /\ c[Len(q)+1] = x
  BY AppendProperties
<1> HIDE DEF c
<1>3. DOMAIN c = 1..Len(q)+1
  BY <1>2, LenProperties
<1>4. \A i \in 1..Len(q) : q[i] # x
  BY <1>1 DEF ToSet
<1>5. \A i, j \in 1..Len(q) : q[i] = q[j] => i = j
  BY <1>1 DEF IsInjective
<1>6. IsInjective(c)
  <2> SUFFICES ASSUME NEW i \in 1..Len(q)+1, NEW j \in 1..Len(q)+1, c[i] = c[j] PROVE i = j
    BY <1>3 DEF IsInjective
  <2>1. CASE i \in 1..Len(q) /\ j \in 1..Len(q)
    BY <1>2, <1>5, <2>1
  <2>2. CASE i = Len(q)+1 \/ j = Len(q)+1
    BY <1>1, <1>2, <1>4, <2>2
  <2> QED
    BY <1>1, <2>1, <2>2
<1>7. ToSet(c) = ToSet(q) \cup {x}
  <2>1. 1..Len(q)+1 = (1..Len(q)) \cup {Len(q)+1}
    BY <1>1
  <2>2. ToSet(c) = {c[i] : i \in (1..Len(q)) \cup {Len(q)+1}} /\ ToSet(q) = {q[i] : i \in 1..Len(q)}
    BY <1>1, <1>3, <2>1 DEF ToSet
  <2> QED
    BY <1>2, <2>2
<1> QED
  BY <1>2, <1>6, <1>7 DEF c
-----------------------------------------------------------------------------
(* Types.                                                                  *)

LEMMA Bounds ==
  /\ MaxSub \in Nat /\ MaxChange \in Nat /\ MaxEvent \in Nat
  /\ Sub \subseteq Nat /\ NoSub \notin Sub
  /\ None \in Snap /\ ~Exists(None)
BY BoundAssumption DEF Sub, NoSub, None, Snap, Status, Exists

LEMMA TypeInvOK == TypeInv /\ HistoryInv => TypeOK
BY DEF TypeInv, HistoryInv, StripeInv, MirrorInv, EventInv, PanelInv, SlotInv, TypeOK, SlotRec, PanelRec

LEMMA IdleTyped == Idle \in SlotRec /\ Carries(Idle)
<1>1. Idle \in SlotRec
  BY Bounds DEF Idle, SlotRec, PC
<1>2. Idle.pc = "idle"
  BY DEF Idle
<1> QED
  BY <1>1, <1>2 DEF Carries, Buying, Abandoning, Planning

LEMMA TypeInit == Init => TypeInv
<1> SUFFICES ASSUME Init PROVE TypeInv
  OBVIOUS
<1>1. StripeInv
  BY Bounds DEF Init, StripeInv
<1>2. MirrorInv
  <2>1. DOMAIN <<>> = {} /\ <<>> \in Seq(Sub)
    BY EmptySeq, LenProperties
  <2>2. ToSet(<<>>) = {} /\ IsInjective(<<>>)
    BY <2>1 DEF ToSet, IsInjective
  <2> QED
    BY <2>1, <2>2, Bounds DEF Init, MirrorInv
<1>3. EventInv
  BY FS_EmptySet, Bounds DEF Init, EventInv
<1>4. PanelInv
  BY DEF Init, PanelInv, PanelRec
<1>5. SlotInv
  BY IdleTyped DEF Init, SlotInv
<1> QED
  BY <1>1, <1>2, <1>3, <1>4, <1>5 DEF TypeInv

LEMMA EmitsTyped ==
  ASSUME EventInv, NEW x \in Sub, NEW snap \in Snap, Exists(snap), Emits(<<x, snap>>)
  PROVE  EventInv'
<1>1. CASE events' = events
  BY <1>1 DEF EventInv
<1>2. CASE events' = events \cup {<<x, snap>>} /\ Cardinality(events') <= MaxEvent
  BY <1>2, FS_AddElement DEF EventInv
<1> QED
  BY <1>1, <1>2 DEF Emits

LEMMA BecomesTyped ==
  ASSUME TypeInv, NEW x \in Sub, NEW snap \in Snap, Exists(snap), Becomes(x, snap)
  PROVE  /\ EventInv' /\ stripe' \in [Sub -> Snap] /\ changes' \in 0..MaxChange
         /\ stripe'[x] = snap /\ \A y \in Sub \ {x} : stripe'[y] = stripe[y]
BY EmitsTyped, Bounds DEF Becomes, TypeInv, StripeInv

LEMMA StatusTyped ==
  ASSUME TypeInv, NEW x \in Sub, NEW st \in Status \ {"none"}
  PROVE  /\ [stripe[x] EXCEPT !.status = st] \in Snap
         /\ [stripe[x] EXCEPT !.status = st].status = st
         /\ Exists([stripe[x] EXCEPT !.status = st])
BY DEF TypeInv, StripeInv, Snap, Exists

\* A status changes, and the event of it may be sent.
LEMMA BecomesStatusTyped ==
  ASSUME TypeInv, NEW x \in Sub, NEW st \in Status \ {"none"}, BecomesStatus(x, st)
  PROVE  /\ EventInv' /\ stripe' \in [Sub -> Snap] /\ changes' \in 0..MaxChange
         /\ stripe'[x].status = st /\ \A y \in Sub \ {x} : stripe'[y] = stripe[y]
<1> DEFINE snap == [stripe[x] EXCEPT !.status = st]
<1>1. snap \in Snap /\ snap.status = st /\ Exists(snap) /\ Becomes(x, snap)
  BY StatusTyped DEF BecomesStatus
<1> HIDE DEF snap
<1> QED
  BY <1>1, BecomesTyped

LEMMA UpsertTyped ==
  ASSUME MirrorInv, NEW x \in Sub, NEW snap \in Snap, Exists(snap), Upsert(x, snap)
  PROVE  MirrorInv'
<1>1. row' \in [Sub -> Snap] /\ \A y \in Sub : row'[y] = IF y = x THEN snap ELSE row[y]
  BY DEF Upsert, MirrorInv
<1>2. snap # None
  BY Bounds
<1>3. {y \in Sub : row'[y] # None} = {y \in Sub : row[y] # None} \cup {x}
  BY <1>1, <1>2
<1>4. CASE row[x] = None
  BY <1>1, <1>3, <1>4, OrderGrows DEF Upsert, MirrorInv
<1>5. CASE row[x] # None
  BY <1>1, <1>3, <1>5 DEF Upsert, MirrorInv
<1> QED
  BY <1>4, <1>5

LEMMA DropRowTyped ==
  ASSUME MirrorInv, NEW x \in Sub, DropRow(x)
  PROVE  MirrorInv'
<1>1. row' \in [Sub -> Snap] /\ \A y \in Sub : row'[y] = IF y = x THEN None ELSE row[y]
  BY Bounds DEF DropRow, MirrorInv
<1>2. {y \in Sub : row'[y] # None} = {y \in Sub : row[y] # None} \ {x}
  BY <1>1
<1>3. CASE row[x] = None
  BY <1>1, <1>2, <1>3 DEF DropRow, MirrorInv
<1>4. CASE row[x] # None
  <2> DEFINE k == CHOOSE j \in DOMAIN order : order[j] = x
  <2>1. k \in DOMAIN order /\ order[k] = x
    BY <1>4 DEF MirrorInv, ToSet
  <2>2. order' = RemoveAt(order, k)
    BY <1>4 DEF DropRow
  <2> HIDE DEF k
  <2> QED
    BY <1>1, <1>2, <2>1, <2>2, OrderDrops DEF MirrorInv
<1> QED
  BY <1>3, <1>4

\* A request moves on: its new record, and the others stay as they are.
LEMMA SlotMoves ==
  ASSUME SlotInv, NEW i \in Slot, NEW r \in SlotRec, Carries(r), s' = [s EXCEPT ![i] = r]
  PROVE  SlotInv'
BY DEF SlotInv

LEMMA Returns ==
  ASSUME SlotInv, NEW i \in Slot, Return(i)
  PROVE  SlotInv'
BY IdleTyped, SlotMoves DEF Return

\* The row that getLatestSubscription picks is there.
LEMMA LatestIsRow ==
  ASSUME MirrorInv
  PROVE  Latest = NoSub \/ (Latest \in Sub /\ row[Latest] # None)
<1> DEFINE R(k) == Rank(row[order[k]].status)
           best == {k \in DOMAIN order : \A j \in DOMAIN order : R(k) <= R(j)}
<1>1. Latest = IF best = {} THEN NoSub ELSE order[Max(best)]
  BY DEF Latest
<1>2. Len(order) \in Nat /\ DOMAIN order = 1..Len(order)
  BY LenProperties DEF MirrorInv
<1>3. best \subseteq DOMAIN order
  OBVIOUS
<1> HIDE DEF best
<1>4. CASE best # {}
  <2>1. best \in SUBSET (0..Len(order))
    BY <1>2, <1>3
  <2>2. Max(best) \in DOMAIN order
    BY <1>2, <1>3, <1>4, <2>1, MaxIsIn
  <2>3. order[Max(best)] \in ToSet(order)
    BY <2>2 DEF ToSet
  <2> QED
    BY <1>1, <1>4, <2>3 DEF MirrorInv
<1> QED
  BY <1>1, <1>4

LEMMA TierTyped ==
  ASSUME MirrorInv
  PROVE  Tier \in Price \cup {Free} /\ (Tier # Free => Latest \in Sub)
<1>1. Latest # NoSub => row[Latest].price \in Price \cup {Free}
  BY LatestIsRow DEF MirrorInv, Snap
<1> QED
  BY <1>1, LatestIsRow DEF Tier
-----------------------------------------------------------------------------
(* Types: each step.                                                       *)

LEMMA Names ==
  {"idle", "stUpsert", "coVoid", "coCancel", "coDelete", "coCreate", "coUpsert",
   "abRetrieve", "abVoid", "abCancel", "abDelete", "chUpdate", "chUpsert", "caUpdate"} \subseteq PC
BY DEF PC

LEMMA Goes ==
  ASSUME SlotInv, NEW i \in Slot, NEW p \in PC, Goto(i, p), Carries([s[i] EXCEPT !.pc = p])
  PROVE  SlotInv'
<1> DEFINE r == [s[i] EXCEPT !.pc = p]
<1>1. r \in SlotRec /\ s' = [s EXCEPT ![i] = r]
  BY DEF SlotInv, SlotRec, Goto
<1> HIDE DEF r
<1> QED
  BY <1>1, SlotMoves DEF r

\* Nothing but the requests and the panel changes.
LEMMA Alone ==
  ASSUME TypeInv, UNCHANGED <<external, mirror, events>>, PanelInv', SlotInv'
  PROVE  TypeInv'
BY DEF TypeInv, external, mirror, StripeInv, MirrorInv, EventInv

LEMMA TypeStripe ==
  ASSUME TypeInv, Stripe
  PROVE  TypeInv'
<1>1. ASSUME NEW x \in Sub, PaySucceeds(x) PROVE TypeInv'
  <2>1. BecomesStatus(x, "active")
    BY <1>1 DEF PaySucceeds
  <2>2. EventInv' /\ stripe' \in [Sub -> Snap] /\ changes' \in 0..MaxChange
    BY <2>1, BecomesStatusTyped DEF Status
  <2>3. StripeInv' /\ MirrorInv'
    BY <1>1, <2>2 DEF PaySucceeds, TypeInv, StripeInv, mirror, MirrorInv
  <2>4. PanelInv'
    BY <1>1 DEF PaySucceeds, TypeInv, PanelInv, PanelRec
  <2>5. SlotInv'
    BY <1>1 DEF PaySucceeds, TypeInv, SlotInv
  <2> QED
    BY <2>2, <2>3, <2>4, <2>5 DEF TypeInv
<1>2. ASSUME NEW x \in Sub, PayFails(x) PROVE TypeInv'
  BY <1>2 DEF PayFails, TypeInv, StripeInv, mirror, MirrorInv, EventInv, PanelInv, SlotInv
<1>3. ASSUME NEW x \in Sub, EndPeriod(x) PROVE TypeInv'
  <2>1. BecomesStatus(x, "canceled")
    BY <1>3 DEF EndPeriod
  <2>2. EventInv' /\ stripe' \in [Sub -> Snap] /\ changes' \in 0..MaxChange
    BY <2>1, BecomesStatusTyped DEF Status
  <2> QED
    BY <1>3, <2>2 DEF EndPeriod, TypeInv, StripeInv, mirror, MirrorInv, PanelInv, SlotInv
<1>4. ASSUME NEW x \in Sub, Dunning(x) PROVE TypeInv'
  <2>1. EventInv' /\ stripe' \in [Sub -> Snap] /\ changes' \in 0..MaxChange
    BY <1>4, BecomesStatusTyped DEF Dunning, Status
  <2> QED
    BY <1>4, <2>1 DEF Dunning, TypeInv, StripeInv, mirror, MirrorInv, PanelInv, SlotInv
<1>5. ASSUME NEW e \in events, Webhook(e) PROVE TypeInv'
  <2>1. e[1] \in Sub /\ e[2] \in Snap /\ Exists(e[2])
    BY DEF TypeInv, EventInv
  <2>2. MirrorInv'
    BY <1>5, <2>1, UpsertTyped DEF Webhook, TypeInv
  <2>3. EventInv' /\ changes' \in 0..MaxChange
    <3>1. CASE events' = events \ {e} /\ changes' = changes
      <4>1. IsFiniteSet(events \ {e}) /\ Cardinality(events \ {e}) <= Cardinality(events)
        BY FS_Subset DEF TypeInv, EventInv
      <4>2. Cardinality(events) \in Nat /\ Cardinality(events \ {e}) \in Nat /\ MaxEvent \in Nat
        BY <4>1, FS_CardinalityType, Bounds DEF TypeInv, EventInv
      <4> QED
        BY <3>1, <4>1, <4>2 DEF TypeInv, EventInv, StripeInv
    <3>2. CASE changes < MaxChange /\ changes' = changes + 1 /\ events' = events
      BY <3>2, Bounds DEF TypeInv, EventInv, StripeInv
    <3> QED
      BY <1>5, <3>1, <3>2 DEF Webhook
  <2> QED
    BY <1>5, <2>2, <2>3 DEF Webhook, TypeInv, StripeInv, PanelInv, SlotInv
<1> QED
  BY <1>1, <1>2, <1>3, <1>4, <1>5 DEF Stripe

LEMMA TypeTab ==
  ASSUME TypeInv, NEW b \in Tab, Confirm(b) \/ Remount(b)
  PROVE  TypeInv'
<1>1. CASE Confirm(b)
  BY <1>1 DEF Confirm, TypeInv, StripeInv, mirror, MirrorInv, EventInv, PanelInv, SlotInv
<1>2. CASE Remount(b)
  <2>1. PanelInv'
    BY <1>2 DEF Remount, TypeInv, PanelInv, PanelRec, NoSub
  <2> QED
    BY <1>2, <2>1, Alone DEF Remount, TypeInv, SlotInv
<1> QED
  BY <1>1, <1>2

LEMMA TypeStatus ==
  ASSUME TypeInv, NEW i \in Slot,
         (\E b \in Tab : StartStatus(i, b)) \/ (\E x \in Sub : StatusUpsert(i, x)) \/ StatusAnswer(i)
  PROVE  TypeInv'
<1>s. s[i] \in SlotRec /\ Carries(s[i])
  BY DEF TypeInv, SlotInv
<1>1. ASSUME NEW b \in Tab, StartStatus(i, b) PROVE TypeInv'
  <2> DEFINE r == [Idle EXCEPT !.pc = "stUpsert", !.tab = b, !.list = stripe,
                               !.todo = {x \in Sub : ~Is(x, "none")}]
  <2>1. r \in SlotRec
    BY IdleTyped, Names DEF SlotRec, TypeInv, StripeInv
  <2>2. r.pc = "stUpsert" /\ r.tab = b /\ r.list = stripe /\ r.todo = {x \in Sub : ~Is(x, "none")}
    BY DEF Idle
  <2>3. s' = [s EXCEPT ![i] = r]
    BY <1>1 DEF StartStatus
  <2> HIDE DEF r
  <2>4. Carries(r)
    BY <2>2 DEF Carries, Exists, Is, Buying, Abandoning, Planning
  <2> QED
    BY <1>1, <2>1, <2>3, <2>4, SlotMoves, Alone DEF StartStatus, TypeInv, PanelInv
<1>2. ASSUME NEW x \in Sub, StatusUpsert(i, x) PROVE TypeInv'
  <2>1. s[i].pc = "stUpsert" /\ s[i].todo # {} /\ x = Max(s[i].todo) /\ s[i].todo \subseteq Sub
    BY <1>2, <1>s DEF StatusUpsert, At, SlotRec
  <2>2. x \in s[i].todo
    <3>1. s[i].todo \in SUBSET (0..MaxSub)
      BY <2>1 DEF Sub
    <3> QED
      BY <2>1, <3>1, Bounds, MaxIsIn
  <2>3. s[i].list[x] \in Snap /\ Exists(s[i].list[x])
    BY <1>s, <2>1, <2>2 DEF Carries, SlotRec
  <2>4. MirrorInv'
    BY <1>2, <2>3, UpsertTyped DEF StatusUpsert, TypeInv
  <2> DEFINE r == [s[i] EXCEPT !.todo = @ \ {x}, !.list[x] = None]
  <2>5. r \in SlotRec
    BY <1>s, Bounds DEF SlotRec
  <2>6. /\ r.pc = "stUpsert" /\ r.tab = s[i].tab /\ r.todo = s[i].todo \ {x}
        /\ \A y \in Sub \ {x} : r.list[y] = s[i].list[y]
    BY <1>s, <2>1 DEF SlotRec
  <2>7. s' = [s EXCEPT ![i] = r]
    BY <1>2, <1>s DEF StatusUpsert, TypeInv, SlotInv
  <2> HIDE DEF r
  <2>8. Carries(r)
    BY <1>s, <2>1, <2>6 DEF Carries, Buying, Abandoning, Planning
  <2>9. SlotInv'
    BY <2>5, <2>7, <2>8, SlotMoves DEF TypeInv
  <2> QED
    BY <1>2, <2>4, <2>9 DEF StatusUpsert, TypeInv, external, StripeInv, EventInv, PanelInv
<1>3. CASE StatusAnswer(i)
  <2>1. s[i].tab \in Tab
    BY <1>3, <1>s DEF StatusAnswer, At, Carries
  <2>2. Tier \in Price \cup {Free}
    BY TierTyped DEF TypeInv
  <2>3. PanelInv'
    <3> DEFINE b == s[i].tab
               q == IF panel[b].stage = "done" /\ Tier # Free
                    THEN [view |-> Tier, sub |-> NoSub, stage |-> "idle"]
                    ELSE [panel[b] EXCEPT !.view = Tier]
    <3>1. CASE panel' = panel
      BY <3>1 DEF TypeInv, PanelInv
    <3>2. CASE panel' = [panel EXCEPT ![b] = q]
      <4>1. q \in PanelRec
        BY <2>1, <2>2 DEF TypeInv, PanelInv, PanelRec
      <4>2. q.stage \in {"form", "done"} => q.sub \in Sub
        BY <2>1, <2>2 DEF TypeInv, PanelInv, PanelRec
      <4> HIDE DEF q
      <4> QED
        BY <2>1, <3>2, <4>1, <4>2 DEF TypeInv, PanelInv
    <3> QED
      BY <1>3, <3>1, <3>2 DEF StatusAnswer
  <2> QED
    BY <1>3, <2>3, Returns, Alone DEF StatusAnswer, TypeInv
<1> QED
  BY <1>1, <1>2, <1>3
LEMMA Buys ==
  ASSUME NEW r \in SlotRec, NEW p \in Buying, r.tab \in Tab,
         r.x \in Sub => Exists(r.list[r.x]), p = "coUpsert" => r.x \in Sub,
         p \in {"coCancel", "coDelete"} => r.cur \in Sub
  PROVE  [r EXCEPT !.pc = p] \in SlotRec /\ Carries([r EXCEPT !.pc = p])
<1> DEFINE q == [r EXCEPT !.pc = p]
<1>1. q \in SlotRec /\ q.pc = p /\ q.tab = r.tab /\ q.x = r.x /\ q.cur = r.cur /\ q.list = r.list
  BY DEF SlotRec, Buying, PC
<1> HIDE DEF q
<1>2. Carries(q)
  BY <1>1 DEF Carries, Buying, Abandoning, Planning
<1> QED
  BY <1>1, <1>2 DEF q

LEMMA AfterStaleTyped ==
  ASSUME NEW r \in SlotRec
  PROVE  AfterStale(r) \in Buying /\ AfterStale(r) \notin {"coCancel", "coDelete"}
         /\ (AfterStale(r) = "coUpsert" => r.x \in Sub)
BY DEF AfterStale, Buying, SlotRec

LEMMA NextStaleTyped ==
  ASSUME SlotInv, NEW i \in Slot, NextStale(i), s[i].pc \in Buying
  PROVE  SlotInv'
<1>s. s[i] \in SlotRec /\ Carries(s[i])
  BY DEF SlotInv
<1> DEFINE r == [s[i] EXCEPT !.todo = @ \ {s[i].cur}, !.cur = NoSub]
<1>1. r \in SlotRec /\ r.tab = s[i].tab /\ r.x = s[i].x /\ r.list = s[i].list
  BY <1>s DEF SlotRec
<1>2. s' = [s EXCEPT ![i] = [r EXCEPT !.pc = AfterStale(r)]]
  BY DEF NextStale
<1> HIDE DEF r
<1>3. r.tab \in Tab /\ (r.x \in Sub => Exists(r.list[r.x]))
  BY <1>s, <1>1 DEF Carries
<1>4. [r EXCEPT !.pc = AfterStale(r)] \in SlotRec /\ Carries([r EXCEPT !.pc = AfterStale(r)])
  BY <1>1, <1>3, AfterStaleTyped, Buys
<1> QED
  BY <1>2, <1>4, SlotMoves

LEMMA DismissTyped ==
  ASSUME PanelInv, NEW b \in Tab, panel' = Dismiss(b)
  PROVE  PanelInv'
<1> DEFINE r == [panel[b] EXCEPT !.stage = "idle", !.sub = NoSub]
<1>1. r \in PanelRec /\ r.stage = "idle"
  BY DEF PanelInv, PanelRec
<1>2. panel' = [panel EXCEPT ![b] = r]
  BY DEF Dismiss, PanelInv
<1> HIDE DEF r
<1> QED
  BY <1>1, <1>2 DEF PanelInv

LEMMA TypeCheckout ==
  ASSUME TypeInv, NEW i \in Slot,
         \/ \E b \in Tab, p \in Price, x \in Sub \cup {NoSub} : StartCheckout(i, b, p, x)
         \/ \E y \in Sub : CheckoutVoid(i, y)
         \/ CheckoutCancel(i) \/ CheckoutDelete(i)
         \/ \E x \in Sub : CheckoutCreate(i, x)
         \/ CheckoutFails(i) \/ CheckoutUpsert(i)
  PROVE  TypeInv'
<1>s. s[i] \in SlotRec /\ Carries(s[i])
  BY DEF TypeInv, SlotInv
<1>b. s[i].pc \in Buying => s[i].tab \in Tab /\ (s[i].x \in Sub => Exists(s[i].list[s[i].x]))
  BY <1>s DEF Carries
<1>1. ASSUME NEW b \in Tab, NEW p \in Price, NEW x \in Sub \cup {NoSub}, StartCheckout(i, b, p, x)
      PROVE  TypeInv'
  <2> DEFINE found == {y \in Sub : Is(y, "incomplete")}
             same  == {y \in found : stripe[y].price = p}
             r     == [Idle EXCEPT !.tab = b, !.price = p, !.x = x, !.todo = found \ {x},
                                   !.list = [y \in Sub |-> IF y = x THEN stripe[y] ELSE None]]
  <2>1. x \in Sub => Exists(stripe[x])
    <3>1. same \cup {NoSub} \in SUBSET (0..MaxSub)
      BY Bounds DEF Sub, NoSub
    <3>2. Max(same \cup {NoSub}) \in same \cup {NoSub}
      BY <3>1, Bounds, MaxIsIn
    <3>3. x \in same \cup {NoSub}
      BY <1>1, <3>2 DEF StartCheckout
    <3> QED
      BY <3>3, Bounds DEF Exists, Is
  <2>2. r \in SlotRec
    BY IdleTyped, Bounds DEF SlotRec, TypeInv, StripeInv
  <2>3. r.tab = b /\ r.x = x /\ r.list = [y \in Sub |-> IF y = x THEN stripe[y] ELSE None]
    BY DEF Idle
  <2>4. s' = [s EXCEPT ![i] = [r EXCEPT !.pc = AfterStale(r)]]
    BY <1>1 DEF StartCheckout
  <2> HIDE DEF r, same, found
  <2>5. [r EXCEPT !.pc = AfterStale(r)] \in SlotRec /\ Carries([r EXCEPT !.pc = AfterStale(r)])
    <3>1. r.tab \in Tab /\ (r.x \in Sub => Exists(r.list[r.x]))
      BY <2>1, <2>3
    <3> QED
      BY <2>2, <3>1, AfterStaleTyped, Buys
  <2>6. SlotInv'
    BY <2>4, <2>5, SlotMoves DEF TypeInv
  <2>7. PanelInv'
    BY <1>1 DEF StartCheckout, TypeInv, PanelInv, PanelRec
  <2> QED
    BY <1>1, <2>6, <2>7, Alone DEF StartCheckout
<1>2. ASSUME NEW y \in Sub, CheckoutVoid(i, y) PROVE TypeInv'
  <2>1. s[i].pc \in Buying
    BY <1>2 DEF CheckoutVoid, At, Buying
  <2>2. SlotInv'
    <3>1. CASE s' = [s EXCEPT ![i].pc = "coCancel", ![i].cur = y]
      <4> DEFINE r == [s[i] EXCEPT !.cur = y]
      <4>1. /\ r \in SlotRec /\ r.tab = s[i].tab /\ r.x = s[i].x /\ r.list = s[i].list /\ r.cur = y
            /\ s' = [s EXCEPT ![i] = [r EXCEPT !.pc = "coCancel"]]
        BY <1>s, <3>1 DEF SlotRec, TypeInv, SlotInv
      <4> HIDE DEF r
      <4>2. "coCancel" \in Buying
        BY DEF Buying
      <4>3. [r EXCEPT !.pc = "coCancel"] \in SlotRec /\ Carries([r EXCEPT !.pc = "coCancel"])
        BY <1>b, <2>1, <4>1, <4>2, Buys
      <4> QED
        BY <4>1, <4>3, SlotMoves DEF TypeInv
    <3>2. CASE LET r == [s[i] EXCEPT !.todo = @ \ {y}]
               IN s' = [s EXCEPT ![i] = [r EXCEPT !.pc = AfterStale(r)]]
      <4> DEFINE r == [s[i] EXCEPT !.todo = @ \ {y}]
      <4>1. /\ r \in SlotRec /\ r.tab = s[i].tab /\ r.x = s[i].x /\ r.list = s[i].list
            /\ s' = [s EXCEPT ![i] = [r EXCEPT !.pc = AfterStale(r)]]
        BY <1>s, <3>2 DEF SlotRec
      <4> HIDE DEF r
      <4>3. [r EXCEPT !.pc = AfterStale(r)] \in SlotRec /\ Carries([r EXCEPT !.pc = AfterStale(r)])
        BY <1>b, <2>1, <4>1, AfterStaleTyped, Buys
      <4> QED
        BY <4>1, <4>3, SlotMoves DEF TypeInv
    <3> QED
      BY <1>2, <3>1, <3>2 DEF CheckoutVoid
  <2>3. StripeInv'
    BY <1>2 DEF CheckoutVoid, Void, TypeInv, StripeInv
  <2> QED
    BY <1>2, <2>2, <2>3 DEF CheckoutVoid, TypeInv, mirror, MirrorInv, EventInv, PanelInv
<1>3. CASE CheckoutCancel(i)
  <2>1. s[i].pc \in Buying /\ s[i].pc = "coCancel" /\ s[i].cur \in Sub
    BY <1>3, <1>s DEF CheckoutCancel, At, Buying, Carries
  <2>2. CASE BecomesStatus(s[i].cur, "canceled") /\ Goto(i, "coDelete")
    <3>1. EventInv' /\ stripe' \in [Sub -> Snap] /\ changes' \in 0..MaxChange
      BY <2>1, <2>2, BecomesStatusTyped DEF Status
    <3>2. "coDelete" \in Buying /\ "coDelete" \in PC
      BY DEF Buying, PC
    <3>3. Carries([s[i] EXCEPT !.pc = "coDelete"])
      BY <1>s, <1>b, <2>1, <3>2, Buys
    <3>4. SlotInv'
      BY <2>2, <3>2, <3>3, Goes DEF TypeInv
    <3> QED
      BY <1>3, <3>1, <3>4 DEF CheckoutCancel, TypeInv, StripeInv, mirror, MirrorInv, PanelInv
  <2>3. CASE NextStale(i) /\ UNCHANGED <<stripe, changes, events>>
    <3>1. SlotInv'
      BY <2>1, <2>3, NextStaleTyped DEF TypeInv
    <3> QED
      BY <1>3, <2>3, <3>1 DEF CheckoutCancel, TypeInv, StripeInv, EventInv, mirror, MirrorInv, PanelInv
  <2> QED
    BY <1>3, <2>2, <2>3 DEF CheckoutCancel
<1>4. CASE CheckoutDelete(i)
  <2>1. s[i].pc \in Buying /\ s[i].cur \in Sub
    BY <1>4, <1>s DEF CheckoutDelete, At, Buying, Carries
  <2>2. SlotInv' /\ MirrorInv'
    BY <1>4, <2>1, NextStaleTyped, DropRowTyped DEF CheckoutDelete, TypeInv
  <2> QED
    BY <1>4, <2>2 DEF CheckoutDelete, TypeInv, external, StripeInv, EventInv, PanelInv
<1>5. ASSUME NEW x \in Sub, CheckoutCreate(i, x) PROVE TypeInv'
  <2> DEFINE snap == [status |-> "incomplete", price |-> s[i].price]
             r    == [s[i] EXCEPT !.x = x, !.list[x] = snap]
  <2>1. snap \in Snap /\ Exists(snap)
    BY <1>s DEF Snap, Status, Exists, SlotRec
  <2>2. EventInv' /\ stripe' \in [Sub -> Snap] /\ changes' \in 0..MaxChange
    BY <1>5, <2>1, BecomesTyped DEF CheckoutCreate
  <2>3. s[i].pc \in Buying
    BY <1>5 DEF CheckoutCreate, At, Buying
  <2>4. s' = [s EXCEPT ![i].pc = "coUpsert", ![i].x = x, ![i].list[x] = snap]
    BY <1>5 DEF CheckoutCreate
  <2> HIDE DEF snap
  <2>5. /\ r \in SlotRec /\ r.tab = s[i].tab /\ r.x = x /\ r.list[x] = snap
        /\ s' = [s EXCEPT ![i] = [r EXCEPT !.pc = "coUpsert"]]
    BY <1>s, <2>1, <2>4 DEF SlotRec, TypeInv, SlotInv
  <2> HIDE DEF r
  <2>6. "coUpsert" \in Buying
    BY DEF Buying
  <2>7. [r EXCEPT !.pc = "coUpsert"] \in SlotRec /\ Carries([r EXCEPT !.pc = "coUpsert"])
    BY <1>b, <2>1, <2>3, <2>5, <2>6, Buys
  <2>8. SlotInv'
    BY <2>5, <2>7, SlotMoves DEF TypeInv
  <2> QED
    BY <1>5, <2>2, <2>8 DEF CheckoutCreate, TypeInv, StripeInv, mirror, MirrorInv, PanelInv
<1>6. CASE CheckoutFails(i)
  <2>1. s[i].tab \in Tab
    BY <1>6, <1>b DEF CheckoutFails, At, Buying
  <2>2. PanelInv'
    BY <1>6, <2>1, DismissTyped DEF CheckoutFails, TypeInv, PanelInv
  <2> QED
    BY <1>6, <2>2, Returns, Alone DEF CheckoutFails, TypeInv
<1>7. CASE CheckoutUpsert(i)
  <2>1. /\ s[i].tab \in Tab /\ s[i].x \in Sub /\ Exists(s[i].list[s[i].x])
        /\ s[i].list[s[i].x] \in Snap
    BY <1>7, <1>b, <1>s DEF CheckoutUpsert, At, Buying, Carries, SlotRec
  <2>2. MirrorInv' /\ SlotInv'
    BY <1>7, <2>1, UpsertTyped, Returns DEF CheckoutUpsert, TypeInv
  <2>3. PanelInv'
    BY <1>7, <2>1 DEF CheckoutUpsert, TypeInv, PanelInv, PanelRec
  <2> QED
    BY <1>7, <2>2, <2>3 DEF CheckoutUpsert, TypeInv, external, StripeInv, EventInv
<1> QED
  BY <1>1, <1>2, <1>3, <1>4, <1>5, <1>6, <1>7
LEMMA TypeAbandon ==
  ASSUME TypeInv, NEW i \in Slot,
         \/ \E b \in Tab : Close(i, b)
         \/ AbandonRetrieve(i) \/ AbandonVoid(i) \/ AbandonCancel(i) \/ AbandonDelete(i)
  PROVE  TypeInv'
<1>s. s[i] \in SlotRec /\ Carries(s[i])
  BY DEF TypeInv, SlotInv
<1>x. s[i].pc \in Abandoning => s[i].x \in Sub
  BY <1>s DEF Carries
<1>g. ASSUME NEW p \in Abandoning, s[i].pc \in Abandoning, Goto(i, p) PROVE SlotInv'
  <2> DEFINE r == [s[i] EXCEPT !.pc = p]
  <2>1. r.pc = p /\ r.x = s[i].x /\ p \in PC
    BY <1>s DEF SlotRec, Abandoning, PC
  <2> HIDE DEF r
  <2>2. Carries(r)
    BY <1>x, <1>g, <2>1 DEF Carries, Abandoning, Buying, Planning
  <2> QED
    BY <1>g, <2>1, <2>2, Goes DEF r, TypeInv
<1>1. ASSUME NEW b \in Tab, Close(i, b) PROVE TypeInv'
  <2>1. PanelInv' /\ panel[b].sub \in Sub
    BY <1>1, DismissTyped DEF Close, TypeInv, PanelInv
  <2> DEFINE r == [Idle EXCEPT !.pc = "abRetrieve", !.x = panel[b].sub]
  <2>2. r \in SlotRec /\ r.pc = "abRetrieve" /\ r.x \in Sub
    BY <2>1, IdleTyped DEF SlotRec, PC, Idle
  <2>3. s' \in {s, [s EXCEPT ![i] = r]}
    BY <1>1 DEF Close
  <2> HIDE DEF r
  <2>4. Carries(r)
    BY <2>2 DEF Carries, Abandoning, Buying, Planning
  <2>5. SlotInv'
    <3>1. CASE s' = s
      BY <3>1 DEF TypeInv, SlotInv
    <3>2. CASE s' = [s EXCEPT ![i] = r]
      BY <2>2, <2>4, <3>2, SlotMoves DEF TypeInv
    <3> QED
      BY <2>3, <3>1, <3>2
  <2> QED
    BY <1>1, <2>1, <2>5, Alone DEF Close
<1>2. CASE AbandonRetrieve(i)
  <2>1. SlotInv'
    BY <1>2, <1>g, Returns DEF AbandonRetrieve, At, Abandoning, TypeInv
  <2> QED
    BY <1>2, <2>1, Alone DEF AbandonRetrieve, TypeInv, PanelInv
<1>3. CASE AbandonVoid(i)
  <2>1. SlotInv' /\ s[i].x \in Sub
    BY <1>3, <1>g, <1>x DEF AbandonVoid, At, Abandoning
  <2>2. StripeInv'
    BY <1>3, <2>1 DEF AbandonVoid, Void, TypeInv, StripeInv
  <2> QED
    BY <1>3, <2>1, <2>2 DEF AbandonVoid, TypeInv, mirror, MirrorInv, EventInv, PanelInv
<1>4. CASE AbandonCancel(i)
  <2>1. SlotInv' /\ s[i].x \in Sub
    BY <1>4, <1>g, <1>x DEF AbandonCancel, At, Abandoning
  <2>2. EventInv' /\ stripe' \in [Sub -> Snap] /\ changes' \in 0..MaxChange
    <3>1. CASE BecomesStatus(s[i].x, "canceled")
      BY <2>1, <3>1, BecomesStatusTyped DEF Status
    <3>2. CASE UNCHANGED <<stripe, changes, events>>
      BY <3>2 DEF TypeInv, EventInv, StripeInv
    <3> QED
      BY <1>4, <3>1, <3>2 DEF AbandonCancel
  <2> QED
    BY <1>4, <2>1, <2>2 DEF AbandonCancel, TypeInv, StripeInv, mirror, MirrorInv, PanelInv
<1>5. CASE AbandonDelete(i)
  <2>1. s[i].x \in Sub
    BY <1>5, <1>x DEF AbandonDelete, At, Abandoning
  <2>2. SlotInv' /\ MirrorInv'
    BY <1>5, <2>1, Returns, DropRowTyped DEF AbandonDelete, TypeInv
  <2> QED
    BY <1>5, <2>2 DEF AbandonDelete, TypeInv, external, StripeInv, EventInv, PanelInv
<1> QED
  BY <1>1, <1>2, <1>3, <1>4, <1>5

LEMMA TypePlan ==
  ASSUME TypeInv, NEW i \in Slot,
         \/ \E b \in Tab, p \in Price : StartChange(i, b, p)
         \/ \E b \in Tab, e \in BOOLEAN : StartCancel(i, b, e)
         \/ ChangeUpdate(i) \/ ChangeUpsert(i) \/ CancelUpdate(i)
  PROVE  TypeInv'
<1>s. s[i] \in SlotRec /\ Carries(s[i])
  BY DEF TypeInv, SlotInv
<1>x. s[i].pc \in Planning => s[i].x \in Sub /\ s[i].tab \in Tab
  BY <1>s DEF Carries
<1>l. Latest = NoSub \/ Latest \in Sub
  BY LatestIsRow DEF TypeInv
<1>p. ASSUME NEW r \in SlotRec, r.pc \in {"chUpdate", "caUpdate"}, r.x \in Sub, r.tab \in Tab
      PROVE  Carries(r)
  BY <1>p DEF Carries, Abandoning, Buying, Planning
<1>1. ASSUME NEW b \in Tab, NEW p \in Price, StartChange(i, b, p) PROVE TypeInv'
  <2> DEFINE r == [Idle EXCEPT !.pc = "chUpdate", !.tab = b, !.x = Latest, !.price = p]
  <2>1. Latest \in Sub
    BY <1>1, TierTyped DEF StartChange, TypeInv
  <2>2. r \in SlotRec /\ r.pc = "chUpdate" /\ r.x \in Sub /\ r.tab \in Tab
    BY <2>1, IdleTyped DEF SlotRec, PC, Idle
  <2>3. s' = [s EXCEPT ![i] = r]
    BY <1>1 DEF StartChange
  <2> HIDE DEF r
  <2> QED
    BY <1>1, <1>p, <2>2, <2>3, SlotMoves, Alone DEF StartChange, TypeInv, PanelInv
<1>2. ASSUME NEW b \in Tab, NEW e \in BOOLEAN, StartCancel(i, b, e) PROVE TypeInv'
  <2> DEFINE r == [Idle EXCEPT !.pc = "caUpdate", !.tab = b, !.x = Latest, !.ends = e]
  <2>1. Latest \in Sub
    BY <1>2, <1>l DEF StartCancel
  <2>2. r \in SlotRec /\ r.pc = "caUpdate" /\ r.x \in Sub /\ r.tab \in Tab
    BY <2>1, IdleTyped DEF SlotRec, PC, Idle
  <2>3. s' = [s EXCEPT ![i] = r]
    BY <1>2 DEF StartCancel
  <2> HIDE DEF r
  <2> QED
    BY <1>2, <1>p, <2>2, <2>3, SlotMoves, Alone DEF StartCancel, TypeInv, PanelInv
<1>3. CASE ChangeUpdate(i)
  <2> DEFINE x    == s[i].x
             snap == [stripe[x] EXCEPT !.price = s[i].price]
  <2>1. x \in Sub /\ s[i].tab \in Tab
    BY <1>3, <1>x DEF ChangeUpdate, At, Planning
  <2>2. CASE /\ Alive(x) /\ Becomes(x, snap) /\ ending' = ending \ {x}
             /\ s' = [s EXCEPT ![i].pc = "chUpsert", ![i].list[x] = snap]
    <3>1. snap \in Snap /\ Exists(snap)
      BY <1>s, <2>1, <2>2 DEF TypeInv, StripeInv, Snap, SlotRec, Exists, Alive
    <3> DEFINE r == [s[i] EXCEPT !.pc = "chUpsert", !.list[x] = snap]
    <3> HIDE DEF snap
    <3>2. EventInv' /\ stripe' \in [Sub -> Snap] /\ changes' \in 0..MaxChange
      BY <2>1, <2>2, <3>1, BecomesTyped
    <3>3. /\ r \in SlotRec /\ r.pc = "chUpsert" /\ r.x = x /\ r.tab = s[i].tab /\ r.list[x] = snap
          /\ s' = [s EXCEPT ![i] = r]
      BY <1>s, <2>1, <2>2, <3>1 DEF SlotRec, PC, TypeInv, SlotInv
    <3> HIDE DEF r
    <3>4. Carries(r)
      BY <2>1, <3>1, <3>3 DEF Carries, Abandoning, Buying, Planning
    <3>5. SlotInv'
      BY <3>3, <3>4, SlotMoves DEF TypeInv
    <3> QED
      BY <1>3, <2>2, <3>2, <3>5 DEF ChangeUpdate, TypeInv, StripeInv, mirror, MirrorInv, PanelInv
  <2>3. CASE Return(i) /\ UNCHANGED <<stripe, ending, changes, events>>
    <3>1. SlotInv'
      BY <2>3, Returns DEF TypeInv
    <3> QED
      BY <1>3, <2>3, <3>1 DEF ChangeUpdate, TypeInv, StripeInv, EventInv, mirror, MirrorInv, PanelInv
  <2> QED
    BY <1>3, <2>2, <2>3 DEF ChangeUpdate
<1>4. CASE ChangeUpsert(i)
  <2>1. s[i].x \in Sub /\ s[i].list[s[i].x] \in Snap /\ Exists(s[i].list[s[i].x])
    BY <1>4, <1>s DEF ChangeUpsert, At, Carries, Planning, SlotRec
  <2>2. SlotInv' /\ MirrorInv'
    BY <1>4, <2>1, Returns, UpsertTyped DEF ChangeUpsert, TypeInv
  <2> QED
    BY <1>4, <2>2 DEF ChangeUpsert, TypeInv, external, StripeInv, EventInv, PanelInv
<1>5. CASE CancelUpdate(i)
  <2>1. s[i].x \in Sub
    BY <1>5, <1>x DEF CancelUpdate, At, Planning
  <2>2. SlotInv'
    BY <1>5, Returns DEF CancelUpdate, TypeInv
  <2>3. CASE /\ Alive(s[i].x) \/ Is(s[i].x, "incomplete")
             /\ Emits(<<s[i].x, stripe[s[i].x]>>)
             /\ ending' = IF s[i].ends THEN ending \cup {s[i].x} ELSE ending \ {s[i].x}
    <3>1. stripe[s[i].x] \in Snap /\ Exists(stripe[s[i].x])
      BY <2>1, <2>3 DEF TypeInv, StripeInv, Exists, Alive, Is
    <3>2. EventInv'
      BY <2>1, <2>3, <3>1, EmitsTyped DEF TypeInv
    <3> QED
      BY <1>5, <2>1, <2>2, <2>3, <3>2 DEF CancelUpdate, TypeInv, StripeInv, mirror, MirrorInv, PanelInv
  <2>4. CASE UNCHANGED <<ending, events>>
    BY <1>5, <2>2, <2>4 DEF CancelUpdate, TypeInv, StripeInv, EventInv, mirror, MirrorInv, PanelInv
  <2> QED
    BY <1>5, <2>3, <2>4 DEF CancelUpdate
<1> QED
  BY <1>1, <1>2, <1>3, <1>4, <1>5

\* The steps of Next, by who takes them.
LEMMA Actors ==
  ASSUME Next
  PROVE  \/ Stripe
         \/ \E b \in Tab : Confirm(b) \/ Remount(b)
         \/ \E i \in Slot :
              \/ (\E b \in Tab : StartStatus(i, b))
              \/ (\E b \in Tab, p \in Price, x \in Sub \cup {NoSub} : StartCheckout(i, b, p, x))
              \/ (\E b \in Tab : Close(i, b))
              \/ (\E b \in Tab, p \in Price : StartChange(i, b, p))
              \/ (\E b \in Tab, e \in BOOLEAN : StartCancel(i, b, e))
              \/ Step(i)
BY DEF Next, Begin

LEMMA TypeNext == TypeInv /\ [Next]_vars => TypeInv'
<1> SUFFICES ASSUME TypeInv, [Next]_vars PROVE TypeInv'
  OBVIOUS
<1>1. CASE UNCHANGED vars
  BY <1>1 DEF vars, external, mirror, TypeInv, StripeInv, MirrorInv, EventInv, PanelInv, SlotInv
<1>2. CASE Next
  BY <1>2, Actors, TypeStripe, TypeTab, TypeStatus, TypeCheckout, TypeAbandon, TypePlan DEF Step
<1> QED
  BY <1>1, <1>2

LEMMA Typed == Spec => []TypeInv
<1> QED
  BY TypeInit, TypeNext, PTL DEF Spec

LEMMA HistoryNext == TypeInv /\ HistoryInv /\ [Next]_vars => HistoryInv'
<1> SUFFICES ASSUME TypeInv, HistoryInv, [Next]_vars PROVE HistoryInv'
  OBVIOUS
<1>1. CASE UNCHANGED history
  BY <1>1 DEF history, HistoryInv
<1>2. CASE Stripe
  BY <1>2 DEF Stripe, PaySucceeds, PayFails, EndPeriod, Dunning, Webhook, history, HistoryInv
<1>3. ASSUME NEW i \in Slot, AbandonCancel(i) \/ ChangeUpdate(i) \/ ChangeUpsert(i) \/ CancelUpdate(i)
      PROVE  HistoryInv'
  <2>1. CancelUpdate(i) => s[i].x \in Sub
    BY DEF CancelUpdate, At, TypeInv, SlotInv, Carries, Planning
  <2> QED
    BY <1>3, <2>1 DEF AbandonCancel, ChangeUpdate, ChangeUpsert, CancelUpdate, HistoryInv
<1>4. CASE \E b \in Tab : Confirm(b) \/ Remount(b)
  BY <1>1, <1>4 DEF Confirm, Remount
<1>5. ASSUME NEW i \in Slot, Step(i)
      PROVE  HistoryInv'
  BY <1>1, <1>3, <1>5
  DEF Step, StatusUpsert, StatusAnswer, CheckoutVoid, CheckoutCancel, CheckoutDelete, CheckoutCreate,
      CheckoutFails, CheckoutUpsert, AbandonRetrieve, AbandonVoid, AbandonDelete
<1>6. CASE UNCHANGED vars
  BY <1>1, <1>6 DEF vars
<1> QED
  BY <1>1, <1>2, <1>4, <1>5, <1>6, Actors
  DEF StartStatus, StartCheckout, Close, StartChange, StartCancel

\* Every row is of a subscription that exists, there is one for each that has a
\* row, in the order of creation, and no event is of anything else: what the
\* webhook, status, checkout, change-plan and the clean-ups write is of its type.
THEOREM TypeCorrect == Spec => []TypeOK
<1>1. Init => HistoryInv
  BY DEF Init, HistoryInv
<1> QED
  BY <1>1, Typed, HistoryNext, TypeInvOK, PTL DEF Spec
-----------------------------------------------------------------------------
(* Clean-ups of unpaid checkouts and subscriptions that get paid.          *)

\* What a change at Stripe does to the statuses.
LEMMA StatusChanges ==
  ASSUME TypeInv, NEW x \in Sub
  PROVE  /\ \A snap \in Snap : Becomes(x, snap) =>
              stripe'[x] = snap /\ \A y \in Sub \ {x} : stripe'[y] = stripe[y]
         /\ \A st \in Status : BecomesStatus(x, st) =>
              stripe'[x].status = st /\ \A y \in Sub \ {x} : stripe'[y] = stripe[y]
<1>1. \A snap : Becomes(x, snap) =>
        stripe'[x] = snap /\ \A y \in Sub \ {x} : stripe'[y] = stripe[y]
  BY DEF Becomes, TypeInv, StripeInv
<1>2. \A st \in Status : [stripe[x] EXCEPT !.status = st].status = st
  BY DEF TypeInv, StripeInv, Snap
<1> QED
  BY <1>1, <1>2 DEF BecomesStatus

\* The other requests stay where they are when that of slot i moves.
LEMMA OthersStay ==
  ASSUME TypeInv, NEW i \in Slot, NEW r, s' = [s EXCEPT ![i] = r]
  PROVE  s'[i] = r /\ \A k \in Slot \ {i} : s'[k] = s[k]
BY DEF TypeInv, SlotInv

\* Requests change one at a time, and only these steps lead where it matters.
LEMMA SlotChanges ==
  ASSUME TypeInv, NEW i \in Slot,
         \/ \E b \in Tab : StartStatus(i, b)
         \/ \E b \in Tab, p \in Price, x \in Sub \cup {NoSub} : StartCheckout(i, b, p, x)
         \/ (\E x \in Sub : StatusUpsert(i, x)) \/ StatusAnswer(i)
         \/ CheckoutDelete(i) \/ CheckoutFails(i) \/ CheckoutUpsert(i)
         \/ (\E x \in Sub : CheckoutCreate(i, x))
  PROVE  /\ \A k \in Slot \ {i} : s'[k] = s[k]
         /\ s'[i].pc \notin {"coCancel", "abVoid", "abCancel"} \cup Planning
<1> USE DEF Planning
<1>s. s[i] \in SlotRec
  BY DEF TypeInv, SlotInv
<1>i. Idle.pc = "idle" /\ Idle \in SlotRec
  BY IdleTyped DEF Idle
<1>1. ASSUME NEW b \in Tab, StartStatus(i, b)
      PROVE  (\A k \in Slot \ {i} : s'[k] = s[k]) /\ s'[i].pc = "stUpsert"
  <2>1. \E r : r.pc = "stUpsert" /\ s' = [s EXCEPT ![i] = r]
    BY <1>1, <1>i DEF StartStatus, SlotRec
  <2> QED
    BY <2>1, OthersStay
<1>2. ASSUME NEW r \in SlotRec, s' = [s EXCEPT ![i] = [r EXCEPT !.pc = AfterStale(r)]]
      PROVE  /\ \A k \in Slot \ {i} : s'[k] = s[k]
             /\ s'[i].pc \in {"coVoid", "coCreate", "coUpsert"}
  <2>1. [r EXCEPT !.pc = AfterStale(r)].pc = AfterStale(r)
    BY DEF SlotRec
  <2> QED
    BY <1>2, <2>1, OthersStay DEF AfterStale
<1>3. ASSUME NEW b \in Tab, NEW p \in Price, NEW x \in Sub \cup {NoSub}, StartCheckout(i, b, p, x)
      PROVE  /\ \A k \in Slot \ {i} : s'[k] = s[k]
             /\ s'[i].pc \in {"coVoid", "coCreate", "coUpsert"}
  <2> DEFINE found == {y \in Sub : Is(y, "incomplete")}
             r     == [Idle EXCEPT !.tab = b, !.price = p, !.x = x, !.todo = found \ {x},
                                   !.list = [y \in Sub |-> IF y = x THEN stripe[y] ELSE None]]
  <2>1. r \in SlotRec
    BY IdleTyped, Bounds DEF SlotRec, TypeInv, StripeInv
  <2>2. s' = [s EXCEPT ![i] = [r EXCEPT !.pc = AfterStale(r)]]
    BY <1>3 DEF StartCheckout
  <2> HIDE DEF r
  <2> QED
    BY <1>2, <2>1, <2>2
<1>4. ASSUME NEW x \in Sub, StatusUpsert(i, x)
      PROVE  (\A k \in Slot \ {i} : s'[k] = s[k]) /\ s'[i].pc = "stUpsert"
  BY <1>4, <1>s DEF StatusUpsert, At, TypeInv, SlotInv, SlotRec
<1>5. CASE CheckoutDelete(i)
  <2> DEFINE r == [s[i] EXCEPT !.todo = @ \ {s[i].cur}, !.cur = NoSub]
  <2>1. r \in SlotRec
    BY <1>s DEF SlotRec
  <2>2. s' = [s EXCEPT ![i] = [r EXCEPT !.pc = AfterStale(r)]]
    BY <1>5 DEF CheckoutDelete, NextStale
  <2> HIDE DEF r
  <2> QED
    BY <1>2, <2>1, <2>2
<1>6. CASE StatusAnswer(i) \/ CheckoutFails(i) \/ CheckoutUpsert(i)
  <2>1. s' = [s EXCEPT ![i] = Idle]
    BY <1>6 DEF StatusAnswer, CheckoutFails, CheckoutUpsert, Return
  <2> QED
    BY <1>i, <2>1, OthersStay
<1>7. ASSUME NEW x \in Sub, CheckoutCreate(i, x)
      PROVE  (\A k \in Slot \ {i} : s'[k] = s[k]) /\ s'[i].pc = "coUpsert"
  BY <1>7, <1>s DEF CheckoutCreate, TypeInv, SlotInv, SlotRec
<1> QED
  BY <1>1, <1>3, <1>4, <1>5, <1>6, <1>7
LEMMA Acted ==
  ASSUME TypeInv, NEW i \in Slot
  PROVE  /\ s[i].pc \in {"abVoid", "abCancel"} \cup Planning => s[i].x \in Sub
         /\ s[i].pc \in {"coCancel"} => s[i].cur \in Sub
BY DEF TypeInv, SlotInv, Carries, Abandoning

LEMMA PaidFrame ==
  ASSUME TypeInv, PaidInv, void' = void, \A x \in Sub : Unpaid(x) => Unpaid(x)',
         \A k \in late : k \in late' \/ s'[k].pc = "abDelete",
         \A k \in Slot : s'[k].pc \in {"coCancel", "abVoid", "abCancel"} => s'[k] = s[k]
  PROVE  PaidInv'
<1>1. \A x \in void' : Unpaid(x)'
  BY DEF PaidInv, TypeInv, StripeInv
<1>2. ASSUME NEW k \in Slot
      PROVE  /\ s'[k].pc = "coCancel" => s'[k].cur \in void'
             /\ s'[k].pc \in {"abVoid", "abCancel"}
                  => stripe'[s'[k].x].status \in {"incomplete", "canceled"} \/ k \in late'
  BY Acted DEF PaidInv, Unpaid
<1> QED
  BY <1>1, <1>2 DEF PaidInv, Unpaid

LEMMA PaidStripe ==
  ASSUME TypeInv, PaidInv, Stripe
  PROVE  PaidInv'
<1>1. ASSUME NEW x \in Sub, PaySucceeds(x) PROVE PaidInv'
  <2>1. x \notin void /\ void' = void /\ s' = s
    BY <1>1 DEF PaySucceeds, Open
  <2>2. \A i \in Slot : s[i].pc \in {"abVoid", "abCancel"}
                            => i \in late' \/ (s[i].x \in Sub \ {x} /\ (i \in late => i \in late'))
    BY <1>1, Acted DEF PaySucceeds
  <2>3. \A y \in Sub \ {x} : stripe'[y] = stripe[y]
    BY <1>1, StatusChanges DEF PaySucceeds, Status
  <2> QED
    BY <2>1, <2>2, <2>3 DEF PaidInv, Unpaid, TypeInv, StripeInv
<1>2. ASSUME NEW x \in Sub, PayFails(x) PROVE PaidInv'
  BY <1>2, PaidFrame DEF PayFails, history, Unpaid
<1>3. ASSUME NEW x \in Sub, EndPeriod(x) PROVE PaidInv'
  <2>1. stripe'[x].status = "canceled" /\ \A y \in Sub \ {x} : stripe'[y] = stripe[y]
    BY <1>3, StatusChanges DEF EndPeriod, Status
  <2> QED
    BY <1>3, <2>1, PaidFrame DEF EndPeriod, Unpaid
<1>4. ASSUME NEW x \in Sub, Dunning(x) PROVE PaidInv'
  <2>1. ~Unpaid(x)
    BY <1>4 DEF Dunning, Is, Unpaid
  <2>2. \A y \in Sub \ {x} : stripe'[y] = stripe[y]
    BY <1>4, StatusChanges DEF Dunning, Status
  <2> QED
    BY <1>4, <2>1, <2>2, PaidFrame DEF Dunning, history, Unpaid
<1>5. ASSUME NEW e \in events, Webhook(e) PROVE PaidInv'
  BY <1>5, PaidFrame DEF Webhook, history, Unpaid
<1> QED
  BY <1>1, <1>2, <1>3, <1>4, <1>5 DEF Stripe

LEMMA PaidOther ==
  ASSUME TypeInv, PaidInv, NEW i \in Slot,
         \/ \E b \in Tab : StartStatus(i, b)
         \/ \E b \in Tab, p \in Price, x \in Sub \cup {NoSub} : StartCheckout(i, b, p, x)
         \/ (\E x \in Sub : StatusUpsert(i, x)) \/ StatusAnswer(i)
         \/ CheckoutDelete(i) \/ CheckoutFails(i) \/ CheckoutUpsert(i)
         \/ (\E x \in Sub : CheckoutCreate(i, x))
  PROVE  PaidInv'
<1>1. /\ \A k \in Slot \ {i} : s'[k] = s[k]
      /\ s'[i].pc \notin {"coCancel", "abVoid", "abCancel"}
  BY SlotChanges
<1>2. void' = void /\ late' = late
  BY DEF StartStatus, StartCheckout, StatusUpsert, StatusAnswer, CheckoutDelete, CheckoutFails,
         CheckoutUpsert, CheckoutCreate, external, history
<1>3. \A x \in Sub : Unpaid(x) => Unpaid(x)'
  <2>1. ASSUME NEW x \in Sub, CheckoutCreate(i, x) PROVE \A y \in Sub : Unpaid(y) => Unpaid(y)'
    <3>1. stripe'[x].status = "incomplete" /\ \A y \in Sub \ {x} : stripe'[y] = stripe[y]
      BY <2>1 DEF CheckoutCreate, Becomes, TypeInv, StripeInv
    <3> QED
      BY <3>1 DEF Unpaid
  <2>2. CASE UNCHANGED external
    BY <2>2 DEF external, Unpaid
  <2> QED
    BY <2>1, <2>2 DEF StartStatus, StartCheckout, StatusUpsert, StatusAnswer, CheckoutDelete,
                      CheckoutFails, CheckoutUpsert
<1> QED
  BY <1>1, <1>2, <1>3, PaidFrame

LEMMA PaidCheckout ==
  ASSUME TypeInv, PaidInv, NEW i \in Slot,
         (\E y \in Sub : CheckoutVoid(i, y)) \/ CheckoutCancel(i)
  PROVE  PaidInv'
<1>s. s[i] \in SlotRec
  BY DEF TypeInv, SlotInv
<1>1. ASSUME NEW y \in Sub, CheckoutVoid(i, y) PROVE PaidInv'
  <2>1. CASE Open(y) /\ Void(y) /\ s' = [s EXCEPT ![i].pc = "coCancel", ![i].cur = y]
    <3>1. /\ s'[i].pc = "coCancel" /\ s'[i].cur = y /\ \A k \in Slot \ {i} : s'[k] = s[k]
          /\ void' = void \cup {y} /\ stripe' = stripe /\ late' = late /\ Unpaid(y)
      BY <1>1, <1>s, <2>1 DEF CheckoutVoid, Void, Open, Is, history, Unpaid, TypeInv, SlotInv, SlotRec
    <3>2. \A x \in void' : Unpaid(x)'
      BY <3>1 DEF PaidInv, Unpaid
    <3>3. ASSUME NEW k \in Slot
          PROVE  /\ s'[k].pc = "coCancel" => s'[k].cur \in void'
                 /\ s'[k].pc \in {"abVoid", "abCancel"}
                      => stripe'[s'[k].x].status \in {"incomplete", "canceled"} \/ k \in late'
      <4>1. CASE k = i
        BY <3>1, <4>1
      <4>2. CASE k # i
        BY <3>1, <4>2 DEF PaidInv, Unpaid
      <4> QED
        BY <4>1, <4>2
    <3> QED
      BY <3>2, <3>3 DEF PaidInv, Unpaid
  <2>2. CASE /\ UNCHANGED <<void, paying>>
             /\ LET r == [s[i] EXCEPT !.todo = @ \ {y}]
                IN s' = [s EXCEPT ![i] = [r EXCEPT !.pc = AfterStale(r)]]
    <3> DEFINE r == [s[i] EXCEPT !.todo = @ \ {y}]
    <3>1. s'[i].pc = AfterStale(r) /\ \A k \in Slot \ {i} : s'[k] = s[k]
      BY <1>s, <2>2 DEF TypeInv, SlotInv, SlotRec
    <3>2. AfterStale(r) \notin {"coCancel", "abVoid", "abCancel"}
      BY DEF AfterStale
    <3> HIDE DEF r
    <3> QED
      BY <1>1, <2>2, <3>1, <3>2, PaidFrame DEF CheckoutVoid, history, Unpaid
  <2> QED
    BY <1>1, <2>1, <2>2 DEF CheckoutVoid
<1>2. CASE CheckoutCancel(i)
  <2>1. s[i].cur \in Sub
    BY <1>2, Acted DEF CheckoutCancel, At
  <2>2. \A x \in Sub : Unpaid(x) => Unpaid(x)'
    <3>1. CASE BecomesStatus(s[i].cur, "canceled")
      BY <2>1, <3>1, StatusChanges DEF Unpaid, Status
    <3>2. CASE stripe' = stripe
      BY <3>2 DEF Unpaid
    <3> QED
      BY <1>2, <3>1, <3>2 DEF CheckoutCancel
  <2>3. s'[i].pc \notin {"coCancel", "abVoid", "abCancel"} /\ \A k \in Slot \ {i} : s'[k] = s[k]
    <3>1. CASE Goto(i, "coDelete")
      BY <1>s, <3>1 DEF Goto, TypeInv, SlotInv, SlotRec
    <3>2. CASE NextStale(i)
      <4> DEFINE r == [s[i] EXCEPT !.todo = @ \ {s[i].cur}, !.cur = NoSub]
      <4>1. s'[i].pc = AfterStale(r) /\ \A k \in Slot \ {i} : s'[k] = s[k]
        BY <1>s, <3>2 DEF NextStale, TypeInv, SlotInv, SlotRec
      <4>2. AfterStale(r) \notin {"coCancel", "abVoid", "abCancel"}
        BY DEF AfterStale
      <4> HIDE DEF r
      <4> QED
        BY <4>1, <4>2
    <3> QED
      BY <1>2, <3>1, <3>2 DEF CheckoutCancel
  <2> QED
    BY <1>2, <2>2, <2>3, PaidFrame DEF CheckoutCancel, history
<1> QED
  BY <1>1, <1>2

LEMMA PaidAbandon ==
  ASSUME TypeInv, PaidInv, NEW i \in Slot,
         \/ \E b \in Tab : Close(i, b)
         \/ AbandonRetrieve(i) \/ AbandonVoid(i) \/ AbandonCancel(i) \/ AbandonDelete(i)
  PROVE  PaidInv'
<1>s. s[i] \in SlotRec
  BY DEF TypeInv, SlotInv
<1>i. Idle.pc = "idle" /\ Idle \in SlotRec
  BY IdleTyped DEF Idle
<1>g. ASSUME NEW p, Goto(i, p)
      PROVE  s'[i].pc = p /\ s'[i].x = s[i].x /\ \A k \in Slot \ {i} : s'[k] = s[k]
  BY <1>s, <1>g DEF Goto, TypeInv, SlotInv, SlotRec
<1>r. ASSUME Return(i)
      PROVE  s'[i].pc = "idle" /\ \A k \in Slot \ {i} : s'[k] = s[k]
  BY <1>i, <1>r, OthersStay DEF Return
<1>1. ASSUME NEW b \in Tab, Close(i, b) PROVE PaidInv'
  <2> DEFINE r == [Idle EXCEPT !.pc = "abRetrieve", !.x = panel[b].sub]
  <2>1. r.pc = "abRetrieve"
    BY DEF Idle
  <2>2. s' \in {s, [s EXCEPT ![i] = r]}
    BY <1>1 DEF Close
  <2> HIDE DEF r
  <2>3. \A k \in Slot : s'[k].pc \in {"coCancel", "abVoid", "abCancel"} => s'[k] = s[k]
    BY <2>1, <2>2, OthersStay
  <2> QED
    BY <1>1, <2>3, PaidFrame DEF Close, external, history, Unpaid
<1>2. CASE AbandonRetrieve(i)
  <2>1. stripe' = stripe /\ void' = void /\ late' = late
    BY <1>2 DEF AbandonRetrieve, external, history
  <2>2. CASE Is(s[i].x, "incomplete") /\ Goto(i, "abVoid")
    <3>1. /\ s'[i].pc = "abVoid" /\ s'[i].x = s[i].x /\ \A k \in Slot \ {i} : s'[k] = s[k]
          /\ Unpaid(s[i].x)
      BY <1>g, <2>2 DEF Unpaid, Is
    <3> QED
      BY <2>1, <3>1 DEF PaidInv, Unpaid
  <2>3. CASE Return(i)
    BY <1>r, <2>1, <2>3, PaidFrame DEF Unpaid
  <2> QED
    BY <1>2, <2>2, <2>3 DEF AbandonRetrieve
<1>3. CASE AbandonVoid(i)
  <2>1. /\ s'[i].pc = "abCancel" /\ s'[i].x = s[i].x /\ \A k \in Slot \ {i} : s'[k] = s[k]
        /\ stripe' = stripe /\ late' = late
    BY <1>3, <1>g DEF AbandonVoid, history
  <2>2. Unpaid(s[i].x) \/ i \in late
    BY <1>3 DEF AbandonVoid, At, PaidInv
  <2>3. void \subseteq void' /\ \A x \in void' : Unpaid(x)
    BY <1>3 DEF AbandonVoid, Void, Open, Is, PaidInv, Unpaid
  <2> QED
    BY <2>1, <2>2, <2>3 DEF PaidInv, Unpaid
<1>4. CASE AbandonCancel(i)
  <2>1. s[i].x \in Sub
    BY <1>4, Acted DEF AbandonCancel, At
  <2>2. \A x \in Sub : Unpaid(x) => Unpaid(x)'
    <3>1. CASE BecomesStatus(s[i].x, "canceled")
      BY <2>1, <3>1, StatusChanges DEF Unpaid, Status
    <3>2. CASE stripe' = stripe
      BY <3>2 DEF Unpaid
    <3> QED
      BY <1>4, <3>1, <3>2 DEF AbandonCancel
  <2>3. s'[i].pc = "abDelete" /\ \A k \in Slot \ {i} : s'[k] = s[k]
    BY <1>4, <1>g DEF AbandonCancel
  <2> QED
    BY <1>4, <2>2, <2>3, PaidFrame DEF AbandonCancel
<1>5. CASE AbandonDelete(i)
  BY <1>5, <1>r, PaidFrame DEF AbandonDelete, external, history, Unpaid
<1> QED
  BY <1>1, <1>2, <1>3, <1>4, <1>5

\* The requests of change-plan and cancel.
LEMMA PlanMoves ==
  ASSUME TypeInv, NEW i \in Slot,
         \/ \E b \in Tab, p \in Price : StartChange(i, b, p)
         \/ \E b \in Tab, e \in BOOLEAN : StartCancel(i, b, e)
         \/ ChangeUpdate(i) \/ ChangeUpsert(i) \/ CancelUpdate(i)
  PROVE  s'[i].pc \in {"idle"} \cup Planning /\ \A k \in Slot \ {i} : s'[k] = s[k]
<1>s. s[i] \in SlotRec
  BY DEF TypeInv, SlotInv
<1>i. Idle.pc = "idle" /\ Idle \in SlotRec
  BY IdleTyped DEF Idle
<1>1. ASSUME NEW b \in Tab, NEW p \in Price, StartChange(i, b, p)
      PROVE  s'[i].pc = "chUpdate" /\ \A k \in Slot \ {i} : s'[k] = s[k]
  BY <1>1, <1>i DEF StartChange, TypeInv, SlotInv, SlotRec
<1>2. ASSUME NEW b \in Tab, NEW e \in BOOLEAN, StartCancel(i, b, e)
      PROVE  s'[i].pc = "caUpdate" /\ \A k \in Slot \ {i} : s'[k] = s[k]
  BY <1>2, <1>i DEF StartCancel, TypeInv, SlotInv, SlotRec
<1>3. CASE Return(i)
  BY <1>3, <1>i, OthersStay DEF Return
<1>4. ASSUME NEW x, NEW snap, s' = [s EXCEPT ![i].pc = "chUpsert", ![i].list[x] = snap]
      PROVE  s'[i].pc = "chUpsert" /\ \A k \in Slot \ {i} : s'[k] = s[k]
  BY <1>4, <1>s DEF TypeInv, SlotInv, SlotRec
<1> QED
  BY <1>1, <1>2, <1>3, <1>4 DEF Planning, ChangeUpdate, ChangeUpsert, CancelUpdate

LEMMA PaidPlan ==
  ASSUME TypeInv, PaidInv, NEW i \in Slot,
         \/ \E b \in Tab, p \in Price : StartChange(i, b, p)
         \/ \E b \in Tab, e \in BOOLEAN : StartCancel(i, b, e)
         \/ ChangeUpdate(i) \/ ChangeUpsert(i) \/ CancelUpdate(i)
  PROVE  PaidInv'
<1>1. /\ s'[i].pc \notin {"coCancel", "abVoid", "abCancel"}
      /\ \A k \in Slot \ {i} : s'[k] = s[k]
  BY PlanMoves DEF Planning
<1>2. void' = void /\ late' = late
  BY DEF StartChange, StartCancel, ChangeUpdate, ChangeUpsert, CancelUpdate, external, history
<1>3. \A x \in Sub : Unpaid(x) => Unpaid(x)'
  <2>1. CASE ChangeUpdate(i)
    <3> DEFINE x    == s[i].x
               snap == [stripe[x] EXCEPT !.price = s[i].price]
    <3>1. CASE stripe' = stripe
      BY <3>1 DEF Unpaid
    <3>2. CASE Alive(x) /\ Becomes(x, snap)
      <4>1. x \in Sub /\ ~Unpaid(x)
        BY <2>1, <3>2, Acted DEF ChangeUpdate, At, Planning, Alive, Unpaid
      <4>2. \A y \in Sub \ {x} : stripe'[y] = stripe[y]
        BY <3>2, <4>1 DEF Becomes, TypeInv, StripeInv
      <4> QED
        BY <4>1, <4>2 DEF Unpaid
    <3> QED
      BY <2>1, <3>1, <3>2 DEF ChangeUpdate
  <2>2. CASE stripe' = stripe
    BY <2>2 DEF Unpaid
  <2> QED
    BY <2>1, <2>2 DEF StartChange, StartCancel, ChangeUpsert, CancelUpdate, external
<1> QED
  BY <1>1, <1>2, <1>3, PaidFrame

LEMMA PaidNext ==
  TypeInv /\ PaidInv /\ [Next]_vars => PaidInv'
<1> SUFFICES ASSUME TypeInv, PaidInv, [Next]_vars PROVE PaidInv'
  OBVIOUS
<1>1. CASE UNCHANGED vars
  BY <1>1 DEF vars, external, history, PaidInv, Unpaid
<1>2. CASE Stripe
  BY <1>2, PaidStripe
<1>3. ASSUME NEW b \in Tab, Confirm(b) \/ Remount(b) PROVE PaidInv'
  BY <1>3 DEF Confirm, Remount, external, history, PaidInv, Unpaid
<1>4. ASSUME NEW i \in Slot, Step(i) PROVE PaidInv'
  BY <1>4, PaidOther, PaidCheckout, PaidAbandon, PaidPlan DEF Step
<1>5. ASSUME NEW i \in Slot, NEW b \in Tab,
             \/ StartStatus(i, b)
             \/ (\E p \in Price, x \in Sub \cup {NoSub} : StartCheckout(i, b, p, x))
             \/ Close(i, b)
             \/ (\E p \in Price : StartChange(i, b, p)) \/ (\E e \in BOOLEAN : StartCancel(i, b, e))
      PROVE  PaidInv'
  BY <1>5, PaidOther, PaidAbandon, PaidPlan
<1> QED
  BY <1>1, <1>2, <1>3, <1>4, <1>5, Actors

\* The step that PaidIsSpared is about.
LEMMA Spares ==
  ASSUME TypeInv, PaidInv, Next, NEW x \in Sub, Is(x, "active"), stripe'[x].status = "canceled"
  PROVE  x \in ending \/ \E i \in late : s[i].x = x
<1>1. stripe'[x] # stripe[x]
  BY DEF Is
<1>2. ASSUME NEW y \in Sub, NEW st \in Status, BecomesStatus(y, st) PROVE y = x /\ st = "canceled"
  BY <1>1, <1>2, StatusChanges
<1>3. CASE Stripe
  BY <1>1, <1>2, <1>3 DEF Stripe, PaySucceeds, PayFails, EndPeriod, Dunning, Webhook, Is, Status
<1>4. ASSUME NEW i \in Slot, CheckoutCancel(i) PROVE FALSE
  <2>1. s[i].cur \in void /\ s[i].cur \in Sub
    BY <1>4, Acted DEF CheckoutCancel, At, PaidInv
  <2>2. s[i].cur = x
    BY <1>1, <1>2, <1>4, <2>1 DEF CheckoutCancel, Status
  <2> QED
    BY <2>1, <2>2 DEF PaidInv, Unpaid, Is
<1>5. ASSUME NEW i \in Slot, AbandonCancel(i) PROVE i \in late /\ s[i].x = x
  <2>1. (Unpaid(s[i].x) \/ i \in late) /\ s[i].x \in Sub
    BY <1>5, Acted DEF AbandonCancel, At, PaidInv
  <2>2. s[i].x = x
    BY <1>1, <1>2, <1>5, <2>1 DEF AbandonCancel, Status
  <2> QED
    BY <2>1, <2>2 DEF Unpaid, Is
<1>6. ASSUME NEW i \in Slot, NEW y \in Sub, CheckoutCreate(i, y) PROVE FALSE
  <2>1. stripe'[y].status = "incomplete" /\ \A z \in Sub \ {y} : stripe'[z] = stripe[z]
    BY <1>6 DEF CheckoutCreate, Becomes, TypeInv, StripeInv
  <2> QED
    BY <1>1, <2>1
<1>7. ASSUME NEW i \in Slot, ChangeUpdate(i) PROVE FALSE
  <2> DEFINE y    == s[i].x
             snap == [stripe[y] EXCEPT !.price = s[i].price]
  <2>1. y \in Sub /\ Alive(y) /\ Becomes(y, snap)
    BY <1>1, <1>7, Acted DEF ChangeUpdate, At, Planning
  <2>2. snap.status = stripe[y].status
    BY <2>1 DEF TypeInv, StripeInv, Snap
  <2>3. stripe'[y] = snap /\ \A z \in Sub \ {y} : stripe'[z] = stripe[z]
    BY <2>1 DEF Becomes, TypeInv, StripeInv
  <2> QED
    BY <1>1, <2>1, <2>2, <2>3 DEF Alive
<1>8. ASSUME NEW i \in Slot, Step(i) PROVE i \in late /\ s[i].x = x
  BY <1>1, <1>4, <1>5, <1>6, <1>7, <1>8
  DEF Step, StatusUpsert, StatusAnswer, CheckoutVoid, CheckoutDelete, CheckoutFails, CheckoutUpsert,
      AbandonRetrieve, AbandonVoid, AbandonDelete, ChangeUpsert, CancelUpdate, external
<1>9. stripe' # stripe
  BY <1>1
<1> QED
  BY <1>3, <1>8, <1>9, Actors
  DEF Confirm, Remount, StartStatus, StartCheckout, Close, StartChange, StartCancel, external

\* However checkouts, their clean-ups, payments and cancels interleave, a paid
\* subscription is canceled only at the end of a period for which the user asked
\* it, by Stripe for want of payment, or by a checkout-abandon that was between
\* reading the subscription and canceling it when the payment went through.
THEOREM PaidStaysPaid == Spec => PaidIsSpared
<1>1. Init => PaidInv
  BY DEF Init, PaidInv, Idle
<1>2. TypeInv /\ PaidInv /\ [Next]_vars =>
        [\A x \in Sub : Is(x, "active") /\ stripe'[x].status = "canceled"
           => x \in ending \/ \E i \in late : s[i].x = x]_vars
  BY Spares
<1> QED
  BY <1>1, <1>2, Typed, PaidNext, PTL DEF Spec, PaidIsSpared
-----------------------------------------------------------------------------
(* What users are told of cancels and plan changes.                        *)

\* Requests that are not change-plan or cancel never become one.
LEMMA PlanApart ==
  ASSUME TypeInv, NEW i \in Slot,
         \/ \E b \in Tab : StartStatus(i, b) \/ Close(i, b)
         \/ \E b \in Tab, p \in Price, x \in Sub \cup {NoSub} : StartCheckout(i, b, p, x)
         \/ (\E x \in Sub : StatusUpsert(i, x)) \/ StatusAnswer(i)
         \/ (\E y \in Sub : CheckoutVoid(i, y)) \/ CheckoutCancel(i) \/ CheckoutDelete(i)
         \/ (\E x \in Sub : CheckoutCreate(i, x)) \/ CheckoutFails(i) \/ CheckoutUpsert(i)
         \/ AbandonRetrieve(i) \/ AbandonVoid(i) \/ AbandonCancel(i) \/ AbandonDelete(i)
  PROVE  /\ \A k \in Slot \ {i} : s'[k] = s[k]
         /\ s[i].pc \notin Planning /\ s'[i].pc \notin Planning
<1>s. s[i] \in SlotRec
  BY DEF TypeInv, SlotInv
<1>i. Idle.pc = "idle" /\ Idle \in SlotRec
  BY IdleTyped DEF Idle
<1>0. s[i].pc \notin Planning
  BY DEF StartStatus, Close, StartCheckout, StatusUpsert, StatusAnswer, CheckoutVoid, CheckoutCancel,
         CheckoutDelete, CheckoutCreate, CheckoutFails, CheckoutUpsert, AbandonRetrieve, AbandonVoid,
         AbandonCancel, AbandonDelete, At, Planning
<1>g. ASSUME NEW p, p \notin Planning, Goto(i, p)
      PROVE  (\A k \in Slot \ {i} : s'[k] = s[k]) /\ s'[i].pc \notin Planning
  BY <1>s, <1>g DEF Goto, TypeInv, SlotInv, SlotRec
<1>r. ASSUME Return(i)
      PROVE  (\A k \in Slot \ {i} : s'[k] = s[k]) /\ s'[i].pc \notin Planning
  <2>1. s'[i] = Idle /\ \A k \in Slot \ {i} : s'[k] = s[k]
    BY <1>r, OthersStay DEF Return
  <2> QED
    BY <1>i, <2>1 DEF Planning
<1>a. ASSUME NEW r \in SlotRec, s' = [s EXCEPT ![i] = [r EXCEPT !.pc = AfterStale(r)]]
      PROVE  (\A k \in Slot \ {i} : s'[k] = s[k]) /\ s'[i].pc \notin Planning
  <2>1. [r EXCEPT !.pc = AfterStale(r)].pc = AfterStale(r)
    BY DEF SlotRec
  <2>2. AfterStale(r) \notin Planning
    BY DEF AfterStale, Planning
  <2> QED
    BY <1>a, <2>1, <2>2, OthersStay
<1>1. ASSUME NEW y \in Sub, CheckoutVoid(i, y)
      PROVE  (\A k \in Slot \ {i} : s'[k] = s[k]) /\ s'[i].pc \notin Planning
  <2> DEFINE r == [s[i] EXCEPT !.todo = @ \ {y}]
  <2>1. CASE s' = [s EXCEPT ![i].pc = "coCancel", ![i].cur = y]
    BY <1>s, <2>1 DEF TypeInv, SlotInv, SlotRec, Planning
  <2>2. CASE s' = [s EXCEPT ![i] = [r EXCEPT !.pc = AfterStale(r)]]
    <3>1. r \in SlotRec
      BY <1>s DEF SlotRec
    <3> HIDE DEF r
    <3> QED
      BY <1>a, <2>2, <3>1
  <2> QED
    BY <1>1, <2>1, <2>2 DEF CheckoutVoid
<1>2. CASE CheckoutCancel(i)
  <2> DEFINE r == [s[i] EXCEPT !.todo = @ \ {s[i].cur}, !.cur = NoSub]
  <2>1. CASE Goto(i, "coDelete")
    <3>1. "coDelete" \notin Planning
      BY DEF Planning
    <3> QED
      BY <1>0, <1>g, <2>1, <3>1
  <2>2. CASE s' = [s EXCEPT ![i] = [r EXCEPT !.pc = AfterStale(r)]]
    <3>1. r \in SlotRec
      BY <1>s DEF SlotRec
    <3> HIDE DEF r
    <3> QED
      BY <1>0, <1>a, <2>2, <3>1
  <2> QED
    BY <1>2, <2>1, <2>2 DEF CheckoutCancel, NextStale
<1>3. ASSUME NEW b \in Tab, Close(i, b)
      PROVE  (\A k \in Slot \ {i} : s'[k] = s[k]) /\ s'[i].pc \notin Planning
  <2> DEFINE r == [Idle EXCEPT !.pc = "abRetrieve", !.x = panel[b].sub]
  <2>1. r.pc = "abRetrieve" /\ s' \in {s, [s EXCEPT ![i] = r]}
    BY <1>3 DEF Close, Idle
  <2> HIDE DEF r
  <2> QED
    BY <1>0, <2>1, OthersStay DEF Planning
<1>4. CASE AbandonRetrieve(i) \/ AbandonVoid(i) \/ AbandonCancel(i) \/ AbandonDelete(i)
  <2>1. {"abVoid", "abCancel", "abDelete"} \cap Planning = {}
    BY DEF Planning
  <2>2. Return(i) \/ \E p \in {"abVoid", "abCancel", "abDelete"} : Goto(i, p)
    BY <1>4 DEF AbandonRetrieve, AbandonVoid, AbandonCancel, AbandonDelete
  <2> QED
    BY <1>0, <1>g, <1>r, <2>1, <2>2
<1> QED
  BY <1>0, <1>1, <1>2, <1>3, <1>4, SlotChanges

\* What Changing and the invariant depend on.
LEMMA ToldFrame ==
  ASSUME ToldInv, ending' = ending, told' = told, crossed' = crossed,
         \A k \in Slot : "chUpsert" \in {s[k].pc, s'[k].pc} => s'[k] = s[k]
  PROVE  ToldInv'
<1>1. \A x \in Sub : Changing(x)' <=> Changing(x)
  BY DEF Changing
<1> QED
  BY <1>1 DEF ToldInv

LEMMA ToldStart ==
  ASSUME TypeInv, ToldInv, NEW i \in Slot, NEW b \in Tab,
         (\E p \in Price : StartChange(i, b, p)) \/ (\E e \in BOOLEAN : StartCancel(i, b, e))
  PROVE  ToldInv'
<1>1. ending' = ending /\ UNCHANGED <<told, crossed>> /\ s[i].pc = "idle"
  BY DEF StartChange, StartCancel, external, history, At
<1>2. \A k \in Slot \ {i} : s'[k] = s[k]
  BY PlanMoves
<1>3. s'[i].pc \in {"chUpdate", "caUpdate"}
  <2>1. ASSUME NEW p \in Price, StartChange(i, b, p) PROVE s'[i].pc = "chUpdate"
    BY <2>1 DEF StartChange, Idle, TypeInv, SlotInv
  <2>2. ASSUME NEW e \in BOOLEAN, StartCancel(i, b, e) PROVE s'[i].pc = "caUpdate"
    BY <2>2 DEF StartCancel, Idle, TypeInv, SlotInv
  <2> QED
    BY <2>1, <2>2
<1> QED
  BY <1>1, <1>2, <1>3, ToldFrame

LEMMA ToldPlan ==
  ASSUME TypeInv, ToldInv, NEW i \in Slot,
         ChangeUpdate(i) \/ ChangeUpsert(i) \/ CancelUpdate(i)
  PROVE  ToldInv'
<1>s. s[i] \in SlotRec /\ Idle.pc = "idle"
  BY DEF TypeInv, SlotInv, Idle
<1>o. \A k \in Slot \ {i} : s'[k] = s[k]
  BY PlanMoves
<1>r. Return(i) => s'[i].pc = "idle"
  BY <1>s, OthersStay DEF Return
<1>1. CASE ChangeUpdate(i)
  <2>1. s[i].pc = "chUpdate" /\ told' = told
    BY <1>1 DEF ChangeUpdate, At
  <2>2. CASE Return(i) /\ UNCHANGED <<ending, crossed>>
    BY <1>o, <1>r, <2>1, <2>2, ToldFrame
  <2>3. CASE /\ ending' = ending \ {s[i].x} /\ crossed' = crossed \ {s[i].x}
             /\ \E snap : s' = [s EXCEPT ![i].pc = "chUpsert", ![i].list[s[i].x] = snap]
    <3>1. s'[i].pc = "chUpsert" /\ s'[i].x = s[i].x
      BY <1>s, <2>3 DEF TypeInv, SlotInv, SlotRec
    <3>2. \A x \in Sub \ {s[i].x} : Changing(x)' <=> Changing(x)
      BY <1>o, <2>1, <3>1 DEF Changing
    <3>3. \A x \in Sub : x = s[i].x => Changing(x)'
      BY <3>1 DEF Changing
    <3>4. ASSUME NEW x \in Sub \ crossed'
          PROVE  (Changing(x)' => x \notin ending') /\ (~Changing(x)' => (x \in ending' <=> x \in told'))
      <4>1. CASE x = s[i].x
        <5>1. Changing(x)'
          BY <3>3, <4>1
        <5> QED
          BY <2>3, <4>1, <5>1
      <4>2. CASE x # s[i].x
        BY <2>1, <2>3, <3>2, <4>2 DEF ToldInv
      <4> QED
        BY <4>1, <4>2
    <3> QED
      BY <3>4 DEF ToldInv
  <2> QED
    BY <1>1, <2>2, <2>3 DEF ChangeUpdate
<1>2. CASE ChangeUpsert(i)
  <2>1. /\ s[i].pc = "chUpsert" /\ s'[i].pc = "idle"
        /\ told' = told \ {s[i].x} /\ ending' = ending /\ crossed' = crossed
    BY <1>2, <1>r DEF ChangeUpsert, external, At
  <2>2. Changing(s[i].x)
    BY <2>1 DEF Changing
  <2>3. \A x \in Sub \ {s[i].x} : Changing(x)' <=> Changing(x)
    BY <1>o, <2>1 DEF Changing
  <2>4. ASSUME NEW x \in Sub \ crossed'
        PROVE  (Changing(x)' => x \notin ending') /\ (~Changing(x)' => (x \in ending' <=> x \in told'))
    <3>1. CASE x = s[i].x
      BY <2>1, <2>2, <3>1 DEF ToldInv
    <3>2. CASE x # s[i].x
      BY <2>1, <2>3, <3>2 DEF ToldInv
    <3> QED
      BY <3>1, <3>2
  <2> QED
    BY <2>4 DEF ToldInv
<1>3. CASE CancelUpdate(i)
  <2> DEFINE x == s[i].x
  <2>1. s[i].pc = "caUpdate" /\ s'[i].pc = "idle"
    BY <1>3, <1>r DEF CancelUpdate, At
  <2>2. \A y \in Sub : Changing(y)' <=> Changing(y)
    BY <1>o, <2>1 DEF Changing
  <2>3. CASE UNCHANGED <<ending, told, crossed>>
    BY <2>2, <2>3 DEF ToldInv
  <2>4. CASE /\ ending' = IF s[i].ends THEN ending \cup {x} ELSE ending \ {x}
             /\ told' = IF s[i].ends THEN told \cup {x} ELSE told \ {x}
             /\ crossed' = IF s[i].ends /\ Changing(x) THEN crossed \cup {x} ELSE crossed \ {x}
    <3>1. ASSUME NEW y \in Sub \ crossed'
          PROVE  (Changing(y) => y \notin ending') /\ (~Changing(y) => (y \in ending' <=> y \in told'))
      <4>1. CASE y = x
        BY <2>4, <4>1
      <4>2. CASE y # x
        BY <2>4, <4>2 DEF ToldInv
      <4> QED
        BY <4>1, <4>2
    <3> QED
      BY <2>2, <3>1 DEF ToldInv
  <2> QED
    BY <1>3, <2>3, <2>4 DEF CancelUpdate
<1> QED
  BY <1>1, <1>2, <1>3

LEMMA ToldStripe ==
  ASSUME TypeInv, ToldInv, Stripe
  PROVE  ToldInv'
<1>1. ASSUME NEW x \in Sub, EndPeriod(x) PROVE ToldInv'
  <2>1. ending' = ending \ {x} /\ told' = told \ {x} /\ crossed' = crossed /\ s' = s
    BY <1>1 DEF EndPeriod
  <2> QED
    BY <2>1 DEF ToldInv, Changing
<1>2. CASE ending' = ending /\ UNCHANGED <<told, crossed>> /\ s' = s
  BY <1>2, ToldFrame
<1> QED
  BY <1>1, <1>2 DEF Stripe, PaySucceeds, PayFails, Dunning, Webhook, history

LEMMA ToldNext == TypeInv /\ ToldInv /\ [Next]_vars => ToldInv'
<1> SUFFICES ASSUME TypeInv, ToldInv, [Next]_vars PROVE ToldInv'
  OBVIOUS
<1>1. CASE UNCHANGED vars
  BY <1>1, ToldFrame DEF vars, external, history
<1>2. CASE Stripe
  BY <1>2, ToldStripe
<1>3. ASSUME NEW b \in Tab, Confirm(b) \/ Remount(b) PROVE ToldInv'
  BY <1>3, ToldFrame DEF Confirm, Remount, external, history
<1>4. ASSUME NEW i \in Slot,
             \/ \E b \in Tab : StartStatus(i, b) \/ Close(i, b)
             \/ \E b \in Tab, p \in Price, x \in Sub \cup {NoSub} : StartCheckout(i, b, p, x)
             \/ (\E x \in Sub : StatusUpsert(i, x)) \/ StatusAnswer(i)
             \/ (\E y \in Sub : CheckoutVoid(i, y)) \/ CheckoutCancel(i) \/ CheckoutDelete(i)
             \/ (\E x \in Sub : CheckoutCreate(i, x)) \/ CheckoutFails(i) \/ CheckoutUpsert(i)
             \/ AbandonRetrieve(i) \/ AbandonVoid(i) \/ AbandonCancel(i) \/ AbandonDelete(i)
      PROVE  ToldInv'
  <2>1. \A k \in Slot : "chUpsert" \in {s[k].pc, s'[k].pc} => s'[k] = s[k]
    BY <1>4, PlanApart DEF Planning
  <2>2. ending' = ending /\ UNCHANGED <<told, crossed>>
    BY <1>4
    DEF StartStatus, Close, StartCheckout, StatusUpsert, StatusAnswer, CheckoutVoid, CheckoutCancel,
        CheckoutDelete, CheckoutCreate, CheckoutFails, CheckoutUpsert, AbandonRetrieve, AbandonVoid,
        AbandonCancel, AbandonDelete, external, history
  <2> QED
    BY <2>1, <2>2, ToldFrame
<1>5. ASSUME NEW i \in Slot, Step(i) PROVE ToldInv'
  BY <1>4, <1>5, ToldPlan DEF Step
<1> QED
  BY <1>1, <1>2, <1>3, <1>4, <1>5, ToldStart, Actors

LEMMA Told == Spec => []ToldInv
<1>1. Init => ToldInv
  BY DEF Init, ToldInv, Changing, Idle
<1> QED
  BY <1>1, Typed, ToldNext, PTL DEF Spec

\* However many cancels, resumptions and plan changes overlap, a user who was told
\* last that the subscription ends, or goes on, was told the truth, unless a cancel
\* reached Stripe between the update of a plan change and its answer.
THEOREM UsersAreToldTheTruth == Spec => []EndsAsTold
<1>1. ToldInv => EndsAsTold
  BY DEF ToldInv, EndsAsTold
<1> QED
  BY <1>1, Told, PTL
=============================================================================
