------------------------------ MODULE Billing ------------------------------
(***************************************************************************)
(* The subscriptions of one customer: as Stripe has them, as the rows of   *)
(* billing_subscriptions mirror them, and as the panel shows them.         *)
(*                                                                         *)
(* Stripe is where the money is. Its events reach the webhook late, twice, *)
(* out of order or not at all, and each overwrites the row with the        *)
(* snapshot it carries. A status request reads Stripe's list and writes    *)
(* its snapshots one by one. Checkout, abandon, change-plan and cancel     *)
(* call Stripe and write rows in steps of their own.                       *)
(*                                                                         *)
(* Simplifications.                                                        *)
(*  - A row says what its snapshot said; that a row whose period has ended *)
(*    counts as free, overrides and invoices' e-mails are left out.        *)
(*  - The customer exists and stays the same one.                          *)
(*  - Stripe's list has room for every subscription (limit: 10, 20).       *)
(*  - A handler's first call of Stripe or read of rows is in the step in   *)
(*    which its request arrives; its answer, in its last.                  *)
(***************************************************************************)
EXTENDS Naturals, Sequences, FiniteSets, SequencesExt

CONSTANTS
  MaxSub,         \* bound: subscriptions, numbered as they are created
  Price,          \* price ids of the paid tiers
  Free,           \* the tier of who has no active subscription
  Tab, NoTab,     \* browser tabs with the panel open
  Fore,           \* slots for what users ask of the panel
  Aside,          \* slots for what runs besides: status, abandon, cancel
  MaxChange,      \* bound: changes at Stripe, and deliveries it repeats
  MaxEvent        \* bound: events sent and not yet delivered

ASSUME NoneAssumption == NoTab \notin Tab /\ Free \notin Price
ASSUME BoundAssumption == MaxSub \in Nat /\ MaxChange \in Nat /\ MaxEvent \in Nat

Slot  == Fore \cup Aside
Sub   == 1..MaxSub
NoSub == 0

VARIABLES
  stripe,   \* stripe[x]: status and price of subscription x
  ending,   \* subscriptions with cancel_at_period_end
  void,     \* subscriptions whose first invoice is void
  paying,   \* subscriptions with a payment under way that may still succeed
  row,      \* row[x]: the snapshot in billing_subscriptions
  order,    \* the subscriptions with a row, by created_at
  events,   \* events on their way to the webhook
  changes,  \* changes and repeated deliveries so far
  panel,    \* panel[b]: what tab b shows
  told,     \* subscriptions of which the user was told last that they end
  crossed,  \* subscriptions that a cancel ended between the steps of a plan change
  late,     \* slots of abandons whose subscription was paid after they read it
  s         \* s[i]: program counter and locals of the request in slot i

external == <<stripe, ending, void, paying, changes>>
mirror   == <<row, order>>
history  == <<told, crossed, late>>
vars     == <<external, mirror, events, panel, history, s>>

Status == {"none", "incomplete", "active", "past_due", "canceled"}
Snap   == [status: Status, price: Price \cup {Free}]
None   == [status |-> "none", price |-> Free]

PC == {"idle", "stUpsert", "coVoid", "coCancel", "coDelete", "coCreate", "coUpsert",
       "abRetrieve", "abVoid", "abCancel", "abDelete", "chUpdate", "chUpsert", "caUpdate"}

Idle == [pc |-> "idle", tab |-> NoTab, x |-> NoSub, cur |-> NoSub, price |-> Free, ends |-> FALSE,
         list |-> [x \in Sub |-> None], todo |-> {}]

TypeOK ==
  /\ stripe \in [Sub -> Snap]
  /\ ending \subseteq Sub /\ void \subseteq Sub /\ paying \subseteq Sub
  /\ row \in [Sub -> Snap]
  /\ order \in Seq(Sub) /\ IsInjective(order)
  /\ ToSet(order) = {x \in Sub : row[x] # None}
  /\ events \subseteq (Sub \X Snap) /\ Cardinality(events) <= MaxEvent
  /\ changes \in 0..MaxChange
  /\ panel \in [Tab -> [view: Price \cup {Free, "unknown"}, sub: Sub \cup {NoSub},
                        stage: {"idle", "asking", "form", "done"}]]
  /\ told \subseteq Sub /\ crossed \subseteq Sub /\ late \subseteq Slot
  /\ s \in [Slot -> [pc: PC, tab: Tab \cup {NoTab}, x: Sub \cup {NoSub},
                     cur: Sub \cup {NoSub}, price: Price \cup {Free}, ends: BOOLEAN,
                     list: [Sub -> Snap], todo: SUBSET Sub]]

Init ==
  /\ stripe = [x \in Sub |-> None] /\ ending = {} /\ void = {} /\ paying = {}
  /\ row = [x \in Sub |-> None] /\ order = <<>>
  /\ events = {} /\ changes = 0
  /\ panel = [b \in Tab |-> [view |-> "unknown", sub |-> NoSub, stage |-> "idle"]]
  /\ told = {} /\ crossed = {} /\ late = {}
  /\ s = [i \in Slot |-> Idle]

-----------------------------------------------------------------------------
At(i, pc)  == s[i].pc = pc
Goto(i, p) == s' = [s EXCEPT ![i].pc = p]
Return(i)  == s' = [s EXCEPT ![i] = Idle]

(* Stripe. *)

Is(x, status) == stripe[x].status = status

\* An event may be sent, or lost before it changes a row.
Emits(e) ==
  \/ events' = events
  \/ events' = events \cup {e} /\ Cardinality(events') <= MaxEvent

Becomes(x, snap) ==
  /\ changes < MaxChange
  /\ changes' = changes + 1
  /\ stripe' = [stripe EXCEPT ![x] = snap]
  /\ Emits(<<x, snap>>)

BecomesStatus(x, status) == Becomes(x, [stripe[x] EXCEPT !.status = status])

\* The first invoice of x can be paid or voided.
Open(x) == Is(x, "incomplete") /\ x \notin void

Void(x) == void' = void \cup {x} /\ paying' = paying \ {x}

(* billing_subscriptions. *)

\* Mutant: a row that is there is not overwritten.
UpsertOnce(x, snap) ==
  /\ row' = [row EXCEPT ![x] = IF @ = None THEN snap ELSE @]
  /\ order' = IF row[x] = None THEN Append(order, x) ELSE order

\* Mutant: every snapshot is a row of its own.
UpsertInserts(x, snap) ==
  /\ row' = [row EXCEPT ![x] = snap]
  /\ order' = Append(order, x)

\* upsertSubscriptionRow: whatever snapshot comes last is kept.
Upsert(x, snap) ==
  /\ row' = [row EXCEPT ![x] = snap]
  /\ order' = IF row[x] = None THEN Append(order, x) ELSE order

DropRow(x) ==
  /\ row' = [row EXCEPT ![x] = None]
  /\ order' = IF row[x] = None THEN order
              ELSE RemoveAt(order, CHOOSE k \in DOMAIN order : order[k] = x)

Rank(status) ==
  CASE status = "active" -> 0
    [] status = "past_due" -> 2
    [] status = "incomplete" -> 4
    [] OTHER -> 5

\* getLatestSubscription: the best status, then the newest row.
Latest ==
  LET R(k) == Rank(row[order[k]].status)
      best == {k \in DOMAIN order : \A j \in DOMAIN order : R(k) <= R(j)}
  IN IF best = {} THEN NoSub ELSE order[Max(best)]

\* getTier.
Tier == IF Latest # NoSub /\ row[Latest].status = "active" THEN row[Latest].price ELSE Free

-----------------------------------------------------------------------------
(* Stripe and its events.                                                  *)

PaySucceeds(x) ==
  /\ x \in paying /\ Open(x)
  /\ BecomesStatus(x, "active")
  /\ paying' = paying \ {x}
  /\ panel' = [b \in Tab |-> IF panel[b].sub = x /\ panel[b].stage = "form"
                             THEN [panel[b] EXCEPT !.stage = "done"] ELSE panel[b]]
  /\ late' = late \cup {i \in Slot : s[i].pc \in {"abVoid", "abCancel"} /\ s[i].x = x}
  /\ UNCHANGED <<ending, void, mirror, told, crossed, s>>

\* The card is declined, or the subscription is canceled by now.
PayFails(x) ==
  /\ x \in paying
  /\ paying' = paying \ {x}
  /\ UNCHANGED <<stripe, ending, void, changes, mirror, events, panel, history, s>>

\* What is over is neither ending nor told to be.
EndPeriod(x) ==
  /\ Is(x, "active") /\ x \in ending
  /\ BecomesStatus(x, "canceled")
  /\ ending' = ending \ {x} /\ told' = told \ {x}
  /\ UNCHANGED <<void, paying, mirror, panel, crossed, late, s>>

\* A renewal is not paid; it is tried again, and given up.
Dunning(x) ==
  /\ \/ Is(x, "active") /\ BecomesStatus(x, "past_due")
     \/ Is(x, "past_due") /\ (BecomesStatus(x, "active") \/ BecomesStatus(x, "canceled"))
  /\ UNCHANGED <<ending, void, paying, mirror, panel, history, s>>

\* The webhook takes an event, in any order, and Stripe may send it again.
Webhook(e) ==
  /\ e \in events
  /\ Upsert(e[1], e[2])
  /\ \/ events' = events \ {e} /\ changes' = changes
     \/ changes < MaxChange /\ changes' = changes + 1 /\ events' = events
  /\ UNCHANGED <<stripe, ending, void, paying, panel, history, s>>

-----------------------------------------------------------------------------
(* status, with syncLatestSubscriptionFor.                                 *)

StartStatus(i, b) ==
  /\ i \in Aside /\ At(i, "idle")
  /\ s' = [s EXCEPT ![i] = [Idle EXCEPT !.pc = "stUpsert", !.tab = b, !.list = stripe,
                                        !.todo = {x \in Sub : ~Is(x, "none")}]]
  /\ UNCHANGED <<external, mirror, events, panel, history>>

\* Stripe lists the newest first.
StatusUpsert(i, x) ==
  /\ At(i, "stUpsert") /\ s[i].todo # {} /\ x = Max(s[i].todo)
  /\ Upsert(x, s[i].list[x])
  /\ s' = [s EXCEPT ![i].todo = @ \ {x}, ![i].list[x] = None]
  /\ UNCHANGED <<external, events, panel, history>>

\* The rows are read and answered, to the sidebar or to the panel, whose polling
\* ends when the tier is a paid one.
StatusAnswer(i) ==
  LET b == s[i].tab IN
  /\ At(i, "stUpsert") /\ s[i].todo = {}
  /\ \/ panel' = panel
     \/ panel' = [panel EXCEPT ![b] =
                    IF @.stage = "done" /\ Tier # Free
                    THEN [view |-> Tier, sub |-> NoSub, stage |-> "idle"]
                    ELSE [@ EXCEPT !.view = Tier]]
  /\ Return(i)
  /\ UNCHANGED <<external, mirror, events, history>>

-----------------------------------------------------------------------------
(* checkout.                                                               *)

\* Where the loop over stale subscriptions goes on, or what follows it.
AfterStale(r) ==
  IF r.todo # {} THEN "coVoid" ELSE IF r.x = NoSub THEN "coCreate" ELSE "coUpsert"

NextStale(i) ==
  LET r == [s[i] EXCEPT !.todo = @ \ {s[i].cur}, !.cur = NoSub]
  IN s' = [s EXCEPT ![i] = [r EXCEPT !.pc = AfterStale(r)]]

\* The incomplete subscription of this price is used again, others are stale.
StartCheckout(i, b, p, x) ==
  LET found == {y \in Sub : Is(y, "incomplete")}
      same  == {y \in found : stripe[y].price = p}
      r     == [Idle EXCEPT !.tab = b, !.price = p, !.x = x, !.todo = found \ {x},
                            !.list = [y \in Sub |-> IF y = x THEN stripe[y] ELSE None]]
  IN
  /\ i \in Fore /\ At(i, "idle")
  /\ panel[b].view = Free /\ panel[b].stage = "idle"
  /\ x = Max(same \cup {NoSub})
  /\ panel' = [panel EXCEPT ![b].stage = "asking"]
  /\ s' = [s EXCEPT ![i] = [r EXCEPT !.pc = AfterStale(r)]]
  /\ UNCHANGED <<external, mirror, events, history>>

\* Mutant: an invoice that cannot be voided does not matter.
CheckoutVoidAnyway(i, y) ==
  /\ At(i, "coVoid") /\ s[i].todo # {} /\ y = Max(s[i].todo)
  /\ s' = [s EXCEPT ![i].pc = "coCancel", ![i].cur = y]
  /\ IF Open(y) THEN Void(y) ELSE UNCHANGED <<void, paying>>
  /\ UNCHANGED <<stripe, ending, changes, mirror, events, panel, history>>

\* What throws leaves the stale subscription as it is.
CheckoutVoid(i, y) ==
  /\ At(i, "coVoid") /\ s[i].todo # {} /\ y = Max(s[i].todo)
  /\ \/ /\ Open(y)
        /\ Void(y)
        /\ s' = [s EXCEPT ![i].pc = "coCancel", ![i].cur = y]
     \/ /\ UNCHANGED <<void, paying>>
        /\ LET r == [s[i] EXCEPT !.todo = @ \ {y}]
           IN s' = [s EXCEPT ![i] = [r EXCEPT !.pc = AfterStale(r)]]
  /\ UNCHANGED <<stripe, ending, changes, mirror, events, panel, history>>

CheckoutCancel(i) ==
  LET y == s[i].cur IN
  /\ At(i, "coCancel")
  /\ \/ ~Is(y, "canceled") /\ BecomesStatus(y, "canceled") /\ Goto(i, "coDelete")
     \/ NextStale(i) /\ UNCHANGED <<stripe, changes, events>>
  /\ UNCHANGED <<ending, void, paying, mirror, panel, history>>

CheckoutDelete(i) ==
  /\ At(i, "coDelete")
  /\ DropRow(s[i].cur)
  /\ NextStale(i)
  /\ UNCHANGED <<external, events, panel, history>>

Fresh == CHOOSE x \in Sub : Is(x, "none") /\ \A y \in Sub : y < x => ~Is(y, "none")

CheckoutCreate(i, x) ==
  LET snap == [status |-> "incomplete", price |-> s[i].price] IN
  /\ At(i, "coCreate") /\ Is(x, "none") /\ x = Fresh
  /\ Becomes(x, snap)
  /\ s' = [s EXCEPT ![i].pc = "coUpsert", ![i].x = x, ![i].list[x] = snap]
  /\ UNCHANGED <<ending, void, paying, mirror, panel, history>>

Dismiss(b) == [panel EXCEPT ![b].stage = "idle", ![b].sub = NoSub]

\* Stripe refuses; the route answers with an error.
CheckoutFails(i) ==
  /\ At(i, "coCreate")
  /\ panel' = IF panel[s[i].tab].stage = "asking" THEN Dismiss(s[i].tab) ELSE panel
  /\ Return(i)
  /\ UNCHANGED <<external, mirror, events, history>>

\* The row of the checkout, and the answer that opens the payment form.
CheckoutUpsert(i) ==
  LET x == s[i].x  b == s[i].tab IN
  /\ At(i, "coUpsert")
  /\ Upsert(x, s[i].list[x])
  /\ panel' = IF panel[b].stage = "asking"
              THEN [panel EXCEPT ![b].stage = "form", ![b].sub = x] ELSE panel
  /\ Return(i)
  /\ UNCHANGED <<external, events, history>>

\* confirmPayment is sent; Stripe refuses it at once for a void invoice.
Confirm(b) ==
  /\ panel[b].stage = "form" /\ Open(panel[b].sub)
  /\ paying' = paying \cup {panel[b].sub}
  /\ UNCHANGED <<stripe, ending, void, changes, mirror, events, panel, history, s>>

-----------------------------------------------------------------------------
(* checkout-abandon.                                                       *)

\* The form is closed, or the panel goes away, with or without its request
\* reaching the server: also when it was paid and the status does not say so yet.
Close(i, b) ==
  /\ panel[b].stage \in {"form", "done"}
  /\ i \in Aside /\ At(i, "idle")
  /\ panel' = Dismiss(b)
  /\ s' \in {s, [s EXCEPT ![i] = [Idle EXCEPT !.pc = "abRetrieve", !.x = panel[b].sub]]}
  /\ UNCHANGED <<external, mirror, events, history>>

\* The panel goes away and comes back: it waits for a status.
Remount(b) ==
  /\ panel[b].stage \in {"asking", "done"}
  /\ panel' = [panel EXCEPT ![b] = [view |-> "unknown", sub |-> NoSub, stage |-> "idle"]]
  /\ UNCHANGED <<external, mirror, events, history, s>>

AbandonRetrieve(i) ==
  /\ At(i, "abRetrieve")
  /\ IF Is(s[i].x, "incomplete") THEN Goto(i, "abVoid") ELSE Return(i)
  /\ UNCHANGED <<external, mirror, events, panel, history>>

\* Errors of the next two are caught one by one.
AbandonVoid(i) ==
  /\ At(i, "abVoid")
  /\ \/ Open(s[i].x) /\ Void(s[i].x)
     \/ UNCHANGED <<void, paying>>
  /\ Goto(i, "abCancel")
  /\ UNCHANGED <<stripe, ending, changes, mirror, events, panel, history>>

AbandonCancel(i) ==
  /\ At(i, "abCancel")
  /\ \/ ~Is(s[i].x, "canceled") /\ BecomesStatus(s[i].x, "canceled")
     \/ UNCHANGED <<stripe, changes, events>>
  /\ Goto(i, "abDelete")
  /\ late' = late \ {i}
  /\ UNCHANGED <<ending, void, paying, mirror, panel, told, crossed>>

AbandonDelete(i) ==
  /\ At(i, "abDelete")
  /\ DropRow(s[i].x)
  /\ Return(i)
  /\ UNCHANGED <<external, events, panel, history>>

-----------------------------------------------------------------------------
(* change-plan and cancel, by the row that getLatestSubscription picks.    *)

\* The panel shows a paid plan. The dialog of a cancel closes while its request is
\* under way, and neither request keeps the other from being sent.
Subscribed(b) == panel[b].view \in Price /\ panel[b].stage = "idle"

StartChange(i, b, p) ==
  /\ i \in Fore /\ At(i, "idle") /\ Subscribed(b) /\ panel[b].view # p
  /\ Tier # Free /\ Tier # p
  /\ s' = [s EXCEPT ![i] = [Idle EXCEPT !.pc = "chUpdate", !.tab = b, !.x = Latest, !.price = p]]
  /\ UNCHANGED <<external, mirror, events, panel, history>>

Alive(x) == stripe[x].status \in {"active", "past_due"}

\* Mutant: cancel_at_period_end stays as it was.
ChangeUpdateOnly(i) ==
  LET x == s[i].x  snap == [stripe[x] EXCEPT !.price = s[i].price] IN
  /\ At(i, "chUpdate")
  /\ \/ /\ Alive(x) /\ Becomes(x, snap) /\ ending' = ending
        /\ crossed' = crossed \ {x}
        /\ s' = [s EXCEPT ![i].pc = "chUpsert", ![i].list[x] = snap]
     \/ Return(i) /\ UNCHANGED <<stripe, ending, changes, events, crossed>>
  /\ UNCHANGED <<void, paying, mirror, panel, told, late>>

\* A new price, and the subscription goes on; or Stripe refuses.
ChangeUpdate(i) ==
  LET x == s[i].x  snap == [stripe[x] EXCEPT !.price = s[i].price] IN
  /\ At(i, "chUpdate")
  /\ \/ /\ Alive(x) /\ Becomes(x, snap) /\ ending' = ending \ {x}
        /\ crossed' = crossed \ {x}
        /\ s' = [s EXCEPT ![i].pc = "chUpsert", ![i].list[x] = snap]
     \/ Return(i) /\ UNCHANGED <<stripe, ending, changes, events, crossed>>
  /\ UNCHANGED <<void, paying, mirror, panel, told, late>>

ChangeUpsert(i) ==
  /\ At(i, "chUpsert")
  /\ Upsert(s[i].x, s[i].list[s[i].x])
  /\ told' = told \ {s[i].x}
  /\ Return(i)
  /\ UNCHANGED <<external, events, panel, crossed, late>>

\* Cancel at the end of the period, or resume.
StartCancel(i, b, e) ==
  /\ At(i, "idle") /\ Subscribed(b)
  /\ Latest # NoSub /\ (e \/ Latest \in ending)
  /\ s' = [s EXCEPT ![i] = [Idle EXCEPT !.pc = "caUpdate", !.tab = b, !.x = Latest, !.ends = e]]
  /\ UNCHANGED <<external, mirror, events, panel, history>>

\* A plan change of x has updated Stripe and not yet answered.
Changing(x) == \E i \in Slot : s[i].pc = "chUpsert" /\ s[i].x = x

CancelUpdate(i) ==
  LET x == s[i].x IN
  /\ At(i, "caUpdate")
  /\ \/ /\ Alive(x) \/ Is(x, "incomplete")
        /\ Emits(<<x, stripe[x]>>)
        /\ ending' = IF s[i].ends THEN ending \cup {x} ELSE ending \ {x}
        /\ told' = IF s[i].ends THEN told \cup {x} ELSE told \ {x}
        /\ crossed' = IF s[i].ends /\ Changing(x) THEN crossed \cup {x} ELSE crossed \ {x}
     \/ UNCHANGED <<ending, events, told, crossed>>
  /\ Return(i)
  /\ UNCHANGED <<stripe, void, paying, changes, mirror, panel, late>>

-----------------------------------------------------------------------------
Begin(i) ==
  \E b \in Tab :
    \/ StartStatus(i, b)
    \/ \E p \in Price, x \in Sub \cup {NoSub} : StartCheckout(i, b, p, x)
    \/ Close(i, b)
    \/ \E p \in Price : StartChange(i, b, p)
    \/ \E e \in BOOLEAN : StartCancel(i, b, e)

Step(i) ==
  \/ (\E x \in Sub : StatusUpsert(i, x)) \/ StatusAnswer(i)
  \/ (\E y \in Sub : CheckoutVoid(i, y)) \/ CheckoutCancel(i) \/ CheckoutDelete(i)
  \/ (\E x \in Sub : CheckoutCreate(i, x)) \/ CheckoutFails(i) \/ CheckoutUpsert(i)
  \/ AbandonRetrieve(i) \/ AbandonVoid(i) \/ AbandonCancel(i) \/ AbandonDelete(i)
  \/ ChangeUpdate(i) \/ ChangeUpsert(i) \/ CancelUpdate(i)

Stripe ==
  \/ \E x \in Sub : PaySucceeds(x) \/ PayFails(x) \/ EndPeriod(x) \/ Dunning(x)
  \/ \E e \in events : Webhook(e)

Next ==
  \/ \E i \in Slot : Begin(i) \/ Step(i)
  \/ \E b \in Tab : Confirm(b) \/ Remount(b)
  \/ Stripe

Spec == Init /\ [][Next]_vars

\* Handlers go on, and the status is asked for again and again: by the sidebar
\* whenever it is shown or its menu opened, by the panel, by the panel's polling.
FairSpec ==
  /\ Spec
  /\ \A i \in Slot : WF_vars(Step(i))
  /\ SF_vars(\E i \in Aside, b \in Tab : StartStatus(i, b))

-----------------------------------------------------------------------------
(* Properties.                                                             *)

\* Whatever was lost, repeated, delayed or delivered in the wrong order: once
\* nobody abandons checkouts any more, each row comes to say of its subscription
\* what Stripe says. (An abandon drops the row even if Stripe did not cancel.)
MirrorConverges ==
  <>[](\A i \in Slot : s[i].pc \notin {"abRetrieve", "abVoid", "abCancel", "abDelete"})
    => <>[](row = stripe)

\* A paid subscription is canceled only at the end of a period for which the user
\* asked it, by Stripe for want of payment, or by a checkout-abandon that had read
\* it as unpaid before it was paid, and whose failing void does not stop it. No
\* clean-up of a checkout, and no abandon that comes later, takes it for unpaid.
PaidIsSpared ==
  [][\A x \in Sub : Is(x, "active") /\ stripe'[x].status = "canceled"
       => x \in ending \/ \E i \in late : s[i].x = x]_vars

\* The user who was told last that a subscription ends, or goes on, was told the
\* truth, however cancels, resumptions and plan changes overlap, except that a
\* plan change which a cancel overtakes at Stripe tells that it goes on.
EndsAsTold ==
  \A x \in Sub : Is(x, "active") /\ ~Changing(x) /\ x \notin crossed
                   => (x \in ending <=> x \in told)
=============================================================================
