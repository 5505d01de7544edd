-------------------------- MODULE FolderKeys_proofs --------------------------
(***************************************************************************)
(* Theorems about FolderKeys, for every number of folders, files, users,   *)
(* requests and eras, and every pair of requests that may overlap.         *)
(***************************************************************************)
EXTENDS FolderKeys, TLAPS

SlotRec == [pc: PC, op: OpTag \cup {"none"}, u: User \cup {Nobody}, n: Node \cup {Gone},
            to: Folder \cup {Top}, claim: Claim, era: Eras, kids: [Node -> Eras],
            todo: SUBSET Node, who: SUBSET User, v: User \cup {Nobody},
            late: SUBSET Node, lateRows: BOOLEAN]

Exists(n)  == parent[n] # Gone
Rotates(r) == r.pc \in {"rtGuard"} \cup Rotating
Flipped    == {"rtWraps", "rtChild", "rtRevoke"}

\* What a program counter says of the locals it goes with.
Carries(r) ==
  /\ r.pc = "idle" => r = Idle
  /\ r.pc # "idle" => r.u \in User /\ r.n \in Node
  /\ r.pc \in {"crInsert", "crFinal"} => /\ r.op = "create" /\ r.to \in Folder
                                         /\ r.claim.by = r.to /\ r.claim.of = 1
  /\ r.pc = "crFinal" => r.n \in File
  /\ r.pc = "mvUpdate" => r.op = "move" /\ r.claim.by = r.to
  /\ r.pc = "shGrant" => r.op = "share" /\ r.n \in Folder /\ r.v \in User
  /\ Rotates(r) => /\ r.op = "rotate" /\ r.n \in Folder /\ r.v \in User \ r.who
                   /\ r.n \notin r.todo

SlotInv == s \in [Slot -> SlotRec] /\ \A i \in Slot : Carries(s[i])

NodeInv ==
  /\ parent \in [Node -> Folder \cup {Top, Gone}]
  /\ owner \in [Node -> User \cup {Nobody}]
  /\ complete \subseteq {n \in Node : parent[n] # Gone}
  /\ hier \in [Node -> Eras]
  /\ wrap \in [Node -> [User -> Eras]]
  /\ claim \in [Node -> Claim]
  /\ \A n \in Node, u \in User : wrap[n][u] <= hier[n]
  /\ \A n \in Node : (Exists(n) <=> hier[n] # 0) /\ claim[n].of <= hier[n]
  /\ \A n \in Node : parent[n] \in Folder => parent[n] # n /\ Exists(parent[n])
  /\ \A f \in Folder : Exists(f) => f \in complete
  /\ \A n \in File : hier[n] <= 1

RingInv ==
  /\ ring \in [User -> SUBSET (Folder \X Eras)]
  /\ out \in [Folder -> SUBSET User]

StrayInv == strayClaim \subseteq Node /\ strayRow \in [Folder -> SUBSET User]

\* No era in a payload is ahead of its node's, and what it is made of exists.
Plan(r) ==
  /\ r.pc = "crInsert" => ~Exists(r.n)
  /\ r.pc \in {"crInsert", "crFinal"} => Exists(r.to)
  /\ r.pc = "crFinal" => /\ r.n \notin complete /\ parent[r.n] = r.to
                         /\ claim[r.n] = r.claim
  /\ r.pc = "mvUpdate" => /\ r.n \in complete /\ r.claim.of <= hier[r.n]
                          /\ r.to \in Folder => Exists(r.to)
  /\ r.pc = "shGrant" => Exists(r.n) /\ r.era <= hier[r.n]
  /\ Rotates(r) => /\ Exists(r.n) /\ r.todo \subseteq complete
                   /\ r.claim.by \in Folder => Exists(r.claim.by)
                   /\ \A n \in Node : r.kids[n] <= hier[n]
  /\ r.pc \in Flipped => r.era <= hier[r.n]

\* A node is created by one request.
Distinct ==
  \A i, k \in Slot : i # k /\ s[i].op = "create" /\ s[k].op = "create" => s[i].n # s[k].n

\* TypeOK is not inductive: a row's era stays behind its node's only if the
\* payloads on their way are.
TypeInv ==
  /\ NodeInv /\ RingInv /\ StrayInv /\ SlotInv
  /\ \A i \in Slot : Plan(s[i])
  /\ Distinct

-----------------------------------------------------------------------------
\* A rotation past its guards has marked late what is made of its folder's keys.
LateInv ==
  \A i, k \in Slot : i # k /\ At(k, "rtFolder") =>
    /\ ClaimsBy(s[i], s[k].n) \subseteq s[i].late
    /\ RowsBy(s[i], s[k].n) => s[i].lateRows

Unflipped == {"crInsert", "crFinal", "mvUpdate", "rtGuard", "rtFolder"}

\* What is not late in a payload is made of keys of now, until it is written.
Fresh(r) ==
  /\ r.pc \in Unflipped /\ r.n \notin r.late /\ r.claim.by \in Folder
       => r.claim.era = hier[r.claim.by]
  /\ r.pc = "mvUpdate" /\ r.n \notin r.late /\ r.to \in Folder => r.claim.of = hier[r.n]
  /\ Rotates(r) => \A n \in r.todo \ r.late : r.kids[n] = hier[n]
  /\ r.pc \in Flipped => \A n \in r.todo \ r.late : r.era = hier[r.n]
  /\ r.pc \in {"shGrant"} \cup Flipped /\ ~r.lateRows => r.era = hier[r.n]

FreshInv == \A i \in Slot : Fresh(s[i])

\* Past its guards, the payload of a rotation still has every child and everyone
\* who has a row, but for what is stray.
Guarded(r) ==
  r.pc = "rtFolder" =>
    /\ \A n \in complete : parent[n] = r.n => n \in r.todo \cup strayClaim
    /\ \A u \in User : wrap[r.n][u] # 0 => u \in r.who \cup {r.v} \cup strayRow[r.n]

GuardInv == \A i \in Slot : Guarded(s[i])

\* The rotation in slot i is going to seal the claim of n again.
Resealing(i, n) == s[i].pc \in {"rtWraps", "rtChild"} /\ s[i].n = parent[n] /\ n \in s[i].todo

Current(n) == claim[n] = [by |-> parent[n], era |-> hier[parent[n]], of |-> hier[n]]

ClaimInv ==
  \A n \in complete \ strayClaim : parent[n] \in Folder =>
    Current(n) \/ \E i \in Slot : Resealing(i, n)

\* A rotation past its first write is going to write u's row of n.
Rewrapping(i, n, u) ==
  /\ s[i].n = n
  /\ (s[i].pc = "rtWraps" /\ u \in s[i].who) \/ (s[i].pc \in Flipped /\ s[i].v = u)

WrapInv ==
  \A f \in Folder : \A u \in User \ strayRow[f] :
    wrap[f][u] \in {0, hier[f]} \/ \E i \in Slot : Rewrapping(i, f, u)

\* Who was revoked has no row of the folder's era, and never held its key.
OutInv ==
  /\ \A f \in Folder, u \in User, e \in Eras : <<f, e>> \in ring[u] => e <= hier[f]
  /\ \A f \in Folder : \A u \in out[f] : wrap[f][u] # hier[f] /\ <<f, hier[f]>> \notin ring[u]

KeyInv == LateInv /\ FreshInv /\ GuardInv /\ ClaimInv /\ WrapInv /\ OutInv

-----------------------------------------------------------------------------
(* Types.                                                                  *)

LEMMA Bounds ==
  /\ MaxEra \in Nat /\ MaxEra >= 1 /\ Eras = 0..MaxEra /\ 0 \in Eras /\ 1 \in Eras
  /\ \A e \in Eras : e \in Nat
  /\ NoClaim \in Claim /\ NoClaim.of = 0 /\ NoClaim.by = Top
BY OptionAssumption DEF Eras, NoClaim, Claim

LEMMA Nodes ==
  /\ Folder \subseteq Node /\ File \subseteq Node /\ Node = Folder \cup File
  /\ Folder \cap File = {} /\ Top \notin Node /\ Gone \notin Node /\ Top # Gone /\ Shared \in Folder
BY NodeAssumption DEF Node

LEMMA Names ==
  /\ {"idle", "crInsert", "crFinal", "mvUpdate", "shGrant", "rtGuard", "rtFolder", "rtWraps",
      "rtChild", "rtRevoke"} = PC
  /\ {"create", "move", "share", "rotate"} = OpTag
  /\ Rotating = {"rtFolder", "rtWraps", "rtChild", "rtRevoke"}
  /\ Flipped = {"rtWraps", "rtChild", "rtRevoke"}
  /\ Unflipped = {"crInsert", "crFinal", "mvUpdate", "rtGuard", "rtFolder"}
BY DEF PC, OpTag, Rotating, Flipped, Unflipped

LEMMA TypeInvOK == TypeInv => TypeOK
BY DEF TypeInv, NodeInv, RingInv, StrayInv, SlotInv, TypeOK, SlotRec

LEMMA IdleTyped ==
  /\ Idle \in SlotRec /\ Carries(Idle) /\ Idle.pc = "idle" /\ Idle.op = "none"
  /\ \A x : ClaimsBy(Idle, x) = {} /\ ~RowsBy(Idle, x)
<1>1. Idle \in SlotRec
  BY Bounds, Names, Nodes DEF Idle, SlotRec
<1>2. Idle.pc = "idle" /\ Idle.op = "none" /\ Idle.n = Gone /\ Idle.todo = {}
  BY DEF Idle
<1>3. ASSUME NEW x PROVE ClaimsBy(Idle, x) = {} /\ ~RowsBy(Idle, x)
  BY <1>2, Nodes DEF ClaimsBy, RowsBy
<1> QED
  BY <1>1, <1>2, <1>3 DEF Carries, Rotates, Rotating

\* What a step of a request leaves of its record.
GoesOn(r, q) ==
  /\ q \in SlotRec
  /\ q.op = r.op /\ q.u = r.u /\ q.n = r.n /\ q.to = r.to /\ q.claim = r.claim
  /\ q.kids = r.kids /\ q.who = r.who /\ q.v = r.v /\ q.late = r.late /\ q.lateRows = r.lateRows

\* A request moves on: its new record, and the others stay as they are.
LEMMA SlotMoves ==
  ASSUME SlotInv, NEW i \in Slot, NEW r \in SlotRec, s' = [s EXCEPT ![i] = r]
  PROVE  /\ s' \in [Slot -> SlotRec] /\ s'[i] = r /\ \A k \in Slot \ {i} : s'[k] = s[k]
         /\ Carries(r) => SlotInv'
<1>1. s' \in [Slot -> SlotRec] /\ s'[i] = r /\ \A k \in Slot \ {i} : s'[k] = s[k]
  BY DEF SlotInv
<1> QED
  BY <1>1 DEF SlotInv

LEMMA Goes ==
  ASSUME SlotInv, NEW i \in Slot, NEW p \in PC, Goto(i, p)
  PROVE  /\ s' \in [Slot -> SlotRec] /\ \A k \in Slot \ {i} : s'[k] = s[k]
         /\ GoesOn(s[i], s'[i]) /\ s'[i].pc = p /\ s'[i].era = s[i].era /\ s'[i].todo = s[i].todo
<1> DEFINE r == [s[i] EXCEPT !.pc = p]
<1>1. r \in SlotRec /\ s' = [s EXCEPT ![i] = r]
  BY DEF SlotInv, SlotRec, Goto
<1>2. GoesOn(s[i], r) /\ r.pc = p /\ r.era = s[i].era /\ r.todo = s[i].todo
  BY <1>1 DEF SlotInv, SlotRec, GoesOn
<1> HIDE DEF r
<1> QED
  BY <1>1, <1>2, SlotMoves

LEMMA Returns ==
  ASSUME SlotInv, NEW i \in Slot, Return(i)
  PROVE  /\ SlotInv' /\ s'[i] = Idle /\ s'[i].pc = "idle" /\ \A k \in Slot \ {i} : s'[k] = s[k]
BY IdleTyped, SlotMoves DEF Return

-----------------------------------------------------------------------------
(* What a client derives.                                                  *)

LEMMA DerivedIs ==
  ASSUME NEW n, NEW u
  PROVE  Derived(u, n) \in {0, wrap[n][u], claim[n].of}
BY DEF Derived

\* Without access from above there is the row, or nothing.
LEMMA DerivedNext ==
  ASSUME NEW n, NEW u
  PROVE  /\ Derived(u, n)' \in {0, wrap'[n][u], claim'[n].of}
         /\ ~FromAbove(u, n)' => Derived(u, n)' \in {0, wrap'[n][u]}
BY DEF Derived

LEMMA DerivedBound ==
  ASSUME NodeInv, NEW n \in Node, NEW u \in User
  PROVE  Derived(u, n) \in Eras /\ Derived(u, n) <= hier[n]
<1>1. /\ hier[n] \in Nat /\ wrap[n][u] \in Eras /\ wrap[n][u] <= hier[n]
      /\ claim[n].of \in Eras /\ claim[n].of <= hier[n]
  BY Bounds DEF NodeInv, Claim
<1> QED
  BY <1>1, DerivedIs, Bounds

LEMMA LearnTyped ==
  ASSUME RingInv, NodeInv', NEW back \in [Folder -> SUBSET User], Learn(back)
  PROVE  RingInv'
<1>1. ASSUME NEW f \in Folder, NEW u \in User PROVE Derived(u, f)' \in Eras
  <2>1. wrap'[f][u] \in Eras /\ claim'[f].of \in Eras
    BY Nodes DEF NodeInv, Claim
  <2> QED
    BY <2>1, DerivedNext, Bounds
<1>2. ASSUME NEW u \in User PROVE Keys(u)' \subseteq Folder \X Eras
  BY <1>1 DEF Keys
<1>3. ring' \in [User -> SUBSET (Folder \X Eras)]
  BY <1>2 DEF Learn, RingInv
<1>4. out' \in [Folder -> SUBSET User]
  BY DEF Learn
<1> QED
  BY <1>3, <1>4 DEF RingInv

LEMMA NodeSame ==
  ASSUME NodeInv, UNCHANGED <<tree, hier, wrap, claim>>
  PROVE  NodeInv' /\ \A n : Exists(n)' <=> Exists(n)
BY DEF NodeInv, tree, Exists

LEMMA SealsTyped ==
  ASSUME NEW i \in Slot, NEW n \in Node, StrayInv, Seals(s[i], n)
  PROVE  strayClaim' \subseteq Node /\ \A m \in Node \ {n} : m \in strayClaim' <=> m \in strayClaim
BY DEF Seals, StrayInv

LEMMA GrantsTyped ==
  ASSUME NEW i \in Slot, NEW U \in SUBSET User, s[i].n \in Folder, StrayInv, Grants(s[i], U)
  PROVE  strayRow' \in [Folder -> SUBSET User]
BY DEF Grants, StrayInv

\* The other requests, when one of them moves on.
LEMMA DistinctMoves ==
  ASSUME Distinct, NEW i \in Slot, \A k \in Slot \ {i} : s'[k] = s[k],
         \/ s'[i].op = s[i].op /\ s'[i].n = s[i].n
         \/ s'[i].op # "create"
         \/ \A k \in Slot \ {i} : s[k].op = "create" => s[k].n # s'[i].n
  PROVE  Distinct'
<1> SUFFICES ASSUME NEW j \in Slot, NEW k \in Slot, j # k, s'[j].op = "create", s'[k].op = "create"
             PROVE  s'[j].n # s'[k].n
  BY DEF Distinct
<1>1. CASE j = i
  BY <1>1 DEF Distinct
<1>2. CASE k = i
  BY <1>2 DEF Distinct
<1>3. CASE j # i /\ k # i
  BY <1>3 DEF Distinct
<1> QED
  BY <1>1, <1>2, <1>3

\* A payload stays behind its nodes while eras grow and nodes come.
LEMMA PlanStays ==
  ASSUME TypeInv, NEW k \in Slot, s'[k] = s[k], complete \subseteq complete', NodeInv',
         \A n \in Node : hier[n] <= hier'[n] /\ (Exists(n) => Exists(n)'),
         s[k].pc = "crInsert" => ~Exists(s[k].n)',
         s[k].pc = "crFinal" => /\ s[k].n \notin complete' /\ parent'[s[k].n] = parent[s[k].n]
                                /\ claim'[s[k].n] = claim[s[k].n]
  PROVE  Plan(s[k])'
<1>1. s[k] \in SlotRec /\ Carries(s[k]) /\ Plan(s[k])
  BY DEF TypeInv, SlotInv
<1>2. s[k].pc # "idle" => s[k].n \in Node
  BY <1>1 DEF Carries
<1>3. \A n \in Node : hier[n] \in Nat /\ hier'[n] \in Nat
  BY Bounds DEF TypeInv, NodeInv
<1>4. /\ s[k].era \in Nat /\ s[k].claim.of \in Nat /\ \A n \in Node : s[k].kids[n] \in Nat
  BY <1>1, Bounds DEF SlotRec, Claim
<1>5. \A f \in Folder : Exists(f) => Exists(f)'
  BY Nodes
<1>6. s[k].pc = "mvUpdate" => /\ s[k].n \in complete' /\ s[k].claim.of <= hier'[s[k].n]
                              /\ s[k].to \in Folder => Exists(s[k].to)'
  <2> SUFFICES ASSUME s[k].pc = "mvUpdate"
               PROVE  /\ s[k].n \in complete' /\ s[k].claim.of <= hier'[s[k].n]
                      /\ s[k].to \in Folder => Exists(s[k].to)'
    OBVIOUS
  <2>1. s[k].n \in Node /\ s[k].n \in complete' /\ s[k].claim.of <= hier[s[k].n]
        /\ hier[s[k].n] <= hier'[s[k].n]
    BY <1>1, <1>2 DEF Plan
  <2>2. s[k].to \in Folder => Exists(s[k].to)'
    BY <1>1, <1>5 DEF Plan
  <2> QED
    BY <1>3, <1>4, <2>1, <2>2
<1>7. ASSUME s[k].pc = "shGrant" \/ s[k].pc \in Flipped PROVE s[k].era <= hier'[s[k].n]
  <2>1. s[k].n \in Node /\ s[k].era <= hier[s[k].n] /\ hier[s[k].n] <= hier'[s[k].n]
    BY <1>1, <1>2, <1>7, Names DEF Plan
  <2> QED
    BY <1>3, <1>4, <2>1
<1>8. Rotates(s[k]) => /\ Exists(s[k].n)' /\ s[k].todo \subseteq complete'
                       /\ s[k].claim.by \in Folder => Exists(s[k].claim.by)'
                       /\ \A n \in Node : s[k].kids[n] <= hier'[n]
  <2> SUFFICES ASSUME Rotates(s[k])
               PROVE  /\ Exists(s[k].n)' /\ s[k].todo \subseteq complete'
                      /\ s[k].claim.by \in Folder => Exists(s[k].claim.by)'
                      /\ \A n \in Node : s[k].kids[n] <= hier'[n]
    OBVIOUS
  <2>1. /\ Exists(s[k].n) /\ s[k].n \in Node /\ s[k].todo \subseteq complete
        /\ s[k].claim.by \in Folder => Exists(s[k].claim.by)
        /\ \A n \in Node : s[k].kids[n] <= hier[n]
    BY <1>1, <1>2, Names DEF Plan, Rotates
  <2>2. ASSUME NEW n \in Node PROVE s[k].kids[n] <= hier'[n]
    BY <1>3, <1>4, <2>1
  <2> QED
    BY <1>5, <2>1, <2>2
<1>9. s[k].pc = "shGrant" => Exists(s[k].n)'
  BY <1>1, <1>2 DEF Plan
<1>10. s[k].pc \in {"crInsert", "crFinal"} => Exists(s[k].to)'
  BY <1>1, <1>5 DEF Plan, Carries
<1>11. s[k].pc = "crFinal" => /\ s[k].n \notin complete' /\ parent'[s[k].n] = s[k].to
                              /\ claim'[s[k].n] = s[k].claim
  BY <1>1 DEF Plan
<1> QED
  BY <1>6, <1>7, <1>8, <1>9, <1>10, <1>11 DEF Plan, Rotates

\* Eras and nodes stay as they are, and the claims of files on their way: so do the
\* plans.
LEMMA PlanSame ==
  ASSUME TypeInv, NEW k \in Slot, s'[k] = s[k], UNCHANGED <<tree, hier>>,
         s[k].pc = "crFinal" => claim'[s[k].n] = claim[s[k].n]
  PROVE  Plan(s[k])'
BY DEF TypeInv, tree, Plan, Exists, Rotates
-----------------------------------------------------------------------------
(* Requests that are sent.                                                 *)

\* What a client sends, marked where it is late: the rest is made of keys of now.
Sends(i, q) ==
  /\ q \in SlotRec /\ Carries(q) /\ Plan(q) /\ At(i, "idle")
  /\ q.pc \in {"crInsert", "mvUpdate", "shGrant", "rtGuard"}
  /\ q.op = "create" => \A k \in Slot : s[k].op = "create" => s[k].n # q.n
  /\ s' = [s EXCEPT ![i] = q] /\ UNCHANGED <<tree, hier, wrap, claim, ring, out, stray>>
  /\ \A k \in Slot \ {i} : At(k, "rtFolder") =>
       ClaimsBy(q, s[k].n) \subseteq q.late /\ (RowsBy(q, s[k].n) => q.lateRows)
  /\ Fresh(q)

LEMMA Marks ==
  ASSUME TypeInv, NEW i \in Slot, At(i, "idle"), NEW r \in SlotRec, Carries(r), Plan(r),
         r.pc \in {"crInsert", "mvUpdate", "shGrant", "rtGuard"},
         r.op = "create" => \A k \in Slot : s[k].op = "create" => s[k].n # r.n,
         Send(i, r), UNCHANGED <<tree, hier, wrap, claim, ring, out, stray>>
  PROVE  \E q : Sends(i, q)
<1> DEFINE L == OldClaims(r) \cup UNION {ClaimsBy(r, x) : x \in AboutToChange(i)}
           R == OldRows(r) \/ \E x \in AboutToChange(i) : RowsBy(r, x)
           q == [r EXCEPT !.late = L, !.lateRows = R]
<1>1. s' = [s EXCEPT ![i] = q]
  BY DEF Send
<1>2. L \subseteq Node /\ R \in BOOLEAN
  <2>1. r.todo \subseteq Node
    BY DEF SlotRec
  <2>2. \A x : ClaimsBy(r, x) \subseteq Node
    BY <2>1 DEF ClaimsBy
  <2>3. OldClaims(r) \subseteq Node
    BY <2>1 DEF OldClaims
  <2> QED
    BY <2>2, <2>3 DEF OldRows, RowsBy
<1>3. /\ OldClaims(r) \subseteq L /\ (OldRows(r) => R)
      /\ \A k \in Slot \ {i} : At(k, "rtFolder") =>
           ClaimsBy(r, s[k].n) \subseteq L /\ (RowsBy(r, s[k].n) => R)
  <2>1. \A k \in Slot \ {i} : At(k, "rtFolder") => s[k].n \in AboutToChange(i)
    BY DEF AboutToChange
  <2> QED
    BY <2>1
<1> HIDE DEF L, R
<1>4. /\ q.pc = r.pc /\ q.op = r.op /\ q.u = r.u /\ q.n = r.n /\ q.to = r.to /\ q.claim = r.claim
      /\ q.era = r.era /\ q.kids = r.kids /\ q.todo = r.todo /\ q.who = r.who /\ q.v = r.v
      /\ q.late = L /\ q.lateRows = R /\ q \in SlotRec
  BY <1>2 DEF SlotRec
<1> HIDE DEF q
<1>5. Carries(q) /\ Plan(q)
  <2>1. r.pc # "idle"
    OBVIOUS
  <2> QED
    BY <1>4, <2>1 DEF Carries, Plan, Rotates
<1>6. \A k \in Slot \ {i} : At(k, "rtFolder") =>
        ClaimsBy(q, s[k].n) \subseteq q.late /\ (RowsBy(q, s[k].n) => q.lateRows)
  BY <1>3, <1>4 DEF ClaimsBy, RowsBy
<1>7. Fresh(q)
  <2>1. q.n \in Node
    BY <1>4 DEF Carries
  <2>2. q.pc \in Unflipped => q.op # "share"
    BY <1>4, Names DEF Carries, Rotates
  <2>3. q.pc \in Unflipped /\ q.n \notin L /\ q.claim.by \in Folder
          => q.claim.era = hier[q.claim.by]
    BY <1>3, <1>4, <2>1, <2>2 DEF OldClaims
  <2>4. q.pc = "mvUpdate" /\ q.n \notin L /\ q.to \in Folder => q.claim.of = hier[q.n]
    BY <1>3, <1>4, <2>1 DEF OldClaims, Carries
  <2>5. \A n \in q.todo \ L : q.kids[n] = hier[n]
    BY <1>3, <1>4 DEF OldClaims
  <2>6. q.pc = "shGrant" /\ ~R => q.era = hier[q.n]
    BY <1>3, <1>4 DEF OldRows, Carries
  <2>7. q.pc \notin Flipped
    BY <1>4, Names
  <2> QED
    BY <1>4, <2>3, <2>4, <2>5, <2>6, <2>7 DEF Fresh
<1>8. q.op = "create" => \A k \in Slot : s[k].op = "create" => s[k].n # q.n
  BY <1>4
<1>9. q.pc \in {"crInsert", "mvUpdate", "shGrant", "rtGuard"}
  BY <1>4
<1> QED
  BY <1>1, <1>4, <1>5, <1>6, <1>7, <1>8, <1>9 DEF Sends

\* The public key that a client seals to is one that the folder has, or has had.
LEMMA SealsExist ==
  ASSUME TypeInv, OutInv, NEW f \in Folder, NEW u \in User, NEW e \in SealsTo(u, f), e # 0
  PROVE  e \in Eras /\ Exists(f)
<1>1. e \in Eras /\ e <= hier[f] /\ hier[f] \in Nat
  <2>1. CASE e \in Cached(u, f)
    BY <2>1, Nodes, Bounds DEF Cached, OutInv, TypeInv, NodeInv
  <2>2. CASE e = hier[f]
    BY <2>2, Nodes, Bounds DEF TypeInv, NodeInv
  <2> QED
    BY <2>1, <2>2 DEF SealsTo
<1>2. hier[f] # 0
  BY <1>1, Bounds
<1> QED
  BY <1>1, <1>2, Nodes DEF TypeInv, NodeInv

\* The requests that clients send.
CreateOf(u, n, p, e) ==
  [Idle EXCEPT !.pc = "crInsert", !.op = "create", !.u = u, !.n = n, !.to = p,
               !.claim = [by |-> p, era |-> e, of |-> 1]]

LEMMA CreateRec ==
  ASSUME NEW u \in User, NEW n \in Node, NEW p \in Folder, NEW e \in Eras
  PROVE  LET r == CreateOf(u, n, p, e) IN
         /\ r \in SlotRec /\ Carries(r) /\ r.pc = "crInsert" /\ r.op = "create" /\ r.n = n
         /\ r.to = p
<1> DEFINE r == CreateOf(u, n, p, e)
<1>1. /\ r.pc = "crInsert" /\ r.op = "create" /\ r.u = u /\ r.n = n
      /\ r.to = p /\ r.claim = [by |-> p, era |-> e, of |-> 1]
  BY DEF Idle, CreateOf
<1>2. r \in SlotRec
  <2>1. Idle \in SlotRec
    BY IdleTyped
  <2>2. [by |-> p, era |-> e, of |-> 1] \in Claim
    BY Bounds DEF Claim
  <2> QED
    BY <2>1, <2>2, Names DEF SlotRec, CreateOf
<1> HIDE DEF r
<1>3. Carries(r)
  BY <1>1, Names DEF Carries, Rotates
<1> QED
  BY <1>1, <1>2, <1>3 DEF r

MoveOf(u, n, q, c) ==
  [Idle EXCEPT !.pc = "mvUpdate", !.op = "move", !.u = u, !.n = n, !.to = q, !.claim = c]

LEMMA MoveRec ==
  ASSUME NEW u \in User, NEW n \in Node, NEW q \in Folder \cup {Top}, NEW c \in Claim, c.by = q
  PROVE  LET r == MoveOf(u, n, q, c) IN
         /\ r \in SlotRec /\ Carries(r) /\ r.pc = "mvUpdate" /\ r.op = "move" /\ r.n = n
         /\ r.to = q /\ r.claim = c
<1> DEFINE r == MoveOf(u, n, q, c)
<1>1. r.pc = "mvUpdate" /\ r.op = "move" /\ r.u = u /\ r.n = n /\ r.to = q /\ r.claim = c
  BY DEF Idle, MoveOf
<1>2. r \in SlotRec
  BY IdleTyped, Names DEF SlotRec, MoveOf
<1> HIDE DEF r
<1>3. Carries(r)
  BY <1>1, Names DEF Carries, Rotates
<1> QED
  BY <1>1, <1>2, <1>3 DEF r

ShareOf(u, f, v, e) ==
  [Idle EXCEPT !.pc = "shGrant", !.op = "share", !.u = u, !.n = f, !.v = v, !.era = e]

LEMMA ShareRec ==
  ASSUME NEW u \in User, NEW f \in Folder, NEW v \in User, NEW e \in Eras
  PROVE  LET r == ShareOf(u, f, v, e) IN
         /\ r \in SlotRec /\ Carries(r) /\ r.pc = "shGrant" /\ r.op = "share" /\ r.n = f
         /\ r.era = e
<1> DEFINE r == ShareOf(u, f, v, e)
<1>1. r.pc = "shGrant" /\ r.op = "share" /\ r.u = u /\ r.n = f /\ r.v = v /\ r.era = e
  BY DEF Idle, ShareOf
<1>2. r \in SlotRec
  <2>1. Idle \in SlotRec
    BY IdleTyped
  <2>2. f \in Node
    BY Nodes
  <2> QED
    BY <2>1, <2>2, Names DEF SlotRec, ShareOf
<1> HIDE DEF r
<1>3. Carries(r)
  BY <1>1, Names, Nodes DEF Carries, Rotates
<1> QED
  BY <1>1, <1>2, <1>3 DEF r

RotateOf(u, f, v, c, kids, todo, who) ==
  [Idle EXCEPT !.pc = "rtGuard", !.op = "rotate", !.u = u, !.n = f, !.v = v,
               !.claim = c, !.kids = kids, !.todo = todo, !.who = who]

LEMMA RotateRec ==
  ASSUME NEW u \in User, NEW f \in Folder, NEW v \in User, NEW c \in Claim,
         NEW kids \in [Node -> Eras], NEW todo \in SUBSET Node,
         NEW who \in SUBSET User, v \notin who, f \notin todo
  PROVE  LET r == RotateOf(u, f, v, c, kids, todo, who) IN
         /\ r \in SlotRec /\ Carries(r) /\ r.pc = "rtGuard" /\ r.op = "rotate" /\ r.n = f
         /\ r.claim = c /\ r.kids = kids /\ r.todo = todo /\ r.who = who /\ r.v = v
<1> DEFINE r == RotateOf(u, f, v, c, kids, todo, who)
<1>1. /\ r.pc = "rtGuard" /\ r.op = "rotate" /\ r.u = u /\ r.n = f
      /\ r.claim = c /\ r.kids = kids /\ r.todo = todo /\ r.who = who /\ r.v = v
  BY DEF Idle, RotateOf
<1>2. r \in SlotRec
  BY IdleTyped, Names, Nodes DEF SlotRec, RotateOf
<1> HIDE DEF r
<1>3. Carries(r)
  BY <1>1, Names, Nodes DEF Carries, Rotates
<1> QED
  BY <1>1, <1>2, <1>3 DEF r

LEMMA SendsCreate ==
  ASSUME TypeInv, OutInv, NEW i \in Slot, At(i, "idle"), NEW u \in User, NEW n \in Node,
         NEW p \in Folder, NEW e \in 1..MaxEra, StartCreate(i, u, n, p, e)
  PROVE  \E q : Sends(i, q)
<1> DEFINE r == CreateOf(u, n, p, e)
<1>1. e \in Eras /\ e # 0
  BY Bounds
<1>2. /\ Send(i, r) /\ UNCHANGED <<tree, hier, wrap, claim, ring, out, stray>> /\ ~Exists(n)
      /\ e \in SealsTo(u, p) /\ \A k \in Slot : s[k].op = "create" => s[k].n # n
  BY DEF StartCreate, Exists, CreateOf
<1>3. r \in SlotRec /\ Carries(r) /\ r.pc = "crInsert" /\ r.op = "create" /\ r.n = n /\ r.to = p
  BY <1>1, CreateRec
<1> HIDE DEF r
<1>4. Exists(p)
  BY <1>1, <1>2, SealsExist
<1>5. Plan(r)
  BY <1>2, <1>3, <1>4, Names DEF Plan, Rotates
<1> QED
  BY <1>2, <1>3, <1>5, Marks

LEMMA SendsMove ==
  ASSUME TypeInv, NEW i \in Slot, At(i, "idle"), NEW u \in User, NEW n \in Node,
         NEW q \in Folder \cup {Top}, StartMove(i, u, n, q)
  PROVE  \E x : Sends(i, x)
<1> DEFINE c == IF q = Top THEN NoClaim ELSE [by |-> q, era |-> hier[q], of |-> Derived(u, n)]
           r == MoveOf(u, n, q, c)
<1>1. Derived(u, n) \in Eras /\ Derived(u, n) <= hier[n]
  BY DerivedBound DEF TypeInv
<1>2. c \in Claim /\ c.of <= hier[n] /\ c.by = q
  <2>1. CASE q = Top
    <3>1. 0 <= hier[n]
      BY Bounds DEF TypeInv, NodeInv
    <3> QED
      BY <2>1, <3>1, Bounds
  <2>2. CASE q # Top
    <3>1. q \in Folder /\ hier[q] \in Eras
      BY <2>2, Nodes DEF TypeInv, NodeInv
    <3> QED
      BY <1>1, <2>2, <3>1 DEF Claim
  <2> QED
    BY <2>1, <2>2
<1>3. Send(i, r) /\ UNCHANGED <<tree, hier, wrap, claim, ring, out, stray>>
      /\ n \in complete /\ (q # Top => q \in complete)
  BY DEF StartMove, MoveOf
<1> HIDE DEF c
<1>4. /\ r \in SlotRec /\ Carries(r) /\ r.pc = "mvUpdate" /\ r.op = "move" /\ r.n = n
      /\ r.to = q /\ r.claim = c
  BY <1>2, MoveRec
<1> HIDE DEF r
<1>5. q \in Folder => Exists(q)
  BY <1>3, Nodes DEF TypeInv, NodeInv, Exists
<1>6. Plan(r)
  BY <1>2, <1>3, <1>4, <1>5, Names DEF Plan, Rotates
<1> QED
  BY <1>3, <1>4, <1>6, Marks

LEMMA SendsShare ==
  ASSUME TypeInv, NEW i \in Slot, At(i, "idle"), NEW u \in User, NEW f \in Folder, NEW v \in User,
         StartShare(i, u, f, v)
  PROVE  \E q : Sends(i, q)
<1> DEFINE r == ShareOf(u, f, v, Derived(u, f))
<1>1. Derived(u, f) \in Eras /\ Derived(u, f) <= hier[f] /\ f \in Node
  BY DerivedBound, Nodes DEF TypeInv
<1>2. /\ r \in SlotRec /\ Carries(r) /\ r.pc = "shGrant" /\ r.op = "share" /\ r.n = f
      /\ r.era = Derived(u, f)
  BY <1>1, ShareRec
<1>3. Send(i, r) /\ UNCHANGED <<tree, hier, wrap, claim, ring, out, stray>> /\ f \in complete
  BY DEF StartShare, ShareOf
<1> HIDE DEF r
<1>4. Exists(f)
  BY <1>3 DEF TypeInv, NodeInv, Exists
<1>5. Plan(r)
  BY <1>1, <1>2, <1>4, Names DEF Plan, Rotates
<1> QED
  BY <1>2, <1>3, <1>5, Marks

LEMMA SendsRotate ==
  ASSUME TypeInv, NEW i \in Slot, At(i, "idle"), NEW u \in User, NEW f \in Folder, NEW v \in User,
         NEW old \in 1..MaxEra, NEW e \in Eras, StartRotate(i, u, f, v, old, e)
  PROVE  \E q : Sends(i, q)
<1> DEFINE C    == Children(f)
           c    == IF parent[f] = Top THEN NoClaim ELSE [by |-> parent[f], era |-> e, of |-> 0]
           kids == [n \in Node |-> IF n \in C THEN claim[n].of ELSE 0]
           who  == Collaborators(f) \ {v}
           r    == RotateOf(u, f, v, c, kids, C, who)
<1>1. wrap[f][v] # 0 /\ Send(i, r) /\ UNCHANGED <<tree, hier, wrap, claim, ring, out, stray>>
  BY DEF StartRotate, RotateOf
<1>2. f \in Node /\ Exists(f) /\ parent[f] \in Folder \cup {Top}
  <2>1. f \in Node /\ hier[f] \in Nat /\ wrap[f][v] \in Nat /\ wrap[f][v] <= hier[f]
    BY Nodes, Bounds DEF TypeInv, NodeInv
  <2>2. hier[f] # 0
    BY <1>1, <2>1
  <2> QED
    BY <2>1, <2>2 DEF TypeInv, NodeInv, Exists
<1>3. C \subseteq complete /\ C \subseteq Node /\ f \notin C
  BY Nodes DEF Children, TypeInv, NodeInv
<1>4. c \in Claim /\ (c.by \in Folder => c.by = parent[f])
  <2>1. CASE parent[f] = Top
    BY <1>2, <2>1, Bounds, Nodes
  <2>2. CASE parent[f] # Top
    BY <1>2, <2>2, Bounds DEF Claim
  <2> QED
    BY <2>1, <2>2
<1>5. kids \in [Node -> Eras] /\ \A n \in Node : kids[n] <= hier[n]
  <2>1. ASSUME NEW n \in Node PROVE claim[n].of \in Eras /\ claim[n].of <= hier[n] /\ 0 <= hier[n]
    BY Bounds DEF TypeInv, NodeInv, Claim
  <2> QED
    BY <2>1, Bounds
<1>6. who \subseteq User /\ v \notin who
  BY DEF Collaborators
<1> HIDE DEF c, kids, who, C
<1>7. /\ r \in SlotRec /\ Carries(r) /\ r.pc = "rtGuard" /\ r.op = "rotate" /\ r.n = f
      /\ r.claim = c /\ r.kids = kids /\ r.todo = C
  BY <1>3, <1>4, <1>5, <1>6, RotateRec
<1> HIDE DEF r
<1>8. Plan(r)
  <2>1. c.by \in Folder => Exists(c.by)
    BY <1>2, <1>4 DEF TypeInv, NodeInv
  <2> QED
    BY <1>2, <1>3, <1>5, <1>7, <2>1, Names DEF Plan, Rotates
<1> QED
  BY <1>1, <1>7, <1>8, Marks

LEMMA Begins ==
  ASSUME TypeInv, OutInv, NEW i \in Slot, Begin(i)
  PROVE  \E q : Sends(i, q)
BY SendsCreate, SendsMove, SendsShare, SendsRotate DEF Begin

LEMMA TypeBegin ==
  ASSUME TypeInv, OutInv, NEW i \in Slot, Begin(i)
  PROVE  TypeInv'
<1>1. PICK q : Sends(i, q)
  BY Begins
<1>2. /\ q \in SlotRec /\ Carries(q) /\ Plan(q)
      /\ q.op = "create" => \A k \in Slot : s[k].op = "create" => s[k].n # q.n
      /\ s' = [s EXCEPT ![i] = q] /\ UNCHANGED <<tree, hier, wrap, claim, ring, out, stray>>
  BY <1>1 DEF Sends
<1>3. SlotInv' /\ s'[i] = q /\ \A k \in Slot \ {i} : s'[k] = s[k]
  BY <1>2, SlotMoves DEF TypeInv
<1>4. NodeInv' /\ RingInv' /\ StrayInv'
  BY <1>2, NodeSame DEF TypeInv, RingInv, StrayInv, stray
<1>5. Plan(s[i])'
  BY <1>2, <1>3 DEF Plan, tree, Exists, Rotates
<1>6. \A k \in Slot : Plan(s[k])'
  BY <1>2, <1>3, <1>5, PlanSame
<1>7. Distinct'
  BY <1>2, <1>3, DistinctMoves DEF TypeInv
<1> QED
  BY <1>3, <1>4, <1>6, <1>7 DEF TypeInv
-----------------------------------------------------------------------------
(* Types, step by step.                                                    *)

LEMMA TypeStep ==
  ASSUME TypeInv, NEW i \in Slot, s' \in [Slot -> SlotRec], \A k \in Slot \ {i} : s'[k] = s[k],
         NodeInv', RingInv', StrayInv', Carries(s[i])', \A k \in Slot : Plan(s[k])',
         (s'[i].op = s[i].op /\ s'[i].n = s[i].n) \/ s'[i].op # "create"
  PROVE  TypeInv'
<1>1. SlotInv'
  BY DEF TypeInv, SlotInv, Carries, Rotates
<1> QED
  BY <1>1, DistinctMoves DEF TypeInv

LEMMA TypeReturns ==
  ASSUME TypeInv, NEW i \in Slot, Return(i), NodeInv', RingInv', StrayInv',
         \A k \in Slot \ {i} : Plan(s[k])'
  PROVE  TypeInv'
<1>1. SlotInv' /\ s'[i] = Idle /\ \A k \in Slot \ {i} : s'[k] = s[k]
  BY Returns DEF TypeInv
<1>2. Plan(s[i])'
  BY <1>1, IdleTyped, Names DEF Plan, Rotates
<1>3. s'[i].op # "create" /\ Carries(s[i])' /\ s' \in [Slot -> SlotRec]
  BY <1>1, IdleTyped DEF SlotInv
<1> QED
  BY <1>1, <1>2, <1>3, TypeStep

\* Nothing but s, what users learn and what is stray changes.
LEMMA TypeQuiet ==
  ASSUME TypeInv, NEW i \in Slot, UNCHANGED <<tree, hier, wrap, claim>>, Return(i), RingInv', StrayInv'
  PROVE  TypeInv'
<1>1. \A k \in Slot \ {i} : Plan(s[k])'
  BY Returns, PlanSame DEF TypeInv
<1> QED
  BY <1>1, NodeSame, TypeReturns DEF TypeInv

\* The row of a node is created.
LEMMA CreateNode ==
  ASSUME TypeInv, NEW i \in Slot, CreateInsert(i), MayWrite(s[i].u, s[i].to)
  PROVE  LET r == s[i] IN
         /\ r.pc = "crInsert" /\ r.op = "create" /\ r.n \in Node /\ ~Exists(r.n) /\ hier[r.n] = 0
         /\ r.u \in User /\ r.to \in Folder /\ r.to \in Node /\ Exists(r.to) /\ r.to # r.n
         /\ r.claim \in Claim /\ r.claim.by = r.to /\ r.claim.of = 1
         /\ parent'[r.n] = r.to /\ hier'[r.n] = 1 /\ claim'[r.n] = r.claim
         /\ \A u \in User : wrap[r.n][u] = 0 /\ wrap'[r.n][u] \in {0, 1}
         /\ \A m \in Node \ {r.n} : /\ parent'[m] = parent[m] /\ hier'[m] = hier[m]
                                    /\ claim'[m] = claim[m] /\ wrap'[m] = wrap[m]
         /\ complete \subseteq complete' /\ complete' \subseteq complete \cup {r.n}
         /\ r.n \notin complete /\ (r.n \in complete' <=> r.n \in Folder)
         /\ Seals(r, r.n) /\ strayRow' = strayRow /\ Learn(out)
         /\ r.n \in Folder => Return(i)
         /\ r.n \notin Folder => Goto(i, "crFinal")
         /\ NodeInv'
<1> DEFINE r == s[i]
<1>1. r \in SlotRec /\ Carries(r) /\ Plan(r) /\ r.pc = "crInsert"
  BY DEF TypeInv, SlotInv, CreateInsert, At
<1>2. /\ r.n \in Node /\ ~Exists(r.n) /\ r.op = "create" /\ r.u \in User /\ r.to \in Folder
      /\ r.claim \in Claim /\ r.claim.of = 1 /\ r.claim.by = r.to /\ Exists(r.to)
  BY <1>1 DEF Carries, Plan, SlotRec
<1>3. /\ parent' = [parent EXCEPT ![r.n] = r.to] /\ owner' = [owner EXCEPT ![r.n] = r.u]
      /\ hier' = [hier EXCEPT ![r.n] = 1]
      /\ wrap' = [wrap EXCEPT ![r.n][r.u] = 1] /\ claim' = [claim EXCEPT ![r.n] = r.claim]
      /\ r.n \in Folder => complete' = complete \cup {r.n} /\ Return(i)
      /\ r.n \notin Folder => complete' = complete /\ Goto(i, "crFinal")
      /\ Learn(out) /\ Seals(r, r.n) /\ strayRow' = strayRow
  BY DEF CreateInsert
<1> HIDE DEF r
<1>4. hier[r.n] = 0 /\ r.n \notin complete /\ r.to # r.n /\ r.to \in Node
  BY <1>2, Nodes DEF TypeInv, NodeInv, Exists
<1>5. /\ parent' \in [Node -> Folder \cup {Top, Gone}] /\ owner' \in [Node -> User \cup {Nobody}]
      /\ parent'[r.n] = r.to /\ \A n \in Node \ {r.n} : parent'[n] = parent[n]
  BY <1>2, <1>3 DEF TypeInv, NodeInv
<1>6. hier' \in [Node -> Eras] /\ hier'[r.n] = 1 /\ \A n \in Node \ {r.n} : hier'[n] = hier[n]
  BY <1>2, <1>3, Bounds DEF TypeInv, NodeInv
<1>7. /\ wrap' \in [Node -> [User -> Eras]] /\ \A u \in User : wrap'[r.n][u] \in {wrap[r.n][u], 1}
      /\ \A n \in Node \ {r.n} : wrap'[n] = wrap[n]
  BY <1>2, <1>3, Bounds DEF TypeInv, NodeInv
<1>8. claim' \in [Node -> Claim] /\ claim'[r.n] = r.claim /\ \A n \in Node \ {r.n} : claim'[n] = claim[n]
  BY <1>2, <1>3 DEF TypeInv, NodeInv
<1>9. /\ complete \subseteq complete' /\ complete' \subseteq complete \cup {r.n}
      /\ r.n \in complete' <=> r.n \in Folder
  BY <1>3, <1>4
<1>10. complete' \subseteq {n \in Node : parent'[n] # Gone}
  BY <1>2, <1>5, <1>9, Nodes DEF TypeInv, NodeInv
<1>11. \A u \in User : wrap[r.n][u] = 0
  <2>1. ASSUME NEW u \in User PROVE wrap[r.n][u] \in Nat /\ wrap[r.n][u] <= hier[r.n]
    BY <1>2, Bounds DEF TypeInv, NodeInv
  <2> QED
    BY <1>4, <2>1
<1>12. ASSUME NEW n \in Node, NEW u \in User PROVE wrap'[n][u] <= hier'[n]
  <2>1. CASE n = r.n
    BY <1>6, <1>7, <1>11, <2>1
  <2>2. CASE n # r.n
    BY <1>6, <1>7, <2>2 DEF TypeInv, NodeInv
  <2> QED
    BY <2>1, <2>2
<1>13. ASSUME NEW n \in Node
       PROVE  /\ (parent'[n] # Gone <=> hier'[n] # 0) /\ claim'[n].of <= hier'[n]
              /\ parent'[n] \in Folder => parent'[n] # n /\ parent'[parent'[n]] # Gone
  <2>1. CASE n = r.n
    <3>1. parent'[r.to] # Gone
      BY <1>2, <1>4, <1>5 DEF Exists
    <3> QED
      BY <1>2, <1>4, <1>5, <1>6, <1>8, <2>1, <3>1, Nodes
  <2>2. CASE n # r.n
    <3>1. parent'[n] = parent[n] /\ hier'[n] = hier[n] /\ claim'[n] = claim[n]
      BY <1>5, <1>6, <1>8, <2>2
    <3>2. parent[n] \in Folder => parent[n] # n /\ parent[n] # r.n /\ parent'[parent[n]] # Gone
      BY <1>2, <1>5, Nodes DEF TypeInv, NodeInv, Exists
    <3> QED
      BY <3>1, <3>2 DEF TypeInv, NodeInv, Exists
  <2> QED
    BY <2>1, <2>2
<1>14. ASSUME NEW f \in Folder, parent'[f] # Gone PROVE f \in complete'
  BY <1>5, <1>9, <1>14, Nodes DEF TypeInv, NodeInv, Exists
<1>15. \A n \in File : hier'[n] <= 1
  BY <1>6, Nodes DEF TypeInv, NodeInv
<1>16. NodeInv'
  BY <1>5, <1>6, <1>7, <1>8, <1>10, <1>12, <1>13, <1>14, <1>15 DEF NodeInv, Exists
<1> QED
  BY <1>1, <1>2, <1>3, <1>4, <1>5, <1>6, <1>7, <1>8, <1>9, <1>11, <1>16 DEF r

\* A request that is refused.
LEMMA TypeRefused ==
  ASSUME TypeInv, NEW i \in Slot, Return(i), UNCHANGED <<tree, hier, wrap, claim, stray>>, Learn(out)
  PROVE  TypeInv'
<1>1. RingInv' /\ StrayInv'
  BY NodeSame, LearnTyped DEF TypeInv, RingInv, StrayInv, stray
<1> QED
  BY <1>1, TypeQuiet

LEMMA TypeCreateInsert ==
  ASSUME TypeInv, NEW i \in Slot, CreateInsert(i)
  PROVE  TypeInv'
<1>1. CASE ~MayWrite(s[i].u, s[i].to)
  <2>1. Return(i) /\ UNCHANGED <<tree, hier, wrap, claim, stray>> /\ Learn(out)
    BY <1>1 DEF CreateInsert, stray
  <2> QED
    BY <2>1, TypeRefused
<1>2. CASE MayWrite(s[i].u, s[i].to)
  <2> DEFINE n == s[i].n
  <2>1. \A k \in Slot \ {i} : s'[k] = s[k]
    BY <1>2, CreateNode, Returns, Goes, Names DEF TypeInv
  <2>2. /\ n \in Node /\ ~Exists(n) /\ hier[n] = 0 /\ hier'[n] = 1 /\ parent'[n] \in Folder
        /\ \A m \in Node \ {n} : parent'[m] = parent[m] /\ hier'[m] = hier[m] /\ claim'[m] = claim[m]
        /\ complete \subseteq complete' /\ complete' \subseteq complete \cup {n}
        /\ Seals(s[i], n) /\ strayRow' = strayRow /\ Learn(out) /\ NodeInv' /\ s[i].op = "create"
    BY <1>2, CreateNode
  <2>3. RingInv' /\ StrayInv'
    BY <2>2, LearnTyped, SealsTyped DEF TypeInv, RingInv, StrayInv
  <2> HIDE DEF n
  <2>4. \A m \in Node : hier[m] <= hier'[m] /\ (Exists(m) => Exists(m)')
    <3>1. ASSUME NEW m \in Node PROVE hier[m] <= hier'[m]
      <4>1. hier[m] \in Nat
        BY Bounds DEF TypeInv, NodeInv
      <4> QED
        BY <2>2, <4>1
    <3> QED
      BY <2>2, <3>1, Nodes DEF Exists
  <2>5. ASSUME NEW k \in Slot \ {i} PROVE Plan(s[k])'
    <3>1. Carries(s[k]) /\ Plan(s[k]) /\ s'[k] = s[k]
      BY <2>1 DEF TypeInv, SlotInv
    <3>2. s[k].op = "create" => s[k].n # n
      BY <2>2 DEF TypeInv, Distinct, n
    <3>3. s[k].pc = "crInsert" => ~Exists(s[k].n)'
      BY <2>2, <3>1, <3>2 DEF Carries, Plan, Exists
    <3>4. s[k].pc = "crFinal" => /\ s[k].n \notin complete' /\ parent'[s[k].n] = parent[s[k].n]
                                 /\ claim'[s[k].n] = claim[s[k].n]
      BY <2>2, <3>1, <3>2 DEF Carries, Plan
    <3> QED
      BY <2>2, <2>4, <3>1, <3>3, <3>4, PlanStays
  <2>6. CASE n \in Folder
    BY <1>2, <2>2, <2>3, <2>5, <2>6, CreateNode, TypeReturns DEF n
  <2>7. CASE n \notin Folder
    <3>1. /\ Goto(i, "crFinal") /\ n \notin complete' /\ parent'[n] = s[i].to /\ claim'[n] = s[i].claim
          /\ s[i].pc = "crInsert" /\ Exists(s[i].to) /\ s[i].to \in Folder
      BY <1>2, <2>7, CreateNode DEF n
    <3>2. /\ s' \in [Slot -> SlotRec] /\ s'[i].pc = "crFinal" /\ s'[i].op = s[i].op
          /\ s'[i].u = s[i].u /\ s'[i].n = n /\ s'[i].to = s[i].to /\ s'[i].claim = s[i].claim
      BY <3>1, Goes, Names DEF TypeInv, GoesOn, n
    <3>3. Carries(s[i]) /\ n \in File
      BY <2>2, <2>7, Nodes DEF TypeInv, SlotInv
    <3>4. Carries(s[i])'
      BY <3>1, <3>2, <3>3, Nodes, Names DEF Carries, Rotates
    <3>5. parent'[s[i].to] # Gone /\ parent'[n] # Gone
      BY <2>2, <2>4, <3>1, Nodes DEF Exists
    <3>6. Plan(s[i])'
      BY <3>1, <3>2, <3>5, Names DEF Plan, Rotates, Exists
    <3>7. \A k \in Slot : Plan(s[k])'
      BY <2>5, <3>6
    <3> QED
      BY <2>1, <2>2, <2>3, <3>2, <3>4, <3>7, TypeStep DEF n
  <2> QED
    BY <2>6, <2>7
<1> QED
  BY <1>1, <1>2

\* The upload of a file is complete.
LEMMA FinalEffect ==
  ASSUME TypeInv, NEW i \in Slot, CreateFinal(i)
  PROVE  LET r == s[i] IN
         /\ r.pc = "crFinal" /\ r.op = "create" /\ r.n \in File /\ r.n \in Node /\ Exists(r.n)
         /\ r.n \notin complete /\ parent[r.n] = r.to /\ r.to \in Folder /\ claim[r.n] = r.claim
         /\ r.claim.by = r.to /\ r.claim.of = 1
         /\ complete' = complete \cup {r.n} /\ Seals(r, r.n) /\ strayRow' = strayRow
         /\ Return(i) /\ UNCHANGED <<parent, owner, hier, wrap, claim, ring, out>>
<1>1. /\ Carries(s[i]) /\ Plan(s[i]) /\ s[i].pc = "crFinal" /\ Return(i)
      /\ complete' = complete \cup {s[i].n} /\ Seals(s[i], s[i].n) /\ strayRow' = strayRow
      /\ UNCHANGED <<parent, owner, hier, wrap, claim, ring, out>>
  BY DEF TypeInv, SlotInv, CreateFinal, At
<1>2. /\ s[i].op = "create" /\ s[i].n \in File /\ s[i].to \in Folder
      /\ s[i].claim.by = s[i].to /\ s[i].claim.of = 1
  BY <1>1 DEF Carries
<1>3. /\ s[i].n \notin complete /\ parent[s[i].n] = s[i].to /\ claim[s[i].n] = s[i].claim
  BY <1>1 DEF Plan
<1>4. s[i].n \in Node /\ Exists(s[i].n)
  BY <1>2, <1>3, Nodes DEF Exists
<1> QED
  BY <1>1, <1>2, <1>3, <1>4

LEMMA TypeCreateFinal ==
  ASSUME TypeInv, NEW i \in Slot, CreateFinal(i)
  PROVE  TypeInv'
<1>1. /\ s[i].n \in Node /\ Exists(s[i].n) /\ s[i].n \in File /\ Return(i)
      /\ s[i].op = "create" /\ s[i].pc = "crFinal"
      /\ complete' = complete \cup {s[i].n} /\ Seals(s[i], s[i].n) /\ strayRow' = strayRow
      /\ UNCHANGED <<parent, owner, hier, wrap, claim, ring, out>>
  BY FinalEffect
<1>2. NodeInv' /\ RingInv'
  BY <1>1 DEF TypeInv, NodeInv, RingInv, Exists
<1>3. StrayInv'
  BY <1>1, SealsTyped DEF TypeInv, StrayInv
<1>4. \A n \in Node : hier[n] <= hier'[n] /\ (Exists(n)' <=> Exists(n))
  BY <1>1, Bounds DEF TypeInv, NodeInv, Exists
<1>5. ASSUME NEW k \in Slot \ {i} PROVE Plan(s[k])'
  <2>1. s'[k] = s[k] /\ Carries(s[k]) /\ Plan(s[k])
    BY <1>1, Returns DEF TypeInv, SlotInv
  <2>2. s[k].pc = "crInsert" => ~Exists(s[k].n)'
    BY <1>1, <2>1 DEF Plan, Exists
  <2>3. s[k].pc = "crFinal" => s[k].n \notin complete'
    BY <1>1, <2>1 DEF Plan, Carries, TypeInv, Distinct
  <2> QED
    BY <1>1, <1>2, <1>4, <2>1, <2>2, <2>3, PlanStays
<1> QED
  BY <1>1, <1>2, <1>3, <1>5, TypeReturns

\* A node is moved.
LEMMA MoveEffect ==
  ASSUME TypeInv, NEW i \in Slot, MoveUpdate(i)
  PROVE  LET r == s[i] IN
         /\ r.pc = "mvUpdate" /\ r.op = "move" /\ r.n \in Node /\ Exists(r.n) /\ r.n \in complete
         /\ r.claim \in Claim /\ r.claim.by = r.to /\ r.claim.of <= hier[r.n]
         /\ r.to \in Folder \cup {Top} /\ (r.to \in Folder => Exists(r.to))
         /\ Return(i) /\ UNCHANGED <<owner, complete, hier, wrap, strayRow>> /\ Learn(out)
         /\ \/ UNCHANGED <<parent, claim, strayClaim>>
            \/ /\ parent'[r.n] = r.to /\ claim'[r.n] = r.claim /\ Seals(r, r.n) /\ r.to # r.n
               /\ parent' \in [Node -> Folder \cup {Top, Gone}] /\ claim' \in [Node -> Claim]
               /\ \A m \in Node \ {r.n} : parent'[m] = parent[m] /\ claim'[m] = claim[m]
<1> DEFINE r == s[i]
<1>1. /\ r \in SlotRec /\ Carries(r) /\ Plan(r) /\ r.pc = "mvUpdate" /\ Return(i)
      /\ UNCHANGED <<owner, complete, hier, wrap, strayRow>> /\ Learn(out)
  BY DEF TypeInv, SlotInv, MoveUpdate, At
<1>2. /\ r.n \in Node /\ r.n \in complete /\ r.claim.of <= hier[r.n] /\ Exists(r.n) /\ r.op = "move"
      /\ r.claim \in Claim /\ r.to \in Folder \cup {Top} /\ r.claim.by = r.to
      /\ r.to \in Folder => Exists(r.to)
  BY <1>1 DEF Carries, Plan, SlotRec, TypeInv, NodeInv, Exists
<1>3. \/ UNCHANGED <<parent, claim, strayClaim>>
      \/ /\ parent' = [parent EXCEPT ![r.n] = r.to] /\ claim' = [claim EXCEPT ![r.n] = r.claim]
         /\ Seals(r, r.n) /\ MayMove(r.u, r.n, r.to)
  BY DEF MoveUpdate
<1> HIDE DEF r
<1>4. MayMove(r.u, r.n, r.to) => r.to # r.n
  BY <1>2, Nodes DEF MayMove
<1>5. CASE UNCHANGED <<parent, claim, strayClaim>>
  BY <1>1, <1>2, <1>5 DEF r
<1>6. CASE /\ parent' = [parent EXCEPT ![r.n] = r.to] /\ claim' = [claim EXCEPT ![r.n] = r.claim]
           /\ Seals(r, r.n) /\ r.to # r.n
  <2>1. /\ parent'[r.n] = r.to /\ claim'[r.n] = r.claim
        /\ parent' \in [Node -> Folder \cup {Top, Gone}] /\ claim' \in [Node -> Claim]
        /\ \A m \in Node \ {r.n} : parent'[m] = parent[m] /\ claim'[m] = claim[m]
    BY <1>2, <1>6 DEF TypeInv, NodeInv
  <2> QED
    BY <1>1, <1>2, <1>6, <2>1 DEF r
<1> QED
  BY <1>3, <1>4, <1>5, <1>6

LEMMA TypeMoveUpdate ==
  ASSUME TypeInv, NEW i \in Slot, MoveUpdate(i)
  PROVE  TypeInv'
<1> DEFINE r == s[i]
<1>1. /\ r.n \in Node /\ Exists(r.n) /\ r.n \in complete /\ r.claim \in Claim
      /\ r.claim.of <= hier[r.n] /\ r.to \in Folder \cup {Top} /\ (r.to \in Folder => Exists(r.to))
      /\ Return(i) /\ UNCHANGED <<owner, complete, hier, wrap, strayRow>> /\ Learn(out)
  BY MoveEffect
<1>2. CASE UNCHANGED <<parent, claim, strayClaim>>
  BY <1>1, <1>2, TypeRefused DEF tree, stray
<1>3. CASE ~UNCHANGED <<parent, claim, strayClaim>>
  <2>1. /\ parent'[r.n] = r.to /\ claim'[r.n] = r.claim /\ Seals(r, r.n) /\ r.to # r.n
        /\ parent' \in [Node -> Folder \cup {Top, Gone}] /\ claim' \in [Node -> Claim]
        /\ \A m \in Node \ {r.n} : parent'[m] = parent[m] /\ claim'[m] = claim[m]
    BY <1>3, MoveEffect
  <2>2. StrayInv'
    BY <1>1, <2>1, SealsTyped DEF TypeInv, StrayInv
  <2> HIDE DEF r
  <2>3. \A n \in Node : (parent'[n] # Gone <=> parent[n] # Gone)
    BY <1>1, <2>1, Nodes DEF Exists
  <2>4. ASSUME NEW n \in Node
        PROVE  /\ claim'[n].of <= hier[n]
               /\ parent'[n] \in Folder => parent'[n] # n /\ parent'[parent'[n]] # Gone
    <3>1. CASE n = r.n
      BY <1>1, <2>1, <2>3, <3>1, Nodes DEF Exists
    <3>2. CASE n # r.n
      BY <2>1, <2>3, <3>2, Nodes DEF TypeInv, NodeInv, Exists
    <3> QED
      BY <3>1, <3>2
  <2>5. NodeInv'
    BY <1>1, <2>1, <2>3, <2>4, Nodes DEF TypeInv, NodeInv, Exists
  <2>6. RingInv'
    BY <1>1, <2>5, LearnTyped DEF TypeInv, RingInv
  <2>7. \A n \in Node : hier[n] <= hier'[n] /\ (Exists(n)' <=> Exists(n))
    BY <1>1, <2>3, Bounds DEF TypeInv, NodeInv, Exists
  <2>8. ASSUME NEW k \in Slot \ {i} PROVE Plan(s[k])'
    <3>1. s'[k] = s[k] /\ Carries(s[k]) /\ Plan(s[k])
      BY <1>1, Returns DEF TypeInv, SlotInv
    <3>2. s[k].pc = "crInsert" => ~Exists(s[k].n)'
      BY <2>3, <3>1 DEF Plan, Exists, Carries
    <3>3. s[k].pc = "crFinal" => /\ s[k].n \notin complete' /\ parent'[s[k].n] = parent[s[k].n]
                                 /\ claim'[s[k].n] = claim[s[k].n]
      BY <1>1, <2>1, <3>1 DEF Plan, Carries
    <3> QED
      BY <1>1, <2>5, <2>7, <3>1, <3>2, <3>3, PlanStays
  <2> QED
    BY <1>1, <2>2, <2>5, <2>6, <2>8, TypeReturns
<1> QED
  BY <1>2, <1>3

\* A folder is shared.
LEMMA ShareEffect ==
  ASSUME TypeInv, NEW i \in Slot, ShareGrant(i)
  PROVE  LET r == s[i] IN
         /\ r.pc = "shGrant" /\ r.op = "share" /\ r.n \in Folder /\ r.n \in Node /\ Exists(r.n)
         /\ r.v \in User /\ r.era \in Eras /\ r.era <= hier[r.n]
         /\ Return(i) /\ UNCHANGED <<tree, hier, claim, strayClaim>>
         /\ Learn(IF wrap' # wrap THEN [out EXCEPT ![r.n] = @ \ {r.v}] ELSE out)
         /\ \/ UNCHANGED <<wrap, strayRow>>
            \/ /\ wrap'[r.n][r.v] = r.era /\ Grants(r, {r.v}) /\ wrap' \in [Node -> [User -> Eras]]
               /\ \A u \in User \ {r.v} : wrap'[r.n][u] = wrap[r.n][u]
               /\ \A m \in Node \ {r.n} : wrap'[m] = wrap[m]
<1> DEFINE r == s[i]
<1>1. /\ r \in SlotRec /\ Carries(r) /\ Plan(r) /\ r.pc = "shGrant" /\ Return(i)
      /\ UNCHANGED <<tree, hier, claim, strayClaim>>
      /\ Learn(IF wrap' # wrap THEN [out EXCEPT ![r.n] = @ \ {r.v}] ELSE out)
  BY DEF TypeInv, SlotInv, ShareGrant, At
<1>2. /\ r.n \in Folder /\ r.n \in Node /\ r.v \in User /\ r.era \in Eras /\ r.op = "share"
      /\ r.era <= hier[r.n] /\ Exists(r.n)
  BY <1>1, Nodes DEF Carries, Plan, SlotRec
<1>3. \/ UNCHANGED <<wrap, strayRow>>
      \/ wrap' = [wrap EXCEPT ![r.n][r.v] = r.era] /\ Grants(r, {r.v})
  BY DEF ShareGrant
<1> HIDE DEF r
<1>4. CASE UNCHANGED <<wrap, strayRow>>
  BY <1>1, <1>2, <1>4 DEF r
<1>5. CASE wrap' = [wrap EXCEPT ![r.n][r.v] = r.era] /\ Grants(r, {r.v})
  <2>1. /\ wrap'[r.n][r.v] = r.era /\ wrap' \in [Node -> [User -> Eras]]
        /\ \A u \in User \ {r.v} : wrap'[r.n][u] = wrap[r.n][u]
        /\ \A m \in Node \ {r.n} : wrap'[m] = wrap[m]
    BY <1>2, <1>5 DEF TypeInv, NodeInv
  <2> QED
    BY <1>1, <1>2, <1>5, <2>1 DEF r
<1> QED
  BY <1>3, <1>4, <1>5

LEMMA TypeShareGrant ==
  ASSUME TypeInv, NEW i \in Slot, ShareGrant(i)
  PROVE  TypeInv'
<1> DEFINE r == s[i]
<1>1. /\ r.n \in Folder /\ r.n \in Node /\ r.v \in User /\ r.era <= hier[r.n]
      /\ Return(i) /\ UNCHANGED <<tree, hier, claim, strayClaim>>
      /\ Learn(IF wrap' # wrap THEN [out EXCEPT ![r.n] = @ \ {r.v}] ELSE out)
  BY ShareEffect
<1>2. CASE UNCHANGED <<wrap, strayRow>>
  BY <1>1, <1>2, TypeRefused DEF stray
<1>3. CASE ~UNCHANGED <<wrap, strayRow>>
  <2>1. /\ wrap'[r.n][r.v] = r.era /\ Grants(r, {r.v}) /\ wrap' \in [Node -> [User -> Eras]]
        /\ \A u \in User \ {r.v} : wrap'[r.n][u] = wrap[r.n][u]
        /\ \A m \in Node \ {r.n} : wrap'[m] = wrap[m]
    BY <1>3, ShareEffect
  <2>2. StrayInv'
    <3>1. {r.v} \in SUBSET User
      BY <1>1
    <3> QED
      BY <1>1, <2>1, <3>1, GrantsTyped DEF TypeInv, StrayInv
  <2> HIDE DEF r
  <2>3. \A n \in Node, u \in User : wrap'[n][u] <= hier[n]
    BY <1>1, <2>1 DEF TypeInv, NodeInv
  <2>4. NodeInv'
    BY <1>1, <2>1, <2>3 DEF TypeInv, NodeInv, tree, Exists
  <2>5. PICK back : back \in {out, [out EXCEPT ![r.n] = @ \ {r.v}]} /\ Learn(back)
    BY <1>1
  <2>6. back \in [Folder -> SUBSET User]
    BY <1>1, <2>5 DEF TypeInv, RingInv
  <2>7. RingInv'
    BY <2>4, <2>5, <2>6, LearnTyped DEF TypeInv
  <2>8. \A k \in Slot \ {i} : Plan(s[k])'
    BY <1>1, Returns, PlanSame DEF TypeInv
  <2> QED
    BY <1>1, <2>2, <2>4, <2>7, <2>8, TypeReturns
<1> QED
  BY <1>2, <1>3

\* The record that a rotation past its guards leaves of another request.
MarkedBy(r, x) == [r EXCEPT !.late = @ \cup ClaimsBy(r, x), !.lateRows = @ \/ RowsBy(r, x)]

LEMMA MarkedIs ==
  ASSUME NEW r \in SlotRec, Carries(r), NEW x
  PROVE  LET q == MarkedBy(r, x) IN
         /\ q \in SlotRec /\ Carries(q)
         /\ q.pc = r.pc /\ q.op = r.op /\ q.u = r.u /\ q.n = r.n /\ q.to = r.to /\ q.claim = r.claim
         /\ q.era = r.era /\ q.kids = r.kids /\ q.todo = r.todo /\ q.who = r.who /\ q.v = r.v
         /\ q.late = r.late \cup ClaimsBy(r, x) /\ (q.lateRows <=> r.lateRows \/ RowsBy(r, x))
<1> DEFINE L == r.late \cup ClaimsBy(r, x)
           R == r.lateRows \/ RowsBy(r, x)
           q == [r EXCEPT !.late = L, !.lateRows = R]
<1>1. MarkedBy(r, x) = q
  BY DEF MarkedBy
<1>2. L \subseteq Node /\ R \in BOOLEAN
  BY DEF SlotRec, ClaimsBy
<1>3. (L = r.late \cup ClaimsBy(r, x)) /\ (R <=> r.lateRows \/ RowsBy(r, x))
  OBVIOUS
<1> HIDE DEF L, R
<1>4. /\ q.pc = r.pc /\ q.op = r.op /\ q.u = r.u /\ q.n = r.n /\ q.to = r.to /\ q.claim = r.claim
      /\ q.era = r.era /\ q.kids = r.kids /\ q.todo = r.todo /\ q.who = r.who /\ q.v = r.v
      /\ q.late = L /\ q.lateRows = R /\ q \in SlotRec
  BY <1>2 DEF SlotRec
<1> HIDE DEF q
<1>5. Carries(q)
  <2>1. CASE r.pc = "idle"
    <3>1. r = Idle
      BY <2>1 DEF Carries
    <3>2. L = {} /\ R = FALSE /\ Idle.late = {} /\ Idle.lateRows = FALSE
      BY <1>3, <3>1, IdleTyped DEF Idle
    <3>3. q = Idle
      <4>1. /\ q = [pc |-> q.pc, op |-> q.op, u |-> q.u, n |-> q.n, to |-> q.to, claim |-> q.claim,
                    era |-> q.era, kids |-> q.kids, todo |-> q.todo, who |-> q.who, v |-> q.v,
                    late |-> q.late, lateRows |-> q.lateRows]
            /\ r = [pc |-> r.pc, op |-> r.op, u |-> r.u, n |-> r.n, to |-> r.to, claim |-> r.claim,
                    era |-> r.era, kids |-> r.kids, todo |-> r.todo, who |-> r.who, v |-> r.v,
                    late |-> r.late, lateRows |-> r.lateRows]
        BY <1>4 DEF SlotRec
      <4>2. r.late = {} /\ r.lateRows = FALSE
        BY <3>1, <3>2
      <4> QED
        BY <1>4, <3>1, <3>2, <4>1, <4>2
    <3> QED
      BY <3>3, IdleTyped
  <2>2. CASE r.pc # "idle"
    BY <1>4, <2>2 DEF Carries, Rotates
  <2> QED
    BY <2>1, <2>2
<1> QED
  BY <1>1, <1>3, <1>4, <1>5

\* A rotation passes its guards: every other request is marked.
LEMMA GuardEffect ==
  ASSUME TypeInv, NEW i \in Slot, RotateGuard(i)
  PROVE  LET r == s[i] IN
         /\ r.pc = "rtGuard" /\ Rotates(r) /\ UNCHANGED <<tree, hier, wrap, claim, ring, out, stray>>
         /\ \/ Return(i)
            \/ /\ SameCollaborators(r) /\ SameChildren(r)
               /\ s' \in [Slot -> SlotRec]
               /\ GoesOn(r, s'[i]) /\ s'[i].pc = "rtFolder" /\ s'[i].era = r.era /\ s'[i].todo = r.todo
               /\ \A k \in Slot \ {i} : s'[k] = MarkedBy(s[k], r.n)
<1> DEFINE r == s[i]
<1>1. /\ r \in SlotRec /\ r.pc = "rtGuard" /\ UNCHANGED <<tree, hier, wrap, claim, ring, out, stray>>
  BY DEF TypeInv, SlotInv, RotateGuard, At
<1>2. Rotates(r)
  BY <1>1 DEF Rotates
<1>3. \/ Return(i)
      \/ /\ SameCollaborators(r) /\ SameChildren(r)
         /\ s' = [k \in Slot |-> IF k = i THEN [r EXCEPT !.pc = "rtFolder"] ELSE MarkedBy(s[k], r.n)]
  BY DEF RotateGuard, MarkedBy
<1>4. CASE Return(i)
  BY <1>1, <1>2, <1>4
<1>5. CASE /\ SameCollaborators(r) /\ SameChildren(r)
           /\ s' = [k \in Slot |-> IF k = i THEN [r EXCEPT !.pc = "rtFolder"] ELSE MarkedBy(s[k], r.n)]
  <2> DEFINE q == [r EXCEPT !.pc = "rtFolder"]
  <2>1. GoesOn(r, q) /\ q \in SlotRec /\ q.pc = "rtFolder" /\ q.era = r.era /\ q.todo = r.todo
    BY <1>1, Names DEF SlotRec, GoesOn
  <2>2. \A k \in Slot : MarkedBy(s[k], r.n) \in SlotRec
    BY MarkedIs DEF TypeInv, SlotInv
  <2>3. s'[i] = q /\ \A k \in Slot \ {i} : s'[k] = MarkedBy(s[k], r.n)
    BY <1>5
  <2> HIDE DEF q
  <2>4. s' \in [Slot -> SlotRec]
    BY <1>5, <2>1, <2>2 DEF q
  <2> QED
    BY <1>1, <1>2, <1>5, <2>1, <2>3, <2>4
<1> QED
  BY <1>3, <1>4, <1>5

LEMMA TypeRotateGuard ==
  ASSUME TypeInv, NEW i \in Slot, RotateGuard(i)
  PROVE  TypeInv'
<1>1. s[i].pc = "rtGuard" /\ UNCHANGED <<tree, hier, wrap, claim, ring, out, stray>>
  BY GuardEffect
<1>2. NodeInv' /\ RingInv' /\ StrayInv'
  BY <1>1, NodeSame DEF TypeInv, RingInv, StrayInv, stray
<1>3. CASE Return(i)
  BY <1>1, <1>2, <1>3, TypeQuiet
<1>4. CASE ~Return(i)
  <2>1. /\ s' \in [Slot -> SlotRec]
        /\ GoesOn(s[i], s'[i]) /\ s'[i].pc = "rtFolder" /\ s'[i].era = s[i].era
        /\ s'[i].todo = s[i].todo
        /\ \A k \in Slot \ {i} : s'[k] = MarkedBy(s[k], s[i].n)
    BY <1>4, GuardEffect
  <2>2. Carries(s[i]) /\ Plan(s[i])
    BY DEF TypeInv, SlotInv
  <2>3. Carries(s[i])'
    BY <1>1, <2>1, <2>2, Names DEF Carries, Rotates, GoesOn
  <2>4. Plan(s[i])'
    BY <1>1, <2>1, <2>2, Names DEF Plan, Rotates, GoesOn, Exists, tree
  <2>5. ASSUME NEW k \in Slot \ {i}
        PROVE  /\ Carries(s[k])' /\ Plan(s[k])'
               /\ s'[k].op = s[k].op /\ s'[k].n = s[k].n
    <3>1. Carries(s'[k])
      BY <2>1, MarkedIs DEF TypeInv, SlotInv
    <3>2. /\ s'[k].pc = s[k].pc /\ s'[k].op = s[k].op /\ s'[k].n = s[k].n /\ s'[k].to = s[k].to
          /\ s'[k].claim = s[k].claim /\ s'[k].era = s[k].era /\ s'[k].kids = s[k].kids
          /\ s'[k].todo = s[k].todo
      BY <2>1, MarkedIs DEF TypeInv, SlotInv
    <3>3. Plan(s[k])
      BY DEF TypeInv
    <3>4. Plan(s[k])'
      BY <1>1, <3>2, <3>3 DEF Plan, Rotates, Exists, tree
    <3> QED
      BY <3>1, <3>2, <3>4 DEF Carries, Rotates
  <2>6. SlotInv' /\ \A k \in Slot : Plan(s[k])'
    BY <2>1, <2>3, <2>4, <2>5 DEF SlotInv
  <2>7. \A k \in Slot : s'[k].op = s[k].op /\ s'[k].n = s[k].n
    BY <2>1, <2>5 DEF GoesOn
  <2>8. Distinct'
    BY <2>7 DEF TypeInv, Distinct
  <2> QED
    BY <1>2, <2>6, <2>8 DEF TypeInv
<1> QED
  BY <1>3, <1>4

\* The row of a folder is rotated.
LEMMA FolderEffect ==
  ASSUME TypeInv, NEW i \in Slot, RotateFolder(i)
  PROVE  LET r == s[i]  new == hier[r.n] + 1 IN
         /\ r.pc = "rtFolder" /\ Rotates(r) /\ r.op = "rotate" /\ r.n \in Folder /\ r.n \in Node
         /\ Exists(r.n) /\ r.v \in User \ r.who /\ r \in SlotRec
         /\ new \in Eras /\ hier[r.n] \in Nat
         /\ hier' \in [Node -> Eras] /\ hier'[r.n] = new
         /\ \A m \in Node \ {r.n} : hier'[m] = hier[m]
         /\ claim' \in [Node -> Claim] /\ claim'[r.n] = NewClaim(r, new)
         /\ \A m \in Node \ {r.n} : claim'[m] = claim[m]
         /\ SealsOwn(r) /\ UNCHANGED <<tree, wrap, strayRow>>
         /\ Learn([out EXCEPT ![r.n] = @ \cup {r.v}])
         /\ s' \in [Slot -> SlotRec] /\ \A k \in Slot \ {i} : s'[k] = s[k]
         /\ GoesOn(r, s'[i]) /\ s'[i].pc = "rtWraps" /\ s'[i].era = new /\ s'[i].todo = r.todo
<1> DEFINE r == s[i]
           new == hier[r.n] + 1
           q == [r EXCEPT !.pc = "rtWraps", !.era = new]
<1>1. /\ r \in SlotRec /\ Carries(r) /\ Plan(r) /\ r.pc = "rtFolder" /\ new <= MaxEra
      /\ hier' = [hier EXCEPT ![r.n] = new] /\ claim' = [claim EXCEPT ![r.n] = NewClaim(r, new)]
      /\ SealsOwn(r) /\ UNCHANGED <<tree, wrap, strayRow>>
      /\ Learn([out EXCEPT ![r.n] = @ \cup {r.v}])
  BY DEF TypeInv, SlotInv, RotateFolder, At
<1>2. /\ s' = [s EXCEPT ![i].pc = "rtWraps", ![i].era = new]
  BY DEF RotateFolder
<1>3. s' = [s EXCEPT ![i] = q]
  BY <1>1, <1>2 DEF TypeInv, SlotInv, SlotRec
<1>4. Rotates(r)
  BY <1>1, Names DEF Rotates
<1>5. /\ r.op = "rotate" /\ r.n \in Folder /\ r.n \in Node /\ r.v \in User \ r.who /\ Exists(r.n)
  BY <1>1, <1>4, Nodes DEF Carries, Plan
<1>6. hier[r.n] \in Nat /\ new \in Eras
  <2>1. hier[r.n] \in Nat
    BY <1>5, Bounds DEF TypeInv, NodeInv
  <2> QED
    BY <1>1, <2>1, Bounds
<1>7. new = hier[r.n] + 1
  OBVIOUS
<1> HIDE DEF new
<1>8. GoesOn(r, q) /\ q \in SlotRec /\ q.pc = "rtWraps" /\ q.era = new /\ q.todo = r.todo
  BY <1>1, <1>6, Names DEF SlotRec, GoesOn
<1> HIDE DEF q
<1>9. s' \in [Slot -> SlotRec] /\ s'[i] = q /\ \A k \in Slot \ {i} : s'[k] = s[k]
  BY <1>3, <1>8, SlotMoves DEF TypeInv
<1>10. NewClaim(r, new) \in Claim
  BY <1>1, <1>6, Bounds DEF NewClaim, SlotRec, Claim
<1> HIDE DEF r
<1>11. /\ hier' \in [Node -> Eras] /\ hier'[r.n] = new /\ \A m \in Node \ {r.n} : hier'[m] = hier[m]
  BY <1>1, <1>5, <1>6 DEF TypeInv, NodeInv
<1>12. /\ claim' \in [Node -> Claim] /\ claim'[r.n] = NewClaim(r, new)
       /\ \A m \in Node \ {r.n} : claim'[m] = claim[m]
  BY <1>1, <1>5, <1>10 DEF TypeInv, NodeInv
<1> QED
  BY <1>1, <1>4, <1>5, <1>6, <1>7, <1>8, <1>9, <1>11, <1>12 DEF r

LEMMA TypeRotateFolder ==
  ASSUME TypeInv, NEW i \in Slot, RotateFolder(i)
  PROVE  TypeInv'
<1> DEFINE f == s[i].n
           new == hier[f] + 1
<1>1. /\ s[i].pc = "rtFolder" /\ f \in Folder /\ f \in Node /\ Exists(f)
      /\ s[i].v \in User /\ new \in Eras /\ hier[f] \in Nat
      /\ hier' \in [Node -> Eras] /\ hier'[f] = new /\ \A m \in Node \ {f} : hier'[m] = hier[m]
      /\ claim' \in [Node -> Claim] /\ claim'[f] = NewClaim(s[i], new)
      /\ \A m \in Node \ {f} : claim'[m] = claim[m]
      /\ SealsOwn(s[i]) /\ UNCHANGED <<tree, wrap, strayRow>>
      /\ Learn([out EXCEPT ![f] = @ \cup {s[i].v}])
      /\ s' \in [Slot -> SlotRec] /\ \A k \in Slot \ {i} : s'[k] = s[k]
      /\ GoesOn(s[i], s'[i]) /\ s'[i].pc = "rtWraps" /\ s'[i].era = new /\ s'[i].todo = s[i].todo
  BY FolderEffect
<1>2. Carries(s[i]) /\ Plan(s[i]) /\ s[i] \in SlotRec
  BY DEF TypeInv, SlotInv
<1>3. NewClaim(s[i], new).of \in {0, new}
  BY <1>2, Bounds DEF NewClaim, SlotRec, Claim
<1>4. new = hier[f] + 1
  OBVIOUS
<1> HIDE DEF f, new
<1>5. \A n \in Node : hier[n] \in Nat /\ hier'[n] \in Nat /\ hier[n] <= hier'[n]
  <2>1. \A n \in Node : hier[n] \in Nat /\ hier'[n] \in Nat
    BY <1>1, Bounds DEF TypeInv, NodeInv
  <2> QED
    BY <1>1, <1>4, <2>1
<1>6. \A n \in Node, u \in User : wrap'[n][u] <= hier'[n]
  <2>1. \A n \in Node, u \in User : wrap'[n][u] \in Nat /\ wrap'[n][u] <= hier[n]
    BY <1>1, Bounds DEF TypeInv, NodeInv
  <2> QED
    BY <1>5, <2>1
<1>7. ASSUME NEW n \in Node PROVE (Exists(n)' <=> hier'[n] # 0) /\ claim'[n].of <= hier'[n]
  <2>1. CASE n = f
    <3>1. hier'[n] # 0
      BY <1>1, <1>4, <1>5, <2>1
    <3>2. Exists(n)'
      BY <1>1, <2>1 DEF Exists, tree
    <3>3. claim'[n].of <= hier'[n]
      BY <1>1, <1>3, <1>5, <2>1
    <3> QED
      BY <3>1, <3>2, <3>3
  <2>2. CASE n # f
    BY <1>1, <2>2 DEF TypeInv, NodeInv, Exists, tree
  <2> QED
    BY <2>1, <2>2
<1>8. NodeInv'
  <2>1. \A n \in File : hier'[n] <= 1
    BY <1>1, Nodes DEF TypeInv, NodeInv
  <2> QED
    BY <1>1, <1>6, <1>7, <2>1 DEF TypeInv, NodeInv, tree, Exists
<1>9. [out EXCEPT ![f] = @ \cup {s[i].v}] \in [Folder -> SUBSET User]
  BY <1>1 DEF TypeInv, RingInv
<1>10. RingInv'
  BY <1>1, <1>8, <1>9, LearnTyped DEF TypeInv
<1>11. StrayInv'
  <2>1. s[i].n \in Node
    BY <1>1 DEF f
  <2> QED
    BY <1>1, <2>1, SealsTyped DEF TypeInv, StrayInv, SealsOwn
<1>12. Carries(s[i])'
  BY <1>1, <1>2, Names DEF Carries, Rotates, GoesOn
<1>13. ASSUME NEW k \in Slot \ {i} PROVE Plan(s[k])'
  <2>1. s'[k] = s[k] /\ Carries(s[k]) /\ Plan(s[k])
    BY <1>1 DEF TypeInv, SlotInv
  <2>2. s[k].pc = "crInsert" => ~Exists(s[k].n)'
    BY <1>1, <2>1 DEF Plan, Exists, tree
  <2>3. s[k].pc = "crFinal" => claim'[s[k].n] = claim[s[k].n] /\ s[k].n \notin complete'
    BY <1>1, <2>1, Nodes DEF Carries, Plan, tree
  <2>4. \A n \in Node : Exists(n) => Exists(n)'
    BY <1>1 DEF Exists, tree
  <2>5. complete \subseteq complete' /\ parent' = parent
    BY <1>1 DEF tree
  <2> QED
    BY <1>5, <1>8, <2>1, <2>2, <2>3, <2>4, <2>5, PlanStays
<1>14. Plan(s[i])'
  <2>1. ASSUME NEW n \in Node PROVE s[i].kids[n] <= hier'[n]
    <3>1. s[i].kids[n] <= hier[n]
      BY <1>1, <1>2, Names DEF Plan, Rotates
    <3>2. s[i].kids[n] \in Nat
      BY <1>2, Bounds DEF SlotRec
    <3> QED
      BY <1>5, <3>1, <3>2
  <2>2. s'[i].era <= hier'[s'[i].n]
    BY <1>1, <1>5 DEF GoesOn, f
  <2>3. /\ parent'[s[i].n] # Gone /\ s[i].todo \subseteq complete'
        /\ s[i].claim.by \in Folder => parent'[s[i].claim.by] # Gone
    BY <1>1, <1>2, Names DEF Plan, Rotates, Exists, tree
  <2> QED
    BY <1>1, <2>1, <2>2, <2>3, Names DEF Plan, Rotates, Exists, GoesOn
<1>15. \A k \in Slot : Plan(s[k])'
  BY <1>13, <1>14
<1> QED
  BY <1>1, <1>8, <1>10, <1>11, <1>12, <1>15, TypeStep DEF GoesOn

\* The rows of those who stay.
LEMMA WrapsEffect ==
  ASSUME TypeInv, NEW i \in Slot, RotateWraps(i)
  PROVE  LET r == s[i] IN
         /\ r.pc = "rtWraps" /\ r.n \in Folder /\ r.n \in Node /\ r.era \in Eras /\ Rotates(r)
         /\ r.era <= hier[r.n] /\ r.v \in User \ r.who /\ r.who \subseteq User
         /\ wrap' \in [Node -> [User -> Eras]]
         /\ \A u \in User : wrap'[r.n][u] = IF u \in r.who THEN r.era ELSE wrap[r.n][u]
         /\ \A m \in Node \ {r.n} : wrap'[m] = wrap[m]
         /\ Grants(r, r.who) /\ UNCHANGED <<tree, hier, claim, strayClaim>>
         /\ Learn([out EXCEPT ![r.n] = @ \ r.who])
         /\ s' \in [Slot -> SlotRec] /\ \A k \in Slot \ {i} : s'[k] = s[k]
         /\ GoesOn(r, s'[i]) /\ s'[i].era = r.era /\ s'[i].todo = r.todo
         /\ s'[i].pc \in {"rtRevoke", "rtChild"} /\ (s'[i].pc = "rtRevoke" => r.todo = {})
<1> DEFINE r == s[i]
<1>1. /\ r \in SlotRec /\ Carries(r) /\ Plan(r) /\ r.pc = "rtWraps"
      /\ wrap' = [wrap EXCEPT ![r.n] = [u \in User |-> IF u \in r.who THEN r.era ELSE @[u]]]
      /\ Grants(r, r.who) /\ UNCHANGED <<tree, hier, claim, strayClaim>>
      /\ Learn([out EXCEPT ![r.n] = @ \ r.who])
  BY DEF TypeInv, SlotInv, RotateWraps, At
<1>2. /\ r.n \in Folder /\ r.n \in Node /\ r.era \in Eras /\ r.era <= hier[r.n] /\ Rotates(r)
      /\ r.v \in User \ r.who /\ r.who \subseteq User
  BY <1>1, Nodes, Names DEF Carries, Plan, SlotRec, Rotates
<1>3. PICK p \in {"rtRevoke", "rtChild"} : Goto(i, p) /\ (p = "rtRevoke" => r.todo = {})
  BY DEF RotateWraps
<1>4. p \in PC
  BY Names
<1>5. /\ s' \in [Slot -> SlotRec] /\ \A k \in Slot \ {i} : s'[k] = s[k]
      /\ GoesOn(r, s'[i]) /\ s'[i].era = r.era /\ s'[i].todo = r.todo /\ s'[i].pc = p
  BY <1>3, <1>4, Goes DEF TypeInv
<1> HIDE DEF r
<1>6. /\ wrap' \in [Node -> [User -> Eras]]
      /\ \A u \in User : wrap'[r.n][u] = IF u \in r.who THEN r.era ELSE wrap[r.n][u]
      /\ \A m \in Node \ {r.n} : wrap'[m] = wrap[m]
  BY <1>1, <1>2 DEF TypeInv, NodeInv
<1> QED
  BY <1>1, <1>2, <1>3, <1>5, <1>6 DEF r

LEMMA TypeRotateWraps ==
  ASSUME TypeInv, NEW i \in Slot, RotateWraps(i)
  PROVE  TypeInv'
<1> DEFINE f == s[i].n
<1>1. /\ s[i].pc = "rtWraps" /\ f \in Folder /\ f \in Node /\ s[i].era <= hier[f]
      /\ s[i].who \subseteq User /\ wrap' \in [Node -> [User -> Eras]]
      /\ \A u \in User : wrap'[f][u] = IF u \in s[i].who THEN s[i].era ELSE wrap[f][u]
      /\ \A m \in Node \ {f} : wrap'[m] = wrap[m]
      /\ Grants(s[i], s[i].who) /\ UNCHANGED <<tree, hier, claim, strayClaim>>
      /\ Learn([out EXCEPT ![f] = @ \ s[i].who])
      /\ s' \in [Slot -> SlotRec] /\ \A k \in Slot \ {i} : s'[k] = s[k]
      /\ GoesOn(s[i], s'[i]) /\ s'[i].era = s[i].era /\ s'[i].todo = s[i].todo
      /\ s'[i].pc \in {"rtRevoke", "rtChild"}
  BY WrapsEffect
<1>2. Carries(s[i]) /\ Plan(s[i]) /\ s[i] \in SlotRec
  BY DEF TypeInv, SlotInv
<1>3. StrayInv'
  BY <1>1, GrantsTyped DEF TypeInv, StrayInv
<1>4. Carries(s[i])'
  BY <1>1, <1>2, Names DEF Carries, Rotates, GoesOn
<1>5. Plan(s[i])'
  BY <1>1, <1>2, Names DEF Plan, Rotates, Exists, tree, GoesOn
<1>6. \A k \in Slot : Plan(s[k])'
  BY <1>1, <1>5, PlanSame
<1> HIDE DEF f
<1>7. \A n \in Node, u \in User : wrap'[n][u] <= hier[n]
  <2>1. ASSUME NEW n \in Node, NEW u \in User PROVE wrap'[n][u] <= hier[n]
    <3>1. wrap[n][u] <= hier[n]
      BY DEF TypeInv, NodeInv
    <3> QED
      BY <1>1, <3>1
  <2> QED
    BY <2>1
<1>8. NodeInv'
  BY <1>1, <1>7 DEF TypeInv, NodeInv, tree, Exists
<1>9. [out EXCEPT ![f] = @ \ s[i].who] \in [Folder -> SUBSET User]
  BY <1>1 DEF TypeInv, RingInv
<1>10. RingInv'
  BY <1>1, <1>8, <1>9, LearnTyped DEF TypeInv
<1> QED
  BY <1>1, <1>3, <1>4, <1>6, <1>8, <1>10, TypeStep DEF GoesOn

\* A child's claim.
LEMMA ChildEffect ==
  ASSUME TypeInv, NEW i \in Slot, NEW n \in Node, RotateChild(i, n)
  PROVE  LET r == s[i] IN
         /\ r.pc = "rtChild" /\ Rotates(r) /\ n \in r.todo /\ n \in complete /\ r.n \in Folder
         /\ r.n \in Node /\ Exists(r.n) /\ r.era <= hier[r.n] /\ r.kids[n] <= hier[n]
         /\ UNCHANGED <<tree, hier, wrap, strayRow>> /\ Learn(out)
         /\ claim' \in [Node -> Claim] /\ \A m \in Node \ {n} : claim'[m] = claim[m]
         /\ \/ parent[n] # r.n /\ UNCHANGED <<claim, strayClaim>>
            \/ /\ parent[n] = r.n /\ Seals(r, n)
               /\ claim'[n] = [by |-> r.n, era |-> r.era, of |-> r.kids[n]]
         /\ s' \in [Slot -> SlotRec] /\ \A k \in Slot \ {i} : s'[k] = s[k]
         /\ GoesOn(r, s'[i]) /\ s'[i].era = r.era /\ s'[i].todo = r.todo \ {n}
         /\ s'[i].pc \in {"rtRevoke", "rtChild"} /\ (s'[i].pc = "rtRevoke" => r.todo = {n})
<1> DEFINE r == s[i]
           p == IF r.todo = {n} THEN "rtRevoke" ELSE r.pc
           q == [r EXCEPT !.todo = @ \ {n}, !.pc = p]
           c == [by |-> r.n, era |-> r.era, of |-> r.kids[n]]
<1>1. /\ r \in SlotRec /\ Carries(r) /\ Plan(r) /\ r.pc = "rtChild" /\ n \in r.todo
      /\ UNCHANGED <<tree, hier, wrap, strayRow>> /\ Learn(out)
      /\ \/ parent[n] # r.n /\ UNCHANGED <<claim, strayClaim>>
         \/ parent[n] = r.n /\ Seals(r, n) /\ claim' = [claim EXCEPT ![n] = c]
  BY DEF TypeInv, SlotInv, RotateChild, At, StillChild
<1>2. s' = [s EXCEPT ![i] = q]
  BY <1>1 DEF RotateChild, TypeInv, SlotInv, SlotRec
<1>3. /\ r.n \in Folder /\ r.n \in Node /\ Exists(r.n) /\ r.era <= hier[r.n] /\ r.kids[n] <= hier[n]
      /\ n \in complete /\ Rotates(r)
  BY <1>1, Nodes, Names DEF Carries, Plan, Rotates
<1>4. c \in Claim
  BY <1>1, <1>3 DEF SlotRec, Claim
<1>5. p \in {"rtChild", "rtRevoke"} /\ (p = "rtRevoke" => r.todo = {n})
  BY <1>1
<1> HIDE DEF p
<1>6. GoesOn(r, q) /\ q \in SlotRec /\ q.pc = p /\ q.era = r.era /\ q.todo = r.todo \ {n}
  BY <1>1, <1>5, Names DEF SlotRec, GoesOn
<1> HIDE DEF q
<1>7. s' \in [Slot -> SlotRec] /\ s'[i] = q /\ \A k \in Slot \ {i} : s'[k] = s[k]
  BY <1>2, <1>6, SlotMoves DEF TypeInv
<1>8. c = [by |-> r.n, era |-> r.era, of |-> r.kids[n]]
  OBVIOUS
<1> HIDE DEF c, r
<1>9. /\ claim' \in [Node -> Claim] /\ \A m \in Node \ {n} : claim'[m] = claim[m]
      /\ \/ parent[n] # r.n /\ UNCHANGED <<claim, strayClaim>>
         \/ parent[n] = r.n /\ Seals(r, n) /\ claim'[n] = c
  BY <1>1, <1>4 DEF TypeInv, NodeInv
<1> QED
  BY <1>1, <1>3, <1>5, <1>6, <1>7, <1>8, <1>9 DEF r

LEMMA TypeRotateChild ==
  ASSUME TypeInv, NEW i \in Slot, NEW n \in Node, RotateChild(i, n)
  PROVE  TypeInv'
<1>1. /\ s[i].pc = "rtChild" /\ n \in complete /\ s[i].kids[n] <= hier[n]
      /\ UNCHANGED <<tree, hier, wrap, strayRow>> /\ Learn(out)
      /\ claim' \in [Node -> Claim] /\ \A m \in Node \ {n} : claim'[m] = claim[m]
      /\ \/ UNCHANGED <<claim, strayClaim>>
         \/ Seals(s[i], n) /\ claim'[n] = [by |-> s[i].n, era |-> s[i].era, of |-> s[i].kids[n]]
      /\ s' \in [Slot -> SlotRec] /\ \A k \in Slot \ {i} : s'[k] = s[k]
      /\ GoesOn(s[i], s'[i]) /\ s'[i].era = s[i].era /\ s'[i].todo = s[i].todo \ {n}
      /\ s'[i].pc \in {"rtRevoke", "rtChild"}
  BY ChildEffect
<1>2. Carries(s[i]) /\ Plan(s[i]) /\ s[i] \in SlotRec
  BY DEF TypeInv, SlotInv
<1>3. StrayInv'
  BY <1>1, SealsTyped DEF TypeInv, StrayInv
<1>4. claim'[n] = claim[n] \/ claim'[n].of = s[i].kids[n]
  BY <1>1
<1>5. \A m \in Node : claim'[m].of <= hier[m]
  BY <1>1, <1>4 DEF TypeInv, NodeInv
<1>6. NodeInv'
  BY <1>1, <1>5 DEF TypeInv, NodeInv, tree, Exists
<1>7. RingInv'
  BY <1>1, <1>6, LearnTyped DEF TypeInv, RingInv
<1>8. Carries(s[i])'
  BY <1>1, <1>2, Names DEF Carries, Rotates, GoesOn
<1>9. Plan(s[i])'
  BY <1>1, <1>2, Names DEF Plan, Rotates, Exists, tree, GoesOn
<1>10. ASSUME NEW k \in Slot \ {i} PROVE Plan(s[k])'
  <2>1. s[k].pc = "crFinal" => s[k].n \in Node \ {n}
    BY <1>1 DEF TypeInv, SlotInv, Carries, Plan
  <2> QED
    BY <1>1, <2>1, PlanSame
<1>11. \A k \in Slot : Plan(s[k])'
  BY <1>9, <1>10
<1> QED
  BY <1>1, <1>3, <1>6, <1>7, <1>8, <1>11, TypeStep DEF GoesOn

\* The row of who goes.
LEMMA RevokeEffect ==
  ASSUME TypeInv, NEW i \in Slot, RotateRevoke(i)
  PROVE  LET r == s[i] IN
         /\ r.pc = "rtRevoke" /\ r.n \in Folder /\ r.n \in Node /\ Exists(r.n) /\ r.v \in User
         /\ wrap' \in [Node -> [User -> Eras]] /\ wrap'[r.n][r.v] = 0
         /\ \A u \in User \ {r.v} : wrap'[r.n][u] = wrap[r.n][u]
         /\ \A m \in Node \ {r.n} : wrap'[m] = wrap[m]
         /\ strayRow' = [strayRow EXCEPT ![r.n] = @ \ {r.v}]
         /\ Return(i) /\ UNCHANGED <<tree, hier, claim, strayClaim>> /\ Learn(out)
<1> DEFINE r == s[i]
<1>1. /\ Carries(r) /\ Plan(r) /\ r.pc = "rtRevoke" /\ wrap' = [wrap EXCEPT ![r.n][r.v] = 0]
      /\ strayRow' = [strayRow EXCEPT ![r.n] = @ \ {r.v}]
      /\ Return(i) /\ UNCHANGED <<tree, hier, claim, strayClaim>> /\ Learn(out)
  BY DEF TypeInv, SlotInv, RotateRevoke, At
<1>2. r.n \in Folder /\ r.n \in Node /\ r.v \in User /\ Exists(r.n)
  BY <1>1, Nodes, Names DEF Carries, Rotates, Plan
<1> HIDE DEF r
<1>3. /\ wrap' \in [Node -> [User -> Eras]] /\ wrap'[r.n][r.v] = 0
      /\ \A u \in User \ {r.v} : wrap'[r.n][u] = wrap[r.n][u]
      /\ \A m \in Node \ {r.n} : wrap'[m] = wrap[m]
  BY <1>1, <1>2, Bounds DEF TypeInv, NodeInv
<1> QED
  BY <1>1, <1>2, <1>3 DEF r

LEMMA TypeRotateRevoke ==
  ASSUME TypeInv, NEW i \in Slot, RotateRevoke(i)
  PROVE  TypeInv'
<1>1. /\ s[i].n \in Folder /\ s[i].n \in Node /\ s[i].v \in User
      /\ wrap' \in [Node -> [User -> Eras]] /\ wrap'[s[i].n][s[i].v] = 0
      /\ \A u \in User \ {s[i].v} : wrap'[s[i].n][u] = wrap[s[i].n][u]
      /\ \A m \in Node \ {s[i].n} : wrap'[m] = wrap[m]
      /\ strayRow' = [strayRow EXCEPT ![s[i].n] = @ \ {s[i].v}]
      /\ Return(i) /\ UNCHANGED <<tree, hier, claim, strayClaim>> /\ Learn(out)
  BY RevokeEffect
<1>2. StrayInv'
  BY <1>1 DEF TypeInv, StrayInv
<1>3. ASSUME NEW m \in Node, NEW u \in User PROVE wrap'[m][u] <= hier[m]
  <2>1. 0 <= hier[m] /\ wrap[m][u] <= hier[m]
    BY Bounds DEF TypeInv, NodeInv
  <2> QED
    BY <1>1, <2>1
<1>4. NodeInv'
  BY <1>1, <1>3 DEF TypeInv, NodeInv, tree, Exists
<1>5. RingInv'
  BY <1>1, <1>4, LearnTyped DEF TypeInv, RingInv
<1>6. \A k \in Slot \ {i} : Plan(s[k])'
  BY <1>1, Returns, PlanSame DEF TypeInv
<1> QED
  BY <1>1, <1>2, <1>4, <1>5, <1>6, TypeReturns

\* A request dies.
LEMMA CrashEffect ==
  ASSUME TypeInv, NEW i \in Slot, Crash(i)
  PROVE  /\ Return(i) /\ UNCHANGED <<tree, hier, wrap, claim, ring, out>>
         /\ strayClaim \subseteq strayClaim' /\ StrayInv'
         /\ s[i].pc \in {"rtWraps", "rtChild"} => s[i].todo \subseteq strayClaim'
         /\ \A f \in Folder : strayRow[f] \subseteq strayRow'[f]
         /\ s[i].pc \in Flipped => /\ s[i].n \in Folder /\ s[i].v \in strayRow'[s[i].n]
                                   /\ s[i].pc = "rtWraps" => s[i].who \subseteq strayRow'[s[i].n]
<1> DEFINE r == s[i]
           W == {r.v} \cup (IF r.pc = "rtWraps" THEN r.who ELSE {})
<1>1. /\ r \in SlotRec /\ Carries(r) /\ Return(i) /\ UNCHANGED <<tree, hier, wrap, claim, ring, out>>
      /\ strayClaim' = strayClaim \cup (IF r.pc \in {"rtWraps", "rtChild"} THEN r.todo ELSE {})
      /\ r.pc \in Flipped => strayRow' = [strayRow EXCEPT ![r.n] = @ \cup W]
      /\ r.pc \notin Flipped => strayRow' = strayRow
  BY Names DEF TypeInv, SlotInv, Crash
<1>2. r.pc \in Flipped => r.n \in Folder /\ W \subseteq User
  BY <1>1, Names DEF Carries, Rotates, SlotRec
<1>3. r.v \in W /\ (r.pc = "rtWraps" => r.who \subseteq W) /\ r.todo \subseteq Node
  BY <1>1 DEF SlotRec
<1> HIDE DEF W
<1>4. strayClaim' \subseteq Node
  BY <1>1, <1>3 DEF TypeInv, StrayInv
<1>5. CASE r.pc \in Flipped
  <2>1. /\ strayRow' \in [Folder -> SUBSET User] /\ strayRow'[r.n] = strayRow[r.n] \cup W
        /\ \A f \in Folder \ {r.n} : strayRow'[f] = strayRow[f]
    BY <1>1, <1>2, <1>5 DEF TypeInv, StrayInv
  <2> QED
    BY <1>1, <1>2, <1>3, <1>4, <1>5, <2>1 DEF StrayInv
<1>6. CASE r.pc \notin Flipped
  BY <1>1, <1>4, <1>6 DEF TypeInv, StrayInv
<1> QED
  BY <1>5, <1>6

LEMMA TypeCrash ==
  ASSUME TypeInv, NEW i \in Slot, Crash(i)
  PROVE  TypeInv'
<1>1. Return(i) /\ UNCHANGED <<tree, hier, wrap, claim, ring, out>> /\ StrayInv'
  BY CrashEffect
<1> QED
  BY <1>1, TypeQuiet DEF TypeInv, RingInv

LEMMA TypeInit == Init => TypeInv
<1> SUFFICES ASSUME Init PROVE TypeInv
  OBVIOUS
<1>1. /\ parent \in [Node -> Folder \cup {Top, Gone}] /\ complete \subseteq {n \in Node : parent[n] # Gone}
      /\ owner \in [Node -> User \cup {Nobody}]
  BY Nodes, UserAssumption DEF Init
<1>2. hier \in [Node -> Eras] /\ wrap \in [Node -> [User -> Eras]] /\ claim \in [Node -> Claim]
  BY Bounds DEF Init
<1>3. \A n \in Node, u \in User : wrap[n][u] <= hier[n]
  BY DEF Init
<1>4. \A n \in Node : /\ (Exists(n) <=> hier[n] # 0) /\ claim[n].of <= hier[n]
                      /\ parent[n] \notin Folder
  BY Nodes, Bounds DEF Init, Exists
<1>5. \A f \in Folder : Exists(f) => f \in complete
  BY Nodes DEF Init, Exists
<1>6. ring \in [User -> SUBSET (Folder \X Eras)] /\ out \in [Folder -> SUBSET User]
  BY Nodes, Bounds DEF Init
<1>7. StrayInv
  BY DEF Init, StrayInv
<1>8. \A i \in Slot : s[i] = Idle
  BY DEF Init
<1>9. s \in [Slot -> SlotRec]
  BY IdleTyped DEF Init
<1>10. Plan(Idle)
  BY IdleTyped, Names DEF Plan, Rotates
<1>11. SlotInv /\ \A i \in Slot : Plan(s[i])
  BY <1>8, <1>9, <1>10, IdleTyped DEF SlotInv
<1>12. Distinct
  BY <1>8, IdleTyped DEF Distinct
<1>13. \A n \in File : hier[n] <= 1
  BY Nodes DEF Init
<1> QED
  BY <1>1, <1>2, <1>3, <1>4, <1>5, <1>6, <1>7, <1>11, <1>12, <1>13 DEF TypeInv, NodeInv, RingInv

LEMMA TypeNext == TypeInv /\ OutInv /\ [Next]_vars => TypeInv'
<1> SUFFICES ASSUME TypeInv, OutInv, [Next]_vars PROVE TypeInv'
  OBVIOUS
<1>1. CASE UNCHANGED vars
  <2>1. UNCHANGED <<tree, hier, wrap, claim, ring, out, stray, s>>
    BY <1>1 DEF vars
  <2>2. SlotInv' /\ RingInv' /\ StrayInv'
    BY <2>1 DEF TypeInv, SlotInv, RingInv, StrayInv, stray, Carries, Rotates
  <2>3. Distinct'
    BY <2>1 DEF TypeInv, Distinct
  <2>4. \A k \in Slot : Plan(s[k])'
    BY <2>1, PlanSame
  <2> QED
    BY <2>1, <2>2, <2>3, <2>4, NodeSame DEF TypeInv
<1>2. ASSUME NEW i \in Slot, Step(i) PROVE TypeInv'
  BY <1>2, TypeCreateInsert, TypeCreateFinal, TypeMoveUpdate, TypeShareGrant, TypeRotateGuard,
     TypeRotateFolder, TypeRotateWraps, TypeRotateChild, TypeRotateRevoke DEF Step
<1> QED
  BY <1>1, <1>2, TypeBegin, TypeCrash DEF Next

-----------------------------------------------------------------------------
(* What is late, and what is fresh.                                        *)

\* A step of the request in slot i that starts no change of keys.
Quiet(i) ==
  /\ \A k \in Slot \ {i} : s'[k] = s[k]
  /\ s'[i].pc # "rtFolder"
  /\ s'[i] = Idle \/ (GoesOn(s[i], s'[i]) /\ s'[i].todo \subseteq s[i].todo)

Passes(i) == RotateGuard(i) /\ ~Return(i)

LEMMA QuietReturn ==
  ASSUME TypeInv, NEW i \in Slot, Return(i)
  PROVE  Quiet(i)
BY Returns, IdleTyped DEF TypeInv, Quiet

LEMMA QuietStep ==
  ASSUME TypeInv, NEW i \in Slot, Step(i) \/ Crash(i)
  PROVE  Quiet(i) \/ Passes(i)
<1>1. CASE CreateInsert(i)
  <2>1. CASE Return(i)
    BY <2>1, QuietReturn
  <2>2. CASE ~Return(i)
    <3>1. Goto(i, "crFinal")
      BY <1>1, <2>2 DEF CreateInsert
    <3> QED
      BY <3>1, Goes, Names DEF TypeInv, Quiet
  <2> QED
    BY <2>1, <2>2
<1>2. CASE CreateFinal(i) \/ MoveUpdate(i) \/ ShareGrant(i) \/ RotateRevoke(i) \/ Crash(i)
  BY <1>2, QuietReturn DEF CreateFinal, MoveUpdate, ShareGrant, RotateRevoke, Crash
<1>3. CASE RotateGuard(i)
  BY <1>3, QuietReturn DEF Passes
<1>4. CASE RotateFolder(i)
  BY <1>4, FolderEffect DEF Quiet
<1>5. CASE RotateWraps(i)
  BY <1>5, WrapsEffect DEF Quiet
<1>6. ASSUME NEW n \in Node, RotateChild(i, n) PROVE Quiet(i)
  BY <1>6, ChildEffect DEF Quiet
<1> QED
  BY <1>1, <1>2, <1>3, <1>4, <1>5, <1>6 DEF Step

LEMMA LateQuiet ==
  ASSUME LateInv, NEW i \in Slot, Quiet(i)
  PROVE  LateInv'
<1> SUFFICES ASSUME NEW j \in Slot, NEW k \in Slot, j # k, s'[k].pc = "rtFolder"
             PROVE  /\ ClaimsBy(s[j], s[k].n)' \subseteq s'[j].late
                    /\ RowsBy(s[j], s[k].n)' => s'[j].lateRows
  BY DEF LateInv, At
<1>1. k # i /\ s'[k] = s[k] /\ s[k].pc = "rtFolder"
  BY DEF Quiet
<1>2. /\ ClaimsBy(s[j], s[k].n) \subseteq s[j].late
      /\ RowsBy(s[j], s[k].n) => s[j].lateRows
  BY <1>1 DEF LateInv, At
<1>3. CASE s'[j] = s[j]
  BY <1>1, <1>2, <1>3 DEF ClaimsBy, RowsBy
<1>4. CASE s'[j] = Idle
  BY <1>4, IdleTyped DEF ClaimsBy, RowsBy
<1>5. CASE GoesOn(s[j], s'[j]) /\ s'[j].todo \subseteq s[j].todo
  BY <1>1, <1>2, <1>5 DEF ClaimsBy, RowsBy, GoesOn
<1> QED
  BY <1>3, <1>4, <1>5 DEF Quiet

LEMMA LatePasses ==
  ASSUME TypeInv, LateInv, NEW i \in Slot, Passes(i)
  PROVE  LateInv'
<1>1. /\ GoesOn(s[i], s'[i]) /\ s'[i].pc = "rtFolder" /\ s'[i].todo = s[i].todo
      /\ \A k \in Slot \ {i} : s'[k] = MarkedBy(s[k], s[i].n)
  BY GuardEffect DEF Passes
<1>2. ASSUME NEW j \in Slot
      PROVE  /\ s'[j].n = s[j].n /\ s'[j].op = s[j].op /\ s'[j].claim = s[j].claim
             /\ s'[j].todo = s[j].todo /\ s[j].late \subseteq s'[j].late
             /\ s[j].lateRows => s'[j].lateRows
             /\ j # i => /\ ClaimsBy(s[j], s[i].n) \subseteq s'[j].late /\ s'[j].pc = s[j].pc
                         /\ RowsBy(s[j], s[i].n) => s'[j].lateRows
  <2>1. CASE j = i
    BY <1>1, <2>1 DEF GoesOn
  <2>2. CASE j # i
    <3>1. s[j] \in SlotRec /\ Carries(s[j])
      BY DEF TypeInv, SlotInv
    <3> QED
      BY <1>1, <2>2, <3>1, MarkedIs
  <2> QED
    BY <2>1, <2>2
<1> SUFFICES ASSUME NEW j \in Slot, NEW k \in Slot, j # k, s'[k].pc = "rtFolder"
             PROVE  /\ ClaimsBy(s[j], s[k].n)' \subseteq s'[j].late
                    /\ RowsBy(s[j], s[k].n)' => s'[j].lateRows
  BY DEF LateInv, At
<1>3. /\ ClaimsBy(s[j], s[k].n) \subseteq s'[j].late
      /\ RowsBy(s[j], s[k].n) => s'[j].lateRows
  <2>1. CASE k = i
    BY <1>2, <2>1
  <2>2. CASE k # i
    <3>1. At(k, "rtFolder")
      BY <1>2, <2>2 DEF At
    <3> QED
      BY <1>2, <3>1 DEF LateInv
  <2> QED
    BY <2>1, <2>2
<1> QED
  BY <1>2, <1>3 DEF ClaimsBy, RowsBy

LEMMA LateSends ==
  ASSUME TypeInv, LateInv, NEW i \in Slot, NEW q, Sends(i, q)
  PROVE  LateInv'
<1>1. s'[i] = q /\ q.pc # "rtFolder" /\ \A k \in Slot \ {i} : s'[k] = s[k]
  BY SlotMoves DEF Sends, TypeInv
<1> SUFFICES ASSUME NEW j \in Slot, NEW k \in Slot, j # k, s'[k].pc = "rtFolder"
             PROVE  /\ ClaimsBy(s[j], s[k].n)' \subseteq s'[j].late
                    /\ RowsBy(s[j], s[k].n)' => s'[j].lateRows
  BY DEF LateInv, At
<1>2. k # i /\ s'[k] = s[k] /\ At(k, "rtFolder")
  BY <1>1 DEF At
<1>3. CASE j = i
  BY <1>1, <1>2, <1>3 DEF Sends, ClaimsBy, RowsBy
<1>4. CASE j # i
  BY <1>1, <1>2, <1>4 DEF LateInv, ClaimsBy, RowsBy
<1> QED
  BY <1>3, <1>4

\* What the keys of a folder whose row is about to change are in, is late.
LEMMA LateOnes ==
  ASSUME TypeInv, LateInv, NEW i \in Slot, NEW k \in Slot, i # k, At(k, "rtFolder")
  PROVE  LET r == s[i]  f == s[k].n IN
         /\ f \in Folder /\ f \in Node
         /\ r.pc \in Unflipped /\ f \in {r.n, r.claim.by} => r.n \in r.late
         /\ Rotates(r) /\ f = r.n => r.todo \subseteq r.late /\ r.lateRows
         /\ f \in r.todo /\ r.op # "share" => f \in r.late
         /\ r.pc = "shGrant" /\ f = r.n => r.lateRows
<1> DEFINE r == s[i]
           f == s[k].n
<1>1. r \in SlotRec /\ Carries(r) /\ f \in Folder /\ f \in Node
  <2>1. Rotates(s[k])
    BY DEF At, Rotates, Rotating
  <2> QED
    BY <2>1, Nodes DEF TypeInv, SlotInv, Carries
<1>2. ClaimsBy(r, f) \subseteq r.late /\ (RowsBy(r, f) => r.lateRows)
  BY DEF LateInv
<1> HIDE DEF r, f
<1>3. r.pc \in Unflipped => r.op # "share" /\ r.n \in Node
  BY <1>1, Names DEF Carries, Rotates
<1>4. r.todo \subseteq Node
  BY <1>1 DEF SlotRec
<1>5. r.pc \in Unflipped /\ f \in {r.n, r.claim.by} => r.n \in r.late
  BY <1>2, <1>3 DEF ClaimsBy
<1>6. Rotates(r) /\ f = r.n => r.todo \subseteq r.late /\ r.lateRows
  BY <1>1, <1>2, <1>4 DEF ClaimsBy, RowsBy, Carries
<1>7. f \in r.todo /\ r.op # "share" => f \in r.late
  BY <1>1, <1>2 DEF ClaimsBy
<1>8. r.pc = "shGrant" /\ f = r.n => r.lateRows
  BY <1>1, <1>2 DEF RowsBy, Carries
<1> QED
  BY <1>1, <1>5, <1>6, <1>7, <1>8 DEF r, f

\* The row that a step changes: one that is created, or one that a rotation flips.
LEMMA HierStep ==
  ASSUME TypeInv, NEW i \in Slot, Step(i) \/ Crash(i), NEW x \in Node, Exists(x)
  PROVE  hier'[x] = hier[x] \/ (At(i, "rtFolder") /\ s[i].n = x)
<1>1. CASE CreateInsert(i)
  <2>1. CASE MayWrite(s[i].u, s[i].to)
    BY <1>1, <2>1, CreateNode
  <2>2. CASE ~MayWrite(s[i].u, s[i].to)
    BY <1>1, <2>2 DEF CreateInsert
  <2> QED
    BY <2>1, <2>2
<1>2. CASE CreateFinal(i) \/ MoveUpdate(i) \/ ShareGrant(i) \/ RotateRevoke(i) \/ Crash(i)
           \/ RotateGuard(i) \/ RotateWraps(i) \/ \E n \in Node : RotateChild(i, n)
  BY <1>2 DEF CreateFinal, MoveUpdate, ShareGrant, RotateRevoke, Crash, RotateGuard, RotateWraps,
     RotateChild
<1>3. CASE RotateFolder(i)
  BY <1>3, FolderEffect DEF At
<1> QED
  BY <1>1, <1>2, <1>3 DEF Step

\* A payload stays fresh while no row changes that what is not late in it is made of.
LEMMA FreshStays ==
  ASSUME TypeInv, LateInv, NEW k \in Slot, s'[k] = s[k], Fresh(s[k]),
         \A x \in Node : Exists(x) =>
           hier'[x] = hier[x] \/ \E j \in Slot \ {k} : At(j, "rtFolder") /\ s[j].n = x
  PROVE  Fresh(s[k])'
<1> DEFINE r == s[k]
<1>1. r \in SlotRec /\ Carries(r) /\ Plan(r) /\ Fresh(r)
  BY DEF TypeInv, SlotInv
<1>2. ASSUME NEW x \in Node, Exists(x), hier'[x] # hier[x]
      PROVE  /\ r.pc \in Unflipped /\ x \in {r.n, r.claim.by} => r.n \in r.late
             /\ Rotates(r) /\ x = r.n => r.todo \subseteq r.late /\ r.lateRows
             /\ x \in r.todo /\ r.op # "share" => x \in r.late
             /\ r.pc = "shGrant" /\ x = r.n => r.lateRows
  BY <1>2, LateOnes
<1>3. s'[k] = r
  OBVIOUS
<1> HIDE DEF r
<1>4. ASSUME r.pc \in Unflipped, r.n \notin r.late, r.claim.by \in Folder
      PROVE  r.claim.era = hier'[r.claim.by]
  <2>1. Exists(r.claim.by)
    <3>1. CASE r.pc \in {"crInsert", "crFinal", "mvUpdate"}
      BY <1>1, <1>4, <3>1 DEF Carries, Plan
    <3>2. CASE r.pc \in {"rtGuard", "rtFolder"}
      BY <1>1, <1>4, <3>2, Names DEF Plan, Rotates
    <3> QED
      BY <1>4, <3>1, <3>2, Names
  <2>2. r.claim.by \in Node /\ r.claim.era = hier[r.claim.by]
    BY <1>1, <1>4, Nodes DEF Fresh
  <2> QED
    BY <1>2, <1>4, <2>1, <2>2
<1>5. ASSUME r.pc = "mvUpdate", r.n \notin r.late, r.to \in Folder PROVE r.claim.of = hier'[r.n]
  <2>1. r.n \in Node /\ Exists(r.n) /\ r.claim.of = hier[r.n] /\ r.pc \in Unflipped
    BY <1>1, <1>5, Names DEF Carries, Plan, Fresh, TypeInv, NodeInv, Exists
  <2> QED
    BY <1>2, <1>5, <2>1
<1>6. ASSUME Rotates(r), NEW n \in r.todo \ r.late PROVE r.kids[n] = hier'[n]
  <2>1. n \in Node /\ Exists(n) /\ r.kids[n] = hier[n] /\ r.op # "share"
    BY <1>1, <1>6 DEF Carries, Plan, Fresh, TypeInv, NodeInv, Exists
  <2> QED
    BY <1>2, <1>6, <2>1
<1>7. ASSUME r.pc \in Flipped, NEW n \in r.todo \ r.late PROVE r.era = hier'[r.n]
  <2>1. Rotates(r)
    BY <1>7, Names DEF Rotates
  <2>2. r.n \in Node /\ Exists(r.n) /\ r.era = hier[r.n]
    BY <1>1, <1>7, <2>1, Nodes DEF Carries, Plan, Fresh
  <2> QED
    BY <1>2, <1>7, <2>1, <2>2
<1>8. ASSUME r.pc \in {"shGrant"} \cup Flipped, ~r.lateRows PROVE r.era = hier'[r.n]
  <2>1. r.pc # "shGrant" => Rotates(r)
    BY <1>8, Names DEF Rotates
  <2>2. r.n \in Node /\ Exists(r.n) /\ r.era = hier[r.n]
    BY <1>1, <1>8, <2>1, Nodes DEF Carries, Plan, Fresh
  <2> QED
    BY <1>2, <1>8, <2>1, <2>2
<1> QED
  BY <1>3, <1>4, <1>5, <1>6, <1>7, <1>8 DEF Fresh, Rotates

LEMMA FreshOthers ==
  ASSUME TypeInv, LateInv, FreshInv, NEW i \in Slot, Step(i) \/ Crash(i), ~Passes(i),
         NEW k \in Slot \ {i}
  PROVE  Fresh(s[k])'
<1>1. s'[k] = s[k]
  BY QuietStep DEF Quiet
<1>2. \A x \in Node : Exists(x) =>
        hier'[x] = hier[x] \/ \E j \in Slot \ {k} : At(j, "rtFolder") /\ s[j].n = x
  BY HierStep
<1> QED
  BY <1>1, <1>2, FreshStays DEF FreshInv

LEMMA FreshIdle ==
  ASSUME NEW i \in Slot, s'[i].pc = "idle"
  PROVE  Fresh(s[i])'
BY Names DEF Fresh, Rotates

\* The payload of a request that goes on.
LEMMA FreshOwn ==
  ASSUME TypeInv, LateInv, FreshInv, NEW i \in Slot, Step(i) \/ Crash(i), ~Passes(i)
  PROVE  Fresh(s[i])'
<1>1. s[i] \in SlotRec /\ Carries(s[i]) /\ Plan(s[i]) /\ Fresh(s[i])
  BY DEF TypeInv, SlotInv, FreshInv
<1>2. ASSUME Return(i) PROVE Fresh(s[i])'
  BY <1>2, Returns, FreshIdle DEF TypeInv
<1>3. CASE CreateInsert(i)
  <2>1. CASE Return(i)
    BY <1>2, <2>1
  <2>2. CASE ~Return(i)
    <3>1. MayWrite(s[i].u, s[i].to) /\ Goto(i, "crFinal")
      BY <1>3, <2>2 DEF CreateInsert
    <3>2. GoesOn(s[i], s'[i]) /\ s'[i].pc = "crFinal"
      BY <3>1, Goes, Names DEF TypeInv
    <3>3. /\ s[i].pc = "crInsert" /\ s[i].claim.by \in Node \ {s[i].n}
          /\ \A m \in Node \ {s[i].n} : hier'[m] = hier[m]
      BY <1>3, <3>1, CreateNode
    <3>4. s[i].n \notin s[i].late /\ s[i].claim.by \in Folder
            => s[i].claim.era = hier'[s[i].claim.by]
      BY <1>1, <3>3, Names DEF Fresh
    <3> QED
      BY <3>2, <3>4, Names DEF Fresh, Rotates, GoesOn
  <2> QED
    BY <2>1, <2>2
<1>4. CASE CreateFinal(i) \/ MoveUpdate(i) \/ ShareGrant(i) \/ RotateRevoke(i) \/ Crash(i)
  BY <1>2, <1>4 DEF CreateFinal, MoveUpdate, ShareGrant, RotateRevoke, Crash
<1>5. CASE RotateGuard(i)
  BY <1>2, <1>5 DEF Passes
<1>6. CASE RotateFolder(i)
  <2> DEFINE r == s[i]
             q == s'[i]
  <2>1. /\ r.pc = "rtFolder" /\ Rotates(r) /\ hier'[r.n] = q.era /\ GoesOn(r, q)
        /\ q.pc = "rtWraps" /\ q.todo = r.todo
        /\ \A m \in Node \ {r.n} : hier'[m] = hier[m]
    BY <1>6, FolderEffect
  <2>2. ASSUME NEW n \in r.todo \ r.late PROVE r.kids[n] = hier'[n]
    BY <1>1, <2>1 DEF Fresh, Carries, SlotRec
  <2>3. /\ q.pc \notin Unflipped /\ q.pc # "mvUpdate" /\ q.todo = r.todo /\ q.late = r.late
        /\ q.kids = r.kids /\ q.n = r.n /\ q.era = hier'[q.n]
    BY <2>1, Names DEF GoesOn
  <2> HIDE DEF r, q
  <2>4. \A n \in q.todo \ q.late : q.kids[n] = hier'[n]
    BY <2>2, <2>3
  <2> QED
    BY <2>3, <2>4 DEF Fresh, q
<1>7. CASE RotateWraps(i) \/ \E n \in Node : RotateChild(i, n)
  <2>1. /\ s[i].pc \in {"rtWraps", "rtChild"} /\ GoesOn(s[i], s'[i]) /\ s'[i].era = s[i].era
        /\ s'[i].todo \subseteq s[i].todo /\ s'[i].pc \in {"rtChild", "rtRevoke"} /\ hier' = hier
    BY <1>7, WrapsEffect, ChildEffect
  <2> QED
    BY <1>1, <2>1, Names DEF Fresh, Rotates, GoesOn
<1> QED
  BY <1>3, <1>4, <1>5, <1>6, <1>7 DEF Step

LEMMA FreshPasses ==
  ASSUME TypeInv, FreshInv, NEW i \in Slot, Passes(i), NEW k \in Slot
  PROVE  Fresh(s[k])'
<1>1. /\ GoesOn(s[i], s'[i]) /\ s'[i].pc = "rtFolder" /\ s'[i].todo = s[i].todo
      /\ s'[i].era = s[i].era /\ s[i].pc = "rtGuard" /\ Rotates(s[i])
      /\ \A j \in Slot \ {i} : s'[j] = MarkedBy(s[j], s[i].n)
      /\ hier' = hier
  BY GuardEffect DEF Passes
<1>2. Fresh(s[k]) /\ s[k] \in SlotRec /\ Carries(s[k])
  BY DEF FreshInv, TypeInv, SlotInv
<1>3. CASE k = i
  BY <1>1, <1>2, <1>3, Names DEF Fresh, Rotates, GoesOn
<1>4. CASE k # i
  <2>1. /\ s'[k].pc = s[k].pc /\ s'[k].n = s[k].n /\ s'[k].to = s[k].to /\ s'[k].claim = s[k].claim
        /\ s'[k].era = s[k].era /\ s'[k].kids = s[k].kids /\ s'[k].todo = s[k].todo
        /\ s[k].late \subseteq s'[k].late /\ (s[k].lateRows => s'[k].lateRows)
    BY <1>1, <1>2, <1>4, MarkedIs
  <2> QED
    BY <1>1, <1>2, <2>1 DEF Fresh, Rotates
<1> QED
  BY <1>3, <1>4

LEMMA FreshSends ==
  ASSUME TypeInv, LateInv, FreshInv, NEW i \in Slot, NEW q, Sends(i, q)
  PROVE  FreshInv'
<1>1. s'[i] = q /\ hier' = hier /\ \A k \in Slot \ {i} : s'[k] = s[k]
  BY SlotMoves DEF Sends, TypeInv
<1>2. Fresh(q)
  BY DEF Sends
<1>3. Fresh(s[i])'
  BY <1>1, <1>2 DEF Fresh, Rotates
<1>4. \A k \in Slot \ {i} : Fresh(s[k])'
  BY <1>1, FreshStays DEF FreshInv
<1> QED
  BY <1>3, <1>4 DEF FreshInv

\* What is late, and what is fresh, stays so.
LEMMA LateNext ==
  ASSUME TypeInv, LateInv, FreshInv, NEW i \in Slot, Step(i) \/ Crash(i)
  PROVE  LateInv' /\ FreshInv'
<1>1. LateInv'
  BY QuietStep, LateQuiet, LatePasses
<1>2. \A k \in Slot : Fresh(s[k])'
  <2>1. CASE Passes(i)
    BY <2>1, FreshPasses
  <2>2. CASE ~Passes(i)
    BY <2>2, FreshOthers, FreshOwn
  <2> QED
    BY <2>1, <2>2
<1> QED
  BY <1>1, <1>2 DEF FreshInv

-----------------------------------------------------------------------------
(* Claims.                                                                 *)

\* No child, and no row, comes to folder f that is not stray.
ChildrenKept(f) ==
  \A n \in complete' \ strayClaim' :
    parent'[n] = f => n \in complete \ strayClaim /\ parent[n] = f
RowsKept(f) ==
  \A u \in User \ strayRow'[f] : wrap'[f][u] # 0 => wrap[f][u] # 0 /\ u \notin strayRow[f]

\* The folders about to be rotated by others than the request in slot i.
Changing(i) == {s[k].n : k \in {j \in Slot \ {i} : At(j, "rtFolder")}}

LEMMA GuardStays ==
  ASSUME GuardInv, NEW k \in Slot,
         s'[k].pc = "rtFolder" => /\ s[k].pc = "rtFolder" /\ s'[k].n = s[k].n
                                  /\ s'[k].todo = s[k].todo /\ s'[k].who = s[k].who
                                  /\ s'[k].v = s[k].v
                                  /\ ChildrenKept(s[k].n) /\ RowsKept(s[k].n)
  PROVE  Guarded(s[k])'
<1> SUFFICES ASSUME s'[k].pc = "rtFolder"
             PROVE  /\ \A n \in complete' : parent'[n] = s'[k].n
                                              => n \in s'[k].todo \cup strayClaim'
                    /\ \A u \in User : wrap'[s'[k].n][u] # 0
                                         => u \in s'[k].who \cup {s'[k].v} \cup strayRow'[s'[k].n]
  BY DEF Guarded
<1>1. /\ \A n \in complete : parent[n] = s[k].n => n \in s[k].todo \cup strayClaim
      /\ \A u \in User : wrap[s[k].n][u] # 0 => u \in s[k].who \cup {s[k].v} \cup strayRow[s[k].n]
  BY DEF GuardInv, Guarded
<1> QED
  BY <1>1 DEF ChildrenKept, RowsKept

LEMMA GuardQuiet ==
  ASSUME GuardInv, NEW i \in Slot, \A k \in Slot \ {i} : s'[k] = s[k], s'[i].pc # "rtFolder",
         \A f \in Changing(i) : ChildrenKept(f) /\ RowsKept(f)
  PROVE  GuardInv'
<1>1. ASSUME NEW k \in Slot, s'[k].pc = "rtFolder"
      PROVE  k # i /\ s'[k] = s[k] /\ s[k].n \in Changing(i)
  BY <1>1 DEF Changing, At
<1> QED
  BY <1>1, GuardStays DEF GuardInv

\* Claims that stay as they are.
LEMMA ClaimsFrame ==
  ASSUME TypeInv, ClaimInv, UNCHANGED <<tree, hier, claim>>, strayClaim \subseteq strayClaim',
         \A j \in Slot : \A n \in Node \ strayClaim' : Resealing(j, n) => Resealing(j, n)'
  PROVE  ClaimInv' /\ \A f : ChildrenKept(f)
<1>1. \A f : ChildrenKept(f)
  BY DEF ChildrenKept, tree
<1>2. ASSUME NEW n \in complete' \ strayClaim', parent'[n] \in Folder
      PROVE  Current(n)' \/ \E j \in Slot : Resealing(j, n)'
  <2>1. n \in Node /\ n \in complete \ strayClaim /\ parent[n] \in Folder
    BY <1>2 DEF TypeInv, NodeInv, tree
  <2>2. CASE Current(n)
    BY <2>2 DEF Current, tree
  <2>3. CASE ~Current(n)
    <3>1. PICK j \in Slot : Resealing(j, n)
      BY <2>1, <2>3 DEF ClaimInv
    <3> QED
      BY <1>2, <2>1, <3>1
  <2> QED
    BY <2>2, <2>3
<1> QED
  BY <1>1, <1>2 DEF ClaimInv

LEMMA ClaimIs ==
  ASSUME NEW c \in Claim
  PROVE  c = [by |-> c.by, era |-> c.era, of |-> c.of]
BY DEF Claim

\* One node's claim is written.
LEMMA ClaimsOne ==
  ASSUME TypeInv, TypeInv', ClaimInv, NEW n \in Node,
         \A m \in Node \ {n} : /\ parent'[m] = parent[m] /\ claim'[m] = claim[m]
                               /\ m \in complete' <=> m \in complete
                               /\ m \in strayClaim' <=> m \in strayClaim,
         \A m \in Node : Exists(m) => hier'[m] = hier[m],
         \A j \in Slot : \A m \in Node \ {n} : Resealing(j, m) => Resealing(j, m)',
         n \in complete' \ strayClaim' /\ parent'[n] \in Folder => Current(n)'
  PROVE  /\ ClaimInv'
         /\ \A f : (n \in complete' \ strayClaim' => parent'[n] # f) => ChildrenKept(f)
<1>1. complete' \subseteq Node
  BY DEF TypeInv, NodeInv
<1>2. \A f : (n \in complete' \ strayClaim' => parent'[n] # f) => ChildrenKept(f)
  BY <1>1 DEF ChildrenKept
<1>3. ASSUME NEW m \in complete' \ strayClaim', parent'[m] \in Folder
      PROVE  Current(m)' \/ \E j \in Slot : Resealing(j, m)'
  <2>1. CASE m = n
    BY <1>3, <2>1
  <2>2. CASE m # n
    <3>1. m \in Node /\ m \in complete \ strayClaim /\ parent[m] \in Folder /\ parent'[m] = parent[m]
      BY <1>1, <1>3, <2>2
    <3>2. hier'[m] = hier[m] /\ hier'[parent[m]] = hier[parent[m]] /\ claim'[m] = claim[m]
      BY <2>2, <3>1, Nodes DEF TypeInv, NodeInv, Exists
    <3>3. CASE Current(m)
      BY <3>1, <3>2, <3>3 DEF Current
    <3>4. CASE ~Current(m)
      <4>1. PICK j \in Slot : Resealing(j, m)
        BY <3>1, <3>4 DEF ClaimInv
      <4> QED
        BY <2>2, <3>1, <4>1
    <3> QED
      BY <3>3, <3>4
  <2> QED
    BY <2>1, <2>2
<1> QED
  BY <1>2, <1>3 DEF ClaimInv

\* A payload that is made of the keys of a folder about to change is late.
LEMMA LateToo ==
  ASSUME TypeInv, LateInv, NEW i \in Slot, s[i].pc \in Unflipped,
         NEW f \in Changing(i), f \in {s[i].n, s[i].claim.by}
  PROVE  s[i].n \in s[i].late
BY LateOnes DEF Changing

\* What the claims need to know of a step of the request in slot i.
ClaimsKept(i) == ClaimInv' /\ \A f \in Changing(i) : ChildrenKept(f)

LEMMA ClaimsCreateInsert ==
  ASSUME TypeInv, TypeInv', KeyInv, NEW i \in Slot, CreateInsert(i)
  PROVE  ClaimsKept(i)
<1> DEFINE r == s[i]
<1>0. PICK n \in Node : n = r.n
  BY DEF CreateInsert, At, TypeInv, SlotInv, Carries
<1>1. r.pc = "crInsert"
  BY DEF CreateInsert, At
<1>2. CASE ~MayWrite(r.u, r.to)
  <2>1. Return(i) /\ UNCHANGED <<tree, hier, claim, strayClaim>>
    BY <1>2 DEF CreateInsert
  <2>2. \A j \in Slot, m \in Node : Resealing(j, m) => Resealing(j, m)'
    BY <1>1, <2>1, Returns DEF TypeInv, Resealing, tree
  <2> QED
    BY <2>1, <2>2, ClaimsFrame DEF KeyInv, ClaimsKept
<1>3. CASE MayWrite(r.u, r.to)
  <2>1. /\ n \in Node /\ ~Exists(n) /\ r.to \in Folder /\ r.to \in Node /\ r.to # n
        /\ r.claim \in Claim /\ r.claim.by = r.to /\ r.claim.of = 1
        /\ parent'[n] = r.to /\ hier'[n] = 1 /\ claim'[n] = r.claim /\ Seals(r, n)
        /\ \A m \in Node \ {n} : parent'[m] = parent[m] /\ hier'[m] = hier[m] /\ claim'[m] = claim[m]
        /\ complete \subseteq complete' /\ complete' \subseteq complete \cup {n}
        /\ n \in Folder => Return(i)
        /\ n \notin Folder => Goto(i, "crFinal")
    BY <1>0, <1>3, CreateNode
  <2>2. \A m \in Node \ {n} : m \in strayClaim' <=> m \in strayClaim
    BY <1>0, <2>1, SealsTyped DEF TypeInv
  <2>3. n \in strayClaim' <=> n \in r.late
    BY <1>0, <2>1 DEF Seals
  <2>4. \A k \in Slot \ {i} : s'[k] = s[k]
    BY <2>1, Returns, Goes, Names DEF TypeInv
  <2>5. ASSUME n \notin strayClaim' PROVE Current(n)'
    <3>1. r.claim.era = hier[r.to]
      BY <1>0, <1>1, <2>1, <2>3, <2>5, Names DEF KeyInv, FreshInv, Fresh
    <3> QED
      BY <2>1, <3>1, ClaimIs DEF Current
  <2>6. ASSUME NEW f \in Changing(i), parent'[n] = f PROVE n \in strayClaim'
    BY <1>0, <1>1, <2>1, <2>3, <2>6, LateToo, Names DEF KeyInv
  <2>7. \A j \in Slot, m \in Node \ {n} : Resealing(j, m) => Resealing(j, m)'
    BY <1>1, <2>1, <2>4 DEF Resealing
  <2> HIDE DEF r
  <2>8. \A m \in Node : Exists(m) => hier'[m] = hier[m]
    BY <2>1
  <2>9. \A m \in Node \ {n} : m \in complete' <=> m \in complete
    BY <2>1
  <2>10. ClaimInv' /\ \A f : (n \in complete' \ strayClaim' => parent'[n] # f) => ChildrenKept(f)
    BY <2>1, <2>2, <2>5, <2>7, <2>8, <2>9, ClaimsOne DEF KeyInv
  <2> QED
    BY <2>6, <2>10 DEF ClaimsKept
<1> QED
  BY <1>2, <1>3

LEMMA ClaimsCreateFinal ==
  ASSUME TypeInv, TypeInv', KeyInv, NEW i \in Slot, CreateFinal(i)
  PROVE  ClaimsKept(i)
<1> DEFINE r == s[i]
<1>0. PICK n \in Node : n = r.n
  BY FinalEffect
<1>1. /\ r.pc = "crFinal" /\ n \in File /\ n \in Node /\ Exists(n) /\ parent[n] = r.to
      /\ r.to \in Folder /\ claim[n] = r.claim /\ r.claim.by = r.to /\ r.claim.of = 1
      /\ complete' = complete \cup {n} /\ Seals(r, n) /\ Return(i)
      /\ UNCHANGED <<parent, owner, hier, wrap, claim, ring, out>>
  BY <1>0, FinalEffect
<1>2. \A m \in Node \ {n} : m \in strayClaim' <=> m \in strayClaim
  BY <1>0, <1>1, SealsTyped DEF TypeInv
<1>3. n \in strayClaim' <=> n \in r.late
  BY <1>0, <1>1 DEF Seals
<1>4. ASSUME n \notin strayClaim' PROVE Current(n)'
  <2>1. r.claim.era = hier[r.to]
    BY <1>0, <1>1, <1>3, <1>4, Names DEF KeyInv, FreshInv, Fresh
  <2>2. hier[n] = 1
    <3>1. hier[n] # 0 /\ hier[n] <= 1 /\ hier[n] \in Nat
      BY <1>1, Bounds DEF TypeInv, NodeInv
    <3> QED
      BY <3>1
  <2>3. r.claim \in Claim
    BY DEF TypeInv, SlotInv, SlotRec
  <2> QED
    BY <1>1, <2>1, <2>2, <2>3, ClaimIs DEF Current
<1>5. ASSUME NEW f \in Changing(i), parent'[n] = f PROVE n \in strayClaim'
  BY <1>0, <1>1, <1>3, <1>5, LateToo, Names DEF KeyInv
<1>6. \A j \in Slot, m \in Node \ {n} : Resealing(j, m) => Resealing(j, m)'
  BY <1>1, Returns DEF TypeInv, Resealing
<1> HIDE DEF r
<1>7. \A m \in Node \ {n} : m \in complete' <=> m \in complete
  BY <1>1
<1>8. ClaimInv' /\ \A f : (n \in complete' \ strayClaim' => parent'[n] # f) => ChildrenKept(f)
  BY <1>1, <1>2, <1>4, <1>6, <1>7, ClaimsOne DEF KeyInv
<1> QED
  BY <1>5, <1>8 DEF ClaimsKept

LEMMA ClaimsMoveUpdate ==
  ASSUME TypeInv, TypeInv', KeyInv, NEW i \in Slot, MoveUpdate(i)
  PROVE  ClaimsKept(i)
<1> DEFINE r == s[i]
<1>0. PICK n \in Node : n = r.n
  BY MoveEffect
<1>1. /\ r.pc = "mvUpdate" /\ n \in Node /\ Exists(n) /\ n \in complete
      /\ r.claim \in Claim /\ r.claim.by = r.to /\ r.to \in Folder \cup {Top}
      /\ Return(i) /\ UNCHANGED <<owner, complete, hier, wrap, strayRow>>
      /\ \/ UNCHANGED <<parent, claim, strayClaim>>
         \/ /\ parent'[n] = r.to /\ claim'[n] = r.claim /\ Seals(r, n)
            /\ \A m \in Node \ {n} : parent'[m] = parent[m] /\ claim'[m] = claim[m]
  BY <1>0, MoveEffect
<1>2. \A k \in Slot \ {i} : s'[k] = s[k]
  BY <1>1, Returns DEF TypeInv
<1>3. CASE UNCHANGED <<parent, claim, strayClaim>>
  <2>1. \A j \in Slot, m \in Node : Resealing(j, m) => Resealing(j, m)'
    BY <1>1, <1>2, <1>3 DEF Resealing
  <2> QED
    BY <1>1, <1>3, <2>1, ClaimsFrame DEF KeyInv, ClaimsKept, tree
<1>4. CASE ~UNCHANGED <<parent, claim, strayClaim>>
  <2>1. /\ parent'[n] = r.to /\ claim'[n] = r.claim /\ Seals(r, n)
        /\ \A m \in Node \ {n} : parent'[m] = parent[m] /\ claim'[m] = claim[m]
    BY <1>1, <1>4
  <2>2. \A m \in Node \ {n} : m \in strayClaim' <=> m \in strayClaim
    BY <1>0, <1>1, <2>1, SealsTyped DEF TypeInv
  <2>3. n \in strayClaim' <=> n \in r.late
    BY <1>0, <2>1 DEF Seals
  <2>4. ASSUME n \notin strayClaim', r.to \in Folder PROVE Current(n)'
    <3>1. r.claim.era = hier[r.to] /\ r.claim.of = hier[n]
      BY <1>0, <1>1, <2>3, <2>4, Names DEF KeyInv, FreshInv, Fresh
    <3> QED
      BY <1>1, <2>1, <3>1, ClaimIs DEF Current
  <2>5. ASSUME NEW f \in Changing(i), parent'[n] = f PROVE n \in strayClaim'
    BY <1>0, <1>1, <2>1, <2>3, <2>5, LateToo, Names DEF KeyInv
  <2>6. \A j \in Slot, m \in Node \ {n} : Resealing(j, m) => Resealing(j, m)'
    BY <1>1, <1>2, <2>1 DEF Resealing
  <2> HIDE DEF r
  <2>7. parent'[n] \in Folder /\ n \notin strayClaim' => Current(n)'
    BY <2>1, <2>4
  <2>8. ClaimInv' /\ \A f : (n \in complete' \ strayClaim' => parent'[n] # f) => ChildrenKept(f)
    BY <1>1, <2>1, <2>2, <2>6, <2>7, ClaimsOne DEF KeyInv
  <2> QED
    BY <2>5, <2>8 DEF ClaimsKept
<1> QED
  BY <1>3, <1>4

\* A rotation's first write: its payload has every child, but for those that are stray.
LEMMA ClaimsRotateFolder ==
  ASSUME TypeInv, TypeInv', KeyInv, NEW i \in Slot, RotateFolder(i)
  PROVE  ClaimsKept(i)
<1> DEFINE r == s[i]
<1>0. PICK g \in Folder : g = r.n
  BY FolderEffect
<1>1. PICK new \in Eras : new = hier[g] + 1
  BY <1>0, FolderEffect
<1>2. /\ r.pc = "rtFolder" /\ g \in Node /\ r \in SlotRec
      /\ hier'[g] = new /\ \A m \in Node \ {g} : hier'[m] = hier[m]
      /\ claim' \in [Node -> Claim] /\ claim'[g] = NewClaim(r, new)
      /\ \A m \in Node \ {g} : claim'[m] = claim[m]
      /\ SealsOwn(r) /\ UNCHANGED <<tree, wrap, strayRow>>
      /\ \A k \in Slot \ {i} : s'[k] = s[k]
      /\ s'[i].n = g /\ s'[i].pc = "rtWraps" /\ s'[i].todo = r.todo
  BY <1>0, <1>1, FolderEffect DEF GoesOn
<1>3. /\ \A m \in Node \ {g} : m \in strayClaim' <=> m \in strayClaim
      /\ r.claim.by = parent[g] => (g \in strayClaim' <=> g \in r.late)
      /\ r.claim.by # parent[g] => g \in strayClaim'
  BY <1>0, <1>2, SealsTyped DEF SealsOwn, Seals, TypeInv
<1>4. complete' = complete /\ complete \subseteq Node /\ parent' = parent
  BY <1>2 DEF TypeInv, NodeInv, tree
<1>5. ASSUME NEW f \in Changing(i) PROVE ChildrenKept(f)
  <2>1. ASSUME NEW n \in complete' \ strayClaim', parent'[n] = f
        PROVE  n \in complete \ strayClaim /\ parent[n] = f
    <3>1. CASE n = g
      <4>1. r.claim.by = f /\ g \notin r.late
        BY <1>3, <1>4, <2>1, <3>1
      <4>2. g \in r.late
        BY <1>0, <1>2, <4>1, LateToo, Names DEF KeyInv
      <4> QED
        BY <4>1, <4>2
    <3>2. CASE n # g
      BY <1>3, <1>4, <2>1, <3>2
    <3> QED
      BY <3>1, <3>2
  <2> QED
    BY <2>1 DEF ChildrenKept
<1>6. ASSUME NEW n \in complete' \ strayClaim', parent'[n] \in Folder
      PROVE  Current(n)' \/ \E j \in Slot : Resealing(j, n)'
  <2>1. n \in Node /\ n \in complete /\ parent[n] \in Folder /\ parent[n] # n /\ parent'[n] = parent[n]
    BY <1>4, <1>6 DEF TypeInv, NodeInv
  <2>2. CASE n = g
    <3>1. r.claim.by = parent[g] /\ g \notin r.late
      BY <1>3, <1>6, <2>2
    <3>2. r.claim.era = hier[parent[g]] /\ r.claim \in Claim /\ r.claim.by # Top
      BY <1>0, <1>2, <2>1, <2>2, <3>1, Names, Nodes DEF KeyInv, FreshInv, Fresh, SlotRec
    <3>3. NewClaim(r, new) = [by |-> parent[g], era |-> hier[parent[g]], of |-> new]
      BY <3>1, <3>2 DEF NewClaim, Claim
    <3>4. hier'[parent[g]] = hier[parent[g]]
      BY <1>2, <2>1, <2>2, Nodes
    <3> QED
      BY <1>2, <2>1, <2>2, <3>3, <3>4 DEF Current
  <2>3. CASE n # g /\ parent[n] = g
    <3>1. n \in r.todo
      BY <1>0, <1>2, <1>3, <1>6, <2>1, <2>3 DEF KeyInv, GuardInv, Guarded
    <3>2. Resealing(i, n)'
      BY <1>2, <2>1, <2>3, <3>1 DEF Resealing
    <3> QED
      BY <3>2
  <2>4. CASE n # g /\ parent[n] # g
    <3>1. n \notin strayClaim /\ hier'[n] = hier[n] /\ hier'[parent[n]] = hier[parent[n]]
          /\ claim'[n] = claim[n]
      BY <1>2, <1>3, <1>6, <2>1, <2>4, Nodes
    <3>2. CASE Current(n)
      BY <2>1, <3>1, <3>2 DEF Current
    <3>3. CASE ~Current(n)
      <4>1. PICK j \in Slot : Resealing(j, n)
        BY <2>1, <3>1, <3>3 DEF KeyInv, ClaimInv
      <4>2. j # i
        BY <1>2, <4>1 DEF Resealing
      <4> QED
        BY <1>2, <2>1, <4>1, <4>2 DEF Resealing
    <3> QED
      BY <3>2, <3>3
  <2> QED
    BY <2>2, <2>3, <2>4
<1> QED
  BY <1>5, <1>6 DEF ClaimInv, ClaimsKept

LEMMA ClaimsRotateChild ==
  ASSUME TypeInv, TypeInv', KeyInv, NEW i \in Slot, NEW n \in Node, RotateChild(i, n)
  PROVE  ClaimsKept(i)
<1> DEFINE r == s[i]
<1>1. /\ r.pc = "rtChild" /\ n \in r.todo /\ n \in complete /\ r.n \in Folder
      /\ UNCHANGED <<tree, hier, wrap, strayRow>> /\ \A m \in Node \ {n} : claim'[m] = claim[m]
      /\ \/ parent[n] # r.n /\ UNCHANGED <<claim, strayClaim>>
         \/ /\ parent[n] = r.n /\ Seals(r, n)
            /\ claim'[n] = [by |-> r.n, era |-> r.era, of |-> r.kids[n]]
      /\ \A k \in Slot \ {i} : s'[k] = s[k]
      /\ s'[i].n = r.n /\ s'[i].todo = r.todo \ {n}
      /\ s'[i].pc \in {"rtRevoke", "rtChild"} /\ (s'[i].pc = "rtRevoke" => r.todo = {n})
  BY ChildEffect DEF GoesOn
<1>2. \A j \in Slot, m \in Node \ {n} : Resealing(j, m) => Resealing(j, m)'
  BY <1>1 DEF Resealing, tree
<1>3. CASE parent[n] # r.n
  <2>1. \A j \in Slot : Resealing(j, n) => Resealing(j, n)'
    BY <1>1, <1>3 DEF Resealing, tree
  <2> QED
    BY <1>1, <1>2, <1>3, <2>1, ClaimsFrame DEF KeyInv, ClaimsKept
<1>4. CASE parent[n] = r.n
  <2>1. Seals(r, n) /\ claim'[n] = [by |-> r.n, era |-> r.era, of |-> r.kids[n]]
    BY <1>1, <1>4
  <2>2. \A m \in Node \ {n} : m \in strayClaim' <=> m \in strayClaim
    BY <2>1, SealsTyped DEF TypeInv
  <2>3. n \in strayClaim' <=> n \in r.late
    BY <2>1 DEF Seals
  <2>4. ASSUME n \notin strayClaim' PROVE Current(n)'
    <3>1. r.era = hier[r.n] /\ r.kids[n] = hier[n]
      BY <1>1, <2>3, <2>4, Names DEF KeyInv, FreshInv, Fresh, Rotates
    <3> QED
      BY <1>1, <1>4, <2>1, <3>1 DEF Current, tree
  <2>5. ASSUME NEW f \in Changing(i), parent'[n] = f PROVE n \in strayClaim'
    <3>1. PICK k \in Slot \ {i} : At(k, "rtFolder") /\ f = s[k].n
      BY DEF Changing
    <3>2. s[k].n = r.n /\ Rotates(r)
      BY <1>1, <1>4, <2>5, <3>1, Names DEF tree, Rotates
    <3>3. r.todo \subseteq r.late
      BY <3>1, <3>2, LateOnes DEF KeyInv
    <3> QED
      BY <1>1, <2>3, <3>3
  <2> HIDE DEF r
  <2>6. \A m \in Node \ {n} : /\ parent'[m] = parent[m] /\ claim'[m] = claim[m]
                              /\ m \in complete' <=> m \in complete
                              /\ m \in strayClaim' <=> m \in strayClaim
    BY <1>1, <2>2 DEF tree
  <2>7. ClaimInv' /\ \A f : (n \in complete' \ strayClaim' => parent'[n] # f) => ChildrenKept(f)
    BY <1>1, <1>2, <2>4, <2>6, ClaimsOne DEF KeyInv
  <2> QED
    BY <2>5, <2>7 DEF ClaimsKept
<1> QED
  BY <1>3, <1>4

\* The other steps write no claim. A request that dies leaves stray what it was to
\* seal again.
LEMMA ClaimsRest ==
  ASSUME TypeInv, KeyInv, NEW i \in Slot,
         \/ ShareGrant(i) \/ RotateGuard(i) \/ RotateWraps(i) \/ RotateRevoke(i) \/ Crash(i)
         \/ \E q : Sends(i, q)
  PROVE  ClaimsKept(i)
<1>1. UNCHANGED <<tree, hier, claim>> /\ strayClaim \subseteq strayClaim'
  BY CrashEffect DEF ShareGrant, RotateGuard, RotateWraps, RotateRevoke, Sends, stray
<1>2. ASSUME NEW j \in Slot, NEW n \in Node \ strayClaim', Resealing(j, n) PROVE Resealing(j, n)'
  <2>1. ASSUME j # i, \A k \in Slot \ {i} : s'[k] = s[k] PROVE Resealing(j, n)'
    BY <1>1, <1>2, <2>1 DEF Resealing, tree
  <2>2. s[j].pc \in {"rtWraps", "rtChild"} /\ n \in s[j].todo
    BY <1>2 DEF Resealing
  <2>3. CASE ShareGrant(i) \/ RotateRevoke(i)
    BY <2>1, <2>2, <2>3, ShareEffect, RevokeEffect, Returns DEF TypeInv
  <2>4. CASE RotateGuard(i) /\ Return(i)
    <3>1. s[i].pc = "rtGuard"
      BY <2>4, GuardEffect
    <3> QED
      BY <2>1, <2>2, <2>4, <3>1, Returns DEF TypeInv
  <2>5. CASE RotateGuard(i) /\ ~Return(i)
    <3>1. s[i].pc = "rtGuard" /\ \A k \in Slot \ {i} : s'[k] = MarkedBy(s[k], s[i].n)
      BY <2>5, GuardEffect
    <3>2. s'[j].pc = s[j].pc /\ s'[j].n = s[j].n /\ s'[j].todo = s[j].todo
      BY <2>2, <3>1, MarkedIs DEF TypeInv, SlotInv
    <3> QED
      BY <1>1, <1>2, <3>2 DEF Resealing, tree
  <2>6. CASE RotateWraps(i)
    <3>1. /\ \A k \in Slot \ {i} : s'[k] = s[k]
          /\ s'[i].n = s[i].n /\ s'[i].todo = s[i].todo
          /\ s'[i].pc \in {"rtRevoke", "rtChild"} /\ (s'[i].pc = "rtRevoke" => s[i].todo = {})
      BY <2>6, WrapsEffect DEF GoesOn
    <3> QED
      BY <1>1, <1>2, <2>1, <3>1 DEF Resealing, tree
  <2>7. CASE Crash(i)
    <3>1. /\ s[i].pc \in {"rtWraps", "rtChild"} => s[i].todo \subseteq strayClaim'
          /\ \A k \in Slot \ {i} : s'[k] = s[k]
      BY <2>7, CrashEffect, Returns DEF TypeInv
    <3> QED
      BY <2>1, <2>2, <3>1
  <2>8. ASSUME NEW q, Sends(i, q) PROVE Resealing(j, n)'
    <3>1. s[i].pc = "idle" /\ \A k \in Slot \ {i} : s'[k] = s[k]
      BY <2>8, SlotMoves DEF Sends, TypeInv, At
    <3> QED
      BY <2>1, <2>2, <3>1
  <2> QED
    BY <2>3, <2>4, <2>5, <2>6, <2>7, <2>8
<1> QED
  BY <1>1, <1>2, ClaimsFrame DEF KeyInv, ClaimsKept

LEMMA ClaimsNext ==
  ASSUME TypeInv, TypeInv', KeyInv, NEW i \in Slot, Step(i) \/ Crash(i)
  PROVE  ClaimsKept(i)
BY ClaimsCreateInsert, ClaimsCreateFinal, ClaimsMoveUpdate, ClaimsRotateFolder, ClaimsRotateChild,
   ClaimsRest DEF Step

-----------------------------------------------------------------------------
(* Rows.                                                                   *)

\* What the rows need to know of a step of the request in slot i.
RowsHold(i) == WrapInv' /\ \A f \in Changing(i) : RowsKept(f)

LEMMA ChangingIs ==
  ASSUME TypeInv, NEW i \in Slot, NEW f \in Changing(i)
  PROVE  /\ f \in Folder /\ f \in Node /\ Exists(f)
         /\ \E k \in Slot \ {i} : At(k, "rtFolder") /\ s[k].n = f
<1>1. PICK k \in Slot \ {i} : At(k, "rtFolder") /\ s[k].n = f
  BY DEF Changing
<1>2. Rotates(s[k]) /\ Carries(s[k]) /\ Plan(s[k])
  BY <1>1 DEF At, Rotates, Rotating, TypeInv, SlotInv
<1> QED
  BY <1>1, <1>2, Nodes DEF Carries, Plan

\* Rows that stay as they are.
LEMMA RowsFrame ==
  ASSUME WrapInv, NEW f \in Folder, NEW U \in SUBSET User,
         hier'[f] = hier[f], \A u \in U : wrap'[f][u] = wrap[f][u],
         \A u \in U : u \in strayRow[f] => u \in strayRow'[f],
         \A j \in Slot : \A u \in U \ strayRow'[f] : Rewrapping(j, f, u) => Rewrapping(j, f, u)'
  PROVE  /\ \A u \in U \ strayRow'[f] :
              wrap'[f][u] \in {0, hier'[f]} \/ \E j \in Slot : Rewrapping(j, f, u)'
         /\ \A u \in U \ strayRow'[f] : wrap'[f][u] # 0 => wrap[f][u] # 0 /\ u \notin strayRow[f]
<1>1. ASSUME NEW u \in U \ strayRow'[f]
      PROVE  wrap'[f][u] \in {0, hier'[f]} \/ \E j \in Slot : Rewrapping(j, f, u)'
  <2>1. wrap[f][u] \in {0, hier[f]} \/ \E j \in Slot : Rewrapping(j, f, u)
    BY DEF WrapInv
  <2>2. CASE wrap[f][u] \in {0, hier[f]}
    BY <2>2
  <2>3. ASSUME NEW j \in Slot, Rewrapping(j, f, u) PROVE Rewrapping(j, f, u)'
    BY <2>3
  <2> QED
    BY <2>1, <2>2, <2>3
<1> QED
  BY <1>1

LEMMA RowsCreateInsert ==
  ASSUME TypeInv, TypeInv', KeyInv, NEW i \in Slot, CreateInsert(i)
  PROVE  RowsHold(i)
<1>0. s[i].pc = "crInsert" /\ (Return(i) \/ Goto(i, "crFinal"))
  BY DEF CreateInsert, At
<1>1. \A k \in Slot \ {i} : s'[k] = s[k]
  BY <1>0, Returns, Goes, Names DEF TypeInv
<1>2. \A j \in Slot : \A f, u : Rewrapping(j, f, u) => Rewrapping(j, f, u)'
  BY <1>1, Names DEF Rewrapping, CreateInsert, At
<1>3. CASE ~MayWrite(s[i].u, s[i].to)
  <2>1. UNCHANGED <<hier, wrap, strayRow>>
    BY <1>3 DEF CreateInsert
  <2> QED
    BY <1>2, <2>1, ChangingIs, RowsFrame DEF KeyInv, WrapInv, RowsHold, RowsKept
<1>4. CASE MayWrite(s[i].u, s[i].to)
  <2>1. PICK n \in Node : n = s[i].n
    BY <1>4, CreateNode
  <2>2. /\ ~Exists(n) /\ hier'[n] = 1 /\ strayRow' = strayRow
        /\ \A u \in User : wrap'[n][u] \in {0, 1}
        /\ \A m \in Node \ {n} : hier'[m] = hier[m] /\ wrap'[m] = wrap[m]
    BY <1>4, <2>1, CreateNode
  <2>3. ASSUME NEW f \in Folder \ {n}
        PROVE  /\ \A u \in User \ strayRow'[f] :
                    wrap'[f][u] \in {0, hier'[f]} \/ \E j \in Slot : Rewrapping(j, f, u)'
               /\ RowsKept(f)
    <3>1. f \in Node
      BY Nodes
    <3> QED
      BY <1>2, <2>2, <3>1, RowsFrame DEF KeyInv, RowsKept
  <2>4. WrapInv'
    BY <2>2, <2>3 DEF WrapInv
  <2> QED
    BY <2>2, <2>3, <2>4, ChangingIs DEF RowsHold
<1> QED
  BY <1>3, <1>4

LEMMA RowsShareGrant ==
  ASSUME TypeInv, TypeInv', KeyInv, NEW i \in Slot, ShareGrant(i)
  PROVE  RowsHold(i)
<1> DEFINE r == s[i]
<1>0. PICK g \in Folder, v \in User : g = r.n /\ v = r.v
  BY ShareEffect
<1>1. /\ r.pc = "shGrant" /\ g \in Node /\ Return(i) /\ UNCHANGED <<tree, hier, claim, strayClaim>>
      /\ \/ UNCHANGED <<wrap, strayRow>>
         \/ /\ wrap'[g][v] = r.era /\ Grants(r, {v})
            /\ \A u \in User \ {v} : wrap'[g][u] = wrap[g][u]
            /\ \A m \in Node \ {g} : wrap'[m] = wrap[m]
  BY <1>0, ShareEffect
<1>2. \A j \in Slot : \A f, u : Rewrapping(j, f, u) => Rewrapping(j, f, u)'
  BY <1>1, Returns, Names DEF TypeInv, Rewrapping
<1>3. CASE UNCHANGED <<wrap, strayRow>>
  BY <1>1, <1>2, <1>3, ChangingIs, RowsFrame DEF KeyInv, WrapInv, RowsHold, RowsKept
<1>4. CASE ~UNCHANGED <<wrap, strayRow>>
  <2>1. /\ strayRow'[g] = IF r.lateRows THEN strayRow[g] \cup {v} ELSE strayRow[g] \ {v}
        /\ \A f \in Folder \ {g} : strayRow'[f] = strayRow[f]
    BY <1>0, <1>1, <1>4 DEF Grants, TypeInv, StrayInv
  <2>2. /\ wrap'[g][v] = r.era /\ \A u \in User \ {v} : wrap'[g][u] = wrap[g][u]
        /\ \A f \in Folder \ {g} : wrap'[f] = wrap[f]
    BY <1>1, <1>4, Nodes
  <2>3. v \notin strayRow'[g] => wrap'[g][v] = hier'[g]
    BY <1>0, <1>1, <2>1, <2>2 DEF KeyInv, FreshInv, Fresh
  <2>4. g \in Changing(i) => v \in strayRow'[g]
    <3>1. g \in Changing(i) => r.lateRows
      BY <1>0, <1>1, LateOnes, ChangingIs DEF KeyInv
    <3> QED
      BY <2>1, <3>1
  <2> HIDE DEF r
  <2>5. ASSUME NEW f \in Folder \ {g}
        PROVE  /\ \A u \in User \ strayRow'[f] :
                    wrap'[f][u] \in {0, hier'[f]} \/ \E j \in Slot : Rewrapping(j, f, u)'
               /\ RowsKept(f)
    BY <1>1, <1>2, <2>1, <2>2, RowsFrame DEF KeyInv, RowsKept
  <2>6. /\ \A u \in User \ {v} : u \notin strayRow'[g] =>
             wrap'[g][u] \in {0, hier'[g]} \/ \E j \in Slot : Rewrapping(j, g, u)'
        /\ \A u \in User \ {v} : u \notin strayRow'[g] =>
             (wrap'[g][u] # 0 => wrap[g][u] # 0 /\ u \notin strayRow[g])
    <3> DEFINE U == User \ {v}
    <3>1. /\ U \in SUBSET User /\ hier'[g] = hier[g] /\ \A u \in U : wrap'[g][u] = wrap[g][u]
          /\ \A u \in U : u \in strayRow[g] => u \in strayRow'[g]
      BY <1>1, <2>1, <2>2
    <3> HIDE DEF U
    <3>2. /\ \A u \in U \ strayRow'[g] :
               wrap'[g][u] \in {0, hier'[g]} \/ \E j \in Slot : Rewrapping(j, g, u)'
          /\ \A u \in U \ strayRow'[g] : wrap'[g][u] # 0 => wrap[g][u] # 0 /\ u \notin strayRow[g]
      BY <1>2, <3>1, RowsFrame DEF KeyInv
    <3> QED
      BY <3>2 DEF U
  <2>7. WrapInv'
    BY <2>3, <2>5, <2>6 DEF WrapInv
  <2>8. g \in Changing(i) => RowsKept(g)
    BY <2>4, <2>6 DEF RowsKept
  <2> QED
    BY <2>5, <2>7, <2>8, ChangingIs DEF RowsHold
<1> QED
  BY <1>3, <1>4

\* A rotation's first write: it has everyone with a row, but for rows that are stray.
LEMMA RowsRotateFolder ==
  ASSUME TypeInv, TypeInv', KeyInv, NEW i \in Slot, RotateFolder(i)
  PROVE  RowsHold(i)
<1> DEFINE r == s[i]
<1>0. PICK g \in Folder : g = r.n
  BY FolderEffect
<1>1. /\ r.pc = "rtFolder" /\ g \in Node /\ \A m \in Node \ {g} : hier'[m] = hier[m]
      /\ UNCHANGED <<tree, wrap, strayRow>> /\ \A k \in Slot \ {i} : s'[k] = s[k]
      /\ s'[i].n = g /\ s'[i].pc = "rtWraps" /\ s'[i].who = r.who /\ s'[i].v = r.v
  BY <1>0, FolderEffect DEF GoesOn
<1>2. \A j \in Slot : \A f, u : Rewrapping(j, f, u) => Rewrapping(j, f, u)'
  BY <1>1, Names DEF Rewrapping
<1>3. ASSUME NEW u \in User \ strayRow'[g], wrap'[g][u] # 0 PROVE Rewrapping(i, g, u)'
  <2>1. u \in r.who \cup {r.v}
    BY <1>0, <1>1, <1>3 DEF KeyInv, GuardInv, Guarded
  <2> QED
    BY <1>1, <2>1, Names DEF Rewrapping
<1>4. ASSUME NEW f \in Folder \ {g}, NEW u \in User \ strayRow'[f]
      PROVE  wrap'[f][u] \in {0, hier'[f]} \/ \E j \in Slot : Rewrapping(j, f, u)'
  <2>1. hier'[f] = hier[f]
    BY <1>1, Nodes
  <2>2. User \in SUBSET User /\ \A w \in User : wrap'[f][w] = wrap[f][w]
    BY <1>1
  <2>3. \A w \in User : w \in strayRow[f] => w \in strayRow'[f]
    BY <1>1
  <2> QED
    BY <1>2, <2>1, <2>2, <2>3, RowsFrame DEF KeyInv
<1>5. WrapInv'
  BY <1>3, <1>4 DEF WrapInv
<1>6. \A f : RowsKept(f)
  BY <1>1 DEF RowsKept
<1> QED
  BY <1>5, <1>6 DEF RowsHold

LEMMA RowsRotateWraps ==
  ASSUME TypeInv, TypeInv', KeyInv, NEW i \in Slot, RotateWraps(i)
  PROVE  RowsHold(i)
<1> DEFINE r == s[i]
<1>0. PICK g \in Folder, W \in SUBSET User, v \in User :
       g = r.n /\ W = r.who /\ v = r.v /\ v \notin W
  BY WrapsEffect
<1>1. /\ r.pc = "rtWraps" /\ g \in Node /\ UNCHANGED <<tree, hier, claim, strayClaim>>
      /\ \A u \in User : wrap'[g][u] = IF u \in W THEN r.era ELSE wrap[g][u]
      /\ \A m \in Node \ {g} : wrap'[m] = wrap[m]
      /\ Grants(r, W) /\ \A k \in Slot \ {i} : s'[k] = s[k]
      /\ s'[i].n = g /\ s'[i].v = v /\ s'[i].pc \in {"rtRevoke", "rtChild"} /\ Rotates(r)
  BY <1>0, WrapsEffect DEF GoesOn
<1>2. /\ strayRow'[g] = IF r.lateRows THEN strayRow[g] \cup W ELSE strayRow[g] \ W
      /\ \A f \in Folder \ {g} : strayRow'[f] = strayRow[f]
  BY <1>0, <1>1 DEF Grants, TypeInv, StrayInv
<1>3. ASSUME NEW j \in Slot, NEW f \in Folder, NEW u \in User, f # g \/ u \notin W,
             Rewrapping(j, f, u)
      PROVE  Rewrapping(j, f, u)'
  BY <1>0, <1>1, <1>3, Names DEF Rewrapping
<1>4. ASSUME NEW u \in W, u \notin strayRow'[g] PROVE wrap'[g][u] = hier'[g]
  BY <1>0, <1>1, <1>2, <1>4, Names DEF KeyInv, FreshInv, Fresh
<1>5. g \in Changing(i) => W \subseteq strayRow'[g]
  <2>1. g \in Changing(i) => r.lateRows
    BY <1>0, <1>1, LateOnes, ChangingIs DEF KeyInv
  <2> QED
    BY <1>2, <2>1
<1> HIDE DEF r
<1>6. ASSUME NEW f \in Folder \ {g}
      PROVE  /\ \A u \in User \ strayRow'[f] :
                  wrap'[f][u] \in {0, hier'[f]} \/ \E j \in Slot : Rewrapping(j, f, u)'
             /\ RowsKept(f)
  <2>1. hier'[f] = hier[f] /\ wrap'[f] = wrap[f] /\ strayRow'[f] = strayRow[f]
    BY <1>1, <1>2, Nodes
  <2>2. \A j \in Slot : \A u \in User \ strayRow'[f] : Rewrapping(j, f, u) => Rewrapping(j, f, u)'
    BY <1>3
  <2> QED
    BY <2>1, <2>2, RowsFrame DEF KeyInv, RowsKept
<1>7. /\ \A u \in User \ W : u \notin strayRow'[g] =>
           wrap'[g][u] \in {0, hier'[g]} \/ \E j \in Slot : Rewrapping(j, g, u)'
      /\ \A u \in User \ W : u \notin strayRow'[g] =>
           (wrap'[g][u] # 0 => wrap[g][u] # 0 /\ u \notin strayRow[g])
  <2> DEFINE U == User \ W
  <2>1. /\ U \in SUBSET User /\ hier'[g] = hier[g] /\ \A u \in U : wrap'[g][u] = wrap[g][u]
        /\ \A u \in U : u \in strayRow[g] => u \in strayRow'[g]
    BY <1>1, <1>2
  <2>2. \A j \in Slot : \A u \in U \ strayRow'[g] : Rewrapping(j, g, u) => Rewrapping(j, g, u)'
    BY <1>3
  <2> HIDE DEF U
  <2>3. /\ \A u \in U \ strayRow'[g] :
             wrap'[g][u] \in {0, hier'[g]} \/ \E j \in Slot : Rewrapping(j, g, u)'
        /\ \A u \in U \ strayRow'[g] : wrap'[g][u] # 0 => wrap[g][u] # 0 /\ u \notin strayRow[g]
    BY <2>1, <2>2, RowsFrame DEF KeyInv
  <2> QED
    BY <2>3 DEF U
<1>8. WrapInv'
  BY <1>4, <1>6, <1>7 DEF WrapInv
<1>9. g \in Changing(i) => RowsKept(g)
  BY <1>5, <1>7 DEF RowsKept
<1> QED
  BY <1>6, <1>8, <1>9, ChangingIs DEF RowsHold

LEMMA RowsRotateRevoke ==
  ASSUME TypeInv, TypeInv', KeyInv, NEW i \in Slot, RotateRevoke(i)
  PROVE  RowsHold(i)
<1> DEFINE r == s[i]
<1>0. PICK g \in Folder, v \in User : g = r.n /\ v = r.v
  BY RevokeEffect
<1>1. /\ r.pc = "rtRevoke" /\ g \in Node /\ wrap'[g][v] = 0
      /\ \A u \in User \ {v} : wrap'[g][u] = wrap[g][u]
      /\ \A m \in Node \ {g} : wrap'[m] = wrap[m]
      /\ strayRow' = [strayRow EXCEPT ![g] = @ \ {v}]
      /\ UNCHANGED <<tree, hier, claim, strayClaim>> /\ \A k \in Slot \ {i} : s'[k] = s[k]
  BY <1>0, RevokeEffect, Returns DEF TypeInv
<1>2. strayRow'[g] = strayRow[g] \ {v} /\ \A f \in Folder \ {g} : strayRow'[f] = strayRow[f]
  BY <1>1 DEF TypeInv, StrayInv
<1>3. ASSUME NEW j \in Slot, NEW f \in Folder, NEW u \in User, f # g \/ u # v, Rewrapping(j, f, u)
      PROVE  Rewrapping(j, f, u)'
  BY <1>0, <1>1, <1>3, Names DEF Rewrapping
<1> HIDE DEF r
<1>4. ASSUME NEW f \in Folder \ {g}
      PROVE  /\ \A u \in User \ strayRow'[f] :
                  wrap'[f][u] \in {0, hier'[f]} \/ \E j \in Slot : Rewrapping(j, f, u)'
             /\ RowsKept(f)
  <2>1. hier'[f] = hier[f] /\ wrap'[f] = wrap[f] /\ strayRow'[f] = strayRow[f]
    BY <1>1, <1>2, Nodes
  <2>2. \A j \in Slot : \A u \in User \ strayRow'[f] : Rewrapping(j, f, u) => Rewrapping(j, f, u)'
    BY <1>3
  <2> QED
    BY <2>1, <2>2, RowsFrame DEF KeyInv, RowsKept
<1>5. /\ \A u \in User \ {v} : u \notin strayRow'[g] =>
           wrap'[g][u] \in {0, hier'[g]} \/ \E j \in Slot : Rewrapping(j, g, u)'
      /\ \A u \in User \ {v} : u \notin strayRow'[g] =>
           (wrap'[g][u] # 0 => wrap[g][u] # 0 /\ u \notin strayRow[g])
  <2> DEFINE U == User \ {v}
  <2>1. /\ U \in SUBSET User /\ hier'[g] = hier[g] /\ \A u \in U : wrap'[g][u] = wrap[g][u]
        /\ \A u \in U : u \in strayRow[g] => u \in strayRow'[g]
    BY <1>1, <1>2
  <2>2. \A j \in Slot : \A u \in U \ strayRow'[g] : Rewrapping(j, g, u) => Rewrapping(j, g, u)'
    BY <1>3
  <2> HIDE DEF U
  <2>3. /\ \A u \in U \ strayRow'[g] :
             wrap'[g][u] \in {0, hier'[g]} \/ \E j \in Slot : Rewrapping(j, g, u)'
        /\ \A u \in U \ strayRow'[g] : wrap'[g][u] # 0 => wrap[g][u] # 0 /\ u \notin strayRow[g]
    BY <2>1, <2>2, RowsFrame DEF KeyInv
  <2> QED
    BY <2>3 DEF U
<1>6. WrapInv'
  BY <1>1, <1>4, <1>5 DEF WrapInv
<1>7. RowsKept(g)
  BY <1>1, <1>5 DEF RowsKept
<1> QED
  BY <1>4, <1>6, <1>7, ChangingIs DEF RowsHold

\* The other steps write no row. A rotation that dies leaves stray those that it was
\* to write.
LEMMA RowsRest ==
  ASSUME TypeInv, KeyInv, NEW i \in Slot,
         \/ CreateFinal(i) \/ MoveUpdate(i) \/ RotateGuard(i) \/ Crash(i)
         \/ \E n \in Node : RotateChild(i, n)
         \/ \E q : Sends(i, q)
  PROVE  RowsHold(i)
<1>1. /\ UNCHANGED <<hier, wrap>> /\ \A f \in Folder : strayRow[f] \subseteq strayRow'[f]
  BY CrashEffect DEF CreateFinal, MoveUpdate, RotateGuard, RotateChild, Sends, stray
<1>2. ASSUME NEW j \in Slot, NEW f \in Folder, NEW u \in User \ strayRow'[f], Rewrapping(j, f, u)
      PROVE  Rewrapping(j, f, u)'
  <2>1. ASSUME j # i, \A k \in Slot \ {i} : s'[k] = s[k] PROVE Rewrapping(j, f, u)'
    BY <1>2, <2>1 DEF Rewrapping
  <2>2. s[j].pc \in Flipped /\ s[j].n = f
    BY <1>2, Names DEF Rewrapping
  <2>3. CASE CreateFinal(i) \/ MoveUpdate(i)
    BY <2>1, <2>2, <2>3, FinalEffect, MoveEffect, Returns, Names DEF TypeInv
  <2>4. CASE RotateGuard(i) /\ Return(i)
    <3>1. s[i].pc = "rtGuard"
      BY <2>4, GuardEffect
    <3> QED
      BY <2>1, <2>2, <2>4, <3>1, Returns, Names DEF TypeInv
  <2>5. CASE RotateGuard(i) /\ ~Return(i)
    <3>1. s[i].pc = "rtGuard" /\ \A k \in Slot \ {i} : s'[k] = MarkedBy(s[k], s[i].n)
      BY <2>5, GuardEffect
    <3>2. s'[j].pc = s[j].pc /\ s'[j].n = s[j].n /\ s'[j].who = s[j].who /\ s'[j].v = s[j].v
      BY <2>2, <3>1, MarkedIs, Names DEF TypeInv, SlotInv
    <3> QED
      BY <1>2, <3>2 DEF Rewrapping
  <2>6. ASSUME NEW n \in Node, RotateChild(i, n) PROVE Rewrapping(j, f, u)'
    <3>1. /\ \A k \in Slot \ {i} : s'[k] = s[k]
          /\ s[i].pc = "rtChild" /\ s'[i].n = s[i].n /\ s'[i].v = s[i].v
          /\ s'[i].pc \in {"rtRevoke", "rtChild"}
      BY <2>6, ChildEffect DEF GoesOn
    <3> QED
      BY <1>2, <2>1, <3>1, Names DEF Rewrapping
  <2>7. CASE Crash(i)
    <3>1. /\ s[i].pc \in Flipped => /\ s[i].v \in strayRow'[s[i].n]
                                    /\ s[i].pc = "rtWraps" => s[i].who \subseteq strayRow'[s[i].n]
          /\ \A k \in Slot \ {i} : s'[k] = s[k]
      BY <2>7, CrashEffect, Returns DEF TypeInv
    <3>2. j # i
      BY <1>2, <3>1, Names DEF Rewrapping
    <3> QED
      BY <2>1, <3>1, <3>2
  <2>8. ASSUME NEW q, Sends(i, q) PROVE Rewrapping(j, f, u)'
    <3>1. s[i].pc = "idle" /\ \A k \in Slot \ {i} : s'[k] = s[k]
      BY <2>8, SlotMoves DEF Sends, TypeInv, At
    <3> QED
      BY <2>1, <2>2, <3>1, Names
  <2> QED
    BY <2>3, <2>4, <2>5, <2>6, <2>7, <2>8
<1>3. ASSUME NEW f \in Folder
      PROVE  /\ \A u \in User \ strayRow'[f] :
                  wrap'[f][u] \in {0, hier'[f]} \/ \E j \in Slot : Rewrapping(j, f, u)'
             /\ RowsKept(f)
  BY <1>1, <1>2, RowsFrame DEF KeyInv, RowsKept
<1>4. WrapInv'
  BY <1>3 DEF WrapInv
<1> QED
  BY <1>3, <1>4, ChangingIs DEF RowsHold

LEMMA RowsNext ==
  ASSUME TypeInv, TypeInv', KeyInv, NEW i \in Slot, Step(i) \/ Crash(i)
  PROVE  RowsHold(i)
BY RowsCreateInsert, RowsShareGrant, RowsRotateFolder, RowsRotateWraps, RowsRotateRevoke,
   RowsRest DEF Step

-----------------------------------------------------------------------------
(* Who is out.                                                             *)

\* Who is out has nothing to learn of a folder but its own row.
LEMMA OutLearns ==
  ASSUME TypeInv, TypeInv', OutInv, NEW back \in [Folder -> SUBSET User], Learn(back),
         \A f \in Folder : hier[f] <= hier'[f],
         \A f \in Folder : \A u \in back[f] : wrap'[f][u] # hier'[f] /\ <<f, hier'[f]>> \notin ring[u]
  PROVE  OutInv'
<1>1. \A u \in User : ring'[u] = ring[u] \cup Keys(u)'
  BY DEF Learn
<1>2. \A f \in Folder : out'[f] = {u \in back[f] : ~FromAbove(u, f)'}
  BY DEF Learn
<1>3. ASSUME NEW f \in Folder, NEW u \in User, NEW e, <<f, e>> \in Keys(u)'
      PROVE  e = Derived(u, f)' /\ e # 0
  BY <1>3 DEF Keys
<1>4. ASSUME NEW f \in Folder, NEW u \in User PROVE Derived(u, f)' <= hier'[f]
  <2>1. /\ wrap'[f][u] <= hier'[f] /\ claim'[f].of <= hier'[f] /\ hier'[f] \in Nat
    BY Nodes, Bounds DEF TypeInv, NodeInv
  <2> QED
    BY <2>1, DerivedNext, Bounds
<1>5. ASSUME NEW f \in Folder, NEW u \in User, NEW e \in Eras, <<f, e>> \in ring'[u]
      PROVE  e <= hier'[f]
  <2>1. CASE <<f, e>> \in ring[u]
    <3>1. e <= hier[f] /\ hier[f] <= hier'[f] /\ hier[f] \in Nat /\ hier'[f] \in Nat /\ e \in Nat
      BY <2>1, Nodes, Bounds DEF OutInv, TypeInv, NodeInv
    <3> QED
      BY <3>1
  <2>2. CASE <<f, e>> \in Keys(u)'
    BY <1>3, <1>4, <2>2
  <2> QED
    BY <1>1, <1>5, <2>1, <2>2
<1>6. ASSUME NEW f \in Folder, NEW u \in out'[f]
      PROVE  wrap'[f][u] # hier'[f] /\ <<f, hier'[f]>> \notin ring'[u]
  <2>1. u \in back[f] /\ ~FromAbove(u, f)' /\ u \in User
    BY <1>2
  <2>2. wrap'[f][u] # hier'[f] /\ <<f, hier'[f]>> \notin ring[u]
    BY <2>1
  <2>3. Derived(u, f)' \in {0, wrap'[f][u]}
    BY <2>1, DerivedNext
  <2>4. ~(<<f, hier'[f]>> \in Keys(u)')
    BY <1>3, <2>1, <2>2, <2>3
  <2> QED
    BY <1>1, <2>1, <2>2, <2>4
<1> QED
  BY <1>5, <1>6 DEF OutInv

\* No folder has a new era, and nobody else is out.
LEMMA OutFrame ==
  ASSUME TypeInv, TypeInv', OutInv, NEW back \in [Folder -> SUBSET User], Learn(back),
         \A f \in Folder : \A u \in back[f] : u \in out[f] /\ wrap'[f][u] \in {0, wrap[f][u]},
         \A f \in Folder : hier'[f] = hier[f] \/ (back[f] = {} /\ hier[f] = 0)
  PROVE  OutInv'
<1>1. ASSUME NEW f \in Folder PROVE hier[f] <= hier'[f]
  <2>1. hier[f] \in Nat /\ hier'[f] \in Nat
    BY Nodes, Bounds DEF TypeInv, NodeInv
  <2> QED
    BY <2>1
<1>2. ASSUME NEW f \in Folder, NEW u \in back[f]
      PROVE  wrap'[f][u] # hier'[f] /\ <<f, hier'[f]>> \notin ring[u]
  <2>1. hier'[f] = hier[f] /\ wrap[f][u] # hier[f] /\ <<f, hier[f]>> \notin ring[u] /\ u \in User
    BY DEF OutInv
  <2>2. wrap[f][u] \in Nat /\ hier[f] \in Nat /\ wrap[f][u] <= hier[f]
    BY <2>1, Nodes, Bounds DEF TypeInv, NodeInv
  <2>3. hier[f] # 0
    BY <2>1, <2>2
  <2> QED
    BY <2>1, <2>3
<1> QED
  BY <1>1, <1>2, OutLearns

LEMMA OutSame ==
  ASSUME OutInv, UNCHANGED <<hier, wrap, ring, out>>
  PROVE  OutInv'
BY DEF OutInv

LEMMA OutCreateInsert ==
  ASSUME TypeInv, TypeInv', OutInv, NEW i \in Slot, CreateInsert(i)
  PROVE  OutInv'
<1>1. Learn(out) /\ out \in [Folder -> SUBSET User]
  BY DEF CreateInsert, TypeInv, RingInv
<1>2. CASE ~MayWrite(s[i].u, s[i].to)
  <2>1. UNCHANGED <<hier, wrap>>
    BY <1>2 DEF CreateInsert
  <2> QED
    BY <1>1, <2>1, OutFrame
<1>3. CASE MayWrite(s[i].u, s[i].to)
  <2>1. PICK n \in Node : n = s[i].n
    BY <1>3, CreateNode
  <2>2. /\ hier[n] = 0 /\ \A u \in User : wrap[n][u] = 0
        /\ \A m \in Node \ {n} : hier'[m] = hier[m] /\ wrap'[m] = wrap[m]
    BY <1>3, <2>1, CreateNode
  <2>3. n \in Folder => out[n] = {}
    BY <1>1, <2>2 DEF OutInv
  <2>4. /\ \A f \in Folder : \A u \in out[f] : u \in out[f] /\ wrap'[f][u] \in {0, wrap[f][u]}
        /\ \A f \in Folder : hier'[f] = hier[f] \/ (out[f] = {} /\ hier[f] = 0)
    BY <2>2, <2>3, Nodes
  <2> QED
    BY <1>1, <2>4, OutFrame
<1> QED
  BY <1>2, <1>3

LEMMA OutShareGrant ==
  ASSUME TypeInv, TypeInv', OutInv, NEW i \in Slot, ShareGrant(i)
  PROVE  OutInv'
<1>0. PICK g \in Folder, v \in User : g = s[i].n /\ v = s[i].v
  BY ShareEffect
<1>1. /\ hier' = hier /\ Learn(IF wrap' # wrap THEN [out EXCEPT ![g] = @ \ {v}] ELSE out)
      /\ \/ wrap' = wrap
         \/ /\ \A u \in User \ {v} : wrap'[g][u] = wrap[g][u]
            /\ \A m \in Node \ {g} : wrap'[m] = wrap[m]
  BY <1>0, ShareEffect
<1>2. out \in [Folder -> SUBSET User]
  BY DEF TypeInv, RingInv
<1>3. CASE wrap' = wrap
  BY <1>1, <1>2, <1>3, OutFrame
<1>4. CASE wrap' # wrap
  <2> DEFINE back == [out EXCEPT ![g] = @ \ {v}]
  <2>1. /\ back \in [Folder -> SUBSET User] /\ Learn(back) /\ back[g] = out[g] \ {v}
        /\ \A f \in Folder \ {g} : back[f] = out[f]
    BY <1>1, <1>2, <1>4
  <2> HIDE DEF back
  <2>2. \A f \in Folder : \A u \in back[f] : u \in out[f] /\ wrap'[f][u] \in {0, wrap[f][u]}
    BY <1>1, <1>2, <1>4, <2>1, Nodes
  <2> QED
    BY <1>1, <2>1, <2>2, OutFrame
<1> QED
  BY <1>3, <1>4

\* The new keys are ones that nobody has held.
LEMMA OutRotateFolder ==
  ASSUME TypeInv, TypeInv', OutInv, NEW i \in Slot, RotateFolder(i)
  PROVE  OutInv'
<1>0. PICK g \in Folder, v \in User, new \in Eras : g = s[i].n /\ v = s[i].v /\ new = hier[g] + 1
  BY FolderEffect
<1>1. /\ hier'[g] = new /\ \A m \in Node \ {g} : hier'[m] = hier[m]
      /\ wrap' = wrap /\ Learn([out EXCEPT ![g] = @ \cup {v}])
  BY <1>0, FolderEffect
<1> DEFINE back == [out EXCEPT ![g] = @ \cup {v}]
<1>2. /\ back \in [Folder -> SUBSET User] /\ Learn(back) /\ back[g] = out[g] \cup {v}
      /\ \A f \in Folder \ {g} : back[f] = out[f]
  BY <1>1 DEF TypeInv, RingInv
<1> HIDE DEF back
<1>3. g \in Node /\ \A n \in Node : hier[n] \in Nat
  BY Nodes, Bounds DEF TypeInv, NodeInv
<1>4. \A f \in Folder : hier[f] <= hier'[f]
  BY <1>0, <1>1, <1>3, Nodes
<1>5. ASSUME NEW u \in User PROVE wrap'[g][u] # hier'[g] /\ <<g, hier'[g]>> \notin ring[u]
  <2>1. wrap[g][u] \in Nat /\ wrap[g][u] <= hier[g]
    BY <1>3, Bounds DEF TypeInv, NodeInv
  <2>2. <<g, new>> \in ring[u] => new <= hier[g]
    BY DEF OutInv
  <2> QED
    BY <1>0, <1>1, <1>3, <2>1, <2>2
<1>6. ASSUME NEW f \in Folder, NEW u \in back[f]
      PROVE  wrap'[f][u] # hier'[f] /\ <<f, hier'[f]>> \notin ring[u]
  <2>1. CASE f = g
    BY <1>2, <1>5, <2>1
  <2>2. CASE f # g
    BY <1>1, <1>2, <2>2, Nodes DEF OutInv
  <2> QED
    BY <2>1, <2>2
<1> QED
  BY <1>2, <1>4, <1>6, OutLearns

LEMMA OutRotateWraps ==
  ASSUME TypeInv, TypeInv', OutInv, NEW i \in Slot, RotateWraps(i)
  PROVE  OutInv'
<1>0. PICK g \in Folder, W \in SUBSET User : g = s[i].n /\ W = s[i].who
  BY WrapsEffect
<1>1. /\ hier' = hier /\ Learn([out EXCEPT ![g] = @ \ W])
      /\ \A u \in User \ W : wrap'[g][u] = wrap[g][u]
      /\ \A m \in Node \ {g} : wrap'[m] = wrap[m]
  BY <1>0, WrapsEffect DEF tree
<1> DEFINE back == [out EXCEPT ![g] = @ \ W]
<1>2. /\ back \in [Folder -> SUBSET User] /\ Learn(back) /\ back[g] = out[g] \ W
      /\ \A f \in Folder \ {g} : back[f] = out[f]
  BY <1>1 DEF TypeInv, RingInv
<1> HIDE DEF back
<1>3. \A f \in Folder : \A u \in back[f] : u \in out[f] /\ wrap'[f][u] \in {0, wrap[f][u]}
  BY <1>1, <1>2, Nodes
<1> QED
  BY <1>1, <1>2, <1>3, OutFrame

LEMMA OutRotateRevoke ==
  ASSUME TypeInv, TypeInv', OutInv, NEW i \in Slot, RotateRevoke(i)
  PROVE  OutInv'
<1>0. PICK g \in Folder, v \in User : g = s[i].n /\ v = s[i].v
  BY RevokeEffect
<1>1. /\ hier' = hier /\ Learn(out) /\ wrap'[g][v] = 0
      /\ \A u \in User \ {v} : wrap'[g][u] = wrap[g][u]
      /\ \A m \in Node \ {g} : wrap'[m] = wrap[m]
  BY <1>0, RevokeEffect
<1>2. out \in [Folder -> SUBSET User]
  BY DEF TypeInv, RingInv
<1>3. \A f \in Folder : \A u \in out[f] : wrap'[f][u] \in {0, wrap[f][u]}
  BY <1>1, <1>2, Nodes
<1> QED
  BY <1>1, <1>2, <1>3, OutFrame

LEMMA OutRest ==
  ASSUME TypeInv, TypeInv', OutInv, NEW i \in Slot,
         \/ CreateFinal(i) \/ MoveUpdate(i) \/ RotateGuard(i) \/ Crash(i)
         \/ \E n \in Node : RotateChild(i, n)
         \/ \E q : Sends(i, q)
  PROVE  OutInv'
<1>1. UNCHANGED <<hier, wrap>> /\ (Learn(out) \/ UNCHANGED <<ring, out>>)
  BY DEF CreateFinal, MoveUpdate, RotateGuard, RotateChild, Crash, Sends
<1>2. out \in [Folder -> SUBSET User]
  BY DEF TypeInv, RingInv
<1> QED
  BY <1>1, <1>2, OutFrame, OutSame

LEMMA OutNext ==
  ASSUME TypeInv, TypeInv', OutInv, NEW i \in Slot, Step(i) \/ Crash(i)
  PROVE  OutInv'
BY OutCreateInsert, OutShareGrant, OutRotateFolder, OutRotateWraps, OutRotateRevoke,
   OutRest DEF Step

-----------------------------------------------------------------------------
(* The keys.                                                               *)

\* A rotation that passes its guards has every child and everyone with a row.
LEMMA GuardPasses ==
  ASSUME TypeInv, GuardInv, NEW i \in Slot, Passes(i)
  PROVE  GuardInv'
<1>1. /\ SameCollaborators(s[i]) /\ SameChildren(s[i])
      /\ UNCHANGED <<tree, wrap, stray>>
      /\ GoesOn(s[i], s'[i]) /\ s'[i].todo = s[i].todo
      /\ \A k \in Slot \ {i} : s'[k] = MarkedBy(s[k], s[i].n)
  BY GuardEffect DEF Passes
<1>2. Guarded(s[i])'
  BY <1>1 DEF Guarded, SameCollaborators, SameChildren, Children, Collaborators, GoesOn, tree, stray
<1>3. ASSUME NEW k \in Slot \ {i} PROVE Guarded(s[k])'
  <2>1. /\ s'[k].pc = s[k].pc /\ s'[k].n = s[k].n /\ s'[k].todo = s[k].todo
        /\ s'[k].who = s[k].who /\ s'[k].v = s[k].v
    BY <1>1, MarkedIs DEF TypeInv, SlotInv
  <2>2. \A f : ChildrenKept(f) /\ RowsKept(f)
    BY <1>1 DEF ChildrenKept, RowsKept, tree, stray
  <2> QED
    BY <2>1, <2>2, GuardStays
<1> QED
  BY <1>2, <1>3 DEF GuardInv

LEMMA KeyStep ==
  ASSUME TypeInv, KeyInv, NEW i \in Slot, Step(i) \/ Crash(i), TypeInv'
  PROVE  KeyInv'
<1>1. LateInv' /\ FreshInv'
  BY LateNext DEF KeyInv
<1>2. ClaimsKept(i) /\ RowsHold(i)
  BY ClaimsNext, RowsNext
<1>3. GuardInv'
  <2>1. CASE Passes(i)
    BY <2>1, GuardPasses DEF KeyInv
  <2>2. CASE ~Passes(i)
    <3>1. Quiet(i)
      BY <2>2, QuietStep
    <3> QED
      BY <1>2, <3>1, GuardQuiet DEF KeyInv, Quiet, ClaimsKept, RowsHold
  <2> QED
    BY <2>1, <2>2
<1>4. OutInv'
  BY OutNext DEF KeyInv
<1> QED
  BY <1>1, <1>2, <1>3, <1>4 DEF KeyInv, ClaimsKept, RowsHold

LEMMA KeyBegin ==
  ASSUME TypeInv, KeyInv, NEW i \in Slot, Begin(i), TypeInv'
  PROVE  KeyInv'
<1>1. PICK q : Sends(i, q)
  BY Begins DEF KeyInv
<1>2. LateInv' /\ FreshInv'
  BY <1>1, LateSends, FreshSends DEF KeyInv
<1>3. ClaimsKept(i) /\ RowsHold(i)
  BY <1>1, ClaimsRest, RowsRest
<1>4. s'[i].pc # "rtFolder" /\ \A k \in Slot \ {i} : s'[k] = s[k]
  BY <1>1, SlotMoves DEF Sends, TypeInv
<1>5. GuardInv'
  BY <1>3, <1>4, GuardQuiet DEF KeyInv, ClaimsKept, RowsHold
<1>6. OutInv'
  BY <1>1, OutRest DEF KeyInv
<1> QED
  BY <1>2, <1>3, <1>5, <1>6 DEF KeyInv, ClaimsKept, RowsHold

LEMMA KeyInit == Init => KeyInv
<1> SUFFICES ASSUME Init PROVE KeyInv
  OBVIOUS
<1>1. \A i \in Slot : s[i] = Idle
  BY DEF Init
<1>2. LateInv /\ FreshInv /\ GuardInv
  BY <1>1, IdleTyped, Names DEF LateInv, FreshInv, Fresh, GuardInv, Guarded, At, Rotates
<1>3. ClaimInv
  BY Nodes DEF Init, ClaimInv
<1>4. WrapInv
  BY Nodes DEF Init, WrapInv
<1>5. OutInv
  <2>1. \A f \in Folder : out[f] = {}
    BY DEF Init
  <2>2. \A f \in Folder, u \in User, e \in Eras : <<f, e>> \in ring[u] => f = Shared /\ e = 1
    BY DEF Init
  <2>3. \A f \in Folder, u \in User, e \in Eras : <<f, e>> \in ring[u] => e <= hier[f]
    BY <2>2, Nodes DEF Init
  <2> QED
    BY <2>1, <2>3 DEF OutInv
<1> QED
  BY <1>2, <1>3, <1>4, <1>5 DEF KeyInv

LEMMA KeyNext == TypeInv /\ KeyInv /\ [Next]_vars => KeyInv'
<1> SUFFICES ASSUME TypeInv, KeyInv, [Next]_vars PROVE KeyInv'
  OBVIOUS
<1>1. TypeInv'
  BY TypeNext DEF KeyInv
<1>2. CASE UNCHANGED vars
  <2>1. UNCHANGED <<tree, hier, wrap, claim, ring, out, stray, s>>
    BY <1>2 DEF vars
  <2>2. LateInv' /\ FreshInv' /\ GuardInv'
    BY <2>1 DEF KeyInv, LateInv, ClaimsBy, RowsBy, FreshInv, Fresh, GuardInv, Guarded, At, Rotates,
                tree, stray
  <2>3. ClaimInv' /\ WrapInv' /\ OutInv'
    BY <2>1 DEF KeyInv, ClaimInv, Current, Resealing, WrapInv, Rewrapping, OutInv, tree, stray
  <2> QED
    BY <2>2, <2>3 DEF KeyInv
<1>3. ASSUME NEW i \in Slot, Begin(i) \/ Step(i) \/ Crash(i) PROVE KeyInv'
  BY <1>1, <1>3, KeyBegin, KeyStep
<1> QED
  BY <1>2, <1>3 DEF Next

LEMMA KeysHold == Spec => [](TypeInv /\ KeyInv)
<1>1. Init => TypeInv /\ KeyInv
  BY TypeInit, KeyInit
<1>2. TypeInv /\ KeyInv /\ [Next]_vars => (TypeInv /\ KeyInv)'
  BY TypeNext, KeyNext DEF KeyInv
<1> QED
  BY <1>1, <1>2, PTL DEF Spec

-----------------------------------------------------------------------------
(* The properties.                                                         *)

\* Every variable stays in its type: no era of a row, a claim or a payload is ahead
\* of its node's, whatever overlaps, is late or dies.
THEOREM TypeCorrect == Spec => []TypeOK
BY KeysHold, TypeInvOK, PTL

\* What is settled is neither being sealed again nor given new rows.
LEMMA SettledIs ==
  ASSUME NEW f, Settled(f), NEW i \in Slot
  PROVE  /\ \A n : parent[n] = f => ~Resealing(i, n)
         /\ \A u : ~Rewrapping(i, f, u)
BY Names DEF Settled, Resealing, Rewrapping

LEMMA ClaimsOpenFollows == TypeInv /\ KeyInv => ClaimsOpen
BY SettledIs DEF ClaimsOpen, KeyInv, ClaimInv, Current

LEMMA GrantsOpenFollows == TypeInv /\ KeyInv => GrantsOpen
BY SettledIs DEF GrantsOpen, KeyInv, WrapInv

LEMMA NewFilesFollow == TypeInv /\ KeyInv => NewFilesProtected
<1> SUFFICES ASSUME TypeInv, KeyInv, NEW f \in Folder, Settled(f), NEW u \in out[f],
                    NEW n \in complete \ strayClaim, parent[n] = f
             PROVE  <<claim[n].by, claim[n].era>> \notin ring[u]
  BY DEF NewFilesProtected
<1>1. claim[n] = [by |-> f, era |-> hier[f], of |-> hier[n]]
  BY ClaimsOpenFollows DEF ClaimsOpen
<1>2. <<f, hier[f]>> \notin ring[u]
  BY DEF KeyInv, OutInv
<1> QED
  BY <1>1, <1>2

\* Whoever opens a folder opens what is in it: while the folder is not being
\* rotated, and after any requests that overlapped, were refused or died, the claim
\* of every child is sealed to the folder's keys of now and holds the child's keys
\* of now. Excepted are the claims that are stray: a payload wrote them last that
\* was made of keys out of date when it was sent, or of keys of a folder whose
\* rotation was past its guards (rotate-folder-commit compares once, and locks
\* nothing), or a rotation died before it came to them.
THEOREM WhoOpensOpensAll == Spec => []ClaimsOpen
BY KeysHold, ClaimsOpenFollows, PTL

\* Whoever has a row of a folder has its key of now, while it is not being rotated:
\* neither a share nor a rotation leaves an old key to someone who stays. Excepted
\* are the rows that are stray: written by a share that was late in the same sense,
\* or left by a rotation that died.
THEOREM CollaboratorsOpen == Spec => []GrantsOpen
BY KeysHold, GrantsOpenFollows, PTL

\* Whoever a rotation revoked, and who has not been let in again, never held the key
\* to which what is in the folder, from before or since, is sealed. Excepted are the
\* claims that are stray: among them new files that a client sealed to a key from
\* its cache, or that were on their way when the rotation passed its guards.
THEOREM NewFilesStayProtected == Spec => []NewFilesProtected
BY KeysHold, NewFilesFollow, PTL
=============================================================================
