------------------------- MODULE FileRotation_proofs -------------------------
(***************************************************************************)
(* Theorems about FileRotation, for every number of users, slots, eras,    *)
(* rows and faults. Each assumes of the tags only what its property needs. *)
(***************************************************************************)
EXTENDS FileRotation, TLAPS

SlotRec == [pc: PC, e: Era, actor: Users, user: Users,
            old: SUBSET Era, num: 0..MaxRow+1, row: 0..MaxRow]
RowRec  == [id: 1..MaxRow, num: 1..MaxRow, hier: Eras, pre: Era, full: BOOLEAN]
RotRec  == [state: {"none", "ready", "sent", "again", "failed", "done"},
            rem: SUBSET Users, out: Users, retried: BOOLEAN]

\* Where a commit is: it has read what is there, it has flipped the files row.
After    == {"dropChunks", "dropVersions", "grant", "revoke", "links"}
Compared == {"measure", "max", "version", "chunks", "flip"}
Measured == Compared \ {"measure"}

Loading   == {"upInsert", "upRead", "upChunks", "upFlip"}
Sharing   == {"shCheck", "shExisting", "shGrant"}
Linking   == {"lnCheck", "lnInsert"}
Unsharing == {"unKey", "unLinks"}

\* What a program counter says of the locals it goes with.
Carries(r) ==
  /\ r.pc \in Committing \cup {"blobs"} => r.e \in Eras \ {0}
  /\ r.pc \in Loading => r.e \in Eras
  /\ r.pc \in {"version", "upInsert"} => r.num # 0
  /\ r.pc \in {"chunks", "flip"} \cup After \cup (Loading \ {"upInsert"}) => r.num \in 1..MaxRow

\* TypeOK is not inductive: the flip makes the slot's era and number those of
\* the files row.
TypeInv ==
  /\ TypeOK
  /\ rot[0].state = "none"
  /\ \A i \in Slot : Carries(s[i])

-----------------------------------------------------------------------------
Open(e)    == rot[e].state \in {"ready", "sent", "again"}
Used(x)    == x \in {None, 0} \/ rot[x].state # "none"
Newest(e)  == \A d \in Eras : d > e => rot[d].state = "none"
Retired(x) == rot[x].state \in {"failed", "done"} /\ ~Newest(x)
Live(e)    == Open(e) \/ (rot[e].state = "failed" /\ Newest(e))

\* The requests of an instance.
SlotInv ==
  /\ \A i \in Slot : s[i].pc \in Committing => rot[s[i].e].state = "sent"
  /\ \A i, k \in Slot : i # k /\ {s[i].pc, s[k].pc} \subseteq Committing => s[i].e # s[k].e
  /\ ~Overlap => \A i, k \in Slot : i # k => At(i, "idle") \/ At(k, "idle")
  /\ \A i \in Slot : /\ s[i].pc \in Loading => "upload" \in Ops
                     /\ s[i].pc \in Unsharing => Ops \cap {"unshare", "leave"} # {}

\* Eras are prepared in their order, and with one tab one after the other.
EraInv ==
  /\ \A d, e \in Eras : 0 < d /\ d < e /\ rot[e].state # "none" => rot[d].state # "none"
  /\ Used(file.hier) /\ \A v \in rows : Used(v.pre)
  /\ "tabs" \notin Ops =>
       \A e \in Eras : Open(e) => Newest(e) /\ \A d \in Eras \ {e} : ~Open(d)

\* Not two commits at a time.
OneCommit == ~Overlap \/ "tabs" \notin Ops

OwnRow(r, v) == v.id = r.row /\ v.num = r.num /\ v.hier = r.e /\ v.pre = r.e

RowInv ==
  /\ \A i \in Slot :
       /\ s[i].pc = "chunks" => \E v \in rows : OwnRow(s[i], v)
       /\ s[i].pc \in {"flip"} \cup After => \E v \in rows : OwnRow(s[i], v) /\ v.full
       /\ s[i].pc \in After => file.hier = s[i].e
  /\ file.hier # 0 => \E v \in rows : v.pre = file.hier /\ v.full

\* With one tab the era of the files row only grows, and no key is ahead of it.
GrowsInv ==
  /\ \A i \in Slot : /\ s[i].pc \in Compared => file.hier < s[i].e
                     /\ s[i].pc \in Sharing \cup Linking => s[i].e <= file.hier
  /\ \A u \in Users : keys[u] <= file.hier /\ link[u] <= file.hier /\ since[u] <= file.hier

\* One request at a time acts on the era it was sent for.
SerialInv ==
  \A i \in Slot : s[i].pc \in Sharing \cup Linking \cup Loading => s[i].e = file.hier

-----------------------------------------------------------------------------
Doomed  == UNION {s[i].old : i \in {k \in Slot : At(k, "blobs")}}
Safe(x) == x \in blob /\ x \notin Doomed

NoLateUpload == ~Overlap \/ Ops \cap {"tabs", "upload"} = {}

Whole(v) == v.full /\ (v.pre = None \/ Safe(v.pre))

CurrentInv ==
  /\ file.wrap = file.hier
  /\ \E v \in rows : v.num = file.cur /\ v.hier = file.hier /\ Whole(v)
  /\ \A i \in Slot :
       /\ s[i].pc = "measure" => \A v \in rows : v.full => v.pre # s[i].e
       /\ s[i].pc \in Compared \cup After => s[i].e \notin s[i].old
       /\ s[i].pc \in Measured \cup After => Safe(s[i].e)
       /\ s[i].pc \in After => file.cur = s[i].num
       /\ s[i].pc \in Loading \ {"upInsert"} =>
            \E v \in rows : /\ v.id = s[i].row /\ v.num = s[i].num /\ v.hier = s[i].e
                            /\ v.pre = None /\ (s[i].pc = "upFlip" => v.full)

\* What a commit is going to delete belongs to eras that are over.
OldInv ==
  \A i \in Slot : s[i].pc \in Compared \cup After \cup {"blobs"} =>
    \A x \in s[i].old : x \in {None, 0} \/ Retired(x)

-----------------------------------------------------------------------------
NoLateUnshare == "tabs" \notin Ops /\ (~Overlap \/ Ops \cap {"unshare", "leave"} = {})

RevokedInv ==
  /\ RevokedLosesAccess
  /\ \A e \in Eras : rot[e].out \notin rot[e].rem
  /\ \A e \in Eras : Live(e) =>
       \A u \in rot[e].rem : since[u] = None \/ (~Overlap /\ keys[u] = None)
  /\ \A i \in Slot : s[i].pc \in {"old", "dropChunks", "dropVersions", "grant"} \cup Compared =>
       \A u \in rot[s[i].e].rem : since[u] = None

GrantsInv ==
  /\ rot[file.hier].state \in {"none", "done"} => \A u \in Holders : keys[u] = file.hier
  /\ \A i \in Slot :
       LET p == rot[s[i].e] IN
       /\ s[i].pc \in {"old", "dropChunks", "dropVersions", "grant"} \cup Compared
            => Holders \subseteq p.rem \cup {p.out}
       /\ s[i].pc = "revoke" => \A u \in Holders \ {p.out} : keys[u] = s[i].e
       /\ s[i].pc = "links" => \A u \in Holders : keys[u] = s[i].e

\* A removal is on its way to u's links.
Retiring(u) ==
  \E i \in Slot : u \in Removed(s[i])

LinkInv ==
  /\ \A u \in Users : link[u] = file.hier \/ LinkDue(u) =>
       keys[u] # None \/ u \in spared \/ Retiring(u)
  /\ \A i \in Slot : s[i].pc \in Sharing => s[i].e # None

-----------------------------------------------------------------------------
(* Types.                                                                  *)

LEMMA Bounds ==
  /\ MaxEra \in Nat /\ MaxRow \in Nat /\ MaxRow >= 1 /\ MaxFault \in Nat
  /\ 0 \in Eras /\ None \in Era /\ None \notin Eras /\ Eras \subseteq Era /\ Owner \in Users
BY BoundAssumption, OwnerAssumption DEF Eras, Era, None

LEMMA Names ==
  /\ Committing = {"acl", "old", "measure", "max", "version", "chunks", "flip",
                   "revoke", "links", "dropChunks", "dropVersions", "grant"}
  /\ {"idle", "acl", "old", "measure", "max", "version", "chunks", "flip", "dropChunks",
      "dropVersions", "grant", "revoke", "links", "blobs", "shCheck", "shExisting",
      "shGrant", "unKey", "unLinks", "lnCheck", "lnInsert", "upInsert", "upRead",
      "upChunks", "upFlip"} \subseteq PC
BY DEF Committing, Locking, PC, Loading, Sharing, Linking, Unsharing

LEMMA SlotTyped == TypeOK => s \in [Slot -> SlotRec]
BY DEF TypeOK, SlotRec

LEMMA RotTyped == TypeOK => rot \in [Eras -> RotRec]
BY DEF TypeOK, RotRec

LEMMA IdleTyped == IdleSlot \in SlotRec /\ Carries(IdleSlot)
BY Bounds, Names DEF IdleSlot, SlotRec, Carries, After, Loading, Committing, Locking

\* A slot moves on: its new record, and the others stay as they are.
LEMMA SlotMoves ==
  ASSUME TypeInv, NEW i \in Slot, NEW r \in SlotRec, Carries(r), s' = [s EXCEPT ![i] = r]
  PROVE  s' \in [Slot -> SlotRec] /\ \A k \in Slot : Carries(s'[k])
<1>1. s \in [Slot -> SlotRec] /\ \A k \in Slot : Carries(s[k])
  BY SlotTyped DEF TypeInv
<1> QED
  BY <1>1

LEMMA TypeInit == Init => TypeInv
<1> SUFFICES ASSUME Init PROVE TypeInv
  OBVIOUS
<1>1. s \in [Slot -> SlotRec] /\ \A i \in Slot : Carries(s[i])
  BY IdleTyped DEF Init
<1>2. rot \in [Eras -> RotRec] /\ rot[0].state = "none"
  BY Bounds DEF Init, RotRec
<1>3. /\ file \in [cur: 0..MaxRow, hier: Eras, wrap: Eras, held: BOOLEAN]
      /\ rows \subseteq [id: 1..MaxRow, num: 1..MaxRow, hier: Eras, pre: Era, full: BOOLEAN]
      /\ next \in 1..MaxRow+1 /\ faults \in 0..MaxFault
  BY Bounds DEF Init
<1>4. /\ keys \in [Users -> Era] /\ link \in [Users -> Era] /\ since \in [Users -> Era]
      /\ blob \subseteq Eras /\ spared \subseteq Users
  BY Bounds DEF Init
<1> QED
  BY <1>1, <1>2, <1>3, <1>4 DEF TypeInv, TypeOK, SlotRec, RotRec

LEMMA RowsTyped == TypeOK => rows \subseteq RowRec
BY DEF TypeOK, RowRec

LEMMA FullTyped ==
  ASSUME NEW v \in RowRec, NEW b \in BOOLEAN
  PROVE  [v EXCEPT !.full = b] \in RowRec
BY DEF RowRec

LEMMA FillTyped ==
  ASSUME rows \subseteq RowRec, NEW id, FillRow(id)
  PROVE  rows' \subseteq RowRec
<1> SUFFICES ASSUME NEW v \in rows PROVE [v EXCEPT !.full = v.full \/ v.id = id] \in RowRec
  BY DEF FillRow
<1>1. (v.full \/ v.id = id) \in BOOLEAN
  OBVIOUS
<1> QED
  BY <1>1, FullTyped

LEMMA TypeRotate ==
  ASSUME TypeInv, NEW i \in Slot, Rotate(i)
  PROVE  TypeInv'
<1>s. s \in [Slot -> SlotRec] /\ s[i] \in SlotRec /\ Carries(s[i])
  BY SlotTyped DEF TypeInv
<1>r. rot \in [Eras -> RotRec] /\ rot[0].state = "none"
  BY RotTyped DEF TypeInv
<1>e. s[i].pc \in Committing => s[i].e \in Eras \ {0}
  BY <1>s DEF Carries
<1>1. ASSUME NEW p \in PC, Goto(i, p), Carries([s[i] EXCEPT !.pc = p])
      PROVE  s' \in [Slot -> SlotRec] /\ \A k \in Slot : Carries(s'[k])
  <2>1. [s[i] EXCEPT !.pc = p] \in SlotRec
    BY <1>s DEF SlotRec
  <2> QED
    BY <1>1, <1>s, <2>1, SlotMoves DEF Goto
<1>2. ASSUME Return(i)
      PROVE  s' \in [Slot -> SlotRec] /\ \A k \in Slot : Carries(s'[k])
  BY <1>2, IdleTyped, SlotMoves DEF Return
<1>3. ASSUME NEW st \in {"failed", "again", "done"}, Answer(s[i].e, st), s[i].pc \in Committing
      PROVE  rot' \in [Eras -> RotRec] /\ rot'[0].state = "none"
  BY <1>3, <1>r, <1>e DEF Answer, RotRec
<1>a. CASE RotateCheckAcl(i)
  BY <1>a, <1>1, <1>2, <1>3, <1>r, <1>s, Names DEF RotateCheckAcl, TypeInv, TypeOK, SlotRec, RotRec, Carries, At, After, Loading
<1>b. CASE RotateReadOldChunks(i)
  <2> DEFINE old == {v.pre : v \in {w \in rows : w.full}}
             r   == [s[i] EXCEPT !.pc = "measure", !.old = old]
  <2>0. old \subseteq Era
    BY DEF TypeInv, TypeOK
  <2>1. r \in SlotRec /\ Carries(r)
    <3> HIDE DEF old
    <3>1. r \in SlotRec
      BY <1>s, <2>0, Names DEF SlotRec
    <3>2. r.pc = "measure" /\ r.e = s[i].e
      BY <1>s DEF SlotRec
    <3> QED
      BY <1>b, <1>e, <3>1, <3>2, Names DEF RotateReadOldChunks, Carries, At, After, Loading
  <2>2. CASE Reuses(s[i].e, old)
    BY <1>b, <1>2, <1>3, <1>r, <2>2, Names
    DEF RotateReadOldChunks, Fail, TypeInv, TypeOK, SlotRec, RotRec, At
  <2>3. CASE ~Reuses(s[i].e, old)
    <3>1. s' = [s EXCEPT ![i] = r] /\ rot' = rot
      BY <1>b, <1>s, <2>3 DEF RotateReadOldChunks
    <3> HIDE DEF r
    <3> QED
      BY <1>b, <1>r, <2>1, <3>1, SlotMoves
      DEF RotateReadOldChunks, TypeInv, TypeOK, SlotRec, RotRec
  <2> QED
    BY <2>2, <2>3
<1>c. CASE RotateMeasure(i)
  BY <1>c, <1>1, <1>2, <1>3, <1>r, <1>s, Names
  DEF RotateMeasure, Fail, TypeInv, TypeOK, SlotRec, RotRec, Carries, At, After, Loading
<1>d. CASE RotateReadMax(i)
  <2>1. ASSUME NEW n \in 1..MaxRow+1, s' = [s EXCEPT ![i].pc = "version", ![i].num = n]
        PROVE  s' \in [Slot -> SlotRec] /\ \A k \in Slot : Carries(s'[k])
    <3> DEFINE r == [s[i] EXCEPT !.pc = "version", !.num = n]
    <3>0. n \in 0..MaxRow+1
      BY Bounds
    <3>1. r \in SlotRec
      BY <1>s, <3>0, Names DEF SlotRec
    <3>2. r.pc = "version" /\ r.e = s[i].e /\ r.num = n /\ n # 0
      BY <1>s, Bounds DEF SlotRec
    <3>3. Carries(r)
      BY <1>d, <1>e, <3>2, Names DEF RotateReadMax, Carries, At, After, Loading
    <3>4. s' = [s EXCEPT ![i] = r]
      BY <1>s, <2>1
    <3> HIDE DEF r
    <3> QED
      BY <3>1, <3>3, <3>4, SlotMoves
  <2>2. \E n \in 1..MaxRow+1 : s' = [s EXCEPT ![i].pc = "version", ![i].num = n]
    <3>1. CASE \E m \in 0..MaxRow : s' = [s EXCEPT ![i].pc = "version", ![i].num = m + 1]
      <4>1. \A m \in 0..MaxRow : m + 1 \in 1..MaxRow+1
        BY Bounds
      <4> QED
        BY <3>1, <4>1
    <3>2. CASE s' = [s EXCEPT ![i].pc = "version", ![i].num = 1]
      <4>1. 1 \in 1..MaxRow+1
        BY Bounds
      <4> QED
        BY <3>2, <4>1
    <3> QED
      BY <1>d, <3>1, <3>2 DEF RotateReadMax
  <2>3. faults' \in 0..MaxFault
    BY <1>d, Bounds DEF RotateReadMax, Errs, TypeInv, TypeOK
  <2> QED
    BY <1>d, <1>r, <2>1, <2>2, <2>3 DEF RotateReadMax, TypeInv, TypeOK, SlotRec, RotRec
<1>f. CASE RotateInsertVersion(i)
  <2> DEFINE r == [s[i] EXCEPT !.pc = "chunks", !.row = next]
  <2>1. CASE Refused(s[i].num)
    BY <1>f, <1>2, <1>3, <1>r, <2>1, Names
    DEF RotateInsertVersion, Fail, TypeInv, TypeOK, SlotRec, RotRec, At
  <2>2. CASE ~Refused(s[i].num)
    <3>1. s[i].num \in 1..MaxRow /\ next \in 1..MaxRow
      BY <1>f, <1>s, <2>2, Bounds, Names
      DEF RotateInsertVersion, Refused, TypeInv, TypeOK, SlotRec, Carries, At
    <3>2. r \in SlotRec /\ r.pc = "chunks" /\ r.e = s[i].e /\ r.num = s[i].num
      <4>1. next \in 0..MaxRow
        BY <3>1, Bounds
      <4> QED
        BY <1>s, <4>1, Names DEF SlotRec
    <3>3. s[i].e \in Eras \ {0}
      BY <1>f, <1>e, Names DEF RotateInsertVersion, At
    <3>4. Carries(r)
      BY <3>1, <3>2, <3>3, Names DEF Carries, After, Loading
    <3>5. /\ rows' \subseteq [id: 1..MaxRow, num: 1..MaxRow, hier: Eras, pre: Era, full: BOOLEAN]
          /\ next' \in 1..MaxRow+1
      <4>1. [id |-> next, num |-> s[i].num, hier |-> s[i].e, pre |-> s[i].e, full |-> FALSE]
              \in [id: 1..MaxRow, num: 1..MaxRow, hier: Eras, pre: Era, full: BOOLEAN]
        BY <3>1, <3>3, Bounds
      <4> QED
        <5>1. next + 1 \in 1..MaxRow+1
          BY <3>1, Bounds
        <5> QED
          BY <1>f, <2>2, <4>1, <5>1 DEF RotateInsertVersion, InsertRow, TypeInv, TypeOK
    <3>6. s' = [s EXCEPT ![i] = r] /\ rot' = rot
      BY <1>f, <1>s, <2>2 DEF RotateInsertVersion
    <3> HIDE DEF r
    <3> QED
      BY <1>f, <1>r, <3>2, <3>4, <3>5, <3>6, SlotMoves
      DEF RotateInsertVersion, TypeInv, TypeOK, SlotRec, RotRec
  <2> QED
    BY <2>1, <2>2
<1>g. CASE RotateInsertChunks(i)
  <2>1. rows' \subseteq [id: 1..MaxRow, num: 1..MaxRow, hier: Eras, pre: Era, full: BOOLEAN]
    BY <1>g, RowsTyped, FillTyped DEF RotateInsertChunks, TypeInv, TypeOK, RowRec
  <2> QED
    BY <1>g, <1>1, <1>2, <1>3, <1>r, <1>s, <2>1, Names
    DEF RotateInsertChunks, Fail, TypeInv, TypeOK, SlotRec, RotRec, Carries, At, After, Loading
<1>h. CASE RotateFlip(i)
  <2>1. /\ file' \in [cur: 0..MaxRow, hier: Eras, wrap: Eras, held: BOOLEAN]
        /\ since' \in [Users -> Era]
    <3>1. s[i].e \in Eras \ {0} /\ s[i].num \in 0..MaxRow
      BY <1>h, <1>s, <1>e, Bounds, Names DEF RotateFlip, Carries, At
    <3>2. s[i].e \in Era
      BY <1>s DEF SlotRec
    <3> QED
      BY <1>h, <3>1, <3>2 DEF RotateFlip, TypeInv, TypeOK
  <2> QED
    BY <1>h, <1>1, <1>r, <1>s, <2>1, Names
    DEF RotateFlip, TypeInv, TypeOK, SlotRec, RotRec, Carries, At, After, Loading
<1>i. CASE RotateDropChunks(i) \/ RotateDropVersions(i)
  <2>1. rows' \subseteq [id: 1..MaxRow, num: 1..MaxRow, hier: Eras, pre: Era, full: BOOLEAN]
    <3>1. ASSUME NEW v \in rows
          PROVE  [v EXCEPT !.full = v.full /\ v \in Kept(s[i].row)] \in RowRec
      <4>1. (v.full /\ v \in Kept(s[i].row)) \in BOOLEAN
        OBVIOUS
      <4> QED
        BY <4>1, RowsTyped, FullTyped DEF TypeInv
    <3>2. Kept(s[i].row) \subseteq RowRec
      BY RowsTyped DEF Kept, TypeInv
    <3> QED
      BY <1>i, <3>1, <3>2 DEF RotateDropChunks, RotateDropVersions, RowRec
  <2> QED
    BY <1>i, <1>1, <1>r, <1>s, <2>1, Names
    DEF RotateDropChunks, RotateDropVersions, TypeInv, TypeOK, SlotRec, RotRec, Carries, At,
        After, Loading
<1>j. CASE RotateGrant(i) \/ RotateRevoke(i)
  <2>1. keys' \in [Users -> Era]
    BY <1>j, <1>r, <1>e, Bounds, Names
    DEF RotateGrant, RotateRevoke, NewWraps, RotRec, TypeInv, TypeOK, At
  <2> QED
    BY <1>j, <1>1, <1>r, <1>s, <2>1, Names
    DEF RotateGrant, RotateRevoke, TypeInv, TypeOK, SlotRec, RotRec, Carries, At, After, Loading
<1>k. CASE RotateRevokeLinks(i)
  <2>0. rot[s[i].e].out \in Users
    BY <1>k, <1>r, <1>e, Names DEF RotateRevokeLinks, RotRec, At
  <2>1. link' \in [Users -> Era] /\ spared' \subseteq Users
    BY <1>k, <2>0, Bounds DEF RotateRevokeLinks, RetireLinks, WithoutLinks, TypeInv, TypeOK
  <2> QED
    BY <1>k, <1>1, <1>3, <1>r, <1>s, <2>1, Names
    DEF RotateRevokeLinks, TypeInv, TypeOK, SlotRec, RotRec, Carries, At, After, Loading
<1>l. CASE RotateDeleteObjects(i)
  BY <1>l, <1>2, <1>r DEF RotateDeleteObjects, TypeInv, TypeOK, SlotRec, RotRec
<1> QED
  BY <1>a, <1>b, <1>c, <1>d, <1>f, <1>g, <1>h, <1>i, <1>j, <1>k, <1>l DEF Rotate

LEMMA TypeRequest ==
  ASSUME TypeInv, NEW i \in Slot, Grant(i) \/ Upload(i) \/ Crash(i)
  PROVE  TypeInv'
<1>s. s \in [Slot -> SlotRec] /\ s[i] \in SlotRec /\ Carries(s[i])
  BY SlotTyped DEF TypeInv
<1>r. rot \in [Eras -> RotRec] /\ rot[0].state = "none"
  BY RotTyped DEF TypeInv
<1>1. ASSUME NEW p \in PC, Goto(i, p), Carries([s[i] EXCEPT !.pc = p])
      PROVE  s' \in [Slot -> SlotRec] /\ \A k \in Slot : Carries(s'[k])
  <2>1. [s[i] EXCEPT !.pc = p] \in SlotRec
    BY <1>s DEF SlotRec
  <2> QED
    BY <1>1, <1>s, <2>1, SlotMoves DEF Goto
<1>2. ASSUME Return(i)
      PROVE  s' \in [Slot -> SlotRec] /\ \A k \in Slot : Carries(s'[k])
  BY <1>2, IdleTyped, SlotMoves DEF Return
<1>a. CASE Grant(i)
  <2>0. s[i].user \in Users
    BY <1>s DEF SlotRec
  <2>1. keys' \in [Users -> Era] /\ link' \in [Users -> Era] /\ spared' \subseteq Users
    BY <1>a, <1>s, <2>0, Bounds
    DEF Grant, ShareCheckAccess, ShareCheckExisting, ShareGrant, UnshareKey, UnshareLinks,
        LinkCheckAccess, LinkInsert, RetireLinks, WithoutLinks, SlotRec, TypeInv, TypeOK
  <2>2. since' \in [Users -> Era]
    <3>1. file.hier \in Era
      BY Bounds DEF TypeInv, TypeOK
    <3> QED
      BY <1>a, <3>1, Bounds
      DEF Grant, ShareCheckAccess, ShareCheckExisting, ShareGrant, UnshareKey, UnshareLinks,
          LinkCheckAccess, LinkInsert, TypeInv, TypeOK
  <2>3. /\ ShareCheckAccess(i) => Goto(i, "shExisting") \/ Return(i)
        /\ ShareCheckExisting(i) => Goto(i, "shGrant") \/ Return(i)
        /\ UnshareKey(i) => Goto(i, "unLinks")
        /\ LinkCheckAccess(i) => Goto(i, "lnInsert") \/ Return(i)
        /\ ShareGrant(i) \/ UnshareLinks(i) \/ LinkInsert(i) => Return(i)
    BY DEF ShareCheckAccess, ShareCheckExisting, UnshareKey, LinkCheckAccess, ShareGrant,
           UnshareLinks, LinkInsert
  <2>4. ASSUME NEW p \in {"shExisting", "shGrant", "unLinks", "lnInsert"}
        PROVE  p \in PC /\ Carries([s[i] EXCEPT !.pc = p])
    BY <1>s, Names DEF Carries, After, Loading, SlotRec
  <2>5. s' \in [Slot -> SlotRec] /\ \A k \in Slot : Carries(s'[k])
    BY <1>a, <1>1, <1>2, <2>3, <2>4 DEF Grant
  <2>6. UNCHANGED <<file, rows, next, blob, rot, faults>>
    BY <1>a
    DEF Grant, ShareCheckAccess, ShareCheckExisting, ShareGrant, UnshareKey, UnshareLinks,
        LinkCheckAccess, LinkInsert
  <2> QED
    BY <1>r, <2>1, <2>2, <2>5, <2>6 DEF TypeInv, TypeOK, SlotRec, RotRec
<1>b. CASE UploadInsertVersion(i)
  <2> DEFINE r == [s[i] EXCEPT !.pc = "upRead", !.row = next]
  <2>1. CASE Refused(s[i].num)
    BY <1>b, <1>2, <1>r, <2>1 DEF UploadInsertVersion, TypeInv, TypeOK, SlotRec, RotRec
  <2>2. CASE ~Refused(s[i].num)
    <3>1. s[i].num \in 1..MaxRow /\ next \in 1..MaxRow /\ s[i].e \in Eras
      BY <1>b, <1>s, <2>2, Bounds
      DEF UploadInsertVersion, Refused, TypeInv, TypeOK, SlotRec, Carries, At, Loading
    <3>2. r \in SlotRec /\ r.pc = "upRead" /\ r.e = s[i].e /\ r.num = s[i].num
      <4>1. next \in 0..MaxRow
        BY <3>1, Bounds
      <4> QED
        BY <1>s, <4>1, Names DEF SlotRec
    <3>4. Carries(r)
      BY <3>1, <3>2, Names DEF Carries, After, Loading
    <3>5. /\ rows' \subseteq [id: 1..MaxRow, num: 1..MaxRow, hier: Eras, pre: Era, full: BOOLEAN]
          /\ next' \in 1..MaxRow+1
      <4>1. [id |-> next, num |-> s[i].num, hier |-> s[i].e, pre |-> None, full |-> FALSE]
              \in [id: 1..MaxRow, num: 1..MaxRow, hier: Eras, pre: Era, full: BOOLEAN]
        BY <3>1, Bounds
      <4>2. next + 1 \in 1..MaxRow+1
        BY <3>1, Bounds
      <4> QED
        BY <1>b, <2>2, <4>1, <4>2 DEF UploadInsertVersion, InsertRow, TypeInv, TypeOK
    <3>6. s' = [s EXCEPT ![i] = r]
      BY <1>b, <1>s, <2>2 DEF UploadInsertVersion
    <3> HIDE DEF r
    <3> QED
      BY <1>b, <1>r, <3>2, <3>4, <3>5, <3>6, SlotMoves
      DEF UploadInsertVersion, TypeInv, TypeOK, SlotRec, RotRec
  <2> QED
    BY <2>1, <2>2
<1>c. CASE UploadReadVersion(i) \/ UploadInsertChunks(i)
  <2>1. rows' \subseteq [id: 1..MaxRow, num: 1..MaxRow, hier: Eras, pre: Era, full: BOOLEAN]
    BY <1>c, RowsTyped, FillTyped DEF UploadReadVersion, UploadInsertChunks, TypeInv, TypeOK, RowRec
  <2>2. ASSUME NEW p \in {"upChunks", "upFlip"}, s[i].pc \in {"upRead", "upChunks"}
        PROVE  p \in PC /\ Carries([s[i] EXCEPT !.pc = p])
    BY <1>s, <2>2, Names DEF Carries, After, Loading, SlotRec
  <2> QED
    BY <1>c, <1>1, <1>2, <1>r, <2>1, <2>2
    DEF UploadReadVersion, UploadInsertChunks, TypeInv, TypeOK, SlotRec, RotRec, At
<1>d. CASE UploadFlip(i)
  <2>1. s[i].num \in 0..MaxRow /\ s[i].e \in Eras
    BY <1>d, <1>s, Bounds DEF UploadFlip, Carries, At, Loading
  <2> QED
    BY <1>d, <1>2, <1>r, <2>1 DEF UploadFlip, TypeInv, TypeOK, SlotRec, RotRec
<1>f. CASE Crash(i)
  <2>1. faults' \in 0..MaxFault
    BY <1>f, Bounds DEF Crash, Errs, TypeInv, TypeOK
  <2>2. rot' \in [Eras -> RotRec] /\ rot'[0].state = "none"
    <3>1. CASE s[i].pc \in Committing
      <4>1. s[i].e \in Eras \ {0}
        BY <1>s, <3>1 DEF Carries
      <4>2. [rot[s[i].e] EXCEPT !.state = "failed"] \in RotRec
        BY <1>r, <4>1 DEF RotRec
      <4>3. rot' = [rot EXCEPT ![s[i].e] = [rot[s[i].e] EXCEPT !.state = "failed"]]
        BY <1>f, <3>1 DEF Crash, Fail, Answer
      <4> QED
        BY <1>r, <4>1, <4>2, <4>3
    <3>2. CASE s[i].pc \notin Committing
      BY <1>f, <1>r, <3>2 DEF Crash
    <3> QED
      BY <3>1, <3>2
  <2>3. s' \in [Slot -> SlotRec] /\ \A k \in Slot : Carries(s'[k])
    BY <1>f, <1>2 DEF Crash, Fail
  <2>4. spared' \subseteq Users
    <3>1. Removed(s[i]) \subseteq Users
      BY <1>s, <1>r, Names DEF Removed, Carries, SlotRec, RotRec
    <3> QED
      BY <1>f, <3>1 DEF Crash, TypeInv, TypeOK
  <2> QED
    BY <1>f, <2>1, <2>2, <2>3, <2>4 DEF Crash, TypeInv, TypeOK, SlotRec, RotRec
<1> QED
  BY <1>a, <1>b, <1>c, <1>d, <1>f DEF Upload

\* The steps in which a request arrives.
Begin(i) ==
  \/ StartUpload(i)
  \/ \E e \in Eras : StartCommit(i, e)
  \/ \E u \in Users : \/ StartUnshare(i, u) \/ StartLink(i, u)
                       \/ \E a \in Users : StartShare(i, a, u)

LEMMA TypeBegin ==
  ASSUME TypeInv, NEW i \in Slot, Begin(i)
  PROVE  TypeInv'
<1>s. s \in [Slot -> SlotRec] /\ s[i] \in SlotRec /\ Carries(s[i])
  BY SlotTyped DEF TypeInv
<1>r. rot \in [Eras -> RotRec] /\ rot[0].state = "none"
  BY RotTyped DEF TypeInv
<1>1. ASSUME NEW r \in SlotRec, Carries(r), Start(i, r),
             UNCHANGED <<file, rows, next, keys, link, blob, rot, since, spared, faults>>
      PROVE  TypeInv'
  BY <1>1, <1>r, SlotMoves DEF Start, TypeInv, TypeOK, SlotRec, RotRec
<1>2. CASE StartUpload(i)
  <2> DEFINE r == [IdleSlot EXCEPT !.pc = "upInsert", !.e = file.hier, !.num = file.cur + 1]
  <2>1. file.hier \in Eras /\ file.hier \in Era /\ file.cur + 1 \in 0..MaxRow+1 /\ file.cur + 1 # 0
    BY Bounds DEF TypeInv, TypeOK
  <2>2. r \in SlotRec /\ r.pc = "upInsert" /\ r.e = file.hier /\ r.num = file.cur + 1
    BY <2>1, IdleTyped, Names DEF SlotRec
  <2>3. Carries(r)
    BY <2>1, <2>2, Names DEF Carries, After, Loading
  <2> QED
    BY <1>1, <1>2, <2>2, <2>3 DEF StartUpload
<1>3. ASSUME NEW e \in Eras, StartCommit(i, e)
      PROVE  TypeInv'
  <2> DEFINE r == [IdleSlot EXCEPT !.pc = "acl", !.e = e]
  <2>1. e # 0
    BY <1>3, <1>r DEF StartCommit
  <2>2. r \in SlotRec /\ r.pc = "acl" /\ r.e = e
    BY IdleTyped, Names, Bounds DEF SlotRec
  <2>3. Carries(r)
    BY <2>1, <2>2, Names DEF Carries, After, Loading
  <2>4. rot' \in [Eras -> RotRec] /\ rot'[0].state = "none"
    BY <1>3, <1>r, <2>1 DEF StartCommit, Answer, RotRec
  <2>5. s' = [s EXCEPT ![i] = r]
    BY <1>3 DEF StartCommit, Start
  <2> HIDE DEF r
  <2>6. s' \in [Slot -> SlotRec] /\ \A k \in Slot : Carries(s'[k])
    BY <2>2, <2>3, <2>5, SlotMoves
  <2> QED
    BY <1>3, <2>4, <2>6 DEF StartCommit, TypeInv, TypeOK, SlotRec, RotRec
<1>4. ASSUME NEW u \in Users, NEW a \in Users, NEW e \in Era,
             NEW p \in {"shCheck", "unKey", "lnCheck"},
             Start(i, [IdleSlot EXCEPT !.pc = p, !.e = e, !.actor = a, !.user = u]),
             UNCHANGED <<file, rows, next, keys, link, blob, rot, since, spared, faults>>
      PROVE  TypeInv'
  <2> DEFINE r == [IdleSlot EXCEPT !.pc = p, !.e = e, !.actor = a, !.user = u]
  <2>1. r \in SlotRec /\ r.pc = p
    BY IdleTyped, Names DEF SlotRec
  <2>2. Carries(r)
    BY <2>1, Names DEF Carries, After, Loading
  <2> HIDE DEF r
  <2> QED
    BY <1>1, <1>4, <2>1, <2>2 DEF r
<1>5. ASSUME NEW u \in Users, StartUnshare(i, u) \/ StartLink(i, u)
                              \/ \E a \in Users : StartShare(i, a, u)
      PROVE  TypeInv'
  <2>1. \A a \in Users : keys[a] \in Era
    BY DEF TypeInv, TypeOK
  <2>2. IdleSlot.e \in Era /\ IdleSlot.actor \in Users
    BY Bounds DEF IdleSlot
  <2>3. CASE StartUnshare(i, u)
    <3>1. [IdleSlot EXCEPT !.pc = "unKey", !.user = u]
            = [IdleSlot EXCEPT !.pc = "unKey", !.e = IdleSlot.e, !.actor = IdleSlot.actor, !.user = u]
      BY DEF IdleSlot
    <3> QED
      BY <1>4, <2>2, <2>3, <3>1 DEF StartUnshare
  <2>4. CASE StartLink(i, u)
    <3>1. [IdleSlot EXCEPT !.pc = "lnCheck", !.e = keys[u], !.user = u]
            = [IdleSlot EXCEPT !.pc = "lnCheck", !.e = keys[u], !.actor = IdleSlot.actor, !.user = u]
      BY DEF IdleSlot
    <3> QED
      BY <1>4, <2>1, <2>2, <2>4, <3>1 DEF StartLink
  <2>5. ASSUME NEW a \in Users, StartShare(i, a, u)
        PROVE  TypeInv'
    BY <1>4, <2>1, <2>5 DEF StartShare
  <2> QED
    BY <1>5, <2>3, <2>4, <2>5
<1> QED
  BY <1>2, <1>3, <1>5 DEF Begin

\* What browsers do, and the hold.
Client ==
  \/ \E e \in Eras : \/ ListAgain(e) \/ Resend(e)
                     \/ \E u \in Users : PrepareRotation(e, u)
  \/ SetHold

LEMMA TypeClient ==
  ASSUME TypeInv, Client
  PROVE  TypeInv'
<1>r. rot \in [Eras -> RotRec] /\ rot[0].state = "none"
  BY RotTyped DEF TypeInv
<1>g. ASSUME NEW U PROVE GivenBack(U) \in [Users -> Era]
  BY Bounds DEF GivenBack, TypeInv, TypeOK
<1>h. Holders \subseteq Users
  BY DEF Holders
<1>1. ASSUME NEW e \in Eras, ListAgain(e)
      PROVE  TypeInv'
  <2>1. rot' \in [Eras -> RotRec] /\ rot'[0].state = "none"
    <3> DEFINE p == [rot[e] EXCEPT !.state = "ready", !.retried = TRUE,
                                   !.rem = Holders \ {rot[e].out}]
    <3>1. p \in RotRec
      BY <1>r, <1>h DEF RotRec
    <3>2. rot' = [rot EXCEPT ![e] = p] /\ rot[e].state = "again"
      BY <1>1 DEF ListAgain
    <3> HIDE DEF p
    <3> QED
      BY <1>r, <3>1, <3>2
  <2> QED
    BY <1>1, <1>g, <2>1 DEF ListAgain, TypeInv, TypeOK, SlotRec, RotRec
<1>2. ASSUME NEW e \in Eras, Resend(e)
      PROVE  TypeInv'
  <2>1. rot' \in [Eras -> RotRec] /\ rot'[0].state = "none"
    BY <1>2, <1>r DEF Resend, Answer, RotRec
  <2> QED
    BY <1>2, <2>1 DEF Resend, TypeInv, TypeOK, SlotRec, RotRec
<1>3. ASSUME NEW e \in Eras, NEW u \in Users, PrepareRotation(e, u)
      PROVE  TypeInv'
  <2>1. rot' \in [Eras -> RotRec] /\ rot'[0].state = "none"
    BY <1>3, <1>r, <1>h DEF PrepareRotation, RotRec
  <2> QED
    BY <1>3, <1>g, <2>1 DEF PrepareRotation, TypeInv, TypeOK, SlotRec, RotRec
<1>4. CASE SetHold
  <2>1. file' \in [cur: 0..MaxRow, hier: Eras, wrap: Eras, held: BOOLEAN]
    BY <1>4 DEF SetHold, TypeInv, TypeOK
  <2> QED
    BY <1>4, <2>1 DEF SetHold, TypeInv, TypeOK
<1> QED
  BY <1>1, <1>2, <1>3, <1>4 DEF Client

LEMMA TypeNext ==
  ASSUME TypeInv, [Next]_vars
  PROVE  TypeInv'
<1>1. CASE UNCHANGED vars
  BY <1>1 DEF vars, TypeInv, TypeOK, Carries
<1>2. CASE Next
  BY <1>2, TypeRotate, TypeRequest, TypeBegin, TypeClient DEF Next, Begin, Client
<1> QED
  BY <1>1, <1>2

(* For every number of users, slots, eras, rows and faults, with any        *)
(* operations and any overlap, the state keeps its types.                   *)
THEOREM TypeCorrect == Spec => []TypeOK
<1>1. Init => TypeInv
  BY TypeInit
<1>2. TypeInv /\ [Next]_vars => TypeInv'
  BY TypeNext
<1>3. TypeInv => TypeOK
  BY DEF TypeInv
<1> QED
  BY <1>1, <1>2, <1>3, PTL DEF Spec

-----------------------------------------------------------------------------
(* Who runs, and which rotation is under way.                              *)

SlotStep(i) == Rotate(i) \/ Grant(i) \/ Upload(i) \/ Crash(i) \/ Begin(i)

LEMMA NextCases ==
  [Next]_vars => (\E i \in Slot : SlotStep(i)) \/ Client \/ UNCHANGED vars
BY DEF Next, SlotStep, Begin, Client

LEMMA ClientKeepsSlots == Client => s' = s
BY DEF Client, ListAgain, Resend, PrepareRotation, SetHold

LEMMA Others ==
  ASSUME TypeInv, NEW i \in Slot, SlotStep(i), NEW k \in Slot, k # i
  PROVE  s'[k] = s[k]
<1>s. s \in [Slot -> SlotRec]
  BY SlotTyped DEF TypeInv
<1>1. \A p : Goto(i, p) => s'[k] = s[k]
  BY <1>s DEF Goto
<1>2. Return(i) => s'[k] = s[k]
  BY <1>s DEF Return
<1>3. \A r : Start(i, r) => s'[k] = s[k]
  BY <1>s DEF Start
<1>4. Rotate(i) => s'[k] = s[k]
  BY <1>s, <1>1, <1>2
  DEF Rotate, RotateCheckAcl, RotateReadOldChunks, RotateMeasure, RotateReadMax,
      RotateInsertVersion, RotateInsertChunks, RotateFlip, RotateDropChunks,
      RotateDropVersions, RotateGrant, RotateRevoke, RotateRevokeLinks,
      RotateDeleteObjects, Fail
<1>5. Grant(i) \/ Upload(i) \/ Crash(i) => s'[k] = s[k]
  BY <1>s, <1>1, <1>2
  DEF Grant, Upload, Crash, ShareCheckAccess, ShareCheckExisting, ShareGrant, UnshareKey,
      UnshareLinks, LinkCheckAccess, LinkInsert, UploadInsertVersion, UploadReadVersion,
      UploadInsertChunks, UploadFlip, Fail
<1>6. Begin(i) => s'[k] = s[k]
  BY <1>3 DEF Begin, StartUpload, StartCommit, StartUnshare, StartLink, StartShare
<1> QED
  BY <1>4, <1>5, <1>6 DEF SlotStep

\* The next statements of a handler: its locals e and user stay.
Passes(i) ==
  /\ s'[i].e = s[i].e /\ s'[i].user = s[i].user
  /\ \/ s'[i].pc = "old" /\ s[i].pc = "acl"
     \/ s'[i].pc = "measure" /\ s[i].pc = "old"
     \/ s'[i].pc = "max" /\ s[i].pc = "measure"
     \/ s'[i].pc = "version" /\ s[i].pc = "max"
     \/ s'[i].pc = "chunks" /\ s[i].pc = "version"
     \/ s'[i].pc = "flip" /\ s[i].pc = "chunks"
     \/ s'[i].pc = "dropChunks" /\ s[i].pc = "flip"
     \/ s'[i].pc = "dropVersions" /\ s[i].pc = "dropChunks"
     \/ s'[i].pc = "grant" /\ s[i].pc = "dropVersions"
     \/ s'[i].pc = "revoke" /\ s[i].pc = "grant"
     \/ s'[i].pc = "links" /\ s[i].pc = "revoke"
     \/ s'[i].pc = "blobs" /\ s[i].pc = "links"
     \/ s'[i].pc = "shExisting" /\ s[i].pc = "shCheck"
     \/ s'[i].pc = "shGrant" /\ s[i].pc = "shExisting"
     \/ s'[i].pc = "unLinks" /\ s[i].pc = "unKey"
     \/ s'[i].pc = "lnInsert" /\ s[i].pc = "lnCheck"
     \/ s'[i].pc = "upRead" /\ s[i].pc = "upInsert"
     \/ s'[i].pc = "upChunks" /\ s[i].pc = "upRead"
     \/ s'[i].pc = "upFlip" /\ s[i].pc = "upChunks"

Arrives(i) ==
  /\ CanStart(i)
  /\ \/ s'[i].pc = "acl" /\ rot[s'[i].e].state = "ready"
     \/ s'[i].pc = "upInsert" /\ "upload" \in Ops
     \/ s'[i].pc = "unKey" /\ Ops \cap {"unshare", "leave"} # {}
     \/ s'[i].pc \in {"shCheck", "lnCheck"}

LEMMA SlotSteps ==
  ASSUME TypeInv, NEW i \in Slot, SlotStep(i)
  PROVE  Passes(i) \/ Arrives(i) \/ s'[i] = IdleSlot
<1>s. s \in [Slot -> SlotRec] /\ s[i] \in SlotRec
  BY SlotTyped DEF TypeInv
<1>1. \A p : Goto(i, p) => s'[i].pc = p /\ s'[i].e = s[i].e /\ s'[i].user = s[i].user
  BY <1>s DEF Goto, SlotRec
<1>2. Return(i) => s'[i] = IdleSlot
  BY <1>s DEF Return
<1>3. \A r : Start(i, r) => s'[i] = r
  BY <1>s DEF Start
<1>4. Rotate(i) => Passes(i) \/ s'[i] = IdleSlot
  BY <1>s, <1>1, <1>2
  DEF Rotate, RotateCheckAcl, RotateReadOldChunks, RotateMeasure, RotateReadMax,
      RotateInsertVersion, RotateInsertChunks, RotateFlip, RotateDropChunks,
      RotateDropVersions, RotateGrant, RotateRevoke, RotateRevokeLinks,
      RotateDeleteObjects, Fail, Passes, At, SlotRec
<1>5. Grant(i) \/ Upload(i) \/ Crash(i) => Passes(i) \/ s'[i] = IdleSlot
  BY <1>s, <1>1, <1>2
  DEF Grant, Upload, Crash, ShareCheckAccess, ShareCheckExisting, ShareGrant, UnshareKey,
      UnshareLinks, LinkCheckAccess, LinkInsert, UploadInsertVersion, UploadReadVersion,
      UploadInsertChunks, UploadFlip, Fail, Passes, At, SlotRec
<1>6. Begin(i) => Arrives(i)
  <2>1. ASSUME NEW e \in Eras, StartCommit(i, e)
        PROVE  s'[i].pc = "acl" /\ s'[i].e = e /\ rot[e].state = "ready" /\ CanStart(i)
    BY <1>3, <2>1 DEF StartCommit, IdleSlot
  <2>2. StartUpload(i) => s'[i].pc = "upInsert" /\ CanStart(i) /\ "upload" \in Ops
    BY <1>3 DEF StartUpload, IdleSlot
  <2>3. ASSUME NEW u \in Users
        PROVE  /\ StartUnshare(i, u) => /\ s'[i].pc = "unKey" /\ CanStart(i)
                                       /\ Ops \cap {"unshare", "leave"} # {}
               /\ StartLink(i, u) => s'[i].pc = "lnCheck" /\ CanStart(i)
    BY <1>3 DEF StartUnshare, StartLink, IdleSlot
  <2>4. ASSUME NEW u \in Users, NEW a \in Users, StartShare(i, a, u)
        PROVE  s'[i].pc = "shCheck" /\ CanStart(i)
    BY <1>3, <2>4 DEF StartShare, IdleSlot
  <2> QED
    BY <2>1, <2>2, <2>3, <2>4 DEF Begin, Arrives
<1> QED
  BY <1>4, <1>5, <1>6 DEF SlotStep

\* How a step changes what clients know of their rotations.
LEMMA RotSteps ==
  ASSUME TypeInv, SlotInv, NEW i \in Slot, SlotStep(i)
  PROVE  \/ rot' = rot /\ (s'[i].pc \in Committing => s[i].pc \in Committing /\ s'[i].e = s[i].e)
         \/ /\ s[i].pc \in Committing /\ s'[i].pc \notin Committing
            /\ s[i].e \in Eras \ {0} /\ rot[s[i].e].state = "sent"
            /\ \E st \in {"failed", "again", "done"} : Answer(s[i].e, st)
         \/ /\ s[i].pc = "idle" /\ s'[i].pc = "acl" /\ s'[i].e \in Eras \ {0}
            /\ rot[s'[i].e].state = "ready" /\ Answer(s'[i].e, "sent")
<1>s. s \in [Slot -> SlotRec] /\ s[i] \in SlotRec /\ Carries(s[i])
  BY SlotTyped DEF TypeInv
<1>1. \A p : Goto(i, p) => s'[i].pc = p /\ s'[i].e = s[i].e
  BY <1>s DEF Goto, SlotRec
<1>2. Return(i) => s'[i].pc = "idle"
  BY <1>s DEF Return, IdleSlot
<1>3. \A r : Start(i, r) => s'[i] = r
  BY <1>s DEF Start
<1>e. s[i].pc \in Committing => s[i].e \in Eras \ {0} /\ rot[s[i].e].state = "sent"
  BY <1>s DEF Carries, SlotInv
<1>4. CASE \/ RotateCheckAcl(i) \/ RotateReadOldChunks(i) \/ RotateMeasure(i)
           \/ RotateInsertVersion(i) \/ RotateInsertChunks(i) \/ RotateRevokeLinks(i)
  BY <1>4, <1>s, <1>1, <1>2, <1>e, Names
  DEF RotateCheckAcl, RotateReadOldChunks, RotateMeasure, RotateInsertVersion,
      RotateInsertChunks, RotateRevokeLinks, Fail, At, SlotRec
<1>5. CASE \/ RotateReadMax(i) \/ RotateFlip(i) \/ RotateDropChunks(i)
           \/ RotateDropVersions(i) \/ RotateGrant(i) \/ RotateRevoke(i)
           \/ RotateDeleteObjects(i)
  BY <1>5, <1>s, <1>1, <1>2, Names
  DEF RotateReadMax, RotateFlip, RotateDropChunks, RotateDropVersions, RotateGrant,
      RotateRevoke, RotateDeleteObjects, At, SlotRec
<1>6. CASE Grant(i) \/ Upload(i)
  BY <1>6, <1>s, <1>1, <1>2, Names
  DEF Grant, Upload, ShareCheckAccess, ShareCheckExisting, ShareGrant, UnshareKey,
      UnshareLinks, LinkCheckAccess, LinkInsert, UploadInsertVersion, UploadReadVersion,
      UploadInsertChunks, UploadFlip, At, SlotRec
<1>7. CASE Crash(i)
  BY <1>7, <1>s, <1>2, <1>e, Names DEF Crash, Fail
<1>8. CASE Begin(i)
  <2>1. ASSUME NEW e \in Eras, StartCommit(i, e)
        PROVE  /\ s[i].pc = "idle" /\ s'[i].pc = "acl" /\ s'[i].e = e /\ e # 0
               /\ rot[e].state = "ready" /\ Answer(e, "sent")
    BY <1>3, <2>1 DEF StartCommit, IdleSlot, CanStart, At, TypeInv
  <2>2. StartUpload(i) => s'[i].pc = "upInsert" /\ rot' = rot
    BY <1>3 DEF StartUpload, IdleSlot
  <2>3. ASSUME NEW u \in Users
        PROVE  /\ StartUnshare(i, u) => s'[i].pc = "unKey" /\ rot' = rot
               /\ StartLink(i, u) => s'[i].pc = "lnCheck" /\ rot' = rot
    BY <1>3 DEF StartUnshare, StartLink, IdleSlot
  <2>4. ASSUME NEW u \in Users, NEW a \in Users, StartShare(i, a, u)
        PROVE  s'[i].pc = "shCheck" /\ rot' = rot
    BY <1>3, <2>4 DEF StartShare, IdleSlot
  <2> QED
    BY <1>8, <2>1, <2>2, <2>3, <2>4, Names DEF Begin
<1> QED
  BY <1>4, <1>5, <1>6, <1>7, <1>8 DEF SlotStep, Rotate

LEMMA SlotNext ==
  ASSUME TypeInv, SlotInv, [Next]_vars
  PROVE  SlotInv'
<1>s. s \in [Slot -> SlotRec]
  BY SlotTyped DEF TypeInv
<1>r. rot \in [Eras -> RotRec]
  BY RotTyped DEF TypeInv
<1>c. \A k \in Slot : s[k].pc \in Committing => s[k].e \in Eras /\ rot[s[k].e].state = "sent"
  BY DEF TypeInv, Carries, SlotInv
<1>1. ASSUME NEW i \in Slot, SlotStep(i)
      PROVE  SlotInv'
  <2>1. \A k \in Slot \ {i} : s'[k] = s[k]
    BY <1>1, Others
  <2>2. \A k \in Slot : s'[k].pc \in Committing => rot'[s'[k].e].state = "sent"
    <3> SUFFICES ASSUME NEW k \in Slot, s'[k].pc \in Committing
                 PROVE  rot'[s'[k].e].state = "sent"
      OBVIOUS
    <3>1. CASE rot' = rot /\ (s'[i].pc \in Committing => s[i].pc \in Committing /\ s'[i].e = s[i].e)
      BY <1>c, <2>1, <3>1
    <3>2. CASE /\ s[i].pc \in Committing /\ s'[i].pc \notin Committing
               /\ \E st \in {"failed", "again", "done"} : Answer(s[i].e, st)
      <4>1. k # i /\ s'[k] = s[k] /\ s[k].e \in Eras /\ rot[s[k].e].state = "sent"
        BY <1>c, <2>1, <3>2
      <4>2. s[k].e # s[i].e
        BY <3>2, <4>1 DEF SlotInv
      <4> QED
        BY <1>r, <3>2, <4>1, <4>2 DEF Answer
    <3>3. CASE /\ s'[i].pc = "acl" /\ s'[i].e \in Eras \ {0}
               /\ rot[s'[i].e].state = "ready" /\ Answer(s'[i].e, "sent")
      <4>1. CASE k = i
        BY <1>r, <3>3, <4>1 DEF Answer, RotRec
      <4>2. CASE k # i
        <5>1. s'[k] = s[k] /\ s[k].e \in Eras /\ rot[s[k].e].state = "sent"
          BY <1>c, <2>1, <4>2
        <5> QED
          BY <1>r, <3>3, <5>1 DEF Answer
      <4> QED
        BY <4>1, <4>2
    <3> QED
      BY <1>1, <3>1, <3>2, <3>3, RotSteps
  <2>3. \A j, k \in Slot : j # k /\ {s'[j].pc, s'[k].pc} \subseteq Committing => s'[j].e # s'[k].e
    BY <1>1, <1>c, <2>1, RotSteps DEF SlotInv
  <2>4. ~Overlap => \A j, k \in Slot : j # k => s'[j].pc = "idle" \/ s'[k].pc = "idle"
    BY <1>1, <2>1, SlotSteps DEF SlotInv, Passes, Arrives, CanStart, At, IdleSlot
  <2>5. \A k \in Slot : /\ s'[k].pc \in Loading => "upload" \in Ops
                        /\ s'[k].pc \in Unsharing => Ops \cap {"unshare", "leave"} # {}
    BY <1>1, <2>1, SlotSteps DEF SlotInv, Passes, Arrives, IdleSlot, Loading, Unsharing
  <2> QED
    BY <2>2, <2>3, <2>4, <2>5 DEF SlotInv, At
<1>2. CASE Client
  <2>1. s' = s
    BY <1>2, ClientKeepsSlots
  <2>2. \A e \in Eras : rot[e].state = "sent" => rot'[e].state = "sent"
    BY <1>2, <1>r DEF Client, ListAgain, Resend, PrepareRotation, SetHold, Answer, RotRec
  <2> QED
    BY <1>c, <2>1, <2>2 DEF SlotInv, At
<1>3. CASE UNCHANGED vars
  BY <1>3 DEF vars, SlotInv, At
<1> QED
  BY <1>1, <1>2, <1>3, NextCases

\* Where rows and the era of the files row come from.
LEMMA RowSteps ==
  ASSUME TypeInv, NEW i \in Slot, SlotStep(i)
  PROVE  /\ \A v \in rows' : \/ \E w \in rows : w.pre = v.pre
                             \/ v.pre = None
                             \/ s[i].pc = "version" /\ v.pre = s[i].e
         /\ file'.hier = file.hier \/ (s[i].pc = "flip" /\ file'.hier = s[i].e)
<1>f. /\ file \in [cur: 0..MaxRow, hier: Eras, wrap: Eras, held: BOOLEAN]
      /\ rows \subseteq RowRec
  BY RowsTyped DEF TypeInv, TypeOK
<1>1. ASSUME NEW v \in rows, NEW b PROVE [v EXCEPT !.full = b].pre = v.pre
  BY <1>f DEF RowRec
<1>2. \A n, h, p, v : InsertRow(n, h, p) /\ v \in rows' => v \in rows \/ v.pre = p
  BY DEF InsertRow
<1>3. CASE RotateInsertVersion(i) \/ UploadInsertVersion(i)
  BY <1>2, <1>3 DEF RotateInsertVersion, UploadInsertVersion, At
<1>4. CASE \/ RotateInsertChunks(i) \/ UploadInsertChunks(i)
           \/ RotateDropChunks(i) \/ RotateDropVersions(i)
  <2>1. ASSUME NEW id, FillRow(id), NEW v \in rows'
        PROVE  \E w \in rows : w.pre = v.pre
    <3>1. PICK w \in rows : v = [w EXCEPT !.full = w.full \/ w.id = id]
      BY <2>1 DEF FillRow
    <3> QED
      BY <1>1, <3>1
  <2>2. ASSUME RotateDropChunks(i), NEW v \in rows'
        PROVE  \E w \in rows : w.pre = v.pre
    <3>1. PICK w \in rows : v = [w EXCEPT !.full = w.full /\ w \in Kept(s[i].row)]
      BY <2>2 DEF RotateDropChunks
    <3> QED
      BY <1>1, <3>1
  <2>3. RotateInsertChunks(i) \/ UploadInsertChunks(i) => \/ rows' = rows
                                                         \/ FillRow(s[i].row)
    BY DEF RotateInsertChunks, UploadInsertChunks
  <2>4. RotateDropVersions(i) => rows' \subseteq rows
    BY DEF RotateDropVersions, Kept
  <2>5. file' = file
    BY <1>4 DEF RotateInsertChunks, UploadInsertChunks, RotateDropChunks, RotateDropVersions
  <2> QED
    BY <1>4, <2>1, <2>2, <2>3, <2>4, <2>5
<1>5. CASE RotateFlip(i) \/ UploadFlip(i)
  BY <1>f, <1>5 DEF RotateFlip, UploadFlip, At
<1>6. CASE \/ RotateCheckAcl(i) \/ RotateReadOldChunks(i) \/ RotateMeasure(i)
           \/ RotateReadMax(i) \/ RotateGrant(i) \/ RotateRevoke(i)
           \/ RotateRevokeLinks(i) \/ RotateDeleteObjects(i)
           \/ Grant(i) \/ UploadReadVersion(i) \/ Crash(i) \/ Begin(i)
  BY <1>6
  DEF RotateCheckAcl, RotateReadOldChunks, RotateMeasure, RotateReadMax, RotateGrant,
      RotateRevoke, RotateRevokeLinks, RotateDeleteObjects, Grant, ShareCheckAccess,
      ShareCheckExisting, ShareGrant, UnshareKey, UnshareLinks, LinkCheckAccess,
      LinkInsert, UploadReadVersion, Crash, Begin, StartUpload, StartCommit,
      StartUnshare, StartLink, StartShare
<1> QED
  BY <1>3, <1>4, <1>5, <1>6 DEF SlotStep, Rotate, Upload

\* Only its preparation uses up an era; only one tab's client opens one.
LEMMA EraSteps ==
  ASSUME TypeInv, SlotInv, NEW i \in Slot, SlotStep(i), NEW e \in Eras
  PROVE  /\ rot'[e].state = "none" <=> rot[e].state = "none"
         /\ rot'[e].state \in {"ready", "sent", "again"} => Open(e)
<1>r. rot \in [Eras -> RotRec]
  BY RotTyped DEF TypeInv
<1>1. ASSUME NEW x \in Eras, NEW st \in {"failed", "again", "done", "sent"}, Answer(x, st)
      PROVE  /\ rot'[x].state = st
             /\ e # x => rot'[e] = rot[e]
  BY <1>1, <1>r DEF Answer, RotRec
<1>2. CASE rot' = rot
  BY <1>2 DEF Open
<1>3. ASSUME NEW x \in Eras, NEW st \in {"failed", "again", "done", "sent"}, Answer(x, st),
             rot[x].state \in {"ready", "sent"}
      PROVE  /\ rot'[e].state = "none" <=> rot[e].state = "none"
             /\ rot'[e].state \in {"ready", "sent", "again"} => Open(e)
  BY <1>1, <1>3 DEF Open
<1> QED
  BY <1>2, <1>3, RotSteps

LEMMA EraNext ==
  ASSUME TypeInv, SlotInv, EraInv, [Next]_vars
  PROVE  EraInv'
<1>f. file.hier \in Eras /\ \A v \in rows : v.pre \in Era
  BY DEF TypeInv, TypeOK
<1>r. rot \in [Eras -> RotRec]
  BY RotTyped DEF TypeInv
<1>e. Eras \subseteq Int
  BY Bounds DEF Eras
<1>1. ASSUME NEW i \in Slot, SlotStep(i)
      PROVE  EraInv'
  <2>1. \A e \in Eras : /\ rot'[e].state = "none" <=> rot[e].state = "none"
                        /\ rot'[e].state \in {"ready", "sent", "again"} => Open(e)
    BY <1>1, EraSteps
  <2>2. s[i].pc \in {"version", "flip"} => s[i].e \in Eras /\ rot[s[i].e].state # "none"
    BY Names DEF TypeInv, Carries, SlotInv
  <2>3. Used(file.hier)'
    BY <1>1, <1>f, <2>1, <2>2, RowSteps DEF EraInv, Used
  <2>4. \A v \in rows' : Used(v.pre)'
    BY <1>1, <1>f, <2>1, <2>2, RowSteps DEF EraInv, Used, Era
  <2> QED
    BY <2>1, <2>3, <2>4 DEF EraInv, Open, Newest
<1>2. ASSUME NEW e \in Eras, NEW u \in Users, PrepareRotation(e, u)
      PROVE  EraInv'
  <2>1. /\ rot[e].state = "none" /\ rot'[e].state = "ready" /\ e # 0
        /\ \A d \in Eras \ {e} : rot'[d] = rot[d]
        /\ file' = file /\ rows' = rows
    BY <1>2, <1>r DEF PrepareRotation
  <2>2. \A d \in Eras : d < e /\ d # 0 => rot[d].state # "none"
    BY <1>2 DEF PrepareRotation
  <2>3. \A d \in Eras : d > e => rot[d].state = "none"
    BY <2>1, <1>e DEF EraInv, Eras
  <2>4. "tabs" \notin Ops => \A d \in Eras : ~Open(d)
    BY <1>2 DEF PrepareRotation, OneTab, Open
  <2>5. \A c, d \in Eras : 0 < c /\ c < d /\ rot'[d].state # "none" => rot'[c].state # "none"
    BY <2>1, <2>2, <2>3 DEF EraInv
  <2>6. Used(file.hier)' /\ \A v \in rows' : Used(v.pre)'
    BY <1>f, <2>1 DEF EraInv, Used, Era
  <2>7. "tabs" \notin Ops => \A c \in Eras : Open(c)' => c = e
    BY <2>1, <2>4 DEF Open
  <2>8. Newest(e)'
    BY <1>e, <2>1, <2>3 DEF Newest
  <2> QED
    BY <2>5, <2>6, <2>7, <2>8 DEF EraInv
<1>3. ASSUME NEW e \in Eras, ListAgain(e) \/ Resend(e)
      PROVE  EraInv'
  <2>0. ASSUME NEW p, p.state = "ready", rot' = [rot EXCEPT ![e] = p]
        PROVE  rot'[e].state = "ready" /\ \A d \in Eras \ {e} : rot'[d] = rot[d]
    BY <1>r, <2>0
  <2>1. /\ rot[e].state \in {"again", "failed"} /\ rot'[e].state = "ready"
        /\ \A d \in Eras \ {e} : rot'[d] = rot[d]
        /\ file' = file /\ rows' = rows
    <3>1. CASE ListAgain(e)
      <4> DEFINE p == [rot[e] EXCEPT !.state = "ready", !.retried = TRUE,
                                     !.rem = Holders \ {rot[e].out}]
      <4>1. p.state = "ready"
        BY <1>r DEF RotRec
      <4>2. rot' = [rot EXCEPT ![e] = p]
        BY <3>1 DEF ListAgain
      <4> HIDE DEF p
      <4> QED
        BY <2>0, <3>1, <4>1, <4>2 DEF ListAgain
    <3>2. CASE Resend(e)
      BY <1>r, <3>2 DEF Resend, Answer, RotRec
    <3> QED
      BY <1>3, <3>1, <3>2
  <2>2. \A d \in Eras : rot'[d].state = "none" <=> rot[d].state = "none"
    BY <2>1
  <2>3. "tabs" \notin Ops => Newest(e) /\ \A d \in Eras \ {e} : ~Open(d)
    <3>1. CASE ListAgain(e)
      BY <3>1 DEF ListAgain, EraInv, Open
    <3>2. CASE Resend(e)
      BY <3>2 DEF Resend, OneTab, Newest, Open
    <3> QED
      BY <1>3, <3>1, <3>2
  <2>4. Used(file.hier)' /\ \A v \in rows' : Used(v.pre)'
    BY <1>f, <2>1, <2>2 DEF EraInv, Used, Era
  <2>5. "tabs" \notin Ops => \A c \in Eras : Open(c)' => c = e
    BY <2>1, <2>3 DEF Open
  <2>6. "tabs" \notin Ops => Newest(e)'
    BY <2>2, <2>3 DEF Newest
  <2> QED
    BY <2>2, <2>4, <2>5, <2>6 DEF EraInv
<1>4. CASE SetHold
  BY <1>4, <1>f DEF SetHold, EraInv, Used, Open, Newest, TypeInv, TypeOK
<1>5. CASE UNCHANGED vars
  BY <1>5 DEF vars, EraInv, Used, Open, Newest
<1> QED
  BY <1>1, <1>2, <1>3, <1>4, <1>5, NextCases DEF Client

\* A commit in its middle is the only one, and its era the newest.
LEMMA Committer ==
  ASSUME TypeInv, SlotInv, EraInv, OneCommit, NEW i \in Slot, s[i].pc \in Committing
  PROVE  /\ \A k \in Slot : k # i => s[k].pc \notin Committing
         /\ s[i].e \in Eras \ {0} /\ rot[s[i].e].state = "sent"
<1>1. \A k \in Slot : s[k].pc \in Committing => s[k].e \in Eras \ {0} /\ rot[s[k].e].state = "sent"
  BY DEF TypeInv, Carries, SlotInv
<1>2. ASSUME NEW k \in Slot, k # i, s[k].pc \in Committing
      PROVE  FALSE
  <2>1. CASE ~Overlap
    BY <1>2, <2>1, Names DEF SlotInv, At
  <2>2. CASE "tabs" \notin Ops
    BY <1>1, <1>2, <2>2 DEF EraInv, SlotInv, Open
  <2> QED
    BY <2>1, <2>2 DEF OneCommit
<1> QED
  BY <1>1, <1>2
\* Which statement runs is the program counter's choice, unless it crashes.
LEMMA Acts ==
  ASSUME TypeInv, NEW i \in Slot, SlotStep(i)
  PROVE  \/ s[i].pc = "idle" /\ Begin(i)
         \/ s[i].pc # "idle" /\ Crash(i)
         \/ s[i].pc = "acl" /\ RotateCheckAcl(i)
         \/ s[i].pc = "old" /\ RotateReadOldChunks(i)
         \/ s[i].pc = "measure" /\ RotateMeasure(i)
         \/ s[i].pc = "max" /\ RotateReadMax(i)
         \/ s[i].pc = "version" /\ RotateInsertVersion(i)
         \/ s[i].pc = "chunks" /\ RotateInsertChunks(i)
         \/ s[i].pc = "flip" /\ RotateFlip(i)
         \/ s[i].pc = "dropChunks" /\ RotateDropChunks(i)
         \/ s[i].pc = "dropVersions" /\ RotateDropVersions(i)
         \/ s[i].pc = "grant" /\ RotateGrant(i)
         \/ s[i].pc = "revoke" /\ RotateRevoke(i)
         \/ s[i].pc = "links" /\ RotateRevokeLinks(i)
         \/ s[i].pc = "blobs" /\ RotateDeleteObjects(i)
         \/ s[i].pc = "shCheck" /\ ShareCheckAccess(i)
         \/ s[i].pc = "shExisting" /\ ShareCheckExisting(i)
         \/ s[i].pc = "shGrant" /\ ShareGrant(i)
         \/ s[i].pc = "unKey" /\ UnshareKey(i)
         \/ s[i].pc = "unLinks" /\ UnshareLinks(i)
         \/ s[i].pc = "lnCheck" /\ LinkCheckAccess(i)
         \/ s[i].pc = "lnInsert" /\ LinkInsert(i)
         \/ s[i].pc = "upInsert" /\ UploadInsertVersion(i)
         \/ s[i].pc = "upRead" /\ UploadReadVersion(i)
         \/ s[i].pc = "upChunks" /\ UploadInsertChunks(i)
         \/ s[i].pc = "upFlip" /\ UploadFlip(i)
<1>1. Begin(i) => s[i].pc = "idle"
  BY DEF Begin, StartUpload, StartCommit, StartUnshare, StartLink, StartShare, CanStart, At
<1>2. Crash(i) => s[i].pc # "idle"
  BY DEF Crash
<1>3. /\ RotateCheckAcl(i) => s[i].pc = "acl"
      /\ RotateReadOldChunks(i) => s[i].pc = "old"
      /\ RotateMeasure(i) => s[i].pc = "measure"
      /\ RotateReadMax(i) => s[i].pc = "max"
      /\ RotateInsertVersion(i) => s[i].pc = "version"
      /\ RotateInsertChunks(i) => s[i].pc = "chunks"
      /\ RotateFlip(i) => s[i].pc = "flip"
      /\ RotateDropChunks(i) => s[i].pc = "dropChunks"
      /\ RotateDropVersions(i) => s[i].pc = "dropVersions"
      /\ RotateGrant(i) => s[i].pc = "grant"
      /\ RotateRevoke(i) => s[i].pc = "revoke"
      /\ RotateRevokeLinks(i) => s[i].pc = "links"
      /\ RotateDeleteObjects(i) => s[i].pc = "blobs"
  BY DEF RotateCheckAcl, RotateReadOldChunks, RotateMeasure, RotateReadMax,
         RotateInsertVersion, RotateInsertChunks, RotateFlip, RotateDropChunks,
         RotateDropVersions, RotateGrant, RotateRevoke, RotateRevokeLinks,
         RotateDeleteObjects, At
<1>4. /\ ShareCheckAccess(i) => s[i].pc = "shCheck"
      /\ ShareCheckExisting(i) => s[i].pc = "shExisting"
      /\ ShareGrant(i) => s[i].pc = "shGrant"
      /\ UnshareKey(i) => s[i].pc = "unKey"
      /\ UnshareLinks(i) => s[i].pc = "unLinks"
      /\ LinkCheckAccess(i) => s[i].pc = "lnCheck"
      /\ LinkInsert(i) => s[i].pc = "lnInsert"
      /\ UploadInsertVersion(i) => s[i].pc = "upInsert"
      /\ UploadReadVersion(i) => s[i].pc = "upRead"
      /\ UploadInsertChunks(i) => s[i].pc = "upChunks"
      /\ UploadFlip(i) => s[i].pc = "upFlip"
  BY DEF ShareCheckAccess, ShareCheckExisting, ShareGrant, UnshareKey, UnshareLinks,
         LinkCheckAccess, LinkInsert, UploadInsertVersion, UploadReadVersion,
         UploadInsertChunks, UploadFlip, At
<1> QED
  BY <1>1, <1>2, <1>3, <1>4 DEF SlotStep, Rotate, Grant, Upload

LEMMA CrashIdles ==
  ASSUME TypeInv, NEW i \in Slot, Crash(i)
  PROVE  /\ s'[i] = IdleSlot
         /\ UNCHANGED <<file, rows, next, keys, link, blob, since>>
BY SlotTyped DEF Crash, Fail, Return, TypeInv

\* What the rows of the database are left as by all but the statements named.
LEMMA Frames ==
  ASSUME TypeInv, NEW i \in Slot, SlotStep(i)
  PROVE  /\ s[i].pc \notin {"flip", "upFlip"} => file' = file
         /\ s[i].pc \notin {"version", "chunks", "dropChunks", "dropVersions",
                            "upInsert", "upChunks"} => rows' = rows
         /\ s[i].pc \notin {"grant", "revoke", "shGrant", "unKey"} => keys' = keys
         /\ s[i].pc \notin {"links", "unLinks", "lnInsert"} => link' = link
         /\ s[i].pc \notin {"measure", "blobs"} => blob' = blob
         /\ s[i].pc \notin {"flip", "shGrant", "unKey"} => since' = since
         /\ s[i].pc \notin {"links", "unLinks"} => spared' = spared
<1>1. Begin(i) => UNCHANGED <<file, rows, keys, link, blob, since, spared>>
  BY DEF Begin, StartUpload, StartCommit, StartUnshare, StartLink, StartShare
<1>2. Rotate(i) =>
         /\ s[i].pc # "flip" => UNCHANGED <<file, since>>
         /\ s[i].pc \notin {"version", "chunks", "dropChunks", "dropVersions"} => rows' = rows
         /\ s[i].pc \notin {"grant", "revoke"} => keys' = keys
         /\ s[i].pc # "links" => UNCHANGED <<link, spared>>
         /\ s[i].pc \notin {"measure", "blobs"} => blob' = blob
  BY DEF Rotate, RotateCheckAcl, RotateReadOldChunks, RotateMeasure, RotateReadMax,
         RotateInsertVersion, RotateInsertChunks, RotateFlip, RotateDropChunks,
         RotateDropVersions, RotateGrant, RotateRevoke, RotateRevokeLinks,
         RotateDeleteObjects, At
<1>3. Grant(i) =>
         /\ UNCHANGED <<file, rows, blob>>
         /\ s[i].pc \notin {"shGrant", "unKey"} => UNCHANGED <<keys, since>>
         /\ s[i].pc \notin {"unLinks", "lnInsert"} => link' = link
         /\ s[i].pc # "unLinks" => spared' = spared
  BY DEF Grant, ShareCheckAccess, ShareCheckExisting, ShareGrant, UnshareKey,
         UnshareLinks, LinkCheckAccess, LinkInsert, At
<1>4. Upload(i) =>
         /\ UNCHANGED <<keys, link, blob, since, spared>>
         /\ s[i].pc # "upFlip" => file' = file
         /\ s[i].pc \notin {"upInsert", "upChunks"} => rows' = rows
  BY DEF Upload, UploadInsertVersion, UploadReadVersion, UploadInsertChunks, UploadFlip, At
<1>5. Crash(i) /\ s[i].pc \notin {"links", "unLinks"} => spared' = spared
  BY DEF Crash, Removed
<1> QED
  BY <1>1, <1>2, <1>3, <1>4, <1>5, CrashIdles DEF SlotStep

\* What a handler remembers, from one statement to the next.
LEMMA Locals ==
  ASSUME TypeInv, NEW i \in Slot, SlotStep(i), s[i].pc # "idle", s'[i].pc # "idle"
  PROVE  /\ s'[i].num = s[i].num \/ s'[i].pc = "version"
         /\ s'[i].row = s[i].row \/ s[i].pc \in {"version", "upInsert"}
         /\ s'[i].old = s[i].old \/ s[i].pc = "old"
<1>s. s \in [Slot -> SlotRec] /\ s[i] \in SlotRec
  BY SlotTyped DEF TypeInv
<1>1. \A p : Goto(i, p) => s'[i].num = s[i].num /\ s'[i].row = s[i].row /\ s'[i].old = s[i].old
  BY <1>s DEF Goto, SlotRec
<1>2. ~Return(i)
  BY <1>s DEF Return, IdleSlot
<1>3. ~Begin(i)
  BY DEF Begin, StartUpload, StartCommit, StartUnshare, StartLink, StartShare, CanStart, At
<1>4. CASE Rotate(i)
  BY <1>s, <1>1, <1>2, <1>4
  DEF Rotate, RotateCheckAcl, RotateReadOldChunks, RotateMeasure, RotateReadMax,
      RotateInsertVersion, RotateInsertChunks, RotateFlip, RotateDropChunks,
      RotateDropVersions, RotateGrant, RotateRevoke, RotateRevokeLinks,
      RotateDeleteObjects, Fail, At, SlotRec
<1>5. CASE Grant(i) \/ Upload(i)
  BY <1>s, <1>1, <1>2, <1>5
  DEF Grant, Upload, ShareCheckAccess, ShareCheckExisting, ShareGrant, UnshareKey,
      UnshareLinks, LinkCheckAccess, LinkInsert, UploadInsertVersion, UploadReadVersion,
      UploadInsertChunks, UploadFlip, At, SlotRec
<1> QED
  BY <1>2, <1>3, <1>4, <1>5 DEF SlotStep, Crash, Fail

\* A row stays, and stays full, unless a clean-up drops it.
LEMMA RowLasts ==
  ASSUME TypeInv, NEW i \in Slot, SlotStep(i), NEW v \in rows,
         s[i].pc \in {"dropChunks", "dropVersions"} => v.id = s[i].row
  PROVE  \E w \in rows' : /\ w.id = v.id /\ w.num = v.num /\ w.hier = v.hier /\ w.pre = v.pre
                          /\ v.full => w.full
<1>f. \A x \in rows : x \in RowRec
  BY RowsTyped DEF TypeInv
<1>1. ASSUME NEW b \in BOOLEAN, NEW x \in rows
      PROVE  LET y == [x EXCEPT !.full = b]
             IN  y.id = x.id /\ y.num = x.num /\ y.hier = x.hier /\ y.pre = x.pre /\ y.full = b
  BY <1>f DEF RowRec
<1>2. ASSUME NEW id, FillRow(id)
      PROVE  \E w \in rows' : /\ w.id = v.id /\ w.num = v.num /\ w.hier = v.hier /\ w.pre = v.pre
                              /\ v.full => w.full
  <2> DEFINE w == [v EXCEPT !.full = v.full \/ v.id = id]
  <2>1. w \in rows'
    BY <1>2 DEF FillRow
  <2>2. (v.full \/ v.id = id) \in BOOLEAN
    OBVIOUS
  <2>3. w.id = v.id /\ w.num = v.num /\ w.hier = v.hier /\ w.pre = v.pre /\ w.full = (v.full \/ v.id = id)
    BY <1>1, <2>2
  <2> HIDE DEF w
  <2> QED
    BY <2>1, <2>3
<1>3. CASE rows \subseteq rows'
  BY <1>3
<1>4. CASE s[i].pc = "dropChunks" /\ RotateDropChunks(i)
  <2> DEFINE w == [v EXCEPT !.full = v.full /\ v \in Kept(s[i].row)]
  <2>1. w \in rows' /\ v \in Kept(s[i].row)
    BY <1>4 DEF RotateDropChunks, Kept
  <2>2. (v.full /\ v \in Kept(s[i].row)) \in BOOLEAN
    OBVIOUS
  <2>3. /\ w.id = v.id /\ w.num = v.num /\ w.hier = v.hier /\ w.pre = v.pre
        /\ w.full = (v.full /\ v \in Kept(s[i].row))
    BY <1>1, <2>2
  <2> HIDE DEF w
  <2> QED
    BY <2>1, <2>3
<1>5. CASE s[i].pc = "dropVersions" /\ RotateDropVersions(i)
  BY <1>5 DEF RotateDropVersions, Kept
<1>6. RotateInsertVersion(i) \/ UploadInsertVersion(i) => rows \subseteq rows'
  BY DEF RotateInsertVersion, UploadInsertVersion, InsertRow
<1>7. RotateInsertChunks(i) \/ UploadInsertChunks(i) => rows' = rows \/ FillRow(s[i].row)
  BY DEF RotateInsertChunks, UploadInsertChunks
<1>8. Crash(i) => rows' = rows
  BY CrashIdles
<1> QED
  BY <1>2, <1>3, <1>4, <1>5, <1>6, <1>7, <1>8, Acts, Frames

LEMMA ClientFrames ==
  ASSUME TypeInv, Client
  PROVE  /\ file'.hier = file.hier /\ file'.cur = file.cur /\ file'.wrap = file.wrap
         /\ UNCHANGED <<rows, keys, link, s>>
         /\ blob \subseteq blob'
<1>f. file \in [cur: 0..MaxRow, hier: Eras, wrap: Eras, held: BOOLEAN]
  BY DEF TypeInv, TypeOK
<1> QED
  BY <1>f DEF Client, ListAgain, Resend, PrepareRotation, SetHold
-----------------------------------------------------------------------------
(* The row of the commit under way, and that of the era of the files row.  *)

\* The row a commit just inserted, and once its chunk rows are there.
LEMMA OwnRowMade ==
  ASSUME TypeInv, NEW i \in Slot, SlotStep(i), s'[i].pc # "idle",
         s[i].pc \in {"version", "upInsert"}
  PROVE  \E v \in rows' : /\ v.id = s'[i].row /\ v.num = s'[i].num /\ v.hier = s'[i].e
                          /\ v.pre = IF s[i].pc = "version" THEN s'[i].e ELSE None
<1>s. s \in [Slot -> SlotRec] /\ s[i] \in SlotRec
  BY SlotTyped DEF TypeInv
<1>0. ~Crash(i) /\ ~Return(i)
  BY <1>s, CrashIdles DEF IdleSlot, Return
<1>1. CASE RotateInsertVersion(i)
  <2> DEFINE r == [s[i] EXCEPT !.pc = "chunks", !.row = next]
             v == [id |-> next, num |-> s[i].num, hier |-> s[i].e, pre |-> s[i].e, full |-> FALSE]
  <2>1. ~Refused(s[i].num)
    BY <1>0, <1>1 DEF RotateInsertVersion, Fail
  <2>2. s'[i] = r
    BY <1>1, <1>s, <2>1 DEF RotateInsertVersion
  <2>3. r.row = next /\ r.num = s[i].num /\ r.e = s[i].e
    BY <1>s DEF SlotRec
  <2>4. v \in rows'
    BY <1>1, <2>1 DEF RotateInsertVersion, InsertRow
  <2>5. s[i].pc = "version"
    BY <1>1 DEF RotateInsertVersion, At
  <2> HIDE DEF r
  <2> QED
    BY <2>2, <2>3, <2>4, <2>5
<1>2. CASE UploadInsertVersion(i)
  <2> DEFINE r == [s[i] EXCEPT !.pc = "upRead", !.row = next]
             v == [id |-> next, num |-> s[i].num, hier |-> s[i].e, pre |-> None, full |-> FALSE]
  <2>1. ~Refused(s[i].num)
    BY <1>0, <1>2 DEF UploadInsertVersion
  <2>2. s'[i] = r
    BY <1>2, <1>s, <2>1 DEF UploadInsertVersion
  <2>3. r.row = next /\ r.num = s[i].num /\ r.e = s[i].e
    BY <1>s DEF SlotRec
  <2>4. v \in rows'
    BY <1>2, <2>1 DEF UploadInsertVersion, InsertRow
  <2>5. s[i].pc = "upInsert"
    BY <1>2 DEF UploadInsertVersion, At
  <2> HIDE DEF r
  <2> QED
    BY <2>2, <2>3, <2>4, <2>5
<1> QED
  BY <1>0, <1>1, <1>2, Acts

LEMMA RowFilled ==
  ASSUME TypeInv, NEW i \in Slot, SlotStep(i), s'[i].pc # "idle",
         s[i].pc \in {"chunks", "upChunks"},
         NEW v \in rows, v.id = s[i].row
  PROVE  \E w \in rows' : /\ w.id = v.id /\ w.num = v.num /\ w.hier = v.hier /\ w.pre = v.pre
                          /\ w.full
<1>s. s \in [Slot -> SlotRec] /\ v \in RowRec
  BY SlotTyped, RowsTyped DEF TypeInv
<1>0. ~Crash(i) /\ ~Return(i)
  BY <1>s, CrashIdles DEF IdleSlot, Return
<1>1. RotateInsertChunks(i) \/ UploadInsertChunks(i)
  BY <1>0, Acts
<1>2. FillRow(s[i].row)
  BY <1>0, <1>1 DEF RotateInsertChunks, UploadInsertChunks, Fail
<1> DEFINE w == [v EXCEPT !.full = v.full \/ v.id = s[i].row]
<1>3. w \in rows'
  BY <1>2 DEF FillRow
<1>4. w.id = v.id /\ w.num = v.num /\ w.hier = v.hier /\ w.pre = v.pre /\ w.full = TRUE
  BY <1>s DEF RowRec
<1> HIDE DEF w
<1> QED
  BY <1>3, <1>4

LEMMA RowInit == Init => RowInv
BY DEF Init, RowInv, IdleSlot, After

LEMMA RowNext ==
  ASSUME TypeInv, SlotInv, EraInv, OneCommit, RowInv, [Next]_vars
  PROVE  RowInv'
<1>1. ASSUME NEW i \in Slot, SlotStep(i)
      PROVE  RowInv'
  <2>1. \A k \in Slot \ {i} : s'[k] = s[k]
    BY <1>1, Others
  <2>2. ASSUME NEW v \in rows, OwnRow(s[i], v)
        PROVE  \E w \in rows' : OwnRow(s[i], w) /\ (v.full => w.full)
    BY <1>1, <2>2, RowLasts DEF OwnRow
  <2>3. ASSUME NEW k \in Slot \ {i}, s[k].pc \in {"chunks", "flip"} \cup After
        PROVE  /\ s[k].pc = "chunks" => \E v \in rows' : OwnRow(s[k], v)
               /\ s[k].pc \in {"flip"} \cup After => \E v \in rows' : OwnRow(s[k], v) /\ v.full
               /\ s[k].pc \in After => file'.hier = s[k].e
    <3>1. s[i].pc \notin Committing
      BY <2>3, Committer, Names DEF After
    <3>2. s[i].pc \notin {"dropChunks", "dropVersions", "flip", "version"}
      BY <3>1, Names
    <3>3. \A v \in rows : \E w \in rows' : /\ w.id = v.id /\ w.num = v.num /\ w.hier = v.hier
                                           /\ w.pre = v.pre /\ (v.full => w.full)
      BY <1>1, <3>2, RowLasts
    <3>4. file'.hier = file.hier
      BY <1>1, <3>2, RowSteps
    <3> QED
      BY <3>3, <3>4, <2>3 DEF RowInv, OwnRow
  <2>4. /\ s'[i].pc = "chunks" => \E v \in rows' : OwnRow(s'[i], v)
        /\ s'[i].pc \in {"flip"} \cup After => \E v \in rows' : OwnRow(s'[i], v) /\ v.full
    <3>1. CASE s'[i].pc = "chunks"
      <4>1. s[i].pc = "version"
        BY <1>1, <3>1, SlotSteps DEF Passes, Arrives, IdleSlot
      <4> QED
        BY <1>1, <3>1, <4>1, OwnRowMade DEF OwnRow, After
    <3>2. CASE s'[i].pc = "flip"
      <4>1. s[i].pc = "chunks" /\ s'[i].e = s[i].e
        BY <1>1, <3>2, SlotSteps DEF Passes, Arrives, IdleSlot
      <4>2. s'[i].num = s[i].num /\ s'[i].row = s[i].row
        BY <1>1, <3>2, <4>1, Locals
      <4>3. PICK v \in rows : OwnRow(s[i], v)
        BY <4>1 DEF RowInv
      <4> QED
        BY <1>1, <3>2, <4>1, <4>2, <4>3, RowFilled DEF OwnRow, After
    <3>3. CASE s'[i].pc \in After
      <4>1. s[i].pc \in {"flip"} \cup After /\ s'[i].e = s[i].e
        BY <1>1, <3>3, SlotSteps DEF Passes, Arrives, IdleSlot, After
      <4>2. s'[i].num = s[i].num /\ s'[i].row = s[i].row
        BY <1>1, <3>3, <4>1, Locals DEF After
      <4>3. PICK v \in rows : OwnRow(s[i], v) /\ v.full
        BY <4>1 DEF RowInv
      <4> QED
        BY <2>2, <3>3, <4>1, <4>2, <4>3 DEF OwnRow, After
    <3> QED
      BY <3>1, <3>2, <3>3
  <2>5. s'[i].pc \in After => file'.hier = s'[i].e
    <3> SUFFICES ASSUME s'[i].pc \in After PROVE file'.hier = s'[i].e
      OBVIOUS
    <3>1. s'[i].e = s[i].e /\ (s[i].pc = "flip" \/ s[i].pc \in After)
      BY <1>1, SlotSteps DEF Passes, Arrives, IdleSlot, After
    <3>2. CASE s[i].pc = "flip"
      <4>1. RotateFlip(i)
        BY <1>1, <3>2, Acts, CrashIdles DEF After, IdleSlot
      <4> QED
        BY <3>1, <4>1 DEF RotateFlip, TypeInv, TypeOK
    <3>3. CASE s[i].pc \in After
      BY <1>1, <3>1, <3>3, RowSteps DEF RowInv, After
    <3> QED
      BY <3>1, <3>2, <3>3
  <2>6. file'.hier # 0 => \E v \in rows' : v.pre = file'.hier /\ v.full
    <3>1. CASE s[i].pc \in {"flip", "dropChunks", "dropVersions"}
      <4>1. PICK v \in rows : OwnRow(s[i], v) /\ v.full
        BY <3>1 DEF RowInv, After
      <4>2. PICK w \in rows' : OwnRow(s[i], w) /\ w.full
        BY <2>2, <4>1
      <4>3. file'.hier = s[i].e \/ file'.hier = file.hier
        BY <1>1, RowSteps
      <4>4. CASE s[i].pc = "flip" /\ file'.hier = file.hier
        BY <1>1, <4>4, RowLasts DEF RowInv
      <4>5. s[i].pc \in {"dropChunks", "dropVersions"} => file.hier = s[i].e
        BY DEF RowInv, After
      <4> QED
        BY <3>1, <4>2, <4>3, <4>4, <4>5 DEF OwnRow
    <3>2. CASE s[i].pc \notin {"flip", "dropChunks", "dropVersions"}
      <4>1. file'.hier = file.hier
        BY <1>1, <3>2, RowSteps
      <4> QED
        BY <1>1, <3>2, <4>1, RowLasts DEF RowInv
    <3> QED
      BY <3>1, <3>2
  <2> QED
    BY <2>1, <2>3, <2>4, <2>5, <2>6 DEF RowInv
<1>2. CASE Client
  BY <1>2, ClientFrames DEF RowInv
<1>3. CASE UNCHANGED vars
  BY <1>3 DEF vars, RowInv
<1> QED
  BY <1>1, <1>2, <1>3, NextCases
-----------------------------------------------------------------------------
(* With one tab: eras follow one another.                                  *)

LEMMA GrowsInit == Init => GrowsInv
<1> SUFFICES ASSUME Init PROVE GrowsInv
  OBVIOUS
<1>1. \A i \in Slot : s[i].pc = "idle"
  BY DEF Init, IdleSlot
<1> QED
  BY <1>1 DEF Init, GrowsInv, Compared, Sharing, Linking, None

\* What a commit finds when it compares its objects with the registered ones.
LEMMA FindsOlder ==
  ASSUME TypeInv, SlotInv, EraInv, RowInv, "tabs" \notin Ops,
         NEW i \in Slot, SlotStep(i), s[i].pc = "old", s'[i].pc = "measure"
  PROVE  /\ s'[i].e = s[i].e /\ file' = file /\ rows' = rows /\ rot' = rot
         /\ s'[i].old = {v.pre : v \in {w \in rows : w.full}}
         /\ file.hier < s[i].e
         /\ \A v \in rows : v.full => v.pre # s[i].e
         /\ \A x \in s'[i].old : x \in {None, 0} \/ Retired(x)
<1>s. s \in [Slot -> SlotRec] /\ s[i] \in SlotRec /\ s[i].e \in Eras \ {0}
  BY SlotTyped, Names DEF TypeInv, Carries
<1>f. file.hier \in Eras /\ \A v \in rows : v.pre \in Era
  BY DEF TypeInv, TypeOK
<1>r. rot \in [Eras -> RotRec] /\ rot[s[i].e].state = "sent"
  BY RotTyped, Names DEF TypeInv, SlotInv
<1>e. Eras \subseteq Int /\ \A d \in Eras : d >= 0
  BY Bounds DEF Eras
<1> DEFINE old == {v.pre : v \in {w \in rows : w.full}}
           r == [s[i] EXCEPT !.pc = "measure", !.old = old]
<1>0. RotateReadOldChunks(i)
  BY Acts, CrashIdles DEF IdleSlot
<1>1. ~Reuses(s[i].e, old) /\ s' = [s EXCEPT ![i] = r] /\ rot' = rot
  <2>1. ~Return(i)
    BY <1>s DEF Return, IdleSlot
  <2> QED
    BY <1>0, <1>s, <2>1 DEF RotateReadOldChunks, Fail
<1>2. s'[i].e = s[i].e /\ s'[i].old = old
  <2>1. r.e = s[i].e /\ r.old = old
    BY <1>s DEF SlotRec
  <2> HIDE DEF r, old
  <2> QED
    BY <1>1, <1>s, <2>1
<1>3. s[i].e \notin old
  BY <1>1 DEF Reuses
<1>4. \A v \in rows : v.full => v.pre # s[i].e
  BY <1>3
<1>5. Newest(s[i].e) /\ \A d \in Eras \ {s[i].e} : ~Open(d)
  BY <1>s, <1>r DEF EraInv, Open
<1>6. ASSUME NEW d \in Eras, Used(d), d # s[i].e
      PROVE  d < s[i].e
  <2>1. CASE d = 0
    BY <1>s, <2>1, Bounds DEF Eras
  <2>2. CASE rot[d].state # "none"
    BY <1>s, <1>5, <1>6, <2>2, Bounds DEF Newest, Eras
  <2> QED
    BY <2>1, <2>2, <1>6, <1>e DEF Used, None
<1>7. file.hier < s[i].e
  <2>1. file.hier # s[i].e
    BY <1>4, <1>s DEF RowInv
  <2> QED
    BY <1>6, <1>f, <2>1 DEF EraInv
<1>8. ASSUME NEW x \in old, x \notin {None, 0}
      PROVE  Retired(x)
  <2>1. x \in Eras /\ Used(x) /\ x # s[i].e
    BY <1>3, <1>8, <1>f DEF EraInv, Era
  <2>2. rot[x].state \in {"failed", "done"}
    BY <1>5, <1>8, <1>r, <2>1 DEF Used, Open, RotRec
  <2>3. ~Newest(x)
    BY <1>6, <1>r, <1>s, <1>e, <2>1 DEF Newest
  <2> QED
    BY <2>2, <2>3 DEF Retired
<1> QED
  BY <1>0, <1>1, <1>2, <1>4, <1>7, <1>8 DEF RotateReadOldChunks

LEMMA Flips ==
  ASSUME TypeInv, NEW i \in Slot, SlotStep(i), s[i].pc = "flip", s'[i].pc # "idle"
  PROVE  /\ RotateFlip(i) /\ s'[i].pc = "dropChunks" /\ s'[i].e = s[i].e
         /\ s[i].e \in Eras \ {0} /\ rot[s[i].e].out \in Users /\ rot' = rot
         /\ file'.hier = s[i].e /\ file'.cur = s[i].num /\ file'.wrap = s[i].e
         /\ since' = [since EXCEPT ![rot[s[i].e].out] = s[i].e]
<1>1. RotateFlip(i)
  BY Acts, CrashIdles DEF IdleSlot
<1>2. s[i].e \in Eras \ {0}
  BY Names DEF TypeInv, Carries
<1>3. s'[i].pc = "dropChunks" /\ s'[i].e = s[i].e
  BY SlotSteps DEF Passes, Arrives, CanStart, At, IdleSlot
<1> QED
  BY <1>1, <1>2, <1>3 DEF RotateFlip, TypeInv, TypeOK

\* A crash at the flip leaves the files row alone.
LEMMA HierSteps ==
  ASSUME TypeInv, NEW i \in Slot, SlotStep(i)
  PROVE  \/ file'.hier = file.hier
         \/ s[i].pc = "flip" /\ s'[i].pc # "idle" /\ file'.hier = s[i].e
<1>1. s[i].pc # "flip" => file'.hier = file.hier
  BY RowSteps
<1>2. s[i].pc = "flip" /\ s'[i].pc = "idle" => file'.hier = file.hier
  <2> SUFFICES ASSUME s[i].pc = "flip", s'[i].pc = "idle" PROVE file'.hier = file.hier
    OBVIOUS
  <2>1. ~RotateFlip(i)
    BY SlotTyped DEF RotateFlip, Goto, TypeInv, SlotRec
  <2> QED
    BY <2>1, Acts, CrashIdles
<1> QED
  BY <1>1, <1>2, Flips

LEMMA GrowsNext ==
  ASSUME TypeInv, SlotInv, EraInv, RowInv, GrowsInv, "tabs" \notin Ops, [Next]_vars
  PROVE  GrowsInv'
<1>e. Eras \subseteq Int /\ Era \subseteq Int /\ None \in Int /\ \A d \in Eras : None < d
  BY Bounds DEF Eras, Era, None
<1>t. /\ file.hier \in Int /\ None < file.hier
      /\ \A u \in Users : keys[u] \in Int /\ link[u] \in Int /\ since[u] \in Int
  BY <1>e DEF TypeInv, TypeOK
<1>l. /\ keys \in [Users -> Era] /\ link \in [Users -> Era] /\ since \in [Users -> Era]
  BY DEF TypeInv, TypeOK
<1>s. \A k \in Slot : s[k] \in SlotRec
  BY SlotTyped DEF TypeInv
<1>1. ASSUME NEW i \in Slot, SlotStep(i)
      PROVE  GrowsInv'
  <2>1. \A k \in Slot \ {i} : s'[k] = s[k]
    BY <1>1, Others
  <2>0. TypeInv'
    BY <1>1, TypeNext DEF SlotStep, Next, Begin
  <2>2. file.hier <= file'.hier /\ file'.hier \in Int /\ None < file'.hier
    <3>1. file'.hier \in Eras
      BY <2>0 DEF TypeInv, TypeOK
    <3>2. s[i].pc = "flip" => file.hier < s[i].e
      BY DEF GrowsInv, Compared
    <3>3. file'.hier \in Int /\ None < file'.hier
      BY <3>1, <1>e
    <3> QED
      BY <1>1, <1>t, <3>2, <3>3, HierSteps
  <2>3. ASSUME NEW k \in Slot, s'[k].pc \in Compared
        PROVE  file'.hier < s'[k].e
    <3>1. CASE k # i
      <4>1. s[k].pc \in Compared /\ s'[k] = s[k] /\ s[i].pc \notin Committing
        BY <2>1, <2>3, <3>1, Committer, Names DEF Compared, OneCommit
      <4>2. file'.hier = file.hier
        BY <1>1, <4>1, HierSteps, Names
      <4> QED
        BY <4>1, <4>2 DEF GrowsInv
    <3>2. CASE k = i
      <4>1. CASE s'[i].pc = "measure" /\ s[i].pc = "old"
        BY <1>1, <3>2, <4>1, FindsOlder
      <4>2. CASE s'[i].pc # "measure"
        <5>1. s[i].pc \in Compared /\ s[i].pc # "flip" /\ s'[i].e = s[i].e
          BY <1>1, <2>3, <3>2, <4>2, SlotSteps DEF Passes, Arrives, IdleSlot, Compared
        <5>2. file'.hier = file.hier
          BY <1>1, <5>1, HierSteps
        <5> QED
          BY <3>2, <5>1, <5>2 DEF GrowsInv
      <4>3. s'[i].pc = "measure" => s[i].pc = "old"
        BY <1>1, SlotSteps DEF Passes, Arrives, IdleSlot
      <4> QED
        BY <4>1, <4>2, <4>3
    <3> QED
      BY <3>1, <3>2
  <2>4. ASSUME NEW k \in Slot, s'[k].pc \in Sharing \cup Linking
        PROVE  s'[k].e <= file'.hier
    <3>0. s'[k].e \in Int
      BY <1>e, <2>0 DEF TypeInv, TypeOK
    <3>1. CASE s[k].pc \in Sharing \cup Linking /\ s'[k].e = s[k].e
      BY <1>t, <2>2, <3>0, <3>1 DEF GrowsInv
    <3>2. CASE k = i /\ Begin(i)
      <4>1. \A r : Start(i, r) => s'[i] = r
        BY SlotTyped DEF Start, TypeInv
      <4>2. ASSUME NEW e \in Eras, StartCommit(i, e)
            PROVE  s'[i].pc = "acl"
        BY <4>1, <4>2 DEF StartCommit, IdleSlot
      <4>3. StartUpload(i) => s'[i].pc = "upInsert"
        BY <4>1 DEF StartUpload, IdleSlot
      <4>4. ASSUME NEW u \in Users
            PROVE  /\ StartUnshare(i, u) => s'[i].pc = "unKey"
                   /\ StartLink(i, u) => s'[i].e = file.hier
        BY <4>1 DEF StartUnshare, StartLink, IdleSlot
      <4>5. ASSUME NEW u \in Users, NEW a \in Users, StartShare(i, a, u)
            PROVE  s'[i].e = file.hier
        BY <4>1, <4>5 DEF StartShare, IdleSlot
      <4>6. s'[i].e = file.hier
        BY <2>4, <3>2, <4>2, <4>3, <4>4, <4>5 DEF Begin, Sharing, Linking
      <4> QED
        BY <1>t, <2>2, <3>2, <4>6
    <3>3. \/ s[k].pc \in Sharing \cup Linking /\ s'[k].e = s[k].e
          \/ k = i /\ Begin(i)
      <4>1. CASE k # i
        <5>1. s'[k] = s[k]
          BY <2>1, <4>1
        <5> QED
          BY <2>4, <5>1
      <4>2. CASE k = i /\ ~Begin(i)
        BY <1>1, <2>4, <4>2, SlotSteps, Acts
        DEF Passes, Arrives, CanStart, At, IdleSlot, Sharing, Linking, Crash
      <4> QED
        BY <4>1, <4>2
    <3> QED
      BY <3>1, <3>2, <3>3
  <2>5. \A u \in Users : keys'[u] <= file'.hier
    <3>1. CASE keys' = keys
      BY <1>t, <2>2, <3>1 DEF GrowsInv
    <3>2. CASE RotateGrant(i) /\ s[i].pc = "grant"
      <4>1. file.hier = s[i].e
        BY <3>2 DEF RowInv, After
      <4> QED
        BY <1>t, <2>2, <3>2, <4>1 DEF GrowsInv, RotateGrant, NewWraps
    <3>3. CASE RotateRevoke(i) \/ UnshareKey(i)
      <4>1. \A u \in Users : keys'[u] \in {keys[u], None}
        BY <1>l, <3>3 DEF RotateRevoke, UnshareKey
      <4> QED
        BY <1>e, <1>t, <2>2, <4>1 DEF GrowsInv
    <3>4. CASE ShareGrant(i) /\ s[i].pc = "shGrant"
      <4>1. s[i].e <= file.hier /\ s[i].e \in Int
        BY <1>s, <1>e, <3>4 DEF GrowsInv, Sharing, SlotRec
      <4> QED
        BY <1>t, <1>l, <2>2, <3>4, <4>1 DEF GrowsInv, ShareGrant
    <3> QED
      BY <1>1, <3>1, <3>2, <3>3, <3>4, Acts, CrashIdles, Frames
  <2>6. \A u \in Users : link'[u] <= file'.hier
    <3>1. CASE link' = link
      BY <1>t, <2>2, <3>1 DEF GrowsInv
    <3>2. CASE RotateRevokeLinks(i) \/ UnshareLinks(i)
      <4>1. \A u \in Users : link'[u] \in {link[u], None}
        BY <1>l, <3>2 DEF RotateRevokeLinks, UnshareLinks, RetireLinks, WithoutLinks
      <4> QED
        BY <1>e, <1>t, <2>2, <4>1 DEF GrowsInv
    <3>3. CASE LinkInsert(i) /\ s[i].pc = "lnInsert"
      <4>1. s[i].e <= file.hier /\ s[i].e \in Int
        BY <1>s, <1>e, <3>3 DEF GrowsInv, Linking, SlotRec
      <4> QED
        BY <1>t, <1>l, <2>2, <3>3, <4>1 DEF GrowsInv, LinkInsert
    <3> QED
      BY <1>1, <3>1, <3>2, <3>3, Acts, CrashIdles, Frames
  <2>7. \A u \in Users : since'[u] <= file'.hier
    <3>1. CASE since' = since
      BY <1>t, <2>2, <3>1 DEF GrowsInv
    <3>2. CASE s[i].pc = "flip" /\ s'[i].pc # "idle"
      <4>1. \A u \in Users : since'[u] \in {since[u], s[i].e} /\ file'.hier = s[i].e
        BY <1>1, <1>l, <3>2, Flips
      <4> QED
        BY <1>e, <1>t, <2>2, <4>1 DEF GrowsInv
    <3>3. CASE ShareGrant(i) \/ UnshareKey(i)
      <4>1. \A u \in Users : since'[u] \in {since[u], None, file.hier}
        BY <1>l, <3>3 DEF ShareGrant, UnshareKey
      <4> QED
        BY <1>e, <1>t, <2>2, <4>1 DEF GrowsInv
    <3>4. s[i].pc = "flip" /\ s'[i].pc = "idle" => since' = since
      <4>1. RotateFlip(i) => s'[i].pc # "idle"
        BY SlotTyped DEF RotateFlip, Goto, TypeInv, SlotRec
      <4> QED
        BY <1>1, <4>1, Acts, CrashIdles
    <3> QED
      BY <1>1, <3>1, <3>2, <3>3, <3>4, Acts, CrashIdles, Frames
  <2> QED
    BY <2>3, <2>4, <2>5, <2>6, <2>7 DEF GrowsInv
<1>2. CASE Client
  <2>1. \A u \in Users : since'[u] \in {since[u], None}
    BY <1>2 DEF Client, PrepareRotation, ListAgain, Resend, SetHold, GivenBack
  <2> QED
    BY <1>2, <1>e, <1>t, <2>1, ClientFrames DEF GrowsInv
<1>3. CASE UNCHANGED vars
  BY <1>3 DEF vars, GrowsInv
<1> QED
  BY <1>1, <1>2, <1>3, NextCases
\* An era that is over stays so: only the newest is committed again.
LEMMA RetiredStays ==
  ASSUME TypeInv, SlotInv, [Next]_vars, NEW x \in Eras, Retired(x)
  PROVE  Retired(x)'
<1>r. rot \in [Eras -> RotRec]
  BY RotTyped DEF TypeInv
<1>1. ASSUME NEW i \in Slot, SlotStep(i)
      PROVE  Retired(x)'
  <2>1. \A d \in Eras : rot'[d].state = "none" <=> rot[d].state = "none"
    BY <1>1, EraSteps
  <2>2. rot'[x] = rot[x]
    BY <1>1, <1>r, RotSteps DEF Answer, Retired
  <2> QED
    BY <2>1, <2>2 DEF Retired, Newest
<1>2. ASSUME NEW e \in Eras, NEW u \in Users, PrepareRotation(e, u)
      PROVE  Retired(x)'
  <2>1. \A d \in Eras \ {e} : rot'[d] = rot[d]
    BY <1>2, <1>r DEF PrepareRotation
  <2>2. rot[e].state = "none" /\ rot'[e].state = "ready" /\ e # x
    BY <1>2, <1>r DEF PrepareRotation, Retired
  <2> QED
    BY <2>1, <2>2 DEF Retired, Newest
<1>3. ASSUME NEW e \in Eras, ListAgain(e)
      PROVE  Retired(x)'
  <2>1. rot[e].state = "again" /\ e # x
    BY <1>3 DEF ListAgain, Retired
  <2>2. \A d \in Eras \ {e} : rot'[d] = rot[d]
    BY <1>3, <1>r DEF ListAgain
  <2>3. rot'[e].state = "ready"
    <3> DEFINE p == [rot[e] EXCEPT !.state = "ready", !.retried = TRUE,
                                   !.rem = Holders \ {rot[e].out}]
    <3>1. p.state = "ready"
      BY <1>r DEF RotRec
    <3>2. rot' = [rot EXCEPT ![e] = p]
      BY <1>3 DEF ListAgain
    <3> HIDE DEF p
    <3> QED
      BY <1>r, <3>1, <3>2
  <2> QED
    BY <2>1, <2>2, <2>3 DEF Retired, Newest
<1>4. ASSUME NEW e \in Eras, Resend(e)
      PROVE  Retired(x)'
  <2>1. rot[e].state = "failed" /\ Newest(e) /\ e # x
    BY <1>4 DEF Resend, Newest, Retired
  <2>2. (\A d \in Eras \ {e} : rot'[d] = rot[d]) /\ rot'[e].state = "ready"
    BY <1>4, <1>r DEF Resend, Answer, RotRec
  <2> QED
    BY <2>1, <2>2 DEF Retired, Newest
<1>5. CASE SetHold \/ UNCHANGED vars
  BY <1>5 DEF SetHold, vars, Retired, Newest
<1> QED
  BY <1>1, <1>2, <1>3, <1>4, <1>5, NextCases DEF Client

LEMMA OldNext ==
  ASSUME TypeInv, SlotInv, EraInv, RowInv, OldInv, "tabs" \notin Ops, [Next]_vars
  PROVE  OldInv'
<1>s. \A k \in Slot : s[k] \in SlotRec
  BY SlotTyped DEF TypeInv
<1>1. ASSUME NEW x \in Era, x \in {None, 0} \/ Retired(x)
      PROVE  x \in {None, 0} \/ Retired(x)'
  BY <1>1, RetiredStays DEF Era
<1>2. ASSUME NEW i \in Slot, SlotStep(i)
      PROVE  OldInv'
  <2> SUFFICES ASSUME NEW k \in Slot, s'[k].pc \in Compared \cup After \cup {"blobs"},
                      NEW x \in s'[k].old
               PROVE  x \in {None, 0} \/ Retired(x)'
    BY DEF OldInv
  <2>1. CASE k # i
    <3>1. s'[k] = s[k]
      BY <1>2, <2>1, Others
    <3> QED
      BY <1>1, <1>s, <3>1 DEF OldInv, SlotRec
  <2>2. CASE k = i /\ s[i].pc = "old"
    <3>1. s'[i].pc = "measure"
      BY <1>2, <2>2, SlotSteps DEF Passes, Arrives, CanStart, At, IdleSlot, Compared, After
    <3>2. x \in {None, 0} \/ Retired(x)
      BY <1>2, <2>2, <3>1, FindsOlder
    <3>3. x \in Era
      BY <1>2, <2>2, <3>1, FindsOlder DEF TypeInv, TypeOK
    <3> QED
      BY <1>1, <3>2, <3>3
  <2>3. CASE k = i /\ s[i].pc # "old"
    <3>1. s[i].pc \in Compared \cup After
      BY <1>2, <2>3, SlotSteps DEF Passes, Arrives, CanStart, At, IdleSlot, Compared, After
    <3>2. s'[i].old = s[i].old
      BY <1>2, <2>3, <3>1, Locals DEF Compared, After
    <3> QED
      BY <1>1, <1>s, <2>3, <3>1, <3>2 DEF OldInv, SlotRec
  <2> QED
    BY <2>1, <2>2, <2>3
<1>3. CASE Client \/ UNCHANGED vars
  <2>1. s' = s
    BY <1>3, ClientKeepsSlots DEF vars
  <2> QED
    BY <1>1, <1>s, <2>1 DEF OldInv, SlotRec
<1> QED
  BY <1>2, <1>3, NextCases

-----------------------------------------------------------------------------
(* Without overlap.                                                        *)

\* While one request runs the others are idle, and none arrives.
LEMMA Alone ==
  ASSUME SlotInv, ~Overlap, NEW i \in Slot, s[i].pc # "idle", NEW k \in Slot, k # i
  PROVE  s[k].pc = "idle"
BY DEF SlotInv, At

LEMMA OnlyOne ==
  ASSUME TypeInv, SlotInv, ~Overlap, NEW i \in Slot, SlotStep(i), NEW k \in Slot, k # i
  PROVE  s[k].pc = "idle" /\ s'[k] = s[k]
<1>1. Begin(i) => CanStart(i)
  BY DEF Begin, StartUpload, StartCommit, StartUnshare, StartLink, StartShare
<1>2. s[i].pc # "idle" \/ Begin(i)
  BY Acts
<1> QED
  BY <1>1, <1>2, Alone, Others DEF CanStart, At

\* The era a request acts for is that of the files row when it arrived.
LEMMA ArrivesWith ==
  ASSUME TypeInv, NEW i \in Slot, SlotStep(i), s[i].pc = "idle",
         s'[i].pc \in {"shCheck", "lnCheck", "upInsert"}
  PROVE  s'[i].e = file.hier
<1>1. \A r : Start(i, r) => s'[i] = r
  BY SlotTyped DEF Start, TypeInv
<1>2. ASSUME NEW e \in Eras, StartCommit(i, e)
      PROVE  s'[i].pc = "acl"
  BY <1>1, <1>2 DEF StartCommit, IdleSlot
<1>3. StartUpload(i) => s'[i].e = file.hier
  BY <1>1 DEF StartUpload, IdleSlot
<1>4. ASSUME NEW u \in Users
      PROVE  /\ StartUnshare(i, u) => s'[i].pc = "unKey"
             /\ StartLink(i, u) => s'[i].e = file.hier
  BY <1>1 DEF StartUnshare, StartLink, IdleSlot
<1>5. ASSUME NEW u \in Users, NEW a \in Users, StartShare(i, a, u)
      PROVE  s'[i].e = file.hier
  BY <1>1, <1>5 DEF StartShare, IdleSlot
<1> QED
  BY <1>2, <1>3, <1>4, <1>5, Acts DEF Begin

LEMMA SerialInit == Init => SerialInv
<1> SUFFICES ASSUME Init PROVE SerialInv
  OBVIOUS
<1>1. \A i \in Slot : s[i].pc = "idle"
  BY DEF Init, IdleSlot
<1> QED
  BY <1>1 DEF SerialInv, Sharing, Linking, Loading

LEMMA SerialNext ==
  ASSUME TypeInv, SlotInv, SerialInv, ~Overlap, [Next]_vars
  PROVE  SerialInv'
<1>1. ASSUME NEW i \in Slot, SlotStep(i)
      PROVE  SerialInv'
  <2> SUFFICES ASSUME NEW k \in Slot, s'[k].pc \in Sharing \cup Linking \cup Loading
               PROVE  s'[k].e = file'.hier
    BY DEF SerialInv
  <2>0. s'[k].pc # "idle"
    BY DEF Sharing, Linking, Loading
  <2>1. k = i
    BY <1>1, <2>0, OnlyOne
  <2>2. CASE s[i].pc = "idle"
    <3>1. s'[i].pc \in {"shCheck", "lnCheck", "upInsert"}
      BY <1>1, <2>1, <2>2, SlotSteps DEF Passes, Arrives, IdleSlot, Sharing, Linking, Loading
    <3> QED
      BY <1>1, <2>1, <2>2, <3>1, ArrivesWith, HierSteps
  <2>3. CASE s[i].pc # "idle"
    <3>1. s[i].pc \in Sharing \cup Linking \cup Loading /\ s'[i].e = s[i].e
      BY <1>1, <2>1, <2>3, SlotSteps
      DEF Passes, Arrives, CanStart, At, IdleSlot, Sharing, Linking, Loading
    <3>2. s[i].pc # "flip"
      BY <3>1 DEF Sharing, Linking, Loading
    <3> QED
      BY <1>1, <2>1, <3>1, <3>2, HierSteps DEF SerialInv
  <2> QED
    BY <2>2, <2>3
<1>2. CASE Client
  BY <1>2, ClientFrames DEF SerialInv
<1>3. CASE UNCHANGED vars
  BY <1>3 DEF vars, SerialInv
<1> QED
  BY <1>1, <1>2, <1>3, NextCases
-----------------------------------------------------------------------------
(* The current version stays readable.                                     *)

LEMMA CurrentInit == Init => CurrentInv
<1> SUFFICES ASSUME Init PROVE CurrentInv
  OBVIOUS
<1>1. \A i \in Slot : s[i].pc = "idle"
  BY DEF Init, IdleSlot
<1>2. Doomed = {}
  BY <1>1 DEF Doomed, At
<1>3. Whole([id |-> 1, num |-> 1, hier |-> 0, pre |-> 0, full |-> TRUE])
  BY <1>2 DEF Init, Whole, Safe
<1> QED
  BY <1>1, <1>3 DEF Init, CurrentInv, Compared, Measured, After, Loading

\* Objects go by a clean-up that lists them, or by the check of their commit.
LEMMA SafeLasts ==
  ASSUME TypeInv, NEW i \in Slot, SlotStep(i), NEW x, Safe(x),
         s[i].pc = "links" => x \notin s[i].old,
         s[i].pc = "measure" => x # s[i].e
  PROVE  Safe(x)'
<1>1. x \in blob'
  <2>1. CASE s[i].pc = "measure" /\ RotateMeasure(i)
    BY <2>1 DEF RotateMeasure, Safe
  <2>2. CASE s[i].pc = "blobs" /\ RotateDeleteObjects(i)
    BY <2>2 DEF RotateDeleteObjects, Safe, Doomed, At
  <2>3. CASE blob' = blob
    BY <2>3 DEF Safe
  <2> QED
    BY <2>1, <2>2, <2>3, Acts, CrashIdles, Frames
<1>2. ASSUME NEW k \in Slot, s'[k].pc = "blobs"
      PROVE  x \notin s'[k].old
  <2>1. CASE k # i
    BY <1>2, <2>1, Others DEF Safe, Doomed, At
  <2>2. CASE k = i
    <3>1. s[i].pc = "links"
      BY <1>2, <2>2, SlotSteps DEF Passes, Arrives, IdleSlot
    <3> QED
      BY <1>2, <2>2, <3>1, Locals
  <2> QED
    BY <2>1, <2>2
<1> QED
  BY <1>1, <1>2 DEF Safe, Doomed, At

\* A replacement is under way only where requests do not overlap.
LEMMA LoadsAlone ==
  ASSUME SlotInv, NoLateUpload, NEW i \in Slot, s[i].pc \in Loading
  PROVE  ~Overlap
BY DEF SlotInv, NoLateUpload

\* A commit measures its objects: nobody is about to delete them.
LEMMA MeasuredSafe ==
  ASSUME TypeInv, SlotInv, "tabs" \notin Ops => OldInv, ~Overlap \/ "tabs" \notin Ops,
         NEW i \in Slot, s[i].pc = "measure", s[i].e \in blob
  PROVE  Safe(s[i].e)
<1> SUFFICES ASSUME NEW k \in Slot, s[k].pc = "blobs", s[i].e \in s[k].old PROVE FALSE
  BY DEF Safe, Doomed, At
<1>1. s[i].e \in Eras \ {0} /\ s[i].e # None /\ rot[s[i].e].state = "sent"
  BY Bounds, Names DEF TypeInv, Carries, SlotInv
<1>2. Overlap
  BY DEF SlotInv, At
<1>3. s[i].e \in {None, 0} \/ Retired(s[i].e)
  BY <1>2 DEF OldInv
<1> QED
  BY <1>1, <1>3 DEF Retired

LEMMA CurrentStep ==
  ASSUME TypeInv, SlotInv, EraInv, RowInv, CurrentInv, NoLateUpload,
         ~Overlap => SerialInv, NEW i \in Slot, SlotStep(i)
  PROVE  /\ file'.wrap = file'.hier
         /\ \E v \in rows' : v.num = file'.cur /\ v.hier = file'.hier /\ Whole(v)'
<1>o. OneCommit
  BY DEF NoLateUpload, OneCommit
<1>f. file \in [cur: 0..MaxRow, hier: Eras, wrap: Eras, held: BOOLEAN]
  BY DEF TypeInv, TypeOK
<1>1. ASSUME NEW v \in rows, Whole(v), NEW w \in rows', w.pre = v.pre, w.full,
             s[i].pc = "links" => v.pre \notin s[i].old \/ v.pre = None,
             s[i].pc = "measure" => v.pre # s[i].e
      PROVE  Whole(w)'
  BY <1>1, SafeLasts DEF Whole
<1>2. CASE s[i].pc = "flip" /\ s'[i].pc # "idle"
  <2>1. PICK v \in rows : OwnRow(s[i], v) /\ v.full
    BY <1>2 DEF RowInv
  <2>2. Safe(s[i].e)
    BY <1>2 DEF CurrentInv, Measured, Compared
  <2>3. Whole(v)
    BY <2>1, <2>2 DEF Whole, OwnRow
  <2>4. v \in rows'
    BY <1>2, <2>1, Frames
  <2> QED
    BY <1>1, <1>2, <2>1, <2>3, <2>4, Flips DEF OwnRow
<1>3. CASE s[i].pc \in After
  <2>1. PICK v \in rows : OwnRow(s[i], v) /\ v.full
    BY <1>3 DEF RowInv
  <2>2. /\ Safe(s[i].e) /\ file.cur = s[i].num /\ file.hier = s[i].e
        /\ s[i].e \notin s[i].old
    BY <1>3 DEF CurrentInv, RowInv
  <2>3. PICK w \in rows' : OwnRow(s[i], w) /\ w.full
    BY <2>1, RowLasts DEF OwnRow
  <2>4. Whole(v) /\ w.pre = v.pre /\ v.pre = s[i].e
    BY <2>1, <2>2, <2>3 DEF Whole, OwnRow
  <2>5. Whole(w)'
    BY <1>1, <1>3, <2>2, <2>3, <2>4 DEF After
  <2>6. file' = file
    BY <1>3, Frames DEF After
  <2> QED
    BY <2>2, <2>3, <2>5, <2>6 DEF OwnRow, CurrentInv
<1>4. CASE s[i].pc = "upFlip" /\ UploadFlip(i)
  <2>1. ~Overlap /\ s[i].e = file.hier
    BY <1>4, LoadsAlone DEF SerialInv, Loading
  <2>2. PICK v \in rows : /\ v.num = s[i].num /\ v.hier = s[i].e
                          /\ v.pre = None /\ v.full
    BY <1>4 DEF CurrentInv, Loading
  <2>3. rows' = rows /\ file'.cur = s[i].num /\ file'.wrap = s[i].e /\ file'.hier = file.hier
    BY <1>4, <1>f DEF UploadFlip
  <2> QED
    BY <2>1, <2>2, <2>3 DEF Whole
<1>5. CASE file' = file /\ s[i].pc \notin After
  <2>1. PICK v \in rows : v.num = file.cur /\ v.hier = file.hier /\ Whole(v)
    BY DEF CurrentInv
  <2>2. PICK w \in rows' : /\ w.num = v.num /\ w.hier = v.hier /\ w.pre = v.pre
                           /\ v.full => w.full
    BY <1>5, RowLasts DEF After
  <2>3. s[i].pc = "measure" => v.pre # s[i].e
    BY <2>1 DEF CurrentInv, Whole
  <2>4. Whole(w)'
    BY <1>1, <1>5, <2>1, <2>2, <2>3 DEF After, Whole
  <2> QED
    BY <1>5, <2>1, <2>2, <2>4 DEF CurrentInv
<1>6. s[i].pc = "flip" /\ s'[i].pc = "idle" => file' = file
  <2>1. RotateFlip(i) => s'[i].pc # "idle"
    BY SlotTyped DEF RotateFlip, Goto, TypeInv, SlotRec
  <2> QED
    BY <2>1, Acts, CrashIdles
<1>7. s[i].pc = "upFlip" => UploadFlip(i) \/ file' = file
  BY Acts, CrashIdles
<1> QED
  BY <1>2, <1>3, <1>4, <1>5, <1>6, <1>7, Frames DEF After

LEMMA CurrentSlots ==
  ASSUME TypeInv, SlotInv, EraInv, RowInv, CurrentInv, NoLateUpload,
         "tabs" \notin Ops => OldInv, NEW i \in Slot, SlotStep(i), NEW k \in Slot
  PROVE  /\ s'[k].pc = "measure" => \A v \in rows' : v.full => v.pre # s'[k].e
         /\ s'[k].pc \in Compared \cup After => s'[k].e \notin s'[k].old
         /\ s'[k].pc \in Measured \cup After => Safe(s[k].e)'
         /\ s'[k].pc \in After => file'.cur = s'[k].num
         /\ s'[k].pc \in Loading \ {"upInsert"} =>
              \E v \in rows' : /\ v.id = s'[k].row /\ v.num = s'[k].num /\ v.hier = s'[k].e
                               /\ v.pre = None /\ (s'[k].pc = "upFlip" => v.full)
<1>o. OneCommit
  BY DEF NoLateUpload, OneCommit
<1>1. CASE k # i
  <2>1. s'[k] = s[k]
    BY <1>1, Others
  <2>2. CASE s[k].pc \in Committing
    <3>1. s[i].pc \notin Committing
      BY <1>1, <1>o, <2>2, Committer
    <3>2. s[i].pc \notin Loading
      BY <1>1, <2>2, LoadsAlone, OnlyOne, Names
    <3>3. rows' = rows /\ file' = file
      BY <3>1, <3>2, Frames, Names DEF Loading
    <3>4. Safe(s[k].e) => Safe(s[k].e)'
      BY <2>1, <3>1, SafeLasts, Names
    <3> QED
      BY <2>1, <2>2, <3>3, <3>4, Names DEF CurrentInv, Loading
  <2>3. CASE s[k].pc \in Loading
    BY <1>1, <2>3, LoadsAlone, OnlyOne DEF Loading
  <2> QED
    BY <2>1, <2>2, <2>3, Names DEF Compared, Measured, After, Loading
<1>2. CASE k = i /\ s'[i].pc \in Committing
  <2>0. CASE s'[i].pc \in {"acl", "old"}
    BY <1>2, <2>0, Names DEF Compared, Measured, After, Loading
  <2>1. CASE s'[i].pc = "measure"
    <3>1. s[i].pc = "old" /\ s'[i].e = s[i].e
      BY <2>1, SlotSteps DEF Passes, Arrives, IdleSlot
    <3>2. RotateReadOldChunks(i) /\ rows' = rows
      BY <2>1, <3>1, Acts, CrashIdles, Frames DEF IdleSlot
    <3> DEFINE old == {v.pre : v \in {w \in rows : w.full}}
    <3>3. ~Return(i)
      BY <2>1, SlotTyped DEF Return, IdleSlot, TypeInv
    <3>4. ~Reuses(s[i].e, old) /\ s'[i].old = old
      <4> DEFINE r == [s[i] EXCEPT !.pc = "measure", !.old = old]
      <4>1. ~Reuses(s[i].e, old) /\ s' = [s EXCEPT ![i] = r]
        BY <3>2, <3>3, SlotTyped DEF RotateReadOldChunks, Fail, TypeInv
      <4>2. r.old = old
        BY SlotTyped DEF TypeInv, SlotRec
      <4> HIDE DEF r, old
      <4> QED
        BY <4>1, <4>2, SlotTyped DEF TypeInv
    <3>5. s[i].e \notin old
      BY <3>4 DEF Reuses
    <3>6. \A v \in rows : v.full => v.pre # s[i].e
      BY <3>5
    <3> HIDE DEF old
    <3> QED
      BY <1>2, <2>1, <3>1, <3>2, <3>4, <3>5, <3>6 DEF Measured, After, Loading
  <2>2. CASE s'[i].pc \in Measured \cup After
    <3>1. s[i].pc \in Compared \cup After /\ s'[i].e = s[i].e /\ s[i].pc # "links"
      BY <2>2, SlotSteps DEF Passes, Arrives, IdleSlot, Measured, Compared, After
    <3>2. s'[i].old = s[i].old
      BY <2>2, <3>1, Locals DEF Measured, Compared, After
    <3>3. s[i].e \notin s[i].old
      BY <3>1 DEF CurrentInv
    <3>4. Safe(s[i].e)'
      <4>1. CASE s[i].pc = "measure"
        <5>1. RotateMeasure(i) /\ ~Return(i)
          BY <2>2, <4>1, Acts, CrashIdles, SlotTyped
          DEF IdleSlot, Return, Measured, Compared, After, TypeInv
        <5>2. s[i].e \in blob /\ blob' = blob
          BY <5>1 DEF RotateMeasure, Fail
        <5>3. Safe(s[i].e)
          BY <4>1, <5>2, <1>o, MeasuredSafe DEF OneCommit
        <5>4. Doomed' \subseteq Doomed
          <6> SUFFICES ASSUME NEW j \in Slot, s'[j].pc = "blobs" PROVE s[j] = s'[j]
            BY DEF Doomed, At
          <6>1. j # i
            BY <2>2 DEF Measured, Compared, After
          <6> QED
            BY <6>1, Others
        <5> QED
          BY <3>1, <5>2, <5>3, <5>4 DEF Safe
      <4>2. CASE s[i].pc # "measure"
        <5>1. Safe(s[i].e)
          BY <3>1, <4>2 DEF CurrentInv, Measured
        <5> QED
          BY <3>1, <4>2, <5>1, SafeLasts
      <4> QED
        BY <4>1, <4>2
    <3>5. s'[i].pc \in After => file'.cur = s'[i].num
      <4>1. s'[i].pc \in After => s'[i].num = s[i].num
        BY <2>2, <3>1, Locals DEF Measured, Compared, After
      <4>2. CASE s[i].pc = "flip"
        BY <2>2, <4>1, <4>2, Flips DEF Measured, Compared, After
      <4>3. CASE s[i].pc # "flip" /\ s'[i].pc \in After
        <5>1. s[i].pc \in After
          BY <4>3, SlotSteps DEF Passes, Arrives, IdleSlot, After
        <5>2. file' = file
          BY <5>1, Frames DEF After
        <5> QED
          BY <4>1, <4>3, <5>1, <5>2 DEF CurrentInv
      <4> QED
        BY <4>2, <4>3
    <3> QED
      BY <1>2, <2>2, <3>1, <3>2, <3>3, <3>4, <3>5 DEF Measured, Compared, After, Loading
  <2> QED
    BY <1>2, <2>0, <2>1, <2>2, Names DEF Measured, Compared, After
<1>3. CASE k = i /\ s'[i].pc \in Loading \ {"upInsert"}
  <2>1. s[i].pc \in Loading \ {"upFlip"} /\ s'[i].e = s[i].e
    BY <1>3, SlotSteps DEF Passes, Arrives, IdleSlot, Loading
  <2>2. \E v \in rows' : /\ v.id = s'[i].row /\ v.num = s'[i].num /\ v.hier = s'[i].e
                         /\ v.pre = None /\ (s'[i].pc = "upFlip" => v.full)
    <3>1. CASE s[i].pc = "upInsert"
      <4>1. s'[i].pc = "upRead"
        BY <1>3, <3>1, SlotSteps DEF Passes, Arrives, CanStart, At, IdleSlot, Loading
      <4> QED
        BY <3>1, <4>1, OwnRowMade
    <3>2. CASE s[i].pc = "upRead"
      <4>1. s'[i].pc = "upChunks" /\ rows' = rows
        BY <1>3, <3>2, SlotSteps, Frames DEF Passes, Arrives, CanStart, At, IdleSlot, Loading
      <4>2. s'[i].row = s[i].row /\ s'[i].num = s[i].num
        BY <3>2, <4>1, Locals
      <4> QED
        BY <2>1, <3>2, <4>1, <4>2 DEF CurrentInv, Loading
    <3>3. CASE s[i].pc = "upChunks"
      <4>1. s'[i].pc = "upFlip"
        BY <1>3, <3>3, SlotSteps DEF Passes, Arrives, CanStart, At, IdleSlot, Loading
      <4>2. s'[i].row = s[i].row /\ s'[i].num = s[i].num
        BY <3>3, <4>1, Locals
      <4>3. PICK v \in rows : /\ v.id = s[i].row /\ v.num = s[i].num /\ v.hier = s[i].e
                              /\ v.pre = None
        BY <3>3 DEF CurrentInv, Loading
      <4> QED
        BY <2>1, <3>3, <4>1, <4>2, <4>3, RowFilled
    <3> QED
      BY <2>1, <3>1, <3>2, <3>3 DEF Loading
  <2> QED
    BY <1>3, <2>2 DEF Loading, Compared, Measured, After
<1> QED
  BY <1>1, <1>2, <1>3, Names DEF Compared, Measured, After, Loading

LEMMA CurrentNext ==
  ASSUME TypeInv, SlotInv, EraInv, RowInv, CurrentInv, NoLateUpload,
         "tabs" \notin Ops => OldInv, ~Overlap => SerialInv, [Next]_vars
  PROVE  CurrentInv'
<1>1. ASSUME NEW i \in Slot, SlotStep(i)
      PROVE  CurrentInv'
  BY <1>1, CurrentStep, CurrentSlots DEF CurrentInv
<1>2. CASE Client
  <2>1. \A x : Safe(x) => Safe(x)'
    BY <1>2, ClientFrames DEF Safe, Doomed, At
  <2>2. \A v : Whole(v) => Whole(v)'
    BY <2>1 DEF Whole
  <2> QED
    BY <1>2, <2>1, <2>2, ClientFrames DEF CurrentInv
<1>3. CASE UNCHANGED vars
  BY <1>3 DEF vars, CurrentInv, Whole, Safe, Doomed, At
<1> QED
  BY <1>1, <1>2, <1>3, NextCases
-----------------------------------------------------------------------------
(* A removed collaborator stays out.                                       *)

\* A request changes of a rotation its state only.
LEMMA RotKeeps ==
  ASSUME TypeInv, SlotInv, NEW i \in Slot, SlotStep(i), NEW e \in Eras
  PROVE  /\ rot'[e].rem = rot[e].rem /\ rot'[e].out = rot[e].out
         /\ rot'[e] = rot[e] \/ rot'[e].state \in {"failed", "again", "done", "sent"}
         /\ s[i].pc # "links" /\ rot'[e].state = "done" => rot[e].state = "done"
         /\ Live(e)' => Live(e)
<1>r. rot \in [Eras -> RotRec]
  BY RotTyped DEF TypeInv
<1>1. ASSUME NEW x \in Eras, NEW st \in {"failed", "again", "done", "sent"}, Answer(x, st)
      PROVE  /\ rot'[x].state = st /\ rot'[x].rem = rot[x].rem /\ rot'[x].out = rot[x].out
             /\ e # x => rot'[e] = rot[e]
  BY <1>1, <1>r DEF Answer, RotRec
<1>2. \/ rot' = rot
      \/ \E x \in Eras, st \in {"failed", "again", "done", "sent"} :
           Answer(x, st) /\ rot[x].state \in {"ready", "sent"}
  BY RotSteps
<1>3. /\ rot'[e].rem = rot[e].rem /\ rot'[e].out = rot[e].out
      /\ rot'[e] = rot[e] \/ rot'[e].state \in {"failed", "again", "done", "sent"}
  BY <1>1, <1>2
<1>4. ASSUME s[i].pc # "links", rot'[e].state = "done"
      PROVE  rot[e].state = "done"
  <2>1. \/ rot' = rot
        \/ \E x \in Eras, st \in {"failed", "again", "sent"} : Answer(x, st)
    <3>1. \A x \in Eras : Answer(x, "done") /\ x = s[i].e => RotateRevokeLinks(i) \/ rot' = rot
                          \/ \E y \in Eras, st \in {"failed", "again", "sent"} : Answer(y, st)
      <4>1. CASE s[i].pc \in Committing
        <5>1. s[i].e \in Eras
          BY <4>1 DEF TypeInv, Carries
        <5> QED
          BY <1>4, <4>1, <5>1, Acts, Names
          DEF Crash, Fail, RotateCheckAcl, RotateReadOldChunks, RotateMeasure, RotateReadMax,
              RotateInsertVersion, RotateInsertChunks, RotateFlip, RotateDropChunks,
              RotateDropVersions, RotateGrant, RotateRevoke
      <4>2. CASE s[i].pc \notin Committing
        BY <4>2, RotSteps
      <4> QED
        BY <4>1, <4>2
    <3>2. ~RotateRevokeLinks(i)
      BY <1>4 DEF RotateRevokeLinks, At
    <3> QED
      BY <3>1, <3>2, RotSteps
  <2> QED
    BY <1>1, <1>4, <2>1
<1>5. Live(e)' => Live(e)
  <2>1. \A d \in Eras : rot'[d].state = "none" <=> rot[d].state = "none"
    BY EraSteps
  <2>2. Newest(e)' => Newest(e)
    BY <2>1 DEF Newest
  <2>3. rot'[e].state = "failed" => rot[e].state = "failed" \/ Open(e)
    BY <1>1, <1>2 DEF Open
  <2>4. Open(e)' => Open(e)
    BY EraSteps DEF Open
  <2> QED
    BY <2>2, <2>3, <2>4 DEF Live
<1> QED
  BY <1>3, <1>4, <1>5

\* With one tab only the commit under way can still be committed.
LEMMA LiveIsSent ==
  ASSUME TypeInv, SlotInv, EraInv, "tabs" \notin Ops,
         NEW i \in Slot, s[i].pc \in Committing, NEW e \in Eras, Live(e)
  PROVE  e = s[i].e
<1>1. s[i].e \in Eras /\ rot[s[i].e].state = "sent"
  BY DEF TypeInv, Carries, SlotInv
<1>2. Newest(s[i].e) /\ \A d \in Eras \ {s[i].e} : ~Open(d)
  BY <1>1 DEF EraInv, Open
<1>3. ASSUME e # s[i].e PROVE FALSE
  <2>1. rot[e].state = "failed" /\ Newest(e)
    BY <1>2, <1>3 DEF Live
  <2>2. e < s[i].e
    BY <1>1, <1>2, <1>3, <2>1, Bounds DEF Newest, Eras
  <2> QED
    BY <1>1, <2>1, <2>2 DEF Newest
<1> QED
  BY <1>3

\* What ShareGrant leaves of the removal of the one it grants.
LEMMA ShareGives ==
  ASSUME TypeInv, NEW i \in Slot, ShareGrant(i), NEW u \in Users
  PROVE  \/ keys'[u] = keys[u] /\ since'[u] = since[u]
         \/ /\ u = s[i].user /\ keys'[u] = s[i].e
            /\ since'[u] = IF s[i].e >= since[u] THEN None ELSE since[u]
BY DEF ShareGrant, TypeInv, TypeOK

LEMMA RevokedInit == Init => RevokedInv
<1> SUFFICES ASSUME Init PROVE RevokedInv
  OBVIOUS
<1>1. \A i \in Slot : s[i].pc = "idle"
  BY DEF Init, IdleSlot
<1> QED
  BY <1>1 DEF Init, RevokedInv, RevokedLosesAccess, Compared

LEMMA RevokedStep ==
  ASSUME TypeInv, SlotInv, EraInv, RowInv, GrowsInv, RevokedInv, NoLateUnshare,
         ~Overlap => SerialInv, NEW i \in Slot, SlotStep(i)
  PROVE  RevokedInv'
<1> DEFINE Sure == {"old", "dropChunks", "dropVersions", "grant"} \cup Compared
<1>o. OneCommit /\ "tabs" \notin Ops
  BY DEF NoLateUnshare, OneCommit
<1>r. rot \in [Eras -> RotRec]
  BY RotTyped DEF TypeInv
<1>e. Eras \subseteq Int /\ Era \subseteq Int /\ None \in Int /\ \A d \in Eras : None < d
  BY Bounds DEF Eras, Era, None
<1>l. /\ keys \in [Users -> Era] /\ since \in [Users -> Era] /\ file.hier \in Eras
      /\ \A d \in Era : d # None => None < d
  BY <1>e DEF TypeInv, TypeOK, Era
<1>s. \A k \in Slot : /\ s[k].e \in Era /\ s[k].user \in Users
                      /\ s[k].pc \in Committing => s[k].e \in Eras /\ rot[s[k].e].out \in Users
  BY <1>r, SlotTyped DEF TypeInv, SlotRec, Carries, RotRec
<1>n. /\ file.hier \in Int /\ None < file.hier /\ \A d \in Era : d \in Int /\ d >= None
      /\ \A u \in Users : keys[u] \in Int /\ since[u] \in Int
      /\ \A k \in Slot : s[k].e \in Int /\ s[k].e >= None
  <2>1. \A d \in Era : d \in Int /\ d >= None
    BY <1>e DEF Era
  <2> QED
    BY <1>e, <1>l, <1>s, <2>1
<1>1. \A e \in Eras : /\ rot'[e].rem = rot[e].rem /\ rot'[e].out = rot[e].out
                      /\ Live(e)' => Live(e)
  BY RotKeeps
<1>2. \A e \in Eras : rot'[e].out \notin rot'[e].rem
  BY <1>1 DEF RevokedInv
<1>g. \A u \in Users, e \in Eras : u \in rot[e].rem => u \in Users
  OBVIOUS
\* The keys, and the rotations that may still be committed.
<1>3. ASSUME NEW u \in Users
      PROVE  since'[u] # None => keys'[u] < since'[u]
  <2>0. since[u] # None => keys[u] < since[u]
    BY DEF RevokedInv, RevokedLosesAccess
  <2>1. CASE UNCHANGED <<keys, since>>
    BY <2>0, <2>1
  <2>2. CASE s[i].pc = "flip" /\ s'[i].pc # "idle"
    <3>1. keys[u] <= file.hier /\ file.hier < s[i].e
      BY <2>2 DEF GrowsInv, Compared
    <3>2. keys[u] < s[i].e
      BY <1>n, <3>1
    <3>3. keys' = keys /\ since' = [since EXCEPT ![rot[s[i].e].out] = s[i].e]
      BY <2>2, Flips, Frames
    <3> QED
      BY <1>l, <2>0, <3>2, <3>3
  <2>3. CASE s[i].pc = "grant" /\ RotateGrant(i)
    <3>1. u \in rot[s[i].e].rem => since[u] = None
      BY <2>3 DEF RevokedInv
    <3> QED
      BY <2>0, <2>3, <3>1 DEF RotateGrant, NewWraps
  <2>4. CASE RotateRevoke(i)
    BY <1>l, <2>0, <2>4 DEF RotateRevoke
  <2>5. CASE ShareGrant(i)
    BY <1>e, <1>n, <2>0, <2>5, ShareGives
  <2>6. CASE UnshareKey(i)
    <3>1. \/ keys'[u] = keys[u] /\ since'[u] = since[u]
          \/ keys'[u] = None /\ since'[u] = file.hier
      BY <1>l, <2>6 DEF UnshareKey
    <3> QED
      BY <1>e, <1>l, <2>0, <3>1
  <2>7. s[i].pc = "flip" /\ s'[i].pc = "idle" => since' = since
    <3>1. RotateFlip(i) => s'[i].pc # "idle"
      BY SlotTyped DEF RotateFlip, Goto, TypeInv, SlotRec
    <3> QED
      BY <3>1, Acts, CrashIdles
  <2> QED
    BY <2>1, <2>2, <2>3, <2>4, <2>5, <2>6, <2>7, Acts, CrashIdles, Frames
<1>4. ASSUME NEW e \in Eras, Live(e)', NEW u \in rot'[e].rem
      PROVE  since'[u] = None \/ (~Overlap /\ keys'[u] = None)
  <2>0. /\ u \in rot[e].rem /\ u \in Users /\ Live(e) /\ u # rot[e].out
        /\ since[u] = None \/ (~Overlap /\ keys[u] = None)
    BY <1>1, <1>r, <1>4 DEF RevokedInv, RotRec
  <2>1. CASE UNCHANGED <<keys, since>>
    BY <2>0, <2>1
  <2>2. CASE s[i].pc = "flip" /\ s'[i].pc # "idle"
    <3>1. e = s[i].e
      BY <1>o, <2>0, <2>2, LiveIsSent, Names
    <3> QED
      BY <1>l, <2>0, <2>2, <3>1, Flips, Frames
  <2>3. CASE s[i].pc = "grant" /\ RotateGrant(i)
    <3>1. e = s[i].e
      BY <1>o, <2>0, <2>3, LiveIsSent, Names
    <3>2. since[u] = None
      BY <2>0, <2>3, <3>1 DEF RevokedInv
    <3> QED
      BY <2>3, <3>2 DEF RotateGrant
  <2>4. CASE RotateRevoke(i)
    BY <1>l, <2>0, <2>4 DEF RotateRevoke
  <2>5. CASE ShareGrant(i)
    <3>1. CASE since[u] = None
      <4>1. s[i].e >= None
        BY <1>n
      <4> QED
        BY <2>0, <2>5, <3>1, <4>1, ShareGives
    <3>2. CASE ~Overlap /\ keys[u] = None
      <4>1. s[i].e = file.hier
        BY <2>5, <3>2 DEF SerialInv, ShareGrant, At, Sharing
      <4>2. since[u] <= file.hier
        BY <2>0 DEF GrowsInv
      <4>3. s[i].e >= since[u]
        BY <1>e, <1>l, <1>s, <2>0, <4>1, <4>2
      <4> QED
        BY <2>0, <2>5, <3>2, <4>3, ShareGives
    <3> QED
      BY <2>0, <3>1, <3>2
  <2>6. CASE s[i].pc = "unKey" /\ UnshareKey(i)
    <3>1. ~Overlap
      BY <2>6 DEF SlotInv, NoLateUnshare, Unsharing
    <3>2. \/ keys'[u] = keys[u] /\ since'[u] = since[u]
          \/ keys'[u] = None
      BY <1>l, <2>0, <2>6 DEF UnshareKey
    <3> QED
      BY <2>0, <3>1, <3>2
  <2>7. s[i].pc = "flip" /\ s'[i].pc = "idle" => since' = since
    <3>1. RotateFlip(i) => s'[i].pc # "idle"
      BY SlotTyped DEF RotateFlip, Goto, TypeInv, SlotRec
    <3> QED
      BY <3>1, Acts, CrashIdles
  <2> QED
    BY <2>1, <2>2, <2>3, <2>4, <2>5, <2>6, <2>7, Acts, CrashIdles, Frames
\* The commit under way.
<1>5. ASSUME NEW k \in Slot, s'[k].pc \in Sure, NEW u \in rot'[s'[k].e].rem
      PROVE  since'[u] = None
  <2>1. CASE k = i
    <3>1. s'[i].e = s[i].e /\ s[i].pc \in Sure \cup {"acl"}
      BY <1>5, <2>1, SlotSteps DEF Passes, Arrives, IdleSlot, Compared
    <3>2. u \in rot[s[i].e].rem /\ s[i].e \in Eras /\ s[i].pc \in Committing
      BY <1>1, <1>5, <1>s, <2>1, <3>1, Names DEF Compared
    <3>3. u \in Users /\ u # rot[s[i].e].out
      BY <1>r, <3>2 DEF RevokedInv, RotRec
    <3>4. since[u] = None
      <4>1. CASE s[i].pc = "acl"
        <5>1. RotateCheckAcl(i) /\ ~Return(i)
          BY <1>5, <2>1, <4>1, Acts, CrashIdles, SlotTyped
          DEF IdleSlot, Return, TypeInv, Compared
        <5>2. u \in Holders
          BY <3>2, <5>1 DEF RotateCheckAcl, AclMatches
        <5>3. Live(s[i].e)
          BY <3>2 DEF SlotInv, Live, Open
        <5> QED
          BY <3>2, <5>2, <5>3 DEF RevokedInv, Holders
      <4>2. CASE s[i].pc \in Sure
        BY <3>2, <4>2 DEF RevokedInv
      <4> QED
        BY <3>1, <4>1, <4>2
    <3>5. CASE s[i].pc = "flip"
      BY <1>5, <1>l, <2>1, <3>3, <3>4, <3>5, Flips DEF Compared
    <3>6. CASE s[i].pc # "flip"
      BY <3>1, <3>4, <3>6, Frames DEF Compared
    <3> QED
      BY <3>5, <3>6
  <2>2. CASE k # i
    <3>1. s'[k] = s[k]
      BY <2>2, Others
    <3>2. s[k].pc \in Committing /\ s[k].e \in Eras
      BY <1>5, <1>s, <3>1, Names DEF Compared
    <3>3. u \in rot[s[k].e].rem /\ u \in Users
      BY <1>1, <1>5, <1>r, <3>1, <3>2 DEF RotRec
    <3>4. since[u] = None
      BY <1>5, <3>1, <3>3 DEF RevokedInv
    <3>5. s[i].pc \notin Committing
      BY <1>o, <2>2, <3>2, Committer
    <3>6. s[i].pc # "unKey"
      <4>1. s[i].pc = "unKey" => ~Overlap
        BY DEF SlotInv, NoLateUnshare, Unsharing
      <4> QED
        BY <2>2, <3>2, <4>1, OnlyOne, Names
    <3>7. CASE s[i].pc = "shGrant" /\ ShareGrant(i)
      <4>1. s[i].e >= None
        BY <1>n
      <4> QED
        BY <3>3, <3>4, <3>7, <4>1, ShareGives
    <3>8. s[i].pc # "shGrant" \/ Crash(i) => since' = since
      BY <3>5, <3>6, Frames, CrashIdles, Names
    <3> QED
      BY <3>4, <3>7, <3>8, Acts
  <2> QED
    BY <2>1, <2>2
<1> QED
  BY <1>2, <1>3, <1>4, <1>5 DEF RevokedInv, RevokedLosesAccess

LEMMA RevokedClient ==
  ASSUME TypeInv, SlotInv, EraInv, RevokedInv, Client
  PROVE  RevokedInv'
<1>r. rot \in [Eras -> RotRec]
  BY RotTyped DEF TypeInv
<1>f. keys' = keys /\ s' = s
  BY ClientFrames
<1>s. \A k \in Slot : s[k].pc \in Committing => s[k].e \in Eras /\ rot[s[k].e].state = "sent"
  BY DEF TypeInv, Carries, SlotInv
<1>c. Compared \subseteq Committing /\ {"old", "dropChunks", "dropVersions", "grant"} \subseteq Committing
  BY Names DEF Compared
\* A client that lists its collaborators, and gives them access.
<1>1. ASSUME NEW e \in Eras, NEW p \in RotRec, rot[e].state # "sent",
             p.state = "ready", p.out \notin p.rem,
             rot' = [rot EXCEPT ![e] = p], since' = GivenBack(p.rem)
      PROVE  RevokedInv'
  <2>1. rot'[e] = p /\ \A d \in Eras \ {e} : rot'[d] = rot[d]
    BY <1>1, <1>r
  <2>2. \A u \in Users : /\ since'[u] = None \/ since'[u] = since[u]
                         /\ u \in p.rem => since'[u] = None
    BY <1>1 DEF GivenBack
  <2>3. \A d \in Eras : d # e /\ Live(d)' => Live(d)
    <3>1. \A d \in Eras : rot[d].state # "none" => rot'[d].state # "none"
      BY <1>1, <2>1
    <3>2. \A d \in Eras : Newest(d)' => Newest(d)
      BY <3>1 DEF Newest
    <3> QED
      BY <2>1, <3>2 DEF Live, Open
  <2>4. \A d \in Eras : rot'[d].rem \subseteq Users
    BY <1>1, <1>r, <2>1 DEF RotRec
  <2>5. RevokedLosesAccess'
    BY <1>f, <2>2 DEF RevokedInv, RevokedLosesAccess
  <2>6. \A d \in Eras : rot'[d].out \notin rot'[d].rem
    BY <1>1, <2>1 DEF RevokedInv
  <2>7. ASSUME NEW d \in Eras, Live(d)', NEW u \in rot'[d].rem
        PROVE  since'[u] = None \/ (~Overlap /\ keys'[u] = None)
    BY <1>f, <2>1, <2>2, <2>3, <2>4, <2>7 DEF RevokedInv
  <2>8. ASSUME NEW k \in Slot, NEW u \in rot'[s'[k].e].rem,
               s'[k].pc \in {"old", "dropChunks", "dropVersions", "grant"} \cup Compared
        PROVE  since'[u] = None
    <3>1. s[k].e \in Eras /\ s[k].e # e
      BY <1>1, <1>c, <1>f, <1>s, <2>8
    <3>2. u \in rot[s[k].e].rem /\ u \in Users
      BY <1>f, <2>1, <2>4, <2>8, <3>1
    <3> QED
      BY <1>f, <2>2, <2>8, <3>2 DEF RevokedInv
  <2> QED
    BY <2>5, <2>6, <2>7, <2>8 DEF RevokedInv
<1>2. ASSUME NEW e \in Eras, NEW u \in Users, PrepareRotation(e, u)
      PROVE  RevokedInv'
  <2> DEFINE p == [state |-> "ready", rem |-> Holders \ {u}, out |-> u, retried |-> FALSE]
  <2>1. p \in RotRec /\ p.state = "ready" /\ p.out \notin p.rem
    BY DEF RotRec, Holders
  <2>2. /\ rot[e].state # "sent" /\ rot' = [rot EXCEPT ![e] = p]
        /\ since' = GivenBack(p.rem)
    BY <1>2 DEF PrepareRotation
  <2> HIDE DEF p
  <2> QED
    BY <1>1, <2>1, <2>2
<1>3. ASSUME NEW e \in Eras, ListAgain(e)
      PROVE  RevokedInv'
  <2> DEFINE p == [rot[e] EXCEPT !.state = "ready", !.retried = TRUE,
                                 !.rem = Holders \ {rot[e].out}]
  <2>1. p \in RotRec /\ p.state = "ready" /\ p.rem = Holders \ {rot[e].out} /\ p.out = rot[e].out
    BY <1>r DEF RotRec, Holders
  <2>2. /\ rot[e].state # "sent" /\ rot' = [rot EXCEPT ![e] = p]
        /\ since' = GivenBack(Holders \ {rot[e].out})
    BY <1>3 DEF ListAgain
  <2> HIDE DEF p
  <2> QED
    BY <1>1, <2>1, <2>2
<1>4. ASSUME NEW e \in Eras, Resend(e)
      PROVE  RevokedInv'
  <2>1. /\ rot[e].state = "failed" /\ Newest(e) /\ since' = since
        /\ \A d \in Eras \ {e} : rot'[d] = rot[d]
        /\ rot'[e].rem = rot[e].rem /\ rot'[e].out = rot[e].out /\ rot'[e].state = "ready"
    BY <1>4, <1>r DEF Resend, Newest, Answer, RotRec
  <2>2. \A d \in Eras : Newest(d)' => Newest(d)
    BY <2>1 DEF Newest
  <2>3. \A d \in Eras : Live(d)' => Live(d)
    BY <2>1, <2>2 DEF Live, Open
  <2>4. \A d \in Eras : rot'[d].rem = rot[d].rem /\ rot'[d].out = rot[d].out
    BY <2>1
  <2> QED
    BY <1>c, <1>f, <1>s, <2>1, <2>3, <2>4 DEF RevokedInv, RevokedLosesAccess
<1>5. CASE SetHold
  BY <1>5 DEF SetHold, RevokedInv, RevokedLosesAccess, Live, Open, Newest
<1> QED
  BY <1>2, <1>3, <1>4, <1>5 DEF Client

LEMMA RevokedNext ==
  ASSUME TypeInv, SlotInv, EraInv, RowInv, GrowsInv, RevokedInv, NoLateUnshare,
         ~Overlap => SerialInv, [Next]_vars
  PROVE  RevokedInv'
<1>1. CASE UNCHANGED vars
  BY <1>1 DEF vars, RevokedInv, RevokedLosesAccess, Live, Open, Newest
<1> QED
  BY <1>1, RevokedStep, RevokedClient, NextCases
-----------------------------------------------------------------------------
(* Between requests every key opens the file.                              *)

LEMMA GrantsInit == Init => GrantsInv
<1> SUFFICES ASSUME Init PROVE GrantsInv
  OBVIOUS
<1>1. \A i \in Slot : s[i].pc = "idle"
  BY DEF Init, IdleSlot
<1> QED
  BY <1>1 DEF Init, GrantsInv, Holders, Compared

LEMMA GrantsStep ==
  ASSUME TypeInv, SlotInv, EraInv, RowInv, SerialInv, GrantsInv, ~Overlap,
         NEW i \in Slot, SlotStep(i)
  PROVE  GrantsInv'
<1>r. rot \in [Eras -> RotRec]
  BY RotTyped DEF TypeInv
<1>l. /\ keys \in [Users -> Era] /\ file.hier \in Eras /\ Holders \subseteq Users
      /\ None \notin Eras
  BY Bounds DEF TypeInv, TypeOK, Holders
<1>1. \A k \in Slot : k # i => s'[k].pc = "idle"
  BY OnlyOne
<1>2. \A e \in Eras : /\ rot'[e].rem = rot[e].rem /\ rot'[e].out = rot[e].out
                      /\ rot'[e] = rot[e] \/ rot'[e].state # "none"
                      /\ s[i].pc # "links" /\ rot'[e].state = "done" => rot[e].state = "done"
  BY RotKeeps, <1>r
<1>3. CASE s[i].pc \in Committing
  <2> DEFINE e == s[i].e
             p == rot[e]
  <2>0. e \in Eras \ {0} /\ p.state = "sent" /\ p.out \in Users
    BY <1>r, <1>3 DEF TypeInv, Carries, SlotInv, RotRec
  <2>1. /\ s'[i].pc # "idle" => s'[i].e = e
        /\ rot'[e].rem = p.rem /\ rot'[e].out = p.out
    BY <1>2, <1>3, <2>0, SlotSteps, Names DEF Passes, Arrives, CanStart, At, IdleSlot
  \* The era of the files row is that of a commit that is not through.
  <2>2. CASE s'[i].pc = "idle" \/ s[i].pc \in {"acl", "old", "flip"} \cup Compared
    <3>1. keys' = keys
      <4>1. RotateGrant(i) \/ RotateRevoke(i) => s'[i].pc # "idle"
        BY SlotTyped DEF RotateGrant, RotateRevoke, Goto, TypeInv, SlotRec
      <4>2. s[i].pc \in {"grant", "revoke"} => Crash(i)
        BY <2>2, <4>1, Acts DEF Compared
      <4> QED
        BY <1>3, <4>2, CrashIdles, Frames, Names
    <3>2. rot'[file'.hier].state \in {"none", "done"} => \A u \in Holders' : keys'[u] = file'.hier
      <4>1. CASE file'.hier = file.hier /\ file.hier # e
        <5>1. rot'[file.hier].state \in {"none", "done"} => rot[file.hier].state \in {"none", "done"}
          <6>1. s[i].pc = "links" => file.hier = e
            BY DEF RowInv, After
          <6> QED
            BY <1>2, <1>l, <4>1, <6>1
        <5> QED
          BY <3>1, <4>1, <5>1 DEF GrantsInv, Holders
      <4>2. CASE file'.hier = e
        <5>1. rot'[e].state \notin {"none", "done"}
          <6>1. s[i].pc = "links" => s'[i].pc = "idle"
            BY <2>2 DEF Compared
          <6>2. s[i].pc = "links" => Crash(i)
            BY <6>1, Acts, SlotTyped DEF RotateRevokeLinks, Goto, TypeInv, SlotRec
          <6>3. CASE s[i].pc = "links"
            BY <1>r, <2>0, <6>2, <6>3, Names DEF Crash, Fail, Answer, RotRec
          <6>4. CASE s[i].pc # "links"
            BY <1>2, <2>0, <6>4
          <6> QED
            BY <6>3, <6>4
        <5> QED
          BY <4>2, <5>1
      <4> QED
        BY <4>1, <4>2, HierSteps
    <3>3. /\ s'[i].pc \in {"old", "dropChunks"} \cup Compared => Holders' \subseteq p.rem \cup {p.out}
      <4>1. CASE s[i].pc = "acl" /\ s'[i].pc # "idle"
        <5>1. RotateCheckAcl(i) /\ ~Return(i)
          BY <4>1, Acts, CrashIdles, SlotTyped DEF IdleSlot, Return, TypeInv
        <5>2. Holders = p.rem \cup {p.out}
          BY <5>1 DEF RotateCheckAcl, AclMatches
        <5> QED
          BY <3>1, <5>2 DEF Holders
      <4>2. CASE s[i].pc \in {"old", "flip"} \cup Compared
        BY <3>1, <4>2 DEF GrantsInv, Holders, Compared
      <4>3. s'[i].pc = "idle" => s'[i].pc \notin {"old", "dropChunks"} \cup Compared
        BY DEF Compared
      <4> QED
        BY <2>2, <4>1, <4>2, <4>3
    <3>4. s'[i].pc \notin {"dropVersions", "grant", "revoke", "links"}
      BY <2>2, SlotSteps DEF Passes, Arrives, IdleSlot, Compared
    <3> QED
      BY <1>1, <2>1, <3>2, <3>3, <3>4 DEF GrantsInv, Compared
  <2>3. CASE s[i].pc \in After /\ s'[i].pc # "idle"
    <3>0. /\ file.hier = e /\ file' = file /\ s'[i].e = e
      BY <2>1, <2>3, Frames DEF RowInv, After
    <3>1. CASE s[i].pc \in {"dropChunks", "dropVersions"}
      <4>1. keys' = keys /\ s'[i].pc \in {"dropVersions", "grant"}
        BY <2>3, <3>1, Frames, SlotSteps DEF Passes, Arrives, CanStart, At, IdleSlot
      <4>2. rot'[e].state \notin {"none", "done"}
        BY <1>2, <2>0, <3>1
      <4>3. Holders' \subseteq p.rem \cup {p.out}
        BY <3>1, <4>1 DEF GrantsInv, Holders
      <4> QED
        BY <1>1, <2>1, <3>0, <4>1, <4>2, <4>3 DEF GrantsInv, Compared
    <3>2. CASE s[i].pc = "grant"
      <4>1. RotateGrant(i) /\ s'[i].pc = "revoke"
        BY <2>3, <3>2, Acts, CrashIdles, SlotSteps DEF Passes, Arrives, CanStart, At, IdleSlot
      <4>2. rot'[e].state \notin {"none", "done"}
        BY <1>2, <2>0, <3>2
      <4>3. \A u \in Users : keys'[u] # None /\ u # p.out => keys'[u] = e
        <5>1. \A u \in Users : keys[u] # None => u \in p.rem \cup {p.out}
          BY <3>2 DEF GrantsInv, Holders
        <5> QED
          BY <4>1, <5>1 DEF RotateGrant, NewWraps
      <4> QED
        BY <1>1, <2>1, <3>0, <4>1, <4>2, <4>3 DEF GrantsInv, Holders, Compared
    <3>3. CASE s[i].pc = "revoke"
      <4>1. RotateRevoke(i) /\ s'[i].pc = "links"
        BY <2>3, <3>3, Acts, CrashIdles, SlotSteps DEF Passes, Arrives, CanStart, At, IdleSlot
      <4>2. rot'[e].state \notin {"none", "done"}
        BY <1>2, <2>0, <3>3
      <4>3. \A u \in Users : keys'[u] # None => keys'[u] = e
        <5>1. \A u \in Users : keys[u] # None /\ u # p.out => keys[u] = e
          BY <3>3 DEF GrantsInv, Holders
        <5> QED
          BY <1>l, <4>1, <5>1 DEF RotateRevoke
      <4> QED
        BY <1>1, <2>1, <3>0, <4>1, <4>2, <4>3 DEF GrantsInv, Holders, Compared
    <3>4. CASE s[i].pc = "links"
      <4>1. keys' = keys /\ s'[i].pc = "blobs"
        BY <2>3, <3>4, Frames, SlotSteps DEF Passes, Arrives, CanStart, At, IdleSlot
      <4>2. \A u \in Users : keys[u] # None => keys[u] = e
        BY <3>4 DEF GrantsInv, Holders
      <4> QED
        BY <1>1, <3>0, <4>1, <4>2 DEF GrantsInv, Holders, Compared
    <3> QED
      BY <2>3, <3>1, <3>2, <3>3, <3>4 DEF After
  <2> QED
    BY <1>3, <2>2, <2>3, Names DEF Compared, After
<1>4. CASE s[i].pc \notin Committing
  <2>1. s'[i].pc \notin Committing \ {"acl"}
    BY <1>4, SlotSteps, Names DEF Passes, Arrives, IdleSlot
  <2>2. \A u \in Users : keys'[u] = keys[u] \/ keys'[u] \in {None, file.hier}
    <3>1. CASE s[i].pc = "shGrant" /\ ShareGrant(i)
      <4>1. s[i].e = file.hier
        BY <3>1 DEF SerialInv, Sharing
      <4> QED
        BY <3>1, <4>1, ShareGives
    <3>2. CASE UnshareKey(i)
      BY <1>l, <3>2 DEF UnshareKey
    <3> QED
      BY <1>4, <3>1, <3>2, Acts, CrashIdles, Frames, Names
  <2>3. file'.hier = file.hier
    BY <1>4, HierSteps, Names
  <2>4. rot'[file.hier].state \in {"none", "done"} => rot[file.hier].state \in {"none", "done"}
    BY <1>2, <1>4, <1>l, Names
  <2>5. \A k \in Slot : s'[k].pc \notin Committing \ {"acl"}
    BY <1>1, <2>1, Names
  <2> QED
    BY <1>l, <2>2, <2>3, <2>4, <2>5, Names DEF GrantsInv, Holders, Compared
<1> QED
  BY <1>3, <1>4

LEMMA GrantsNext ==
  ASSUME TypeInv, SlotInv, EraInv, RowInv, SerialInv, GrantsInv, ~Overlap, [Next]_vars
  PROVE  GrantsInv'
<1>r. rot \in [Eras -> RotRec] /\ file.hier \in Eras
  BY RotTyped DEF TypeInv, TypeOK
<1>s. \A k \in Slot : s[k].pc \in Committing => s[k].e \in Eras /\ rot[s[k].e].state = "sent"
  BY DEF TypeInv, Carries, SlotInv
<1>c. /\ Compared \subseteq Committing
      /\ {"old", "dropChunks", "dropVersions", "grant", "revoke", "links"} \subseteq Committing
  BY Names DEF Compared
<1>1. CASE Client
  <2>1. file'.hier = file.hier /\ keys' = keys /\ s' = s
    BY <1>1, ClientFrames
  <2>2. ASSUME NEW e \in Eras, NEW p, rot[e].state # "sent", rot' = [rot EXCEPT ![e] = p],
               e = file.hier => p.state \notin {"none", "done"}
        PROVE  GrantsInv'
    <3>1. rot'[e] = p /\ \A d \in Eras : d # e => rot'[d] = rot[d]
      BY <1>r, <2>2
    <3>2. \A k \in Slot : s[k].pc \in Committing => rot'[s[k].e] = rot[s[k].e]
      BY <1>s, <2>2, <3>1
    <3>3. Holders' = Holders
      BY <2>1 DEF Holders
    <3>4. rot'[file.hier].state \in {"none", "done"} => rot[file.hier].state \in {"none", "done"}
      BY <1>r, <2>2, <3>1
    <3> QED
      BY <1>c, <2>1, <3>2, <3>3, <3>4 DEF GrantsInv
  <2>3. ASSUME NEW e \in Eras, NEW u \in Users, PrepareRotation(e, u)
        PROVE  GrantsInv'
    <3>1. e # file.hier /\ rot[e].state # "sent"
      BY <2>3, Bounds, <1>r DEF PrepareRotation, EraInv, Used
    <3> QED
      BY <2>2, <2>3, <3>1 DEF PrepareRotation
  <2>4. ASSUME NEW e \in Eras, ListAgain(e)
        PROVE  GrantsInv'
    <3> DEFINE p == [rot[e] EXCEPT !.state = "ready", !.retried = TRUE,
                                   !.rem = Holders \ {rot[e].out}]
    <3>1. p.state = "ready"
      BY <1>r DEF RotRec
    <3>2. rot[e].state # "sent" /\ rot' = [rot EXCEPT ![e] = p]
      BY <2>4 DEF ListAgain
    <3> HIDE DEF p
    <3> QED
      BY <2>2, <3>1, <3>2
  <2>5. ASSUME NEW e \in Eras, Resend(e)
        PROVE  GrantsInv'
    <3> DEFINE p == [rot[e] EXCEPT !.state = "ready"]
    <3>1. p.state = "ready"
      BY <1>r DEF RotRec
    <3>2. rot[e].state # "sent" /\ rot' = [rot EXCEPT ![e] = p]
      BY <2>5 DEF Resend, Answer
    <3> HIDE DEF p
    <3> QED
      BY <2>2, <3>1, <3>2
  <2>6. CASE SetHold
    BY <2>1, <2>6 DEF SetHold, GrantsInv, Holders
  <2> QED
    BY <1>1, <2>3, <2>4, <2>5, <2>6 DEF Client
<1>2. CASE UNCHANGED vars
  BY <1>2 DEF vars, GrantsInv, Holders
<1> QED
  BY <1>1, <1>2, GrantsStep, NextCases

-----------------------------------------------------------------------------
(* A public link needs the access of who made it.                          *)

\* Somebody opens the file by a link, or will; and what allows it.
Linked(u) == link[u] = file.hier \/ LinkDue(u)
Excused(u) == keys[u] # None \/ u \in spared \/ Retiring(u)

LEMMA LinkInit == Init => LinkInv
<1> SUFFICES ASSUME Init PROVE LinkInv
  OBVIOUS
<1>1. \A i \in Slot : s[i].pc = "idle"
  BY DEF Init, IdleSlot
<1> QED
  BY <1>1 DEF Init, LinkInv, LinkDue, At, Sharing, None

\* Removals are remembered by the statements that take away the access.
LEMMA RemovedLasts ==
  ASSUME TypeInv, SlotInv, NEW k \in Slot, s'[k] = s[k],
         (\E i \in Slot : SlotStep(i)) \/ Client \/ UNCHANGED vars
  PROVE  Removed(s[k])' = Removed(s[k])
<1>1. CASE s[k].pc = "links"
  <2>0. s[k].e \in Eras /\ rot[s[k].e].state = "sent" /\ rot \in [Eras -> RotRec]
    BY <1>1, Names, RotTyped DEF TypeInv, Carries, SlotInv
  <2>1. \A i \in Slot : SlotStep(i) => rot'[s[k].e].out = rot[s[k].e].out
    BY <2>0, RotKeeps
  <2>2. ASSUME NEW e \in Eras, ListAgain(e) \/ Resend(e)
        PROVE  rot'[s[k].e].out = rot[s[k].e].out
    BY <2>0, <2>2 DEF ListAgain, Resend, Answer
  <2>3. ASSUME NEW e \in Eras, NEW u \in Users, PrepareRotation(e, u)
        PROVE  rot'[s[k].e].out = rot[s[k].e].out
    BY <2>0, <2>3 DEF PrepareRotation
  <2>4. SetHold \/ UNCHANGED vars => rot' = rot
    BY DEF SetHold, vars
  <2>5. rot'[s[k].e].out = rot[s[k].e].out
    BY <2>1, <2>2, <2>3, <2>4 DEF Client
  <2> QED
    BY <1>1, <2>5 DEF Removed
<1>2. CASE s[k].pc # "links"
  BY <1>2 DEF Removed
<1> QED
  BY <1>1, <1>2

\* Who is excused stays so while the statements that retire links are others'.
LEMMA ExcusedLasts ==
  ASSUME TypeInv, SlotInv, NEW i \in Slot, SlotStep(i), NEW u \in Users, Excused(u),
         keys[u] # None => keys'[u] # None \/ Retiring(u)',
         u \in spared => u \in spared',
         u \in Removed(s[i]) => u \in spared' \/ ~Linked(u)
  PROVE  Excused(u)' \/ ~Linked(u)
<1>1. CASE keys[u] # None \/ u \in spared
  BY <1>1 DEF Excused
<1>2. ASSUME NEW k \in Slot, k # i, u \in Removed(s[k])
      PROVE  Retiring(u)'
  <2>1. s'[k] = s[k]
    BY <1>2, Others
  <2>2. u \in Removed(s[k])'
    BY <1>2, <2>1, RemovedLasts
  <2> QED
    BY <2>2 DEF Retiring
<1>3. CASE u \in Removed(s[i])
  BY <1>3 DEF Excused
<1> QED
  BY <1>1, <1>2, <1>3 DEF Excused, Retiring

LEMMA LinkNext ==
  ASSUME TypeInv, SlotInv, EraInv, RowInv, GrowsInv, LinkInv, "tabs" \notin Ops, [Next]_vars
  PROVE  LinkInv'
<1>l. /\ keys \in [Users -> Era] /\ link \in [Users -> Era] /\ file.hier \in Eras
      /\ spared \subseteq Users
  BY DEF TypeInv, TypeOK
<1>n. /\ None \in Int /\ None < file.hier /\ None # file.hier /\ file.hier \in Int
      /\ None \notin Eras
      /\ \A u \in Users : link[u] \in Int
      /\ \A k \in Slot : s[k].user \in Users /\ s[k].e \in Int
  BY <1>l, Bounds, SlotTyped DEF Eras, Era, None, TypeInv, SlotRec
<1>1. ASSUME NEW i \in Slot, SlotStep(i)
      PROVE  LinkInv'
  <2>o. \A k \in Slot : k # i => s'[k] = s[k]
    BY <1>1, Others
  <2>d. ASSUME NEW u \in Users, LinkDue(u)', ~LinkDue(u)
        PROVE  s[i].pc = "lnCheck" /\ s'[i].pc = "lnInsert" /\ s[i].user = u
    <3>1. s'[i].pc = "lnInsert" /\ s'[i].user = u /\ s[i].pc # "lnInsert"
      <4>1. PICK k \in Slot : s'[k].pc = "lnInsert" /\ s'[k].user = u
        BY <2>d DEF LinkDue, At
      <4>2. k = i
        BY <2>o, <2>d, <4>1 DEF LinkDue, At
      <4>3. s[i].pc # "lnInsert"
        BY <1>1, <4>1, <4>2, SlotSteps DEF Passes, Arrives, CanStart, At, IdleSlot
      <4> QED
        BY <4>1, <4>2, <4>3
    <3> QED
      BY <1>1, <3>1, SlotSteps DEF Passes, Arrives, IdleSlot
  <2>e. ASSUME s'[i].pc \in Sharing
        PROVE  s'[i].e # None
    <3>1. \/ s[i].pc \in Sharing /\ s'[i].e = s[i].e
          \/ s[i].pc = "idle" /\ s'[i].pc = "shCheck"
      BY <1>1, <2>e, SlotSteps DEF Passes, Arrives, CanStart, At, IdleSlot, Sharing
    <3> QED
      BY <1>1, <1>n, <3>1, ArrivesWith DEF LinkInv
  <2>1. ASSUME NEW u \in Users, Linked(u)', ~Excused(u)'
        PROVE  FALSE
    <3>i. Linked(u) => Excused(u)
      BY DEF LinkInv, Linked, Excused
    <3>1. CASE Crash(i)
      <4>1. /\ s'[i] = IdleSlot /\ UNCHANGED <<file, keys, link>>
            /\ spared' = spared \cup {v \in Removed(s[i]) : Linked(v)}
        BY <3>1, CrashIdles DEF Crash, Linked
      <4>2. Linked(u)
        BY <2>1, <2>d, <4>1 DEF Linked, IdleSlot
      <4> QED
        BY <1>1, <2>1, <3>i, <4>1, <4>2, ExcusedLasts
    <3>2. CASE \/ s[i].pc = "links" /\ RotateRevokeLinks(i)
               \/ s[i].pc = "unLinks" /\ UnshareLinks(i)
      <4>1. PICK v \in Users : RetireLinks(v) /\ Removed(s[i]) = {v}
        <5>1. CASE s[i].pc = "links" /\ RotateRevokeLinks(i)
          <6>1. rot[s[i].e].out \in Users
            BY <5>1, Names, RotTyped DEF TypeInv, Carries, RotRec
          <6> QED
            BY <5>1, <6>1 DEF RotateRevokeLinks, Removed
        <5>2. CASE s[i].pc = "unLinks" /\ UnshareLinks(i)
          BY <1>n, <5>2 DEF UnshareLinks, Removed
        <5> QED
          BY <3>2, <5>1, <5>2
      <4>2. UNCHANGED <<file, keys>>
        BY <3>2 DEF RotateRevokeLinks, UnshareLinks
      <4>3. LinkDue(u)' => LinkDue(u)
        BY <2>d, <3>2
      <4>4. CASE u = v
        <5>1. link'[u] = None
          BY <1>l, <4>1, <4>4 DEF RetireLinks, WithoutLinks
        <5>2. LinkDue(u)
          BY <1>n, <2>1, <4>2, <4>3, <5>1 DEF Linked
        <5> QED
          BY <2>1, <4>1, <4>4, <5>2 DEF RetireLinks, Excused
      <4>5. CASE u # v
        <5>1. link'[u] = link[u] /\ (u \in spared => u \in spared') /\ u \notin Removed(s[i])
          BY <1>l, <4>1, <4>5 DEF RetireLinks, WithoutLinks
        <5>2. Linked(u)
          BY <2>1, <4>2, <4>3, <5>1 DEF Linked
        <5> QED
          BY <1>1, <2>1, <3>i, <4>2, <5>1, <5>2, ExcusedLasts
      <4> QED
        BY <4>4, <4>5
    <3>3. CASE s[i].pc \notin {"links", "unLinks"} /\ ~Crash(i)
      <4>r. Removed(s[i]) = {} /\ spared' = spared
        BY <1>1, <3>3, Frames DEF Removed
      <4>1. CASE s[i].pc \in {"unKey", "revoke"}
        <5>1. PICK v \in Users : keys' = [keys EXCEPT ![v] = None] /\ Removed(s[i])' = {v}
          <6>1. CASE s[i].pc = "unKey"
            <7>1. UnshareKey(i)
              BY <1>1, <3>3, <6>1, Acts
            <7>2. s'[i].pc = "unLinks" /\ s'[i].user = s[i].user
              BY <7>1, SlotTyped DEF UnshareKey, Goto, TypeInv, SlotRec
            <7> QED
              BY <1>n, <7>1, <7>2 DEF UnshareKey, Removed
          <6>2. CASE s[i].pc = "revoke"
            <7>1. RotateRevoke(i)
              BY <1>1, <3>3, <6>2, Acts
            <7>2. s'[i].pc = "links" /\ s'[i].e = s[i].e /\ rot' = rot
              BY <7>1, SlotTyped DEF RotateRevoke, Goto, TypeInv, SlotRec
            <7>3. rot[s[i].e].out \in Users
              BY <6>2, Names, RotTyped DEF TypeInv, Carries, RotRec
            <7> QED
              BY <7>1, <7>2, <7>3 DEF RotateRevoke, Removed
          <6> QED
            BY <4>1, <6>1, <6>2
        <5>2. v # u
          BY <2>1, <5>1 DEF Excused, Retiring
        <5>3. keys'[u] = keys[u] /\ UNCHANGED <<file, link>>
          BY <1>1, <1>l, <4>1, <5>1, <5>2, Frames
        <5>4. Linked(u)
          BY <2>1, <2>d, <4>1, <5>3 DEF Linked
        <5> QED
          BY <1>1, <2>1, <3>i, <4>r, <5>3, <5>4, ExcusedLasts
      <4>2. CASE s[i].pc = "lnCheck"
        <5>1. LinkCheckAccess(i) /\ UNCHANGED <<file, link, keys>>
          BY <1>1, <3>3, <4>2, Acts DEF LinkCheckAccess
        <5>2. CASE s[i].user = u /\ s'[i].pc = "lnInsert"
          <6>1. ~Return(i)
            BY <5>2, SlotTyped DEF Return, IdleSlot, TypeInv
          <6> QED
            BY <2>1, <5>1, <5>2, <6>1 DEF LinkCheckAccess, Excused
        <5>3. CASE ~(s[i].user = u /\ s'[i].pc = "lnInsert")
          <6>1. Linked(u)
            BY <2>1, <2>d, <5>1, <5>3 DEF Linked
          <6> QED
            BY <1>1, <2>1, <3>i, <4>r, <5>1, <6>1, ExcusedLasts
        <5> QED
          BY <5>2, <5>3
      <4>3. CASE s[i].pc = "lnInsert"
        <5>1. LinkInsert(i) /\ UNCHANGED <<file, keys>>
          BY <1>1, <3>3, <4>3, Acts DEF LinkInsert
        <5>2. u = s[i].user \/ link'[u] = link[u]
          BY <1>l, <5>1 DEF LinkInsert
        <5>3. Linked(u)
          BY <2>1, <2>d, <4>3, <5>1, <5>2 DEF Linked, LinkDue, At
        <5> QED
          BY <1>1, <2>1, <3>i, <4>r, <5>1, <5>3, ExcusedLasts
      <4>4. CASE s[i].pc \in {"shGrant", "grant"}
        <5>1. UNCHANGED <<file, link>>
          BY <1>1, <4>4, Frames
        <5>2. keys[u] # None => keys'[u] # None
          <6>1. CASE s[i].pc = "shGrant"
            BY <1>1, <3>3, <6>1, Acts, ShareGives DEF LinkInv, Sharing
          <6>2. CASE s[i].pc = "grant"
            <7>1. RotateGrant(i) /\ s[i].e \in Eras
              BY <1>1, <3>3, <6>2, Acts, Names DEF TypeInv, Carries
            <7> QED
              BY <1>n, <7>1 DEF RotateGrant, NewWraps
          <6> QED
            BY <4>4, <6>1, <6>2
        <5>3. Linked(u)
          BY <2>1, <2>d, <4>4, <5>1 DEF Linked
        <5> QED
          BY <1>1, <2>1, <3>i, <4>r, <5>2, <5>3, ExcusedLasts
      <4>5. CASE s[i].pc = "flip"
        <5>1. RotateFlip(i) /\ UNCHANGED <<keys, link>>
          BY <1>1, <3>3, <4>5, Acts DEF RotateFlip
        <5>2. file'.hier = s[i].e
          BY <5>1 DEF RotateFlip, TypeInv, TypeOK
        <5>3. link[u] <= file.hier /\ file.hier < s[i].e
          BY <4>5 DEF GrowsInv, Compared
        <5>4. Linked(u)
          BY <1>n, <2>1, <2>d, <4>5, <5>1, <5>2, <5>3 DEF Linked
        <5> QED
          BY <1>1, <2>1, <3>i, <4>r, <5>1, <5>4, ExcusedLasts
      <4>6. CASE s[i].pc \notin {"unKey", "revoke", "lnCheck", "lnInsert", "shGrant", "grant", "flip"}
        <5>1. file'.hier = file.hier /\ UNCHANGED <<keys, link>>
          BY <1>1, <3>3, <4>6, Frames, HierSteps
        <5>2. Linked(u)
          BY <2>1, <2>d, <4>6, <5>1 DEF Linked
        <5> QED
          BY <1>1, <2>1, <3>i, <4>r, <5>1, <5>2, ExcusedLasts
      <4> QED
        BY <4>1, <4>2, <4>3, <4>4, <4>5, <4>6
    <3>4. \/ Crash(i) \/ s[i].pc \notin {"links", "unLinks"}
          \/ s[i].pc = "links" /\ RotateRevokeLinks(i)
          \/ s[i].pc = "unLinks" /\ UnshareLinks(i)
      BY <1>1, Acts
    <3> QED
      BY <3>1, <3>2, <3>3, <3>4
  <2>2. \A k \in Slot : s'[k].pc \in Sharing => s'[k].e # None
    BY <2>o, <2>e DEF LinkInv
  <2> QED
    BY <2>1, <2>2 DEF LinkInv, Linked, Excused
<1>2. CASE Client \/ UNCHANGED vars
  <2>1. UNCHANGED <<keys, link, spared, s>> /\ file'.hier = file.hier
    <3>1. Client => spared' = spared
      BY DEF Client, ListAgain, Resend, PrepareRotation, SetHold
    <3> QED
      BY <1>2, <3>1, ClientFrames DEF vars
  <2>2. \A u : Retiring(u) => Retiring(u)'
    <3>1. \A k \in Slot : Removed(s[k])' = Removed(s[k])
      BY <1>2, <2>1, RemovedLasts
    <3> QED
      BY <2>1, <3>1 DEF Retiring
  <2> QED
    BY <2>1, <2>2 DEF LinkInv, LinkDue, At
<1> QED
  BY <1>1, <1>2, NextCases

-----------------------------------------------------------------------------
(* The theorems.                                                           *)

LEMMA BaseInit == Init => TypeInv /\ SlotInv /\ EraInv /\ RowInv
<1> SUFFICES ASSUME Init PROVE SlotInv /\ EraInv
  BY TypeInit, RowInit
<1>1. \A i \in Slot : s[i].pc = "idle"
  BY DEF Init, IdleSlot
<1>2. \A e \in Eras : rot[e].state = "none"
  BY DEF Init
<1>3. SlotInv
  BY <1>1, Names DEF SlotInv, At, Loading, Unsharing
<1>4. EraInv
  BY <1>2 DEF Init, EraInv, Used, Open
<1> QED
  BY <1>3, <1>4

(* Where replacements are uploaded only between requests - or not at all,  *)
(* with one tab - no statement of rotate-commit, no crash of it and no     *)
(* clean-up that runs late takes from the current version what its reader  *)
(* needs: for any number of users, requests, eras, rows and faults.        *)
THEOREM CurrentStaysReadable ==
  ASSUME NoLateUpload
  PROVE  Spec => []CurrentReadable
<1> DEFINE Inv == /\ TypeInv /\ SlotInv /\ EraInv /\ RowInv /\ CurrentInv
                  /\ "tabs" \notin Ops => OldInv
                  /\ ~Overlap => SerialInv
<1>o. OneCommit
  BY DEF NoLateUpload, OneCommit
<1>1. Init => Inv
  <2>1. Init => OldInv
    <3>1. Init => \A i \in Slot : s[i].pc = "idle"
      BY DEF Init, IdleSlot
    <3> QED
      BY <3>1 DEF OldInv, Compared, After
  <2> QED
    BY <2>1, BaseInit, CurrentInit, SerialInit
<1>2. Inv /\ [Next]_vars => Inv'
  BY <1>o, TypeNext, SlotNext, EraNext, RowNext, CurrentNext, OldNext, SerialNext
<1>3. Inv => CurrentReadable
  BY DEF CurrentInv, Whole, Safe, CurrentReadable, Readable
<1> QED
  BY <1>1, <1>2, <1>3, PTL DEF Spec

(* With one tab, and where unshare and leave do not overlap other requests, *)
(* nobody whose access was removed holds the key of that era or a later one *)
(* - whatever of rotate-commit, sharing and crashes comes between.          *)
THEOREM RevokedStaysOut ==
  ASSUME NoLateUnshare
  PROVE  Spec => []RevokedLosesAccess
<1> DEFINE Inv == /\ TypeInv /\ SlotInv /\ EraInv /\ RowInv /\ GrowsInv /\ RevokedInv
                  /\ ~Overlap => SerialInv
<1>o. OneCommit /\ "tabs" \notin Ops
  BY DEF NoLateUnshare, OneCommit
<1>1. Init => Inv
  BY BaseInit, GrowsInit, RevokedInit, SerialInit
<1>2. Inv /\ [Next]_vars => Inv'
  BY <1>o, TypeNext, SlotNext, EraNext, RowNext, GrowsNext, RevokedNext, SerialNext
<1>3. Inv => RevokedLosesAccess
  BY DEF RevokedInv
<1> QED
  BY <1>1, <1>2, <1>3, PTL DEF Spec

(* One request at a time, and unless the last rotation was cut short, every *)
(* file_keys row opens the file between requests: the check of the payload  *)
(* against the collaborators is enough for the upsert and the delete of     *)
(* rotate-commit to leave no row of an era that is gone.                    *)
THEOREM GrantsKeepOpening ==
  ASSUME ~Overlap
  PROVE  Spec => []GrantsOpenFile
<1> DEFINE Inv == TypeInv /\ SlotInv /\ EraInv /\ RowInv /\ SerialInv /\ GrantsInv
<1>o. OneCommit
  BY DEF OneCommit
<1>1. Init => Inv
  BY BaseInit, SerialInit, GrantsInit
<1>2. Inv /\ [Next]_vars => Inv'
  BY <1>o, TypeNext, SlotNext, EraNext, RowNext, SerialNext, GrantsNext
<1>3. Inv => GrantsOpenFile
  BY DEF GrantsInv, GrantsOpenFile
<1> QED
  BY <1>1, <1>2, <1>3, PTL DEF Spec

(* With one tab, whatever requests overlap and wherever a handler dies, a   *)
(* public link that opens the file belongs between requests to somebody     *)
(* with access to it, but for those whose removal died before their links   *)
(* went or went past a link that had been checked and not inserted.         *)
THEOREM LinksNeedAccess ==
  ASSUME "tabs" \notin Ops
  PROVE  Spec => []LinkNeedsAccess
<1> DEFINE Inv == TypeInv /\ SlotInv /\ EraInv /\ RowInv /\ GrowsInv /\ LinkInv
<1>o. OneCommit
  BY DEF OneCommit
<1>1. Init => Inv
  BY BaseInit, GrowsInit, LinkInit
<1>2. Inv /\ [Next]_vars => Inv'
  BY <1>o, TypeNext, SlotNext, EraNext, RowNext, GrowsNext, LinkNext
<1>3. Inv => LinkNeedsAccess
  BY DEF LinkInv, LinkNeedsAccess, Retiring, Removed, At
<1> QED
  BY <1>1, <1>2, <1>3, PTL DEF Spec
=============================================================================
