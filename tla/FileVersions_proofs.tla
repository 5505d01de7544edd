------------------------ MODULE FileVersions_proofs ------------------------
(***************************************************************************)
(* Theorems about FileVersions, for every value of its constants.          *)
(***************************************************************************)
EXTENDS FileVersions, FiniteSetTheorems, TLAPS

-----------------------------------------------------------------------------
(* Type correctness. TypeOK is not inductive: the version a handler is     *)
(* going to use as an index has to be one, and the count it is about to    *)
(* store has to fit.                                                       *)

UsesVersion == {"finVersion", "finMeasure", "finPurge", "finDrop", "finInsert",
                "finCommit", "rsChunks", "rsCopy", "rsCommit", "dvHold",
                "dvCurrent", "delChunks", "delRow"}

SlotTyped(r) ==
  /\ h[r].pc \in UsesVersion => h[r].ver \in Ver
  /\ h[r].pc = "setCount" => h[r].num \in Id

SlotInv == h \in [Req -> ReqType] /\ \A r \in Req : SlotTyped(r)

DataInv ==
  /\ file \in [cur: Id, key: Id, count: Id, held: BOOLEAN]
  /\ rows \subseteq Ver
  /\ next \in 1..MaxVer+1
  /\ num \in [Ver -> Id]
  /\ key \in [Ver -> Id]
  /\ chunk \in [Ver -> Id]
  /\ blob \in [Ver -> [Chunks -> Id]]
  /\ upload \in [Ver -> {"none", "open", "abandoned", "closed"}]
  /\ put \in [Ver -> SUBSET Chunks]
  /\ faults \in 0..MaxFault

TypeInv == DataInv /\ SlotInv

(* The bounds are natural numbers and the first version fits.              *)
LEMMA Bounds == MaxVer \in Nat /\ MaxVer >= 1 /\ MaxFault \in Nat /\ 1 \in Ver
BY MaxVerAssumption, MaxFaultAssumption DEF Ver

(* Versions are identifiers, and so is None.                               *)
LEMMA VerIsId == Ver \subseteq Id /\ None \in Id /\ Id = 0..MaxVer /\ None \notin Ver
BY Bounds DEF Ver, Id, None

(* A file never has more rows than were ever inserted.                     *)
LEMMA RowsFit ==
  ASSUME rows \subseteq Ver
  PROVE  IsFiniteSet(rows) /\ Cardinality(rows) \in Id
<1>1. IsFiniteSet(Ver) /\ Cardinality(Ver) = MaxVer
  BY Bounds, FS_Interval DEF Ver
<1>2. IsFiniteSet(rows) /\ Cardinality(rows) <= MaxVer
  BY <1>1, FS_Subset
<1>3. Cardinality(rows) \in Nat
  BY <1>2, FS_CardinalityType
<1> QED
  BY <1>2, <1>3, Bounds, VerIsId

(* The row the download looks up is a row, or none.                        *)
LEMMA RowOfTyped ==
  ASSUME rows \subseteq Ver, NEW n
  PROVE  RowOf(n) \in Id
BY VerIsId DEF RowOf, Taken

(* A slot without a request.                                               *)
LEMMA IdleTyped ==
  /\ IdleReq \in ReqType /\ IdleReq.pc = "idle" /\ IdleReq.op = "none"
  /\ IdleReq.ver = None /\ IdleReq.vs = {} /\ IdleReq.num = None
BY Bounds, VerIsId DEF ReqType, IdleReq, PC, None

(* The program counters are program counters.                              *)
LEMMA PCs ==
  /\ "insert" \in PC /\ "rsChunks" \in PC /\ "rsMax" \in PC /\ "rsCopy" \in PC
  /\ "rsCommit" \in PC /\ "finVersion" \in PC /\ "finMeasure" \in PC
  /\ "finPurge" \in PC /\ "finDrop" \in PC /\ "finInsert" \in PC
  /\ "finCommit" \in PC /\ "dvHold" \in PC /\ "dvCurrent" \in PC
  /\ "pruneFile" \in PC /\ "pruneList" \in PC /\ "delChunks" \in PC
  /\ "delRow" \in PC /\ "delRefs" \in PC /\ "blobs" \in PC /\ "count" \in PC
  /\ "setCount" \in PC /\ "dlVersion" \in PC /\ "dlChunks" \in PC /\ "dlDone" \in PC
BY DEF PC

(* Slot r gets new contents x; the other slots keep theirs.                *)
LEMMA SetSlot ==
  ASSUME SlotInv, NEW r \in Req, NEW x \in ReqType, h' = [h EXCEPT ![r] = x],
         x.pc \in UsesVersion => x.ver \in Ver,
         x.pc = "setCount" => x.num \in Id
  PROVE  SlotInv' /\ h'[r] = x /\ \A q \in Req \ {r} : h'[q] = h[q]
BY DEF SlotInv, SlotTyped

(* A request that answers leaves an idle slot behind.                      *)
LEMMA ReturnSlot ==
  ASSUME SlotInv, NEW r \in Req, Return(r)
  PROVE  SlotInv' /\ h'[r] = IdleReq /\ \A q \in Req \ {r} : h'[q] = h[q]
BY IdleTyped, SetSlot DEF Return, UsesVersion

(* A request that goes on keeps its locals.                                *)
LEMMA GotoSlot ==
  ASSUME SlotInv, NEW r \in Req, NEW p \in PC, Goto(r, p),
         p \in UsesVersion => h[r].ver \in Ver, p # "setCount"
  PROVE  /\ SlotInv' /\ h'[r] = [h[r] EXCEPT !.pc = p]
         /\ h'[r].pc = p /\ h'[r].op = h[r].op /\ h'[r].ver = h[r].ver
         /\ h'[r].num = h[r].num /\ h'[r].cur = h[r].cur /\ h'[r].key = h[r].key
         /\ h'[r].pre = h[r].pre /\ h'[r].vs = h[r].vs
         /\ \A q \in Req \ {r} : h'[q] = h[q]
<1> DEFINE x == [h[r] EXCEPT !.pc = p]
<1>1. x \in ReqType /\ x.pc = p /\ x.ver = h[r].ver
  BY DEF SlotInv, ReqType
<1>2. h' = [h EXCEPT ![r] = x]
  BY DEF Goto
<1>3. SlotInv' /\ h'[r] = x /\ \A q \in Req \ {r} : h'[q] = h[q]
  BY <1>1, <1>2, SetSlot
<1> QED
  BY <1>3 DEF SlotInv, ReqType

(* One iteration of the prune's loop: it ends, or takes a version of vs.   *)
LEMMA PruneLoopSlot ==
  ASSUME SlotInv, NEW r \in Req, NEW vs \in SUBSET Ver, PruneLoop(r, vs)
  PROVE  /\ SlotInv' /\ h'[r].op = h[r].op /\ h'[r].cur = h[r].cur
         /\ \A q \in Req \ {r} : h'[q] = h[q]
         /\ \/ h'[r].pc = "count"
            \/ /\ h'[r].pc = "delChunks"
               /\ h'[r].ver \in vs /\ h'[r].vs = vs \ {h'[r].ver}
<1>1. CASE /\ vs = {}
           /\ h' = [h EXCEPT ![r].pc = "count", ![r].vs = {}]
  <2> DEFINE x == [h[r] EXCEPT !.pc = "count", !.vs = {}]
  <2>1. x \in ReqType /\ x.pc = "count" /\ x.op = h[r].op /\ x.cur = h[r].cur
    BY PCs DEF SlotInv, ReqType
  <2>2. h' = [h EXCEPT ![r] = x]
    BY <1>1
  <2> HIDE DEF x
  <2> QED
    BY <2>1, <2>2, SetSlot DEF UsesVersion
<1>2. ASSUME NEW v \in vs,
             h' = [h EXCEPT ![r].pc = "delChunks", ![r].ver = v, ![r].vs = vs \ {v}]
      PROVE  /\ SlotInv' /\ h'[r].op = h[r].op /\ h'[r].cur = h[r].cur
             /\ \A q \in Req \ {r} : h'[q] = h[q]
             /\ h'[r].pc = "delChunks"
             /\ h'[r].ver \in vs /\ h'[r].vs = vs \ {h'[r].ver}
  <2> DEFINE x == [h[r] EXCEPT !.pc = "delChunks", !.ver = v, !.vs = vs \ {v}]
  <2>1. v \in Id /\ v \in Ver /\ vs \ {v} \in SUBSET Ver
    BY VerIsId
  <2>2. /\ x \in ReqType /\ x.pc = "delChunks" /\ x.op = h[r].op /\ x.cur = h[r].cur
        /\ x.ver = v /\ x.vs = vs \ {v}
    BY <2>1, PCs DEF SlotInv, ReqType
  <2>3. h' = [h EXCEPT ![r] = x]
    BY <1>2
  <2> HIDE DEF x
  <2> QED
    BY <2>1, <2>2, <2>3, SetSlot
<1> QED
  BY <1>1, <1>2 DEF PruneLoop
(* A request that reads a prefix.                                          *)
LEMMA PreSlot ==
  ASSUME SlotInv, NEW r \in Req, NEW p \in PC, NEW w \in Id,
         h' = [h EXCEPT ![r].pc = p, ![r].pre = w],
         p \in UsesVersion => h[r].ver \in Ver, p # "setCount"
  PROVE  /\ SlotInv' /\ h'[r].pc = p /\ h'[r].pre = w
         /\ h'[r].op = h[r].op /\ h'[r].ver = h[r].ver /\ h'[r].num = h[r].num
         /\ h'[r].cur = h[r].cur /\ h'[r].key = h[r].key /\ h'[r].vs = h[r].vs
         /\ \A q \in Req \ {r} : h'[q] = h[q]
<1> DEFINE x == [h[r] EXCEPT !.pc = p, !.pre = w]
<1>1. /\ x \in ReqType /\ x.pc = p /\ x.pre = w
      /\ x.op = h[r].op /\ x.ver = h[r].ver /\ x.num = h[r].num
      /\ x.cur = h[r].cur /\ x.key = h[r].key /\ x.vs = h[r].vs
  BY DEF SlotInv, ReqType
<1>2. h' = [h EXCEPT ![r] = x]
  OBVIOUS
<1> HIDE DEF x
<1> QED
  BY <1>1, <1>2, SetSlot

(* A request that computes a number.                                       *)
LEMMA NumSlot ==
  ASSUME SlotInv, NEW r \in Req, NEW p \in PC, NEW w \in 0..MaxVer+1,
         h' = [h EXCEPT ![r].pc = p, ![r].num = w],
         p \in UsesVersion => h[r].ver \in Ver, p = "setCount" => w \in Id
  PROVE  /\ SlotInv' /\ h'[r].pc = p /\ h'[r].num = w
         /\ h'[r].op = h[r].op /\ h'[r].ver = h[r].ver /\ h'[r].cur = h[r].cur
         /\ h'[r].key = h[r].key /\ h'[r].pre = h[r].pre /\ h'[r].vs = h[r].vs
         /\ \A q \in Req \ {r} : h'[q] = h[q]
<1> DEFINE x == [h[r] EXCEPT !.pc = p, !.num = w]
<1>1. /\ x \in ReqType /\ x.pc = p /\ x.num = w
      /\ x.op = h[r].op /\ x.ver = h[r].ver /\ x.cur = h[r].cur
      /\ x.key = h[r].key /\ x.pre = h[r].pre /\ x.vs = h[r].vs
  BY DEF SlotInv, ReqType
<1>2. h' = [h EXCEPT ![r] = x]
  OBVIOUS
<1> HIDE DEF x
<1> QED
  BY <1>1, <1>2, SetSlot

(* A request that gets or finds a version.                                 *)
LEMMA VerSlot ==
  ASSUME SlotInv, NEW r \in Req, NEW p \in PC, NEW w \in Id,
         h' = [h EXCEPT ![r].pc = p, ![r].ver = w],
         p \in UsesVersion => w \in Ver, p # "setCount"
  PROVE  /\ SlotInv' /\ h'[r].pc = p /\ h'[r].ver = w
         /\ h'[r].op = h[r].op /\ h'[r].num = h[r].num /\ h'[r].cur = h[r].cur
         /\ h'[r].key = h[r].key /\ h'[r].pre = h[r].pre /\ h'[r].vs = h[r].vs
         /\ \A q \in Req \ {r} : h'[q] = h[q]
<1> DEFINE x == [h[r] EXCEPT !.pc = p, !.ver = w]
<1>1. /\ x \in ReqType /\ x.pc = p /\ x.ver = w
      /\ x.op = h[r].op /\ x.num = h[r].num /\ x.cur = h[r].cur
      /\ x.key = h[r].key /\ x.pre = h[r].pre /\ x.vs = h[r].vs
  BY DEF SlotInv, ReqType
<1>2. h' = [h EXCEPT ![r] = x]
  OBVIOUS
<1> HIDE DEF x
<1> QED
  BY <1>1, <1>2, SetSlot

(* A request that reads the current version number.                        *)
LEMMA CurSlot ==
  ASSUME SlotInv, NEW r \in Req, NEW p \in PC, NEW w \in Id,
         h' = [h EXCEPT ![r].pc = p, ![r].cur = w],
         p \in UsesVersion => h[r].ver \in Ver, p # "setCount"
  PROVE  /\ SlotInv' /\ h'[r].pc = p /\ h'[r].cur = w
         /\ h'[r].op = h[r].op /\ h'[r].ver = h[r].ver /\ h'[r].num = h[r].num
         /\ h'[r].key = h[r].key /\ h'[r].pre = h[r].pre /\ h'[r].vs = h[r].vs
         /\ \A q \in Req \ {r} : h'[q] = h[q]
<1> DEFINE x == [h[r] EXCEPT !.pc = p, !.cur = w]
<1>1. /\ x \in ReqType /\ x.pc = p /\ x.cur = w
      /\ x.op = h[r].op /\ x.ver = h[r].ver /\ x.num = h[r].num
      /\ x.key = h[r].key /\ x.pre = h[r].pre /\ x.vs = h[r].vs
  BY DEF SlotInv, ReqType
<1>2. h' = [h EXCEPT ![r] = x]
  OBVIOUS
<1> HIDE DEF x
<1> QED
  BY <1>1, <1>2, SetSlot

(* A request that lists versions.                                          *)
LEMMA VsSlot ==
  ASSUME SlotInv, NEW r \in Req, NEW p \in PC, NEW w \in SUBSET Ver,
         h' = [h EXCEPT ![r].pc = p, ![r].vs = w],
         p \in UsesVersion => h[r].ver \in Ver, p # "setCount"
  PROVE  /\ SlotInv' /\ h'[r].pc = p /\ h'[r].vs = w
         /\ h'[r].op = h[r].op /\ h'[r].ver = h[r].ver /\ h'[r].num = h[r].num
         /\ h'[r].cur = h[r].cur /\ h'[r].key = h[r].key
         /\ h'[r].pre = h[r].pre
         /\ \A q \in Req \ {r} : h'[q] = h[q]
<1> DEFINE x == [h[r] EXCEPT !.pc = p, !.vs = w]
<1>1. /\ x \in ReqType /\ x.pc = p /\ x.vs = w
      /\ x.op = h[r].op /\ x.ver = h[r].ver /\ x.num = h[r].num
      /\ x.cur = h[r].cur /\ x.key = h[r].key /\ x.pre = h[r].pre
  BY DEF SlotInv, ReqType
<1>2. h' = [h EXCEPT ![r] = x]
  OBVIOUS
<1> HIDE DEF x
<1> QED
  BY <1>1, <1>2, SetSlot

(* Deleting objects leaves a bucket.                                       *)
LEMMA RemoveTyped ==
  ASSUME DataInv, NEW p, NEW S, RemoveObjects(p, S)
  PROVE  blob' \in [Ver -> [Chunks -> Id]]
<1> DEFINE left == [c \in Chunks |-> IF c \in S THEN None ELSE blob[p][c]]
<1>1. blob' = [blob EXCEPT ![p] = left]
  BY DEF RemoveObjects
<1>2. p \in Ver => left \in [Chunks -> Id]
  BY VerIsId DEF DataInv
<1> HIDE DEF left
<1> QED
  BY <1>1, <1>2 DEF DataInv

(* Uploads: new-version-init and finalize.                                 *)
LEMMA TypeUpload ==
  ASSUME TypeInv, NEW r \in Req,
         \/ StartNewVersion(r) \/ InsertRefused(r) \/ InsertVersion(r)
         \/ \E v \in Ver : StartFinalize(r, v)
         \/ FinalizeReadVersion(r) \/ FinalizeMeasure(r) \/ FinalizePurge(r)
         \/ FinalizeDrop(r) \/ FinalizeInsertChunks(r) \/ FinalizeCommit(r)
  PROVE  TypeInv'
<1> USE DEF At
<1>1. CASE StartNewVersion(r)
  <2> DEFINE x == [IdleReq EXCEPT !.pc = "insert", !.op = "init",
                                  !.num = file.cur + 1]
  <2>1. file.cur + 1 \in 0..MaxVer+1
    BY Bounds, VerIsId DEF TypeInv, DataInv
  <2>2. x \in ReqType /\ x.pc = "insert"
    BY <2>1, IdleTyped, PCs DEF ReqType
  <2>3. SlotInv'
    BY <1>1, <2>2, SetSlot DEF StartNewVersion, TypeInv, UsesVersion
  <2>4. DataInv'
    BY <1>1 DEF StartNewVersion, TypeInv, DataInv
  <2> QED
    BY <2>3, <2>4 DEF TypeInv
<1>2. CASE InsertRefused(r)
  BY <1>2, ReturnSlot DEF InsertRefused, TypeInv, DataInv
<1>3. CASE InsertVersion(r)
  <2>0. h[r].num \in 0..MaxVer+1 /\ h[r].key \in Id /\ next \in 1..MaxVer+1
    BY DEF TypeInv, DataInv, SlotInv, ReqType
  <2>1. next \in Ver /\ next \in Id /\ h[r].num \in Id /\ h[r].key \in Id
    BY <1>3, <2>0, Bounds, VerIsId DEF InsertVersion, Refused, BoundReached, Ver
  <2>4. next' \in 1..MaxVer+1
    BY <1>3, <2>1, Bounds DEF InsertVersion, Ver
  <2>2. CASE h[r].op = "init"
    <3>1. SlotInv'
      BY <1>3, <2>2, ReturnSlot DEF InsertVersion, TypeInv
    <3>2. /\ rows' = rows \cup {next} /\ num' = [num EXCEPT ![next] = h[r].num]
          /\ key' = [key EXCEPT ![next] = next]
          /\ upload' = [upload EXCEPT ![next] = "open"]
          /\ UNCHANGED <<file, chunk, blob, put, faults>>
      BY <1>3, <2>2 DEF InsertVersion
    <3>3. DataInv'
      BY <2>1, <2>4, <3>2 DEF TypeInv, DataInv
    <3> QED
      BY <3>1, <3>3 DEF TypeInv
  <2>3. CASE h[r].op = "restore"
    <3>1. SlotInv'
      BY <1>3, <2>1, <2>3, VerSlot, PCs DEF InsertVersion, TypeInv
    <3>2. /\ rows' = rows \cup {next} /\ num' = [num EXCEPT ![next] = h[r].num]
          /\ key' = [key EXCEPT ![next] = h[r].key]
          /\ upload' = upload
          /\ UNCHANGED <<file, chunk, blob, put, faults>>
      BY <1>3, <2>3 DEF InsertVersion
    <3>3. DataInv'
      BY <2>1, <2>4, <3>2 DEF TypeInv, DataInv
    <3> QED
      BY <3>1, <3>3 DEF TypeInv
  <2> QED
    BY <1>3, <2>2, <2>3 DEF InsertVersion
<1>4. ASSUME NEW v \in Ver, StartFinalize(r, v)
      PROVE  TypeInv'
  <2> DEFINE x == [IdleReq EXCEPT !.pc = "finVersion", !.op = "finalize", !.ver = v]
  <2>1. x \in ReqType /\ x.pc = "finVersion" /\ x.ver = v
    BY IdleTyped, PCs, VerIsId DEF ReqType
  <2>2. SlotInv'
    BY <1>4, <2>1, SetSlot DEF StartFinalize, TypeInv
  <2>3. DataInv'
    BY <1>4 DEF StartFinalize, TypeInv, DataInv
  <2> QED
    BY <2>2, <2>3 DEF TypeInv
<1>5. CASE FinalizeReadVersion(r)
  BY <1>5, ReturnSlot, GotoSlot, PCs
     DEF FinalizeReadVersion, TypeInv, DataInv, SlotInv, SlotTyped, UsesVersion
<1>6. CASE FinalizeMeasure(r)
  BY <1>6, GotoSlot, PCs
     DEF FinalizeMeasure, TypeInv, DataInv, SlotInv, SlotTyped, UsesVersion
<1>7. CASE FinalizePurge(r)
  <2>1. SlotInv'
    BY <1>7, GotoSlot, PCs DEF FinalizePurge, TypeInv, SlotInv, SlotTyped, UsesVersion
  <2>2. blob' \in [Ver -> [Chunks -> Id]]
    BY <1>7, RemoveTyped DEF FinalizePurge, TypeInv
  <2>3. DataInv'
    BY <1>7, <2>2 DEF FinalizePurge, TypeInv, DataInv
  <2> QED
    BY <2>1, <2>3 DEF TypeInv
<1>8. CASE FinalizeDrop(r)
  <2>1. SlotInv'
    BY <1>8, ReturnSlot DEF FinalizeDrop, TypeInv
  <2>2. DataInv'
    BY <1>8, VerIsId DEF FinalizeDrop, DropVersion, TypeInv, DataInv
  <2> QED
    BY <2>1, <2>2 DEF TypeInv
<1>9. CASE FinalizeInsertChunks(r)
  <2>1. SlotInv'
    BY <1>9, ReturnSlot, GotoSlot, PCs
       DEF FinalizeInsertChunks, TypeInv, SlotInv, SlotTyped, UsesVersion
  <2>2. DataInv'
    BY <1>9 DEF FinalizeInsertChunks, TypeInv, DataInv
  <2> QED
    BY <2>1, <2>2 DEF TypeInv
<1>10. CASE FinalizeCommit(r)
  <2> DEFINE x == [IdleReq EXCEPT !.pc = "pruneFile", !.op = "prune"]
  <2>1. x \in ReqType /\ x.pc = "pruneFile"
    BY IdleTyped, PCs DEF ReqType
  <2>2. SlotInv'
    BY <1>10, <2>1, SetSlot DEF FinalizeCommit, TypeInv, UsesVersion
  <2>3. h[r].ver \in Ver
    BY <1>10 DEF FinalizeCommit, TypeInv, SlotInv, SlotTyped, UsesVersion
  <2>4. DataInv'
    BY <1>10, <2>3 DEF FinalizeCommit, PointFileAt, TypeInv, DataInv
  <2> QED
    BY <2>2, <2>4 DEF TypeInv
<1> QED
  BY <1>1, <1>2, <1>3, <1>4, <1>5, <1>6, <1>7, <1>8, <1>9, <1>10

(* Restoring a version.                                                    *)
LEMMA TypeRestore ==
  ASSUME TypeInv, NEW r \in Req,
         \/ \E v \in Ver : StartRestore(r, v)
         \/ RestoreReadChunks(r) \/ RestoreReadMax(r)
         \/ RestoreCopyChunks(r) \/ RestoreCommit(r)
  PROVE  TypeInv'
<1> USE DEF At
<1>1. ASSUME NEW v \in Ver, StartRestore(r, v)
      PROVE  TypeInv'
  <2> DEFINE x == [IdleReq EXCEPT !.pc = "rsChunks", !.op = "restore", !.ver = v,
                                  !.key = key[v]]
  <2>1. v \in Id /\ key[v] \in Id
    BY VerIsId DEF TypeInv, DataInv
  <2>2. x \in ReqType /\ x.pc = "rsChunks" /\ x.ver = v
    BY <2>1, IdleTyped, PCs DEF ReqType
  <2>3. SlotInv'
    BY <1>1, <2>2, SetSlot DEF StartRestore, TypeInv
  <2>4. DataInv'
    BY <1>1 DEF StartRestore, TypeInv, DataInv
  <2> QED
    BY <2>3, <2>4 DEF TypeInv
<1>2. CASE RestoreReadChunks(r)
  <2>1. h[r].ver \in Ver /\ chunk[h[r].ver] \in Id
    BY <1>2 DEF RestoreReadChunks, TypeInv, DataInv, SlotInv, SlotTyped, UsesVersion
  <2>2. SlotInv'
    BY <1>2, <2>1, PreSlot, PCs DEF RestoreReadChunks, TypeInv, UsesVersion
  <2>3. DataInv'
    BY <1>2 DEF RestoreReadChunks, TypeInv, DataInv
  <2> QED
    BY <2>2, <2>3 DEF TypeInv
<1>3. CASE RestoreReadMax(r)
  <2>1. PICK n \in 0..MaxVer+1 : h' = [h EXCEPT ![r].pc = "insert", ![r].num = n]
    <3>1. 1 \in 0..MaxVer+1 /\ \A m \in Id : m + 1 \in 0..MaxVer+1
      BY Bounds, VerIsId
    <3> QED
      BY <1>3, <3>1 DEF RestoreReadMax
  <2>2. SlotInv'
    BY <2>1, NumSlot, PCs DEF TypeInv, UsesVersion
  <2>3. faults' \in 0..MaxFault
    BY <1>3, Bounds DEF RestoreReadMax, Ok, Errs, TypeInv, DataInv
  <2>4. DataInv'
    BY <1>3, <2>3 DEF RestoreReadMax, TypeInv, DataInv
  <2> QED
    BY <2>2, <2>4 DEF TypeInv
<1>4. CASE RestoreCopyChunks(r)
  <2>1. SlotInv'
    BY <1>4, ReturnSlot, GotoSlot, PCs
       DEF RestoreCopyChunks, TypeInv, SlotInv, SlotTyped, UsesVersion
  <2>2. h[r].pre \in Id
    BY DEF TypeInv, SlotInv, ReqType
  <2>3. DataInv'
    BY <1>4, <2>2 DEF RestoreCopyChunks, TypeInv, DataInv
  <2> QED
    BY <2>1, <2>3 DEF TypeInv
<1>5. CASE RestoreCommit(r)
  <2>1. SlotInv'
    BY <1>5, ReturnSlot DEF RestoreCommit, TypeInv
  <2>2. h[r].ver \in Ver
    BY <1>5 DEF RestoreCommit, TypeInv, SlotInv, SlotTyped, UsesVersion
  <2>3. DataInv'
    BY <1>5, <2>2 DEF RestoreCommit, PointFileAt, TypeInv, DataInv
  <2> QED
    BY <2>1, <2>3 DEF TypeInv
<1> QED
  BY <1>1, <1>2, <1>3, <1>4, <1>5

(* Counting a fault stays within the bound.                                *)
LEMMA FaultsTyped ==
  ASSUME DataInv, NEW r \in Req, Ok \/ \E tag \in FaultTag : Errs(r, tag)
  PROVE  faults' \in 0..MaxFault
BY Bounds DEF Ok, Errs, DataInv

(* Deleting a version, on request or from the prune's loop.                *)
LEMMA TypeDelete ==
  ASSUME TypeInv, NEW r \in Req,
         \/ \E v \in Ver : StartDelete(r, v)
         \/ DeleteCheckHold(r) \/ DeleteCheckCurrent(r) \/ DeleteReadChunks(r)
         \/ DeleteRow(r) \/ DeleteCountRefs(r) \/ DeleteObjects(r)
         \/ CountRows(r) \/ SetCount(r)
  PROVE  TypeInv'
<1> USE DEF At
<1>1. ASSUME NEW v \in Ver, StartDelete(r, v)
      PROVE  TypeInv'
  <2> DEFINE x == [IdleReq EXCEPT !.pc = "dvHold", !.op = "delete", !.ver = v]
  <2>1. x \in ReqType /\ x.pc = "dvHold" /\ x.ver = v
    BY IdleTyped, PCs, VerIsId DEF ReqType
  <2>2. SlotInv'
    BY <1>1, <2>1, SetSlot DEF StartDelete, TypeInv
  <2>3. DataInv'
    BY <1>1 DEF StartDelete, TypeInv, DataInv
  <2> QED
    BY <2>2, <2>3 DEF TypeInv
<1>2. CASE DeleteCheckHold(r)
  <2>1. SlotInv'
    BY <1>2, ReturnSlot, GotoSlot, PCs
       DEF DeleteCheckHold, TypeInv, SlotInv, SlotTyped, UsesVersion
  <2>2. faults' \in 0..MaxFault
    BY <1>2, FaultsTyped DEF DeleteCheckHold, TypeInv, FaultTag
  <2>3. DataInv'
    BY <1>2, <2>2 DEF DeleteCheckHold, TypeInv, DataInv
  <2> QED
    BY <2>1, <2>3 DEF TypeInv
<1>3. CASE DeleteCheckCurrent(r)
  <2>1. SlotInv'
    BY <1>3, ReturnSlot, GotoSlot, PCs
       DEF DeleteCheckCurrent, TypeInv, SlotInv, SlotTyped, UsesVersion
  <2>2. faults' \in 0..MaxFault
    BY <1>3, FaultsTyped DEF DeleteCheckCurrent, TypeInv, FaultTag
  <2>3. DataInv'
    BY <1>3, <2>2 DEF DeleteCheckCurrent, TypeInv, DataInv
  <2> QED
    BY <2>1, <2>3 DEF TypeInv
<1>4. CASE DeleteReadChunks(r)
  <2>1. h[r].ver \in Ver /\ chunk[h[r].ver] \in Id /\ None \in Id
    BY <1>4, VerIsId
       DEF DeleteReadChunks, TypeInv, DataInv, SlotInv, SlotTyped, UsesVersion
  <2>2. SlotInv'
    BY <1>4, <2>1, PreSlot, PCs DEF DeleteReadChunks, TypeInv, UsesVersion
  <2>3. faults' \in 0..MaxFault
    BY <1>4, FaultsTyped DEF DeleteReadChunks, TypeInv, FaultTag
  <2>4. DataInv'
    BY <1>4, <2>3 DEF DeleteReadChunks, TypeInv, DataInv
  <2> QED
    BY <2>2, <2>4 DEF TypeInv
<1>5. CASE DeleteRow(r)
  <2>1. SlotInv'
    BY <1>5, GotoSlot, PCs DEF DeleteRow, TypeInv, UsesVersion
  <2>2. DataInv'
    BY <1>5, VerIsId DEF DeleteRow, DropVersion, TypeInv, DataInv
  <2> QED
    BY <2>1, <2>2 DEF TypeInv
<1>6. CASE DeleteCountRefs(r)
  <2> DEFINE p == AfterRefs(r)
  <2>1. p \in PC /\ p \notin UsesVersion /\ p # "setCount"
    <3>1. p = "blobs" \/ p = "count"
      BY DEF AfterRefs
    <3> HIDE DEF p
    <3> QED
      BY <3>1, PCs DEF UsesVersion
  <2>2. h[r].pre \in Id /\ None \in Id
    BY VerIsId DEF TypeInv, SlotInv, ReqType
  <2>3. ASSUME Goto(r, AfterRefs(r)) PROVE SlotInv'
    <3>1. Goto(r, p)
      BY <2>3
    <3> HIDE DEF p
    <3> QED
      BY <2>1, <3>1, GotoSlot DEF TypeInv
  <2>4. ASSUME h' = [h EXCEPT ![r].pc = AfterRefs(r),
                              ![r].pre = IF Referenced(@) THEN None ELSE @]
        PROVE  SlotInv'
    <3> DEFINE w == IF Referenced(h[r].pre) THEN None ELSE h[r].pre
    <3>1. w \in Id
      BY <2>2
    <3>2. h' = [h EXCEPT ![r].pc = p, ![r].pre = w]
      BY <2>4
    <3> HIDE DEF p, w
    <3> QED
      BY <2>1, <3>1, <3>2, PreSlot DEF TypeInv
  <2>5. SlotInv'
    BY <1>6, <2>3, <2>4 DEF DeleteCountRefs
  <2>6. faults' \in 0..MaxFault
    BY <1>6, FaultsTyped DEF DeleteCountRefs, TypeInv, FaultTag
  <2>7. DataInv'
    BY <1>6, <2>6 DEF DeleteCountRefs, TypeInv, DataInv
  <2> QED
    BY <2>5, <2>7 DEF TypeInv
<1>7. CASE DeleteObjects(r)
  <2>1. h[r].vs \in SUBSET Ver
    BY DEF TypeInv, SlotInv, ReqType
  <2>2. SlotInv'
    BY <1>7, <2>1, ReturnSlot, PruneLoopSlot DEF DeleteObjects, TypeInv
  <2>3. blob' \in [Ver -> [Chunks -> Id]]
    BY <1>7, RemoveTyped DEF DeleteObjects, TypeInv, DataInv
  <2>4. DataInv'
    BY <1>7, <2>3 DEF DeleteObjects, TypeInv, DataInv
  <2> QED
    BY <2>2, <2>4 DEF TypeInv
<1>8. CASE CountRows(r)
  <2>1. PICK n \in Id : h' = [h EXCEPT ![r].pc = "setCount", ![r].num = n]
    BY <1>8, RowsFit, Bounds, VerIsId DEF CountRows, TypeInv, DataInv
  <2>2. n \in 0..MaxVer+1
    BY Bounds, VerIsId
  <2>3. SlotInv'
    BY <2>1, <2>2, NumSlot, PCs DEF TypeInv, UsesVersion
  <2>4. faults' \in 0..MaxFault
    BY <1>8, FaultsTyped DEF CountRows, TypeInv, FaultTag
  <2>5. DataInv'
    BY <1>8, <2>4 DEF CountRows, TypeInv, DataInv
  <2> QED
    BY <2>3, <2>5 DEF TypeInv
<1>9. CASE SetCount(r)
  <2>1. SlotInv'
    BY <1>9, ReturnSlot, GotoSlot, PCs DEF SetCount, TypeInv, UsesVersion
  <2>2. h[r].num \in Id /\ 1 \in Id
    BY <1>9, Bounds, VerIsId DEF SetCount, TypeInv, SlotInv, SlotTyped
  <2>3. faults' \in 0..MaxFault
    BY <1>9, FaultsTyped DEF SetCount, TypeInv, FaultTag
  <2>4. DataInv'
    BY <1>9, <2>2, <2>3 DEF SetCount, TypeInv, DataInv
  <2> QED
    BY <2>1, <2>4 DEF TypeInv
<1> QED
  BY <1>1, <1>2, <1>3, <1>4, <1>5, <1>6, <1>7, <1>8, <1>9

(* The prune, the download, the hold, and a request that dies.             *)
LEMMA TypeOther ==
  ASSUME TypeInv, NEW r \in Req,
         \/ StartPrune(r) \/ PruneReadFile(r) \/ PruneList(r) \/ PruneSkip(r)
         \/ StartDownload(r) \/ DownloadReadVersion(r) \/ DownloadReadChunks(r)
         \/ FinishDownload(r) \/ SetHold \/ Crash(r)
  PROVE  TypeInv'
<1> USE DEF At
<1>1. CASE StartPrune(r)
  <2> DEFINE x == [IdleReq EXCEPT !.pc = "pruneFile", !.op = "prune"]
  <2>1. x \in ReqType /\ x.pc = "pruneFile"
    BY IdleTyped, PCs DEF ReqType
  <2>2. SlotInv'
    BY <1>1, <2>1, SetSlot DEF StartPrune, TypeInv, UsesVersion
  <2>3. DataInv'
    BY <1>1 DEF StartPrune, TypeInv, DataInv
  <2> QED
    BY <2>2, <2>3 DEF TypeInv
<1>2. CASE PruneReadFile(r)
  <2>1. SlotInv'
    BY <1>2, ReturnSlot, CurSlot, PCs DEF PruneReadFile, TypeInv, DataInv, UsesVersion
  <2>2. DataInv'
    BY <1>2 DEF PruneReadFile, TypeInv, DataInv
  <2> QED
    BY <2>1, <2>2 DEF TypeInv
<1>3. CASE PruneList(r)
  <2>1. ASSUME NEW id PROVE Excess(h[r].cur) \cup Expired(h[r].cur, id) \in SUBSET Ver
    BY DEF Excess, Expired, TypeInv, DataInv
  <2>2. SlotInv'
    BY <1>3, <2>1, ReturnSlot, PruneLoopSlot DEF PruneList, TypeInv
  <2>3. DataInv'
    BY <1>3 DEF PruneList, TypeInv, DataInv
  <2> QED
    BY <2>2, <2>3 DEF TypeInv
<1>4. CASE PruneSkip(r)
  <2>1. h[r].vs \in SUBSET Ver
    BY DEF TypeInv, SlotInv, ReqType
  <2>2. SlotInv'
    BY <1>4, <2>1, PruneLoopSlot DEF PruneSkip, TypeInv
  <2>3. faults' \in 0..MaxFault
    BY <1>4, FaultsTyped DEF PruneSkip, TypeInv, FaultTag
  <2>4. DataInv'
    BY <1>4, <2>3 DEF PruneSkip, TypeInv, DataInv
  <2> QED
    BY <2>2, <2>4 DEF TypeInv
<1>5. CASE StartDownload(r)
  <2> DEFINE x == [IdleReq EXCEPT !.pc = "dlVersion", !.cur = file.cur,
                                  !.key = file.key]
  <2>1. file.cur \in Id /\ file.key \in Id
    BY DEF TypeInv, DataInv
  <2>2. x \in ReqType /\ x.pc = "dlVersion"
    BY <2>1, IdleTyped, PCs DEF ReqType
  <2>3. SlotInv'
    BY <1>5, <2>2, SetSlot DEF StartDownload, TypeInv, UsesVersion
  <2>4. DataInv'
    BY <1>5 DEF StartDownload, TypeInv, DataInv
  <2> QED
    BY <2>3, <2>4 DEF TypeInv
<1>6. CASE DownloadReadVersion(r)
  <2>1. PICK v \in Id : h' = [h EXCEPT ![r].pc = "dlChunks", ![r].ver = v]
    BY <1>6, RowOfTyped, VerIsId DEF DownloadReadVersion, TypeInv, DataInv
  <2>2. SlotInv'
    BY <2>1, VerSlot, PCs DEF TypeInv, UsesVersion
  <2>3. faults' \in 0..MaxFault
    BY <1>6, FaultsTyped DEF DownloadReadVersion, TypeInv, FaultTag
  <2>4. DataInv'
    BY <1>6, <2>3 DEF DownloadReadVersion, TypeInv, DataInv
  <2> QED
    BY <2>2, <2>4 DEF TypeInv
<1>7. CASE DownloadReadChunks(r)
  <2> DEFINE w == {v \in Asked(h[r].ver) : chunk[v] # None}
  <2>1. w \in SUBSET Ver
    BY DEF Asked, TypeInv, DataInv
  <2>2. h' = [h EXCEPT ![r].pc = "dlDone", ![r].vs = w]
    BY <1>7 DEF DownloadReadChunks
  <2> HIDE DEF w
  <2>3. SlotInv'
    BY <2>1, <2>2, VsSlot, PCs DEF TypeInv, UsesVersion
  <2>4. DataInv'
    BY <1>7 DEF DownloadReadChunks, TypeInv, DataInv
  <2> QED
    BY <2>3, <2>4 DEF TypeInv
<1>8. CASE FinishDownload(r)
  <2>1. SlotInv'
    BY <1>8, ReturnSlot DEF FinishDownload, TypeInv
  <2>2. DataInv'
    BY <1>8 DEF FinishDownload, TypeInv, DataInv
  <2> QED
    BY <2>1, <2>2 DEF TypeInv
<1>9. CASE SetHold
  <2>1. SlotInv'
    BY <1>9 DEF SetHold, TypeInv, SlotInv, SlotTyped
  <2>2. DataInv'
    BY <1>9 DEF SetHold, TypeInv, DataInv
  <2> QED
    BY <2>1, <2>2 DEF TypeInv
<1>10. CASE Crash(r)
  <2>1. SlotInv'
    BY <1>10, ReturnSlot DEF Crash, TypeInv
  <2>2. faults' \in 0..MaxFault
    BY <1>10, FaultsTyped DEF Crash, TypeInv, FaultTag
  <2>3. DataInv'
    BY <1>10, <2>2 DEF Crash, TypeInv, DataInv
  <2> QED
    BY <2>1, <2>3 DEF TypeInv
<1> QED
  BY <1>1, <1>2, <1>3, <1>4, <1>5, <1>6, <1>7, <1>8, <1>9, <1>10

(* The initial state is typed.                                             *)
LEMMA TypeInit == Init => TypeInv
<1> SUFFICES ASSUME Init PROVE TypeInv
  OBVIOUS
<1>1. SlotInv
  BY IdleTyped DEF Init, SlotInv, SlotTyped, UsesVersion
<1>2. 1 \in Id /\ None \in Id /\ 1 \in Ver
  BY Bounds, VerIsId
<1>3. next \in 1..MaxVer+1 /\ faults \in 0..MaxFault
  BY Bounds DEF Init
<1>4. DataInv
  BY <1>2, <1>3 DEF Init, DataInv
<1> QED
  BY <1>1, <1>4 DEF TypeInv

(* Every step keeps the state typed.                                       *)
LEMMA TypeStep == TypeInv /\ [Next]_vars => TypeInv'
<1> SUFFICES ASSUME TypeInv, [Next]_vars PROVE TypeInv'
  OBVIOUS
<1>1. CASE UNCHANGED vars
  BY <1>1 DEF vars, TypeInv, DataInv, SlotInv, SlotTyped
<1>2. ASSUME NEW r \in Req,
             \/ StartNewVersion(r) \/ StartPrune(r) \/ StartDownload(r)
             \/ Handler(r) \/ PruneSkip(r) \/ Crash(r)
      PROVE  TypeInv'
  <2>1. CASE \/ StartNewVersion(r) \/ InsertRefused(r) \/ InsertVersion(r)
             \/ FinalizeReadVersion(r) \/ FinalizeMeasure(r) \/ FinalizePurge(r)
             \/ FinalizeDrop(r) \/ FinalizeInsertChunks(r) \/ FinalizeCommit(r)
    BY <2>1, TypeUpload
  <2>2. CASE \/ RestoreReadChunks(r) \/ RestoreReadMax(r)
             \/ RestoreCopyChunks(r) \/ RestoreCommit(r)
    BY <2>2, TypeRestore
  <2>3. CASE \/ DeleteCheckHold(r) \/ DeleteCheckCurrent(r) \/ DeleteReadChunks(r)
             \/ DeleteRow(r) \/ DeleteCountRefs(r) \/ DeleteObjects(r)
             \/ CountRows(r) \/ SetCount(r)
    BY <2>3, TypeDelete
  <2>4. CASE \/ StartPrune(r) \/ PruneReadFile(r) \/ PruneList(r) \/ PruneSkip(r)
             \/ StartDownload(r) \/ DownloadReadVersion(r) \/ DownloadReadChunks(r)
             \/ FinishDownload(r) \/ Crash(r)
    BY <2>4, TypeOther
  <2> QED
    BY <1>2, <2>1, <2>2, <2>3, <2>4 DEF Handler
<1>3. ASSUME NEW r \in Req, NEW v \in Ver,
             StartFinalize(r, v) \/ StartRestore(r, v) \/ StartDelete(r, v)
      PROVE  TypeInv'
  BY <1>3, TypeUpload, TypeRestore, TypeDelete
<1>4. ASSUME NEW v \in Ver, Abandon(v) \/ \E c \in Chunks : PutChunk(v, c)
      PROVE  TypeInv'
  <2>1. CASE Abandon(v)
    BY <2>1 DEF Abandon, TypeInv, DataInv, SlotInv, SlotTyped
  <2>2. ASSUME NEW c \in Chunks, PutChunk(v, c) PROVE TypeInv'
    BY <2>2 DEF PutChunk, TypeInv, DataInv, SlotInv, SlotTyped
  <2> QED
    BY <1>4, <2>1, <2>2
<1>5. CASE SetHold
  BY <1>5 DEF SetHold, TypeInv, DataInv, SlotInv, SlotTyped
<1> QED
  BY <1>1, <1>2, <1>3, <1>4, <1>5 DEF Next

(* Every reachable state is typed, with the facts TypeOK needs to be kept. *)
LEMMA TypeInvariant == Spec => []TypeInv
BY TypeInit, TypeStep, PTL DEF Spec

(* Type correctness of the version history: whatever requests run, crash   *)
(* and interleave, every row, number, key and count stays in its range.    *)
THEOREM TypeCorrect == Spec => []TypeOK
<1>1. TypeInv => TypeOK
  BY DEF TypeInv, DataInv, SlotInv, TypeOK
<1> QED
  BY <1>1, TypeInvariant, PTL

-----------------------------------------------------------------------------
(* One request at a time: the files row always points at a version row     *)
(* that exists and carries its session-key wrap, if the read of the        *)
(* current version number in the delete route reports its errors.          *)
(* CurrentRowExists is not inductive. Version numbers have to be unique,   *)
(* an unanswered upload must not be the current version, and a handler     *)
(* that is about to point the files row at a version, or to delete one,    *)
(* has to know that the row exists, or that it is not the current one.     *)

UniqueNumbers == \A v, w \in rows : num[v] = num[w] => v = w
FreshIds == \A v \in Ver : v >= next => v \notin rows /\ upload[v] = "none"
OpenNotCurrent == \A v \in rows : upload[v] = "open" => num[v] # file.cur

HistoryInv ==
  UniqueNumbers /\ FreshIds /\ OpenNotCurrent /\ CurrentRowExists

Finalizing == {"finVersion", "finMeasure", "finPurge", "finDrop", "finInsert"}

SlotSafe(r) ==
  /\ h[r].pc \in Finalizing \cup {"finCommit", "rsCopy", "rsCommit"} =>
        upload[h[r].ver] # "open"
  /\ h[r].pc \in Finalizing =>
        (h[r].ver \in rows => num[h[r].ver] # file.cur)
  /\ h[r].pc \in {"finCommit", "rsCopy", "rsCommit"} => h[r].ver \in rows
  /\ h[r].pc \in {"delChunks", "delRow"} => num[h[r].ver] # file.cur
  /\ h[r].pc = "pruneList" => h[r].cur = file.cur
  /\ h[r].op = "prune" /\ h[r].pc \in {"delChunks", "delRow", "delRefs", "blobs"} =>
        \A v \in h[r].vs : num[v] # file.cur
  /\ h[r].pc \in {"dvHold", "dvCurrent"} => h[r].op # "prune"

Alone == \A q, r \in Req : h[q].pc # "idle" /\ h[r].pc # "idle" => q = r

SerialInv == HistoryInv /\ Alone /\ \A r \in Req : SlotSafe(r)

(* A request runs alone when requests do not overlap.                      *)
LEMMA Solo ==
  ASSUME Overlap = FALSE, Alone, NEW r \in Req, h[r].pc # "idle" \/ CanStart(r)
  PROVE  \A q \in Req \ {r} : h[q].pc = "idle"
BY DEF Alone, CanStart

(* So a step of slot r has to be checked for slot r only.                  *)
LEMMA SoloStep ==
  ASSUME NEW r \in Req,
         \A q \in Req \ {r} : h[q].pc = "idle",
         \A q \in Req \ {r} : h'[q] = h[q],
         HistoryInv', SlotSafe(r)'
  PROVE  SerialInv'
<1>1. Alone'
  BY DEF Alone
<1>2. ASSUME NEW q \in Req PROVE SlotSafe(q)'
  <2>1. CASE q # r
    <3>1. h'[q].pc = "idle"
      BY <2>1
    <3> QED
      BY <3>1 DEF SlotSafe, Finalizing
  <2> QED
    BY <2>1
<1> QED
  BY <1>1, <1>2 DEF SerialInv

(* A request that has answered needs nothing.                              *)
LEMMA ReturnSafe ==
  ASSUME SlotInv, NEW r \in Req, Return(r)
  PROVE  SlotSafe(r)'
<1>1. h'[r].pc = "idle"
  BY ReturnSlot, IdleTyped
<1> QED
  BY <1>1 DEF SlotSafe, Finalizing

(* The history depends on these variables only, and an upload that is not  *)
(* open any more asks less of it.                                          *)
LEMMA HistoryKept ==
  ASSUME DataInv, HistoryInv, UNCHANGED <<rows, next, num, key>>,
         file'.cur = file.cur, file'.key = file.key,
         \A v \in Ver : \/ upload'[v] = upload[v]
                        \/ upload[v] = "open" /\ upload'[v] # "open"
  PROVE  HistoryInv'
<1>1. UniqueNumbers' /\ CurrentRowExists'
  BY DEF HistoryInv, UniqueNumbers, CurrentRowExists
<1>2. FreshIds'
  BY DEF HistoryInv, FreshIds
<1>3. OpenNotCurrent'
  BY DEF HistoryInv, OpenNotCurrent, DataInv
<1> QED
  BY <1>1, <1>2, <1>3 DEF HistoryInv

(* Inserting a row whose number is not taken.                              *)
LEMMA HistoryInsert ==
  ASSUME TypeInv, HistoryInv, NEW n, ~Taken(n), next \in Ver, UNCHANGED file,
         rows' = rows \cup {next}, next' = next + 1,
         num' = [num EXCEPT ![next] = n],
         \E k : key' = [key EXCEPT ![next] = k],
         \E u : upload' = [upload EXCEPT ![next] = u]
  PROVE  HistoryInv' /\ \A v \in rows : num'[v] = num[v]
<1>1. next \notin rows /\ next \in Nat
  BY Bounds DEF HistoryInv, FreshIds, TypeInv, DataInv, Ver
<1>2. \A v \in rows : /\ v \in Ver /\ v # next /\ num'[v] = num[v] /\ key'[v] = key[v]
                      /\ upload'[v] = upload[v]
  BY <1>1 DEF TypeInv, DataInv
<1>3. num'[next] = n /\ n # file.cur /\ \A v \in rows : num[v] # n
  BY DEF TypeInv, DataInv, Taken, HistoryInv, CurrentRowExists
<1>4. UniqueNumbers'
  BY <1>2, <1>3 DEF HistoryInv, UniqueNumbers
<1>5. FreshIds'
  <2>1. \A v \in Ver : v >= next + 1 => v >= next /\ v # next
    BY <1>1, Bounds DEF Ver
  <2> QED
    BY <2>1 DEF HistoryInv, FreshIds, TypeInv, DataInv
<1>6. OpenNotCurrent'
  BY <1>2, <1>3 DEF HistoryInv, OpenNotCurrent
<1>7. CurrentRowExists'
  BY <1>2 DEF HistoryInv, CurrentRowExists
<1> QED
  BY <1>2, <1>4, <1>5, <1>6, <1>7 DEF HistoryInv

(* Deleting a row that is not the current one.                             *)
LEMMA HistoryDrop ==
  ASSUME TypeInv, HistoryInv, NEW v, v \in rows => num[v] # file.cur, DropVersion(v),
         UNCHANGED <<file, next, num, key, upload>>
  PROVE  HistoryInv'
BY DEF DropVersion, HistoryInv, UniqueNumbers, FreshIds, OpenNotCurrent,
       CurrentRowExists

(* Pointing the files row at a row that is no open upload's.               *)
LEMMA HistoryPoint ==
  ASSUME TypeInv, HistoryInv, NEW v \in rows, upload[v] # "open", PointFileAt(v),
         UNCHANGED <<rows, next, num, key, upload>>
  PROVE  HistoryInv'
<1>1. file'.cur = num[v] /\ file'.key = key[v]
  BY DEF PointFileAt, TypeInv, DataInv
<1>2. CurrentRowExists'
  BY <1>1 DEF CurrentRowExists
<1>3. OpenNotCurrent'
  BY <1>1 DEF OpenNotCurrent, HistoryInv, UniqueNumbers
<1> QED
  BY <1>2, <1>3 DEF HistoryInv, UniqueNumbers, FreshIds

(* Uploads.                                                                *)
LEMMA SerialUpload ==
  ASSUME Overlap = FALSE, TypeInv, SerialInv, NEW r \in Req,
         \/ StartNewVersion(r) \/ InsertRefused(r) \/ InsertVersion(r)
         \/ \E v \in Ver : StartFinalize(r, v)
         \/ FinalizeReadVersion(r) \/ FinalizeMeasure(r) \/ FinalizePurge(r)
         \/ FinalizeDrop(r) \/ FinalizeInsertChunks(r) \/ FinalizeCommit(r)
  PROVE  SerialInv'
<1> USE DEF At
<1>0. SlotInv /\ DataInv /\ HistoryInv /\ SlotSafe(r)
  BY DEF TypeInv, SerialInv
<1>1. CASE StartNewVersion(r)
  <2> DEFINE x == [IdleReq EXCEPT !.pc = "insert", !.op = "init",
                                  !.num = file.cur + 1]
  <2>1. file.cur + 1 \in 0..MaxVer+1
    BY <1>0, Bounds, VerIsId DEF DataInv
  <2>2. x \in ReqType /\ x.pc = "insert"
    BY <2>1, IdleTyped, PCs DEF ReqType
  <2>3. h'[r] = x /\ \A q \in Req \ {r} : h'[q] = h[q]
    BY <1>0, <1>1, <2>2, SetSlot DEF StartNewVersion, UsesVersion
  <2> HIDE DEF x
  <2>4. SlotSafe(r)'
    BY <2>2, <2>3 DEF SlotSafe, Finalizing
  <2>5. HistoryInv'
    BY <1>0, <1>1, HistoryKept DEF StartNewVersion
  <2> QED
    BY <1>1, <2>3, <2>4, <2>5, Solo, SoloStep DEF SerialInv, StartNewVersion, OwnerStarts
<1>2. CASE InsertRefused(r)
  <2>1. SlotSafe(r)' /\ \A q \in Req \ {r} : h'[q] = h[q]
    BY <1>0, <1>2, ReturnSafe, ReturnSlot DEF InsertRefused
  <2>2. HistoryInv'
    BY <1>0, <1>2, HistoryKept DEF InsertRefused
  <2> QED
    BY <1>2, <2>1, <2>2, Solo, SoloStep DEF SerialInv, InsertRefused
<1>3. CASE InsertVersion(r)
  <2>1. next \in Ver /\ next \in Id /\ ~Taken(h[r].num)
    BY <1>0, <1>3, Bounds, VerIsId DEF InsertVersion, Refused, BoundReached, DataInv, Ver
  <2>2. HistoryInv'
    <3>1. \E k : key' = [key EXCEPT ![next] = k]
      BY <1>3 DEF InsertVersion
    <3>2. upload[next] = "none" /\ upload = [upload EXCEPT ![next] = "none"]
      BY <1>0, <2>1, Bounds DEF HistoryInv, FreshIds, DataInv, Ver
    <3>3. \E u : upload' = [upload EXCEPT ![next] = u]
      BY <1>3, <3>2 DEF InsertVersion
    <3> QED
      BY <1>0, <1>3, <2>1, <3>1, <3>3, HistoryInsert DEF InsertVersion
  <2>3. CASE h[r].op = "init"
    <3>1. SlotSafe(r)' /\ \A q \in Req \ {r} : h'[q] = h[q]
      BY <1>0, <1>3, <2>3, ReturnSafe, ReturnSlot DEF InsertVersion
    <3> QED
      BY <1>3, <2>2, <3>1, Solo, SoloStep DEF SerialInv, InsertVersion
  <2>4. CASE h[r].op = "restore"
    <3>1. /\ h'[r].pc = "rsCopy" /\ h'[r].ver = next
          /\ \A q \in Req \ {r} : h'[q] = h[q]
      BY <1>0, <1>3, <2>1, <2>4, VerSlot, PCs DEF InsertVersion
    <3>2. next \in rows' /\ upload'[next] # "open"
      BY <1>0, <1>3, <2>1, <2>4, Bounds DEF InsertVersion, HistoryInv, FreshIds, Ver
    <3>3. SlotSafe(r)'
      BY <3>1, <3>2 DEF SlotSafe, Finalizing
    <3> QED
      BY <1>3, <2>2, <3>1, <3>3, Solo, SoloStep DEF SerialInv, InsertVersion
  <2> QED
    BY <1>3, <2>3, <2>4 DEF InsertVersion
<1>4. ASSUME NEW v \in Ver, StartFinalize(r, v)
      PROVE  SerialInv'
  <2> DEFINE x == [IdleReq EXCEPT !.pc = "finVersion", !.op = "finalize", !.ver = v]
  <2>1. x \in ReqType /\ x.pc = "finVersion" /\ x.ver = v /\ x.op = "finalize"
    BY IdleTyped, PCs, VerIsId DEF ReqType
  <2>2. h'[r] = x /\ \A q \in Req \ {r} : h'[q] = h[q]
    BY <1>0, <1>4, <2>1, SetSlot DEF StartFinalize
  <2> HIDE DEF x
  <2>3. upload'[v] = "closed" /\ (v \in rows' => num'[v] # file'.cur)
    BY <1>0, <1>4 DEF StartFinalize, HistoryInv, OpenNotCurrent, DataInv
  <2>4. SlotSafe(r)'
    BY <2>1, <2>2, <2>3 DEF SlotSafe, Finalizing
  <2>5. HistoryInv'
    BY <1>0, <1>4, HistoryKept DEF StartFinalize, DataInv
  <2> QED
    BY <1>4, <2>2, <2>4, <2>5, Solo, SoloStep DEF SerialInv, StartFinalize
<1>5. CASE FinalizeReadVersion(r)
  <2>1. HistoryInv'
    BY <1>0, <1>5, HistoryKept DEF FinalizeReadVersion
  <2>2. CASE Goto(r, "finMeasure")
    <3>1. /\ h'[r].pc = "finMeasure" /\ h'[r].ver = h[r].ver
          /\ \A q \in Req \ {r} : h'[q] = h[q]
      BY <1>0, <1>5, <2>2, GotoSlot, PCs
         DEF FinalizeReadVersion, SlotInv, SlotTyped, UsesVersion
    <3>2. SlotSafe(r)'
      BY <1>0, <1>5, <3>1 DEF FinalizeReadVersion, SlotSafe, Finalizing
    <3> QED
      BY <1>5, <2>1, <3>1, <3>2, Solo, SoloStep DEF SerialInv, FinalizeReadVersion
  <2>3. CASE Return(r)
    BY <1>0, <1>5, <2>1, <2>3, ReturnSafe, ReturnSlot, Solo, SoloStep
       DEF SerialInv, FinalizeReadVersion
  <2> QED
    BY <1>5, <2>2, <2>3 DEF FinalizeReadVersion
<1>6. CASE FinalizeMeasure(r)
  <2>1. HistoryInv'
    BY <1>0, <1>6, HistoryKept DEF FinalizeMeasure
  <2>2. PICK p \in {"finDrop", "finInsert", "finPurge"} : Goto(r, p)
    BY <1>6 DEF FinalizeMeasure
  <2>3. /\ h'[r].pc = p /\ h'[r].ver = h[r].ver
        /\ \A q \in Req \ {r} : h'[q] = h[q]
    BY <1>0, <1>6, <2>2, GotoSlot, PCs
       DEF FinalizeMeasure, SlotInv, SlotTyped, UsesVersion
  <2>4. SlotSafe(r)'
    BY <1>0, <1>6, <2>3 DEF FinalizeMeasure, SlotSafe, Finalizing
  <2> QED
    BY <1>6, <2>1, <2>3, <2>4, Solo, SoloStep DEF SerialInv, FinalizeMeasure
<1>7. CASE FinalizePurge(r)
  <2>1. HistoryInv'
    BY <1>0, <1>7, HistoryKept DEF FinalizePurge
  <2>2. /\ h'[r].pc = "finDrop" /\ h'[r].ver = h[r].ver
        /\ \A q \in Req \ {r} : h'[q] = h[q]
    BY <1>0, <1>7, GotoSlot, PCs DEF FinalizePurge, SlotInv, SlotTyped, UsesVersion
  <2>3. SlotSafe(r)'
    BY <1>0, <1>7, <2>2 DEF FinalizePurge, SlotSafe, Finalizing
  <2> QED
    BY <1>7, <2>1, <2>2, <2>3, Solo, SoloStep DEF SerialInv, FinalizePurge
<1>8. CASE FinalizeDrop(r)
  <2>1. h[r].ver \in rows => num[h[r].ver] # file.cur
    BY <1>0, <1>8 DEF FinalizeDrop, SlotSafe, Finalizing
  <2>2. HistoryInv'
    BY <1>0, <1>8, <2>1, HistoryDrop DEF FinalizeDrop
  <2>3. SlotSafe(r)' /\ \A q \in Req \ {r} : h'[q] = h[q]
    BY <1>0, <1>8, ReturnSafe, ReturnSlot DEF FinalizeDrop
  <2> QED
    BY <1>8, <2>2, <2>3, Solo, SoloStep DEF SerialInv, FinalizeDrop
<1>9. CASE FinalizeInsertChunks(r)
  <2>1. HistoryInv'
    BY <1>0, <1>9, HistoryKept DEF FinalizeInsertChunks
  <2>2. CASE h[r].ver \in rows /\ Goto(r, "finCommit")
    <3>1. /\ h'[r].pc = "finCommit" /\ h'[r].ver = h[r].ver
          /\ \A q \in Req \ {r} : h'[q] = h[q]
      BY <1>0, <1>9, <2>2, GotoSlot, PCs
         DEF FinalizeInsertChunks, SlotInv, SlotTyped, UsesVersion
    <3>2. SlotSafe(r)'
      BY <1>0, <1>9, <2>2, <3>1 DEF FinalizeInsertChunks, SlotSafe, Finalizing
    <3> QED
      BY <1>9, <2>1, <3>1, <3>2, Solo, SoloStep DEF SerialInv, FinalizeInsertChunks
  <2>3. CASE Return(r)
    BY <1>0, <1>9, <2>1, <2>3, ReturnSafe, ReturnSlot, Solo, SoloStep
       DEF SerialInv, FinalizeInsertChunks
  <2> QED
    BY <1>9, <2>2, <2>3 DEF FinalizeInsertChunks
<1>10. CASE FinalizeCommit(r)
  <2> DEFINE x == [IdleReq EXCEPT !.pc = "pruneFile", !.op = "prune"]
  <2>1. x \in ReqType /\ x.pc = "pruneFile"
    BY IdleTyped, PCs DEF ReqType
  <2>2. h'[r] = x /\ \A q \in Req \ {r} : h'[q] = h[q]
    BY <1>0, <1>10, <2>1, SetSlot DEF FinalizeCommit, UsesVersion
  <2> HIDE DEF x
  <2>3. SlotSafe(r)'
    BY <2>1, <2>2 DEF SlotSafe, Finalizing
  <2>4. h[r].ver \in rows /\ upload[h[r].ver] # "open"
    BY <1>0, <1>10 DEF FinalizeCommit, SlotSafe
  <2>5. HistoryInv'
    BY <1>0, <1>10, <2>4, HistoryPoint DEF FinalizeCommit
  <2> QED
    BY <1>10, <2>2, <2>3, <2>5, Solo, SoloStep DEF SerialInv, FinalizeCommit
<1> QED
  BY <1>1, <1>2, <1>3, <1>4, <1>5, <1>6, <1>7, <1>8, <1>9, <1>10

(* Restores.                                                               *)
LEMMA SerialRestore ==
  ASSUME Overlap = FALSE, TypeInv, SerialInv, NEW r \in Req,
         \/ \E v \in Ver : StartRestore(r, v)
         \/ RestoreReadChunks(r) \/ RestoreReadMax(r)
         \/ RestoreCopyChunks(r) \/ RestoreCommit(r)
  PROVE  SerialInv'
<1> USE DEF At
<1>0. SlotInv /\ DataInv /\ HistoryInv /\ SlotSafe(r)
  BY DEF TypeInv, SerialInv
<1>1. ASSUME NEW v \in Ver, StartRestore(r, v)
      PROVE  SerialInv'
  <2> DEFINE x == [IdleReq EXCEPT !.pc = "rsChunks", !.op = "restore", !.ver = v,
                                  !.key = key[v]]
  <2>1. v \in Id /\ key[v] \in Id
    BY <1>0, VerIsId DEF DataInv
  <2>2. x \in ReqType /\ x.pc = "rsChunks" /\ x.ver = v
    BY <2>1, IdleTyped, PCs DEF ReqType
  <2>3. h'[r] = x /\ \A q \in Req \ {r} : h'[q] = h[q]
    BY <1>0, <1>1, <2>2, SetSlot DEF StartRestore
  <2> HIDE DEF x
  <2>4. SlotSafe(r)'
    BY <2>2, <2>3 DEF SlotSafe, Finalizing
  <2>5. HistoryInv'
    BY <1>0, <1>1, HistoryKept DEF StartRestore
  <2> QED
    BY <1>1, <2>3, <2>4, <2>5, Solo, SoloStep DEF SerialInv, StartRestore, OwnerStarts
<1>2. CASE RestoreReadChunks(r)
  <2>1. h[r].ver \in Ver /\ chunk[h[r].ver] \in Id
    BY <1>0, <1>2 DEF RestoreReadChunks, DataInv, SlotInv, SlotTyped, UsesVersion
  <2>2. h'[r].pc = "rsMax" /\ \A q \in Req \ {r} : h'[q] = h[q]
    BY <1>0, <1>2, <2>1, PreSlot, PCs DEF RestoreReadChunks, UsesVersion
  <2>3. SlotSafe(r)'
    BY <2>2 DEF SlotSafe, Finalizing
  <2>4. HistoryInv'
    BY <1>0, <1>2, HistoryKept DEF RestoreReadChunks
  <2> QED
    BY <1>2, <2>2, <2>3, <2>4, Solo, SoloStep DEF SerialInv, RestoreReadChunks
<1>3. CASE RestoreReadMax(r)
  <2>1. PICK n \in 0..MaxVer+1 : h' = [h EXCEPT ![r].pc = "insert", ![r].num = n]
    <3>1. 1 \in 0..MaxVer+1 /\ \A m \in Id : m + 1 \in 0..MaxVer+1
      BY Bounds, VerIsId
    <3> QED
      BY <1>3, <3>1 DEF RestoreReadMax
  <2>2. h'[r].pc = "insert" /\ \A q \in Req \ {r} : h'[q] = h[q]
    BY <1>0, <2>1, NumSlot, PCs DEF UsesVersion
  <2>3. SlotSafe(r)'
    BY <2>2 DEF SlotSafe, Finalizing
  <2>4. HistoryInv'
    BY <1>0, <1>3, HistoryKept DEF RestoreReadMax
  <2> QED
    BY <1>3, <2>2, <2>3, <2>4, Solo, SoloStep DEF SerialInv, RestoreReadMax
<1>4. CASE RestoreCopyChunks(r)
  <2>1. HistoryInv'
    BY <1>0, <1>4, HistoryKept DEF RestoreCopyChunks
  <2>2. CASE Goto(r, "rsCommit")
    <3>1. /\ h'[r].pc = "rsCommit" /\ h'[r].ver = h[r].ver
          /\ \A q \in Req \ {r} : h'[q] = h[q]
      BY <1>0, <1>4, <2>2, GotoSlot, PCs
         DEF RestoreCopyChunks, SlotInv, SlotTyped, UsesVersion
    <3>2. SlotSafe(r)'
      BY <1>0, <1>4, <3>1 DEF RestoreCopyChunks, SlotSafe, Finalizing
    <3> QED
      BY <1>4, <2>1, <3>1, <3>2, Solo, SoloStep DEF SerialInv, RestoreCopyChunks
  <2>3. CASE Return(r)
    BY <1>0, <1>4, <2>1, <2>3, ReturnSafe, ReturnSlot, Solo, SoloStep
       DEF SerialInv, RestoreCopyChunks
  <2> QED
    BY <1>4, <2>2, <2>3 DEF RestoreCopyChunks
<1>5. CASE RestoreCommit(r)
  <2>1. h[r].ver \in rows /\ upload[h[r].ver] # "open"
    BY <1>0, <1>5 DEF RestoreCommit, SlotSafe
  <2>2. HistoryInv'
    BY <1>0, <1>5, <2>1, HistoryPoint DEF RestoreCommit
  <2>3. SlotSafe(r)' /\ \A q \in Req \ {r} : h'[q] = h[q]
    BY <1>0, <1>5, ReturnSafe, ReturnSlot DEF RestoreCommit
  <2> QED
    BY <1>5, <2>2, <2>3, Solo, SoloStep DEF SerialInv, RestoreCommit
<1> QED
  BY <1>1, <1>2, <1>3, <1>4, <1>5

(* The prune's loop goes on with versions that are not current, because it *)
(* was told the current number and runs alone.                             *)
LEMMA PruneLoopSafe ==
  ASSUME SlotInv, NEW r \in Req, NEW vs \in SUBSET Ver, PruneLoop(r, vs),
         \A v \in vs : num[v] # file.cur, UNCHANGED num, file'.cur = file.cur
  PROVE  SlotSafe(r)'
BY PruneLoopSlot DEF SlotSafe, Finalizing

(* Deleting a version, on request or from the prune's loop: the current    *)
(* version is never the one that goes.                                     *)
LEMMA SerialDelete ==
  ASSUME Overlap = FALSE, "current" \notin Faults, TypeInv, SerialInv, NEW r \in Req,
         \/ \E v \in Ver : StartDelete(r, v)
         \/ DeleteCheckHold(r) \/ DeleteCheckCurrent(r) \/ DeleteReadChunks(r)
         \/ DeleteRow(r) \/ DeleteCountRefs(r) \/ DeleteObjects(r)
         \/ CountRows(r) \/ SetCount(r)
  PROVE  SerialInv'
<1> USE DEF At
<1>0. SlotInv /\ DataInv /\ HistoryInv /\ SlotSafe(r)
  BY DEF TypeInv, SerialInv
<1>1. ASSUME NEW v \in Ver, StartDelete(r, v)
      PROVE  SerialInv'
  <2> DEFINE x == [IdleReq EXCEPT !.pc = "dvHold", !.op = "delete", !.ver = v]
  <2>1. x \in ReqType /\ x.pc = "dvHold" /\ x.ver = v /\ x.op = "delete"
    BY IdleTyped, PCs, VerIsId DEF ReqType
  <2>2. h'[r] = x /\ \A q \in Req \ {r} : h'[q] = h[q]
    BY <1>0, <1>1, <2>1, SetSlot DEF StartDelete
  <2> HIDE DEF x
  <2>3. SlotSafe(r)'
    BY <2>1, <2>2 DEF SlotSafe, Finalizing
  <2>4. HistoryInv'
    BY <1>0, <1>1, HistoryKept DEF StartDelete
  <2> QED
    BY <1>1, <2>2, <2>3, <2>4, Solo, SoloStep DEF SerialInv, StartDelete, OwnerStarts
<1>2. CASE DeleteCheckHold(r)
  <2>1. HistoryInv'
    BY <1>0, <1>2, HistoryKept DEF DeleteCheckHold
  <2>2. CASE Goto(r, "dvCurrent")
    <3>1. /\ h'[r].pc = "dvCurrent" /\ h'[r].op = h[r].op
          /\ \A q \in Req \ {r} : h'[q] = h[q]
      BY <1>0, <1>2, <2>2, GotoSlot, PCs
         DEF DeleteCheckHold, SlotInv, SlotTyped, UsesVersion
    <3>2. SlotSafe(r)'
      BY <1>0, <1>2, <3>1 DEF DeleteCheckHold, SlotSafe, Finalizing
    <3> QED
      BY <1>2, <2>1, <3>1, <3>2, Solo, SoloStep DEF SerialInv, DeleteCheckHold
  <2>3. CASE Return(r)
    BY <1>0, <1>2, <2>1, <2>3, ReturnSafe, ReturnSlot, Solo, SoloStep
       DEF SerialInv, DeleteCheckHold
  <2> QED
    BY <1>2, <2>2, <2>3 DEF DeleteCheckHold
<1>3. CASE DeleteCheckCurrent(r)
  <2>1. HistoryInv'
    BY <1>0, <1>3, HistoryKept DEF DeleteCheckCurrent
  <2>2. CASE Goto(r, "delChunks") /\ num[h[r].ver] # file.cur
    <3>1. /\ h'[r].pc = "delChunks" /\ h'[r].ver = h[r].ver /\ h'[r].vs = h[r].vs
          /\ h'[r].op = h[r].op /\ \A q \in Req \ {r} : h'[q] = h[q]
      BY <1>0, <1>3, <2>2, GotoSlot, PCs
         DEF DeleteCheckCurrent, SlotInv, SlotTyped, UsesVersion
    <3>2. h[r].op # "prune"
      BY <1>0, <1>3 DEF DeleteCheckCurrent, SlotSafe
    <3>3. SlotSafe(r)'
      BY <1>3, <2>2, <3>1, <3>2 DEF DeleteCheckCurrent, SlotSafe, Finalizing
    <3> QED
      BY <1>3, <2>1, <3>1, <3>3, Solo, SoloStep DEF SerialInv, DeleteCheckCurrent
  <2>3. CASE Return(r)
    BY <1>0, <1>3, <2>1, <2>3, ReturnSafe, ReturnSlot, Solo, SoloStep
       DEF SerialInv, DeleteCheckCurrent
  <2> QED
    BY <1>3, <2>2, <2>3 DEF DeleteCheckCurrent, Errs
<1>4. CASE DeleteReadChunks(r)
  <2>1. h[r].ver \in Ver /\ chunk[h[r].ver] \in Id /\ None \in Id
    BY <1>0, <1>4, VerIsId DEF DeleteReadChunks, DataInv, SlotInv, SlotTyped, UsesVersion
  <2>2. /\ h'[r].pc = "delRow" /\ h'[r].ver = h[r].ver /\ h'[r].vs = h[r].vs
        /\ h'[r].op = h[r].op /\ \A q \in Req \ {r} : h'[q] = h[q]
    BY <1>0, <1>4, <2>1, PreSlot, PCs DEF DeleteReadChunks, UsesVersion
  <2>3. SlotSafe(r)'
    BY <1>0, <1>4, <2>2 DEF DeleteReadChunks, SlotSafe, Finalizing
  <2>4. HistoryInv'
    BY <1>0, <1>4, HistoryKept DEF DeleteReadChunks
  <2> QED
    BY <1>4, <2>2, <2>3, <2>4, Solo, SoloStep DEF SerialInv, DeleteReadChunks
<1>5. CASE DeleteRow(r)
  <2>1. /\ h'[r].pc = "delRefs" /\ h'[r].vs = h[r].vs /\ h'[r].op = h[r].op
        /\ \A q \in Req \ {r} : h'[q] = h[q]
    BY <1>0, <1>5, GotoSlot, PCs DEF DeleteRow, UsesVersion
  <2>2. SlotSafe(r)'
    BY <1>0, <1>5, <2>1 DEF DeleteRow, SlotSafe, Finalizing
  <2>3. HistoryInv'
    BY <1>0, <1>5, HistoryDrop DEF DeleteRow, SlotSafe, TypeInv
  <2> QED
    BY <1>5, <2>1, <2>2, <2>3, Solo, SoloStep DEF SerialInv, DeleteRow
<1>6. CASE DeleteCountRefs(r)
  <2> DEFINE p == AfterRefs(r)
             w == IF Referenced(h[r].pre) THEN None ELSE h[r].pre
  <2>1. (p = "blobs" \/ p = "count") /\ w \in Id
    BY <1>0, VerIsId DEF AfterRefs, SlotInv, ReqType
  <2>2. \/ h' = [h EXCEPT ![r].pc = p, ![r].pre = w]
        \/ Goto(r, p)
    BY <1>6 DEF DeleteCountRefs
  <2> HIDE DEF p, w
  <2>3. /\ h'[r].pc = p /\ h'[r].vs = h[r].vs /\ h'[r].op = h[r].op
        /\ \A q \in Req \ {r} : h'[q] = h[q]
    <3>1. p \in PC /\ p \notin UsesVersion /\ p # "setCount"
      BY <2>1, PCs DEF UsesVersion
    <3>2. CASE Goto(r, p)
      BY <1>0, <3>1, <3>2, GotoSlot
    <3>3. CASE h' = [h EXCEPT ![r].pc = p, ![r].pre = w]
      BY <1>0, <2>1, <3>1, <3>3, PreSlot
    <3> QED
      BY <2>2, <3>2, <3>3
  <2>4. SlotSafe(r)'
    BY <1>0, <1>6, <2>1, <2>3 DEF DeleteCountRefs, SlotSafe, Finalizing
  <2>5. HistoryInv'
    BY <1>0, <1>6, HistoryKept DEF DeleteCountRefs
  <2> QED
    BY <1>6, <2>3, <2>4, <2>5, Solo, SoloStep DEF SerialInv, DeleteCountRefs
<1>7. CASE DeleteObjects(r)
  <2>1. HistoryInv'
    BY <1>0, <1>7, HistoryKept DEF DeleteObjects
  <2>2. CASE h[r].op = "prune"
    <3>1. h[r].vs \in SUBSET Ver /\ PruneLoop(r, h[r].vs)
          /\ \A v \in h[r].vs : num[v] # file.cur
      BY <1>0, <1>7, <2>2 DEF DeleteObjects, SlotSafe, SlotInv, ReqType
    <3>2. SlotSafe(r)' /\ \A q \in Req \ {r} : h'[q] = h[q]
      BY <1>0, <1>7, <3>1, PruneLoopSafe, PruneLoopSlot DEF DeleteObjects
    <3> QED
      BY <1>7, <2>1, <3>2, Solo, SoloStep DEF SerialInv, DeleteObjects
  <2>3. CASE Return(r)
    BY <1>0, <1>7, <2>1, <2>3, ReturnSafe, ReturnSlot, Solo, SoloStep
       DEF SerialInv, DeleteObjects
  <2> QED
    BY <1>7, <2>2, <2>3 DEF DeleteObjects
<1>8. CASE CountRows(r)
  <2>1. PICK n \in Id : h' = [h EXCEPT ![r].pc = "setCount", ![r].num = n]
    BY <1>0, <1>8, RowsFit, Bounds, VerIsId DEF CountRows, DataInv
  <2>2. n \in 0..MaxVer+1
    BY Bounds, VerIsId
  <2>3. h'[r].pc = "setCount" /\ \A q \in Req \ {r} : h'[q] = h[q]
    BY <1>0, <2>1, <2>2, NumSlot, PCs DEF UsesVersion
  <2>4. SlotSafe(r)'
    BY <2>3 DEF SlotSafe, Finalizing
  <2>5. HistoryInv'
    BY <1>0, <1>8, HistoryKept DEF CountRows
  <2> QED
    BY <1>8, <2>3, <2>4, <2>5, Solo, SoloStep DEF SerialInv, CountRows
<1>9. CASE SetCount(r)
  <2>1. HistoryInv'
    <3>1. file'.cur = file.cur /\ file'.key = file.key
      BY <1>0, <1>9 DEF SetCount, DataInv
    <3> QED
      BY <1>0, <1>9, <3>1, HistoryKept DEF SetCount
  <2>2. CASE h[r].op = "prune"
    BY <1>0, <1>9, <2>1, <2>2, ReturnSafe, ReturnSlot, Solo, SoloStep
       DEF SerialInv, SetCount
  <2>3. CASE h[r].op # "prune"
    <3>1. /\ h'[r].pc = "blobs" /\ h'[r].op = h[r].op
          /\ \A q \in Req \ {r} : h'[q] = h[q]
      BY <1>0, <1>9, <2>3, GotoSlot, PCs DEF SetCount, UsesVersion
    <3>2. SlotSafe(r)'
      BY <2>3, <3>1 DEF SlotSafe, Finalizing
    <3> QED
      BY <1>9, <2>1, <3>1, <3>2, Solo, SoloStep DEF SerialInv, SetCount
  <2> QED
    BY <2>2, <2>3
<1> QED
  BY <1>1, <1>2, <1>3, <1>4, <1>5, <1>6, <1>7, <1>8, <1>9

(* The prune, the download, and a request that dies.                       *)
LEMMA SerialOther ==
  ASSUME Overlap = FALSE, TypeInv, SerialInv, NEW r \in Req,
         \/ StartPrune(r) \/ PruneReadFile(r) \/ PruneList(r) \/ PruneSkip(r)
         \/ StartDownload(r) \/ DownloadReadVersion(r) \/ DownloadReadChunks(r)
         \/ FinishDownload(r) \/ Crash(r)
  PROVE  SerialInv'
<1> USE DEF At
<1>0. SlotInv /\ DataInv /\ HistoryInv /\ SlotSafe(r)
  BY DEF TypeInv, SerialInv
<1>1. CASE StartPrune(r)
  <2> DEFINE x == [IdleReq EXCEPT !.pc = "pruneFile", !.op = "prune"]
  <2>1. x \in ReqType /\ x.pc = "pruneFile"
    BY IdleTyped, PCs DEF ReqType
  <2>2. h'[r] = x /\ \A q \in Req \ {r} : h'[q] = h[q]
    BY <1>0, <1>1, <2>1, SetSlot DEF StartPrune, UsesVersion
  <2> HIDE DEF x
  <2>3. SlotSafe(r)'
    BY <2>1, <2>2 DEF SlotSafe, Finalizing
  <2>4. HistoryInv'
    BY <1>0, <1>1, HistoryKept DEF StartPrune
  <2> QED
    BY <1>1, <2>2, <2>3, <2>4, Solo, SoloStep DEF SerialInv, StartPrune
<1>2. CASE PruneReadFile(r)
  <2>1. HistoryInv'
    BY <1>0, <1>2, HistoryKept DEF PruneReadFile
  <2>2. CASE Return(r)
    BY <1>0, <1>2, <2>1, <2>2, ReturnSafe, ReturnSlot, Solo, SoloStep
       DEF SerialInv, PruneReadFile
  <2>3. CASE h' = [h EXCEPT ![r].pc = "pruneList", ![r].cur = file.cur]
    <3>0. PICK n \in Id : n = file.cur /\ h' = [h EXCEPT ![r].pc = "pruneList",
                                                       ![r].cur = n]
      BY <1>0, <2>3 DEF DataInv
    <3>1. /\ h'[r].pc = "pruneList" /\ h'[r].cur = n
          /\ \A q \in Req \ {r} : h'[q] = h[q]
      <4>1. "pruneList" \in PC /\ "pruneList" \notin UsesVersion
        BY PCs DEF UsesVersion
      <4> QED
        BY <1>0, <3>0, <4>1, CurSlot
    <3>2. SlotSafe(r)'
      BY <1>2, <3>0, <3>1 DEF PruneReadFile, SlotSafe, Finalizing
    <3> QED
      BY <1>2, <2>1, <3>1, <3>2, Solo, SoloStep DEF SerialInv, PruneReadFile
  <2> QED
    BY <1>2, <2>2, <2>3 DEF PruneReadFile
<1>3. CASE PruneList(r)
  <2>1. HistoryInv'
    BY <1>0, <1>3, HistoryKept DEF PruneList
  <2>2. ASSUME NEW id, PruneLoop(r, Excess(h[r].cur) \cup Expired(h[r].cur, id))
        PROVE  SerialInv'
    <3> DEFINE del == Excess(h[r].cur) \cup Expired(h[r].cur, id)
    <3>1. del \in SUBSET Ver /\ \A v \in del : num[v] # file.cur
      BY <1>0, <1>3 DEF PruneList, Excess, Expired, SlotSafe, DataInv
    <3>2. PruneLoop(r, del) /\ UNCHANGED <<num, file>>
      BY <1>3, <2>2 DEF PruneList
    <3> HIDE DEF del
    <3>3. SlotSafe(r)' /\ \A q \in Req \ {r} : h'[q] = h[q]
      BY <1>0, <3>1, <3>2, PruneLoopSafe, PruneLoopSlot
    <3> QED
      BY <1>3, <2>1, <3>3, Solo, SoloStep DEF SerialInv, PruneList
  <2>3. CASE Return(r)
    BY <1>0, <1>3, <2>1, <2>3, ReturnSafe, ReturnSlot, Solo, SoloStep
       DEF SerialInv, PruneList
  <2> QED
    BY <1>3, <2>2, <2>3 DEF PruneList
<1>4. CASE PruneSkip(r)
  <2>1. HistoryInv'
    BY <1>0, <1>4, HistoryKept DEF PruneSkip
  <2>2. h[r].vs \in SUBSET Ver /\ \A v \in h[r].vs : num[v] # file.cur
    BY <1>0, <1>4 DEF PruneSkip, SlotSafe, SlotInv, ReqType
  <2>3. SlotSafe(r)' /\ \A q \in Req \ {r} : h'[q] = h[q]
    BY <1>0, <1>4, <2>2, PruneLoopSafe, PruneLoopSlot DEF PruneSkip
  <2> QED
    BY <1>4, <2>1, <2>3, Solo, SoloStep DEF SerialInv, PruneSkip
<1>5. CASE StartDownload(r)
  <2> DEFINE x == [IdleReq EXCEPT !.pc = "dlVersion", !.cur = file.cur,
                                  !.key = file.key]
  <2>1. file.cur \in Id /\ file.key \in Id
    BY <1>0 DEF DataInv
  <2>2. x \in ReqType /\ x.pc = "dlVersion"
    BY <2>1, IdleTyped, PCs DEF ReqType
  <2>3. h'[r] = x /\ \A q \in Req \ {r} : h'[q] = h[q]
    BY <1>0, <1>5, <2>2, SetSlot DEF StartDownload, UsesVersion
  <2> HIDE DEF x
  <2>4. SlotSafe(r)'
    BY <2>2, <2>3 DEF SlotSafe, Finalizing
  <2>5. HistoryInv'
    BY <1>0, <1>5, HistoryKept DEF StartDownload
  <2> QED
    BY <1>5, <2>3, <2>4, <2>5, Solo, SoloStep DEF SerialInv, StartDownload
<1>6. CASE DownloadReadVersion(r)
  <2>1. PICK v \in Id : h' = [h EXCEPT ![r].pc = "dlChunks", ![r].ver = v]
    BY <1>0, <1>6, RowOfTyped, VerIsId DEF DownloadReadVersion, DataInv
  <2>2. h'[r].pc = "dlChunks" /\ \A q \in Req \ {r} : h'[q] = h[q]
    BY <1>0, <2>1, VerSlot, PCs DEF UsesVersion
  <2>3. SlotSafe(r)'
    BY <2>2 DEF SlotSafe, Finalizing
  <2>4. HistoryInv'
    BY <1>0, <1>6, HistoryKept DEF DownloadReadVersion
  <2> QED
    BY <1>6, <2>2, <2>3, <2>4, Solo, SoloStep DEF SerialInv, DownloadReadVersion
<1>7. CASE DownloadReadChunks(r)
  <2> DEFINE w == {v \in Asked(h[r].ver) : chunk[v] # None}
  <2>1. w \in SUBSET Ver
    BY <1>0 DEF Asked, DataInv
  <2>2. h' = [h EXCEPT ![r].pc = "dlDone", ![r].vs = w]
    BY <1>7 DEF DownloadReadChunks
  <2> HIDE DEF w
  <2>3. h'[r].pc = "dlDone" /\ \A q \in Req \ {r} : h'[q] = h[q]
    BY <1>0, <2>1, <2>2, VsSlot, PCs DEF UsesVersion
  <2>4. SlotSafe(r)'
    BY <2>3 DEF SlotSafe, Finalizing
  <2>5. HistoryInv'
    BY <1>0, <1>7, HistoryKept DEF DownloadReadChunks
  <2> QED
    BY <1>7, <2>3, <2>4, <2>5, Solo, SoloStep DEF SerialInv, DownloadReadChunks
<1>8. CASE FinishDownload(r)
  <2>1. HistoryInv' /\ Return(r)
    BY <1>0, <1>8, HistoryKept DEF FinishDownload
  <2> QED
    BY <1>0, <1>8, <2>1, ReturnSafe, ReturnSlot, Solo, SoloStep
       DEF SerialInv, FinishDownload
<1>9. CASE Crash(r)
  <2>1. HistoryInv' /\ Return(r)
    BY <1>0, <1>9, HistoryKept DEF Crash
  <2> QED
    BY <1>0, <1>9, <2>1, ReturnSafe, ReturnSlot, Solo, SoloStep DEF SerialInv, Crash
<1> QED
  BY <1>1, <1>2, <1>3, <1>4, <1>5, <1>6, <1>7, <1>8, <1>9

(* What runs beside the requests: the client's PUTs, a client that gives   *)
(* up, an administrator's hold.                                            *)
LEMMA SerialBeside ==
  ASSUME TypeInv, SerialInv,
         \/ \E v \in Ver : Abandon(v) \/ \E c \in Chunks : PutChunk(v, c)
         \/ SetHold
  PROVE  SerialInv'
<1>1. /\ UNCHANGED <<rows, next, num, key, h>>
      /\ file'.cur = file.cur /\ file'.key = file.key
      /\ \A v \in Ver : \/ upload'[v] = upload[v]
                        \/ upload[v] = "open" /\ upload'[v] # "open"
  BY DEF Abandon, PutChunk, SetHold, TypeInv, DataInv
<1>2. HistoryInv'
  BY <1>1, HistoryKept DEF SerialInv, TypeInv
<1>3. Alone'
  BY <1>1 DEF SerialInv, Alone
<1>4. ASSUME NEW r \in Req PROVE SlotSafe(r)'
  <2>1. SlotSafe(r) /\ SlotTyped(r)
    BY DEF SerialInv, TypeInv, SlotInv
  <2>2. h[r].pc \in Finalizing \cup {"finCommit", "rsCopy", "rsCommit"} =>
           upload'[h[r].ver] # "open"
    BY <1>1, <2>1 DEF SlotSafe, SlotTyped, UsesVersion, Finalizing
  <2> QED
    BY <1>1, <2>1, <2>2 DEF SlotSafe
<1> QED
  BY <1>2, <1>3, <1>4 DEF SerialInv

(* The uploaded file satisfies the invariant.                              *)
LEMMA SerialInit == Init => SerialInv
<1> SUFFICES ASSUME Init PROVE SerialInv
  OBVIOUS
<1>1. \A r \in Req : h[r].pc = "idle"
  BY IdleTyped DEF Init
<1>2. Alone /\ \A r \in Req : SlotSafe(r)
  BY <1>1 DEF Alone, SlotSafe, Finalizing
<1>3. HistoryInv
  BY Bounds DEF Init, HistoryInv, UniqueNumbers, FreshIds, OpenNotCurrent,
                CurrentRowExists, Ver
<1> QED
  BY <1>2, <1>3 DEF SerialInv

(* Every step of a serial history keeps the invariant.                     *)
LEMMA SerialStep ==
  ASSUME Overlap = FALSE, "current" \notin Faults, TypeInv, SerialInv, [Next]_vars
  PROVE  SerialInv'
<1>1. CASE UNCHANGED vars
  <2>1. HistoryInv'
    BY <1>1, HistoryKept DEF vars, SerialInv, TypeInv
  <2> QED
    BY <1>1, <2>1 DEF vars, SerialInv, Alone, SlotSafe
<1>2. ASSUME NEW r \in Req,
             \/ StartNewVersion(r) \/ StartPrune(r) \/ StartDownload(r)
             \/ Handler(r) \/ PruneSkip(r) \/ Crash(r)
      PROVE  SerialInv'
  <2>1. CASE \/ StartNewVersion(r) \/ InsertRefused(r) \/ InsertVersion(r)
             \/ FinalizeReadVersion(r) \/ FinalizeMeasure(r) \/ FinalizePurge(r)
             \/ FinalizeDrop(r) \/ FinalizeInsertChunks(r) \/ FinalizeCommit(r)
    BY <2>1, SerialUpload
  <2>2. CASE \/ RestoreReadChunks(r) \/ RestoreReadMax(r)
             \/ RestoreCopyChunks(r) \/ RestoreCommit(r)
    BY <2>2, SerialRestore
  <2>3. CASE \/ DeleteCheckHold(r) \/ DeleteCheckCurrent(r) \/ DeleteReadChunks(r)
             \/ DeleteRow(r) \/ DeleteCountRefs(r) \/ DeleteObjects(r)
             \/ CountRows(r) \/ SetCount(r)
    BY <2>3, SerialDelete
  <2>4. CASE \/ StartPrune(r) \/ PruneReadFile(r) \/ PruneList(r) \/ PruneSkip(r)
             \/ StartDownload(r) \/ DownloadReadVersion(r) \/ DownloadReadChunks(r)
             \/ FinishDownload(r) \/ Crash(r)
    BY <2>4, SerialOther
  <2> QED
    BY <1>2, <2>1, <2>2, <2>3, <2>4 DEF Handler
<1>3. ASSUME NEW r \in Req, NEW v \in Ver,
             StartFinalize(r, v) \/ StartRestore(r, v) \/ StartDelete(r, v)
      PROVE  SerialInv'
  BY <1>3, SerialUpload, SerialRestore, SerialDelete
<1>4. CASE \/ \E v \in Ver : Abandon(v) \/ \E c \in Chunks : PutChunk(v, c)
           \/ SetHold
  BY <1>4, SerialBeside
<1> QED
  BY <1>1, <1>2, <1>3, <1>4 DEF Next

(* One request at a time, whatever fails half way, the files row points at *)
(* a version row that exists and carries that row's session-key wrap: the  *)
(* current version is deleted neither on request nor by the prune.         *)
THEOREM SerialCurrentRowExists ==
  ASSUME Overlap = FALSE, "current" \notin Faults
  PROVE  Spec => []CurrentRowExists
<1>1. Init => SerialInv
  BY SerialInit
<1>2. TypeInv /\ SerialInv /\ [Next]_vars => SerialInv'
  BY SerialStep
<1>3. SerialInv => CurrentRowExists
  BY DEF SerialInv, HistoryInv
<1> QED
  BY <1>1, <1>2, <1>3, TypeInvariant, PTL DEF Spec
-----------------------------------------------------------------------------
(* Requests that overlap, while nothing is deleted: no deletion on         *)
(* request, no expiry, an entitlement no file exceeds. Then every version  *)
(* with chunk rows stays downloadable, however many requests interleave,   *)
(* die or are refused: numbers are not used again, so no upload writes     *)
(* where another version's objects are.                                    *)
(* For the induction: the row an object prefix was made for keeps its      *)
(* number as long as anybody points into the prefix, rows that an upload   *)
(* or a restore is working on have no chunk rows yet, and no two requests  *)
(* work on one row.                                                        *)

NothingGoes ==
  /\ Ops \cap {"delete", "expire", "restoreEmpty"} = {}
  /\ VersionCount + 1 >= MaxVer

\* Prefix p belongs to a row that is there, and holds ciphertext under k.
Kept(p, k) ==
  /\ p \in Ver
  /\ \E m \in rows : num[m] = p /\ chunk[m] = p
  /\ \A c \in Chunks : blob[p][c] = k

Fresh == \A v \in Ver : /\ v >= next => v \notin rows /\ upload[v] = "none"
                                         /\ put[v] = {}
                        /\ v \notin rows => chunk[v] = None
RowsKept == \A v \in rows : /\ num[v] \in Ver
                            /\ chunk[v] # None => Kept(chunk[v], key[v])
Unanswered == \A v \in Ver : upload[v] \in {"open", "abandoned"} =>
                 /\ v \in rows /\ chunk[v] = None
                 /\ \A c \in put[v] : blob[num[v]][c] = key[v]
FullRow(n, k) == \E v \in rows : num[v] = n /\ key[v] = k /\ chunk[v] # None

GrowData ==
  UniqueNumbers /\ Fresh /\ RowsKept /\ Unanswered /\ FullRow(file.cur, file.key)

\* The requests that work on a version without chunk rows.
Building(r) == h[r].pc \in Finalizing \cup {"rsCopy"}
HasSource(r) == \/ h[r].pc \in {"rsMax", "rsCopy"}
                \/ h[r].pc = "insert" /\ h[r].op = "restore"

GrowSlot(r) ==
  /\ Building(r) => h[r].ver \in rows /\ chunk[h[r].ver] = None
  /\ h[r].pc \in Finalizing => upload[h[r].ver] = "closed"
  /\ h[r].pc \in {"finVersion", "finMeasure", "finInsert"} =>
        \A c \in Chunks : blob[num[h[r].ver]][c] = key[h[r].ver]
  /\ h[r].pc \in {"finCommit", "rsCommit", "rsChunks"} =>
        h[r].ver \in rows /\ chunk[h[r].ver] # None
  /\ h[r].pc = "rsChunks" => h[r].key = key[h[r].ver]
  /\ HasSource(r) => Kept(h[r].pre, h[r].key)
  /\ h[r].pc = "rsCopy" => /\ key[h[r].ver] = h[r].key
                           /\ upload[h[r].ver] = "none"
  /\ h[r].pc = "insert" => h[r].num # None
  /\ h[r].pc = "pruneList" => \E k \in Id : FullRow(h[r].cur, k)
  /\ h[r].pc \notin {"dvHold", "dvCurrent", "delChunks", "delRow", "delRefs",
                     "blobs", "count", "setCount"}
  /\ h[r].pc = "dlVersion" => FullRow(h[r].cur, h[r].key)
  /\ "download" \notin Faults =>
        /\ h[r].pc = "dlChunks" => /\ h[r].ver \in rows /\ chunk[h[r].ver] # None
                                   /\ key[h[r].ver] = h[r].key
        /\ h[r].pc = "dlDone" => \A v \in h[r].vs : v < next /\ key[v] = h[r].key

OneBuilder == \A q, r \in Req :
                 Building(q) /\ Building(r) /\ h[q].ver = h[r].ver => q = r

GrowInv == GrowData /\ OneBuilder /\ \A r \in Req : GrowSlot(r)

(* What a step leaves alone: whatever has content, and the versions other  *)
(* requests are working on.                                                *)
Keeps ==
  /\ \A m \in rows : chunk[m] # None =>
        /\ m \in rows' /\ num'[m] = num[m] /\ key'[m] = key[m]
        /\ chunk'[m] = chunk[m]
  /\ \A p, k \in Id : Kept(p, k) => Kept(p, k)'
  /\ \A v \in Ver : v < next => v < next' /\ key'[v] = key[v]

Untouched(q) ==
  Building(q) => LET v == h[q].ver IN
    /\ v \in rows' /\ num'[v] = num[v] /\ key'[v] = key[v]
    /\ chunk'[v] = chunk[v] /\ upload'[v] = upload[v]
    /\ blob'[num[v]] = blob[num[v]]

(* A slot that a step leaves alone needs what it needed.                   *)
LEMMA GrowSlotStays ==
  ASSUME TypeInv, GrowData, Keeps, NEW q \in Req, GrowSlot(q), Untouched(q), h'[q] = h[q]
  PROVE  GrowSlot(q)'
<1>0. SlotTyped(q) /\ h[q] \in ReqType /\ DataInv
  BY DEF TypeInv, SlotInv
<1>1. \A n, k \in Id : FullRow(n, k) => FullRow(n, k)'
  BY DEF FullRow, Keeps
<1>2. (Building(q) <=> Building(q)') /\ (HasSource(q) <=> HasSource(q)')
  BY DEF Building, HasSource
<1>3. h[q].cur \in Id /\ h[q].key \in Id /\ h[q].pre \in Id /\ h[q].vs \in SUBSET Ver
  BY <1>0 DEF ReqType
<1>4. /\ Building(q)' => h'[q].ver \in rows' /\ chunk'[h'[q].ver] = None
      /\ h'[q].pc \in Finalizing => upload'[h'[q].ver] = "closed"
      /\ h'[q].pc \in {"finVersion", "finMeasure", "finInsert"} =>
            \A c \in Chunks : blob'[num'[h'[q].ver]][c] = key'[h'[q].ver]
      /\ h'[q].pc = "rsCopy" => /\ key'[h'[q].ver] = h'[q].key
                                /\ upload'[h'[q].ver] = "none"
  BY <1>2 DEF GrowSlot, Untouched, Building, Finalizing
<1>5. h'[q].pc \in {"finCommit", "rsCommit", "rsChunks"} =>
        h'[q].ver \in rows' /\ chunk'[h'[q].ver] # None
  BY DEF GrowSlot, Keeps
<1>6. h'[q].pc = "rsChunks" => h'[q].key = key'[h'[q].ver]
  BY DEF GrowSlot, Keeps
<1>7. (HasSource(q) => Kept(h[q].pre, h[q].key))'
  <2>1. HasSource(q) => Kept(h[q].pre, h[q].key)'
    <3>1. HasSource(q) => Kept(h[q].pre, h[q].key)
      BY DEF GrowSlot
    <3>2. h[q].pre \in Id /\ h[q].key \in Id
      BY <1>3
    <3> QED
      BY <3>1, <3>2 DEF Keeps
  <2> QED
    BY <1>2, <2>1 DEF Kept
<1>8. (h[q].pc = "pruneList" => \E k \in Id : FullRow(h[q].cur, k))'
  BY <1>1, <1>3 DEF GrowSlot, FullRow
<1>9. (h[q].pc = "dlVersion" => FullRow(h[q].cur, h[q].key))'
  BY <1>1, <1>3 DEF GrowSlot, FullRow
<1>10. ("download" \notin Faults =>
          /\ h[q].pc = "dlChunks" => /\ h[q].ver \in rows /\ chunk[h[q].ver] # None
                                     /\ key[h[q].ver] = h[q].key
          /\ h[q].pc = "dlDone" => \A v \in h[q].vs : v < next /\ key[v] = h[q].key)'
  BY <1>3 DEF GrowSlot, Keeps
<1>11. /\ h'[q].pc = "insert" => h'[q].num # None
       /\ h'[q].pc \notin {"dvHold", "dvCurrent", "delChunks", "delRow", "delRefs",
                           "blobs", "count", "setCount"}
  BY DEF GrowSlot
<1> QED
  BY <1>4, <1>5, <1>6, <1>7, <1>8, <1>9, <1>10, <1>11 DEF GrowSlot
(* So a step of slot r has to be checked for slot r and the data.          *)
LEMMA GrowStep ==
  ASSUME TypeInv, GrowInv, NEW r \in Req, GrowData', Keeps, GrowSlot(r)',
         \A q \in Req \ {r} : h'[q] = h[q] /\ Untouched(q),
         \/ ~Building(r)'
         \/ Building(r) /\ h'[r].ver = h[r].ver
         \/ \A q \in Req \ {r} : Building(q) => h[q].ver # h'[r].ver
  PROVE  GrowInv'
<1>1. ASSUME NEW q \in Req PROVE GrowSlot(q)'
  <2>1. CASE q # r
    BY <2>1, GrowSlotStays DEF GrowInv
  <2> QED
    BY <2>1
<1>2. \A q \in Req \ {r} : Building(q)' <=> Building(q)
  BY DEF Building
<1>3. OneBuilder'
  BY <1>2 DEF OneBuilder, GrowInv
<1> QED
  BY <1>1, <1>3 DEF GrowInv

(* Steps that change no row, no object and no upload.                      *)
LEMMA GrowSame ==
  ASSUME TypeInv, GrowInv, UNCHANGED <<rows, next, num, key, chunk, blob, upload, put>>,
         \/ file'.cur = file.cur /\ file'.key = file.key
         \/ \E v \in rows : chunk[v] # None /\ PointFileAt(v)
  PROVE  GrowData' /\ Keeps /\ \A q \in Req : Untouched(q)
<1>1. Keeps
  BY DEF Keeps, Kept
<1>2. \A q \in Req : Untouched(q)
  BY DEF Untouched, GrowInv, GrowSlot
<1>3. FullRow(file.cur, file.key)'
  <2>1. CASE file'.cur = file.cur /\ file'.key = file.key
    BY <2>1 DEF GrowInv, GrowData, FullRow
  <2>2. ASSUME NEW v \in rows, chunk[v] # None, PointFileAt(v)
        PROVE  FullRow(file.cur, file.key)'
    BY <2>2 DEF PointFileAt, TypeInv, DataInv, FullRow
  <2> QED
    BY <2>1, <2>2
<1>4. UniqueNumbers' /\ Fresh' /\ RowsKept' /\ Unanswered'
  BY DEF GrowInv, GrowData, UniqueNumbers, Fresh, RowsKept, Unanswered, Kept
<1> QED
  BY <1>1, <1>2, <1>3, <1>4 DEF GrowData

(* A request that answers needs nothing.                                   *)
LEMMA GrowReturn ==
  ASSUME TypeInv, NEW r \in Req, Return(r)
  PROVE  GrowSlot(r)' /\ ~Building(r)' /\ \A q \in Req \ {r} : h'[q] = h[q]
<1>1. h'[r].pc = "idle" /\ \A q \in Req \ {r} : h'[q] = h[q]
  BY ReturnSlot, IdleTyped DEF TypeInv
<1> QED
  BY <1>1 DEF GrowSlot, Building, HasSource, Finalizing

(* The entitlement covers every row but the one whose number is given, and *)
(* nothing expires.                                                        *)
LEMMA NothingToPrune ==
  ASSUME NothingGoes, TypeInv, NEW n, Taken(n), NEW id \in Cutoffs
  PROVE  Excess(n) = {} /\ Expired(n, id) = {}
<1> DEFINE past == {v \in rows : num[v] # n}
<1>0. rows \subseteq Ver
  BY DEF TypeInv, DataInv
<1>1. Expired(n, id) = {}
  <2>1. id = 1
    BY DEF Cutoffs, NothingGoes
  <2>2. \A v \in Ver : ~(v < 1)
    BY Bounds DEF Ver
  <2> QED
    BY <1>0, <2>1, <2>2 DEF Expired
<1>2. PICK w \in Ver : w \in rows /\ num[w] = n
  BY <1>0 DEF Taken
<1>3. IsFiniteSet(Ver \ {w}) /\ Cardinality(Ver \ {w}) = MaxVer - 1
  <2>1. IsFiniteSet(Ver) /\ Cardinality(Ver) = MaxVer
    BY Bounds, FS_Interval DEF Ver
  <2> QED
    BY <1>2, <2>1, FS_RemoveElement
<1>4. ASSUME NEW v PROVE Cardinality({x \in past : num[x] >= num[v]}) <= VersionCount
  <2> DEFINE s == {x \in past : num[x] >= num[v]}
  <2>1. s \subseteq Ver \ {w}
    BY <1>0, <1>2
  <2> HIDE DEF s, past
  <2>2. Cardinality(s) <= MaxVer - 1 /\ Cardinality(s) \in Nat
    BY <1>3, <2>1, FS_Subset, FS_CardinalityType
  <2>3. Cardinality(s) <= VersionCount
    BY <2>2, Bounds, VersionCountAssumption DEF NothingGoes
  <2> QED
    BY <2>3 DEF s
<1>5. ASSUME NEW v PROVE ~(Cardinality({x \in past : num[x] >= num[v]}) > VersionCount)
  <2>1. Cardinality({x \in past : num[x] >= num[v]}) \in Nat
    <3> DEFINE s == {x \in past : num[x] >= num[v]}
    <3>1. s \subseteq Ver \ {w}
      BY <1>0, <1>2
    <3> HIDE DEF s, past
    <3> QED
      BY <1>3, <3>1, FS_Subset, FS_CardinalityType DEF s
  <2> QED
    BY <1>4, <2>1, VersionCountAssumption
<1>6. Excess(n) = {}
  BY <1>5 DEF Excess
<1> QED
  BY <1>1, <1>6
(* Uploads.                                                                *)
LEMMA GrowInsert ==
  ASSUME NothingGoes, TypeInv, GrowInv, NEW r \in Req,
         StartNewVersion(r) \/ InsertRefused(r) \/ InsertVersion(r)
  PROVE  GrowInv'
<1> USE DEF At
<1>0. SlotInv /\ DataInv /\ GrowData /\ GrowSlot(r)
  BY DEF TypeInv, GrowInv
<1>1. CASE StartNewVersion(r)
  <2> DEFINE x == [IdleReq EXCEPT !.pc = "insert", !.op = "init",
                                  !.num = file.cur + 1]
  <2>1. file.cur + 1 \in 0..MaxVer+1 /\ file.cur + 1 # None
    BY <1>0, Bounds, VerIsId DEF DataInv, None
  <2>2. x \in ReqType /\ x.pc = "insert" /\ x.op = "init" /\ x.num # None
    BY <2>1, IdleTyped, PCs DEF ReqType
  <2>3. h'[r] = x /\ \A q \in Req \ {r} : h'[q] = h[q]
    BY <1>0, <1>1, <2>2, SetSlot DEF StartNewVersion, UsesVersion
  <2> HIDE DEF x
  <2>4. GrowSlot(r)' /\ ~Building(r)'
    BY <2>2, <2>3 DEF GrowSlot, Building, HasSource, Finalizing
  <2>5. GrowData' /\ Keeps /\ \A q \in Req : Untouched(q)
    BY <1>1, GrowSame DEF StartNewVersion
  <2> QED
    BY <2>3, <2>4, <2>5, GrowStep
<1>2. CASE InsertRefused(r)
  <2>1. GrowData' /\ Keeps /\ \A q \in Req : Untouched(q)
    BY <1>2, GrowSame DEF InsertRefused
  <2> QED
    BY <1>2, <2>1, GrowReturn, GrowStep DEF InsertRefused
<1>3. CASE InsertVersion(r)
  <2> DEFINE v == next
             n == h[r].num
  <2>1. /\ v \in Ver /\ v \in Id /\ v \in Nat /\ n \in Ver /\ ~Taken(n)
        /\ v \notin rows /\ upload[v] = "none" /\ put[v] = {} /\ chunk[v] = None
    <3>1. n \in 0..MaxVer+1 /\ n # None
      BY <1>0, <1>3 DEF InsertVersion, GrowSlot, SlotInv, ReqType
    <3>2. v \in Ver /\ n \in Ver /\ ~Taken(n) /\ v \in Nat
      BY <1>0, <1>3, <3>1, Bounds
         DEF InsertVersion, Refused, BoundReached, DataInv, Ver, None
    <3> QED
      BY <1>0, <3>2, VerIsId DEF GrowData, Fresh, Ver
  <2>2. /\ rows' = rows \cup {v} /\ next' = next + 1 /\ num'[v] = n
        /\ \A w \in Ver \ {v} : num'[w] = num[w] /\ key'[w] = key[w]
                                /\ upload'[w] = upload[w]
        /\ UNCHANGED <<file, chunk, blob, put>>
    BY <1>0, <1>3, <2>1 DEF InsertVersion, DataInv
  <2> HIDE DEF v, n
  <2>3. \A w \in rows : w \in Ver /\ w # v /\ num[w] # n
    BY <1>0, <2>1 DEF DataInv, Taken
  <2>4. \A w \in Ver : (w < next => w # v) /\ (w >= next' => w >= next /\ w # v)
    BY <2>1, <2>2, Bounds DEF Ver, v
  <2>5. Keeps
    <3>1. \A p, k : Kept(p, k) => Kept(p, k)'
      BY <2>2, <2>3 DEF Kept
    <3>2. \A w \in Ver : w < next => w < next'
      BY <2>1, <2>2, Bounds DEF Ver, v
    <3> QED
      BY <2>2, <2>3, <2>4, <3>1, <3>2 DEF Keeps
  <2>6. \A q \in Req \ {r} : Untouched(q)
    BY <2>2, <2>3 DEF Untouched, GrowInv, GrowSlot
  <2>7. UniqueNumbers'
    BY <1>0, <2>2, <2>3 DEF GrowData, UniqueNumbers
  <2>8. Fresh'
    BY <1>0, <2>2, <2>4 DEF GrowData, Fresh
  <2>9. RowsKept'
    <3>1. ASSUME NEW w \in rows, chunk[w] # None
          PROVE  Kept(chunk[w], key[w])'
      <4>1. Kept(chunk[w], key[w]) /\ chunk[w] \in Id /\ key[w] \in Id
        BY <1>0, <2>3, <3>1 DEF GrowData, RowsKept, DataInv
      <4>2. Kept(chunk[w], key[w]) /\ chunk'[w] = chunk[w] /\ key'[w] = key[w]
        BY <2>2, <2>3, <4>1
      <4> QED
        BY <2>2, <2>3, <4>2 DEF Kept
    <3> QED
      BY <1>0, <2>1, <2>2, <2>3, <3>1 DEF GrowData, RowsKept
  <2>10. Unanswered'
    BY <1>0, <2>1, <2>2, <2>3 DEF GrowData, Unanswered
  <2>11. FullRow(file.cur, file.key)'
    BY <1>0, <2>2, <2>3 DEF GrowData, FullRow
  <2>12. GrowData'
    BY <2>7, <2>8, <2>9, <2>10, <2>11 DEF GrowData
  <2>13. CASE h[r].op = "init"
    BY <1>3, <2>5, <2>6, <2>12, <2>13, GrowReturn, GrowStep DEF InsertVersion
  <2>14. CASE h[r].op = "restore"
    <3>1. /\ h'[r].pc = "rsCopy" /\ h'[r].ver = v
          /\ h'[r].pre = h[r].pre /\ h'[r].key = h[r].key
          /\ \A q \in Req \ {r} : h'[q] = h[q]
      BY <1>0, <1>3, <2>1, <2>14, VerSlot, PCs DEF InsertVersion, v
    <3>2. key'[v] = h[r].key /\ upload'[v] = "none"
      BY <1>0, <1>3, <2>1, <2>14 DEF InsertVersion, DataInv, v
    <3>3. (Kept(h[r].pre, h[r].key))'
      <4>1. Kept(h[r].pre, h[r].key) /\ h'[r].pre = h[r].pre /\ h'[r].key = h[r].key
        BY <1>0, <1>3, <2>14, <3>1 DEF GrowSlot, HasSource, InsertVersion
      <4> QED
        BY <2>2, <2>3, <4>1 DEF Kept
    <3>4. GrowSlot(r)'
      BY <2>1, <2>2, <3>1, <3>2, <3>3 DEF GrowSlot, Building, HasSource, Finalizing
    <3>5. \A q \in Req \ {r} : Building(q) => h[q].ver # h'[r].ver
      BY <2>1, <3>1 DEF GrowInv, GrowSlot
    <3> QED
      BY <2>5, <2>6, <2>12, <3>1, <3>4, <3>5, GrowStep
  <2> QED
    BY <1>3, <2>13, <2>14 DEF InsertVersion
<1> QED
  BY <1>1, <1>2, <1>3
(* The client's side of an upload.                                         *)
LEMMA GrowClient ==
  ASSUME TypeInv, GrowInv, NEW v \in Ver,
         Abandon(v) \/ \E c \in Chunks : PutChunk(v, c)
  PROVE  GrowInv'
<1>0. DataInv /\ GrowData
  BY DEF TypeInv, GrowInv
<1>1. v \in rows /\ chunk[v] = None /\ num[v] \in Ver
      /\ upload[v] \in {"open", "abandoned"}
  BY <1>0 DEF Abandon, PutChunk, GrowData, Unanswered, RowsKept
<1>2. \A w \in Ver \ {v} : w \in rows => num[w] # num[v]
  BY <1>0, <1>1 DEF GrowData, UniqueNumbers
<1>3. \A p, k \in Id : Kept(p, k) => p # num[v]
  BY <1>0, <1>1, <1>2 DEF Kept, DataInv, None, Ver
<1>4. /\ UNCHANGED <<file, rows, next, num, key, chunk, h>>
      /\ \A p \in Ver \ {num[v]} : blob'[p] = blob[p]
      /\ \A w \in Ver \ {v} : upload'[w] = upload[w] /\ put'[w] = put[w]
      /\ upload'[v] \in {"open", "abandoned"}
      /\ \A c \in put'[v] : blob'[num[v]][c] = key[v]
  <2>1. CASE Abandon(v)
    BY <1>0, <1>1, <2>1 DEF Abandon, GrowData, Unanswered, DataInv
  <2>2. ASSUME NEW d \in Chunks, PutChunk(v, d)
        PROVE  /\ \A p \in Ver \ {num[v]} : blob'[p] = blob[p]
               /\ \A w \in Ver \ {v} : upload'[w] = upload[w] /\ put'[w] = put[w]
               /\ upload'[v] = upload[v]
               /\ \A c \in put'[v] : blob'[num[v]][c] = key[v]
    <3>1. \A c \in put[v] : blob[num[v]][c] = key[v] /\ c \in Chunks
      BY <1>0, <1>1 DEF GrowData, Unanswered, DataInv
    <3>2. put'[v] = put[v] \cup {d}
      BY <1>0, <2>2 DEF PutChunk, DataInv
    <3>3. \A c \in Chunks : blob'[num[v]][c] = IF c = d THEN key[v] ELSE blob[num[v]][c]
      BY <1>0, <1>1, <2>2 DEF PutChunk, DataInv
    <3>4. \A c \in put'[v] : blob'[num[v]][c] = key[v]
      BY <3>1, <3>2, <3>3
    <3> QED
      BY <1>0, <2>2, <3>4 DEF PutChunk, DataInv
  <2> QED
    BY <1>1, <2>1, <2>2 DEF Abandon, PutChunk
<1>5. \A p, k \in Id : Kept(p, k) => Kept(p, k)'
  BY <1>3, <1>4 DEF Kept
<1>6. Keeps
  BY <1>4, <1>5 DEF Keeps
<1>7. ASSUME NEW q \in Req PROVE Untouched(q)
  <2>1. GrowSlot(q) /\ SlotTyped(q)
    BY DEF GrowInv, TypeInv, SlotInv
  <2>2. Building(q) => h[q].ver # v /\ h[q].ver \in rows /\ h[q].ver \in Ver
    BY <1>1, <2>1 DEF GrowSlot, Building, SlotTyped, UsesVersion, Finalizing
  <2>3. Building(q) => num[h[q].ver] \in Ver /\ num[h[q].ver] # num[v]
    BY <1>0, <1>2, <2>2 DEF GrowData, RowsKept
  <2> QED
    BY <1>4, <2>2, <2>3 DEF Untouched
<1>8. GrowData'
  <2>1. RowsKept'
    <3>1. ASSUME NEW w \in rows, chunk[w] # None
          PROVE  Kept(chunk[w], key[w])'
      <4>1. Kept(chunk[w], key[w]) /\ chunk[w] \in Id /\ key[w] \in Id
        BY <1>0, <3>1 DEF GrowData, RowsKept, DataInv
      <4>2. Kept(chunk[w], key[w])  /\ chunk[w] # num[v]
        BY <1>3, <4>1
      <4> QED
        BY <1>4, <4>2 DEF Kept
    <3> QED
      BY <1>0, <1>4, <3>1 DEF GrowData, RowsKept
  <2>2. Unanswered'
    <3>1. ASSUME NEW w \in Ver, upload'[w] \in {"open", "abandoned"}
          PROVE  /\ w \in rows /\ chunk[w] = None
                 /\ \A c \in put'[w] : blob'[num[w]][c] = key[w]
      <4>1. CASE w = v
        BY <1>1, <1>4, <4>1
      <4>2. CASE w # v
        <5>1. w \in rows /\ chunk[w] = None /\ \A c \in put[w] : blob[num[w]][c] = key[w]
          BY <1>0, <1>4, <3>1, <4>2 DEF GrowData, Unanswered
        <5>2. num[w] \in Ver \ {num[v]}
          BY <1>0, <1>2, <4>2, <5>1 DEF GrowData, RowsKept
        <5> QED
          BY <1>4, <4>2, <5>1, <5>2
      <4> QED
        BY <4>1, <4>2
    <3> QED
      BY <1>4, <3>1 DEF Unanswered
  <2>3. Fresh'
    <3>1. v < next \/ ~(v >= next)
      BY <1>0, <1>1 DEF GrowData, Fresh
    <3> QED
      BY <1>0, <1>1, <1>4 DEF GrowData, Fresh
  <2> QED
    BY <1>0, <1>4, <2>1, <2>2, <2>3 DEF GrowData, UniqueNumbers, FullRow
<1>9. ASSUME NEW q \in Req PROVE GrowSlot(q)'
  BY <1>0, <1>4, <1>6, <1>7, GrowSlotStays DEF GrowInv
<1>10. OneBuilder'
  BY <1>4 DEF GrowInv, OneBuilder, Building
<1> QED
  BY <1>8, <1>9, <1>10 DEF GrowInv
(* A finalize: it reads, measures, purges what it refuses, and inserts.    *)
LEMMA GrowFinalize ==
  ASSUME TypeInv, GrowInv, NEW r \in Req,
         \/ \E v \in Ver : StartFinalize(r, v)
         \/ FinalizeReadVersion(r) \/ FinalizeMeasure(r) \/ FinalizeCommit(r)
  PROVE  GrowInv'
<1> USE DEF At
<1>0. SlotInv /\ DataInv /\ GrowData /\ GrowSlot(r)
  BY DEF TypeInv, GrowInv
<1>1. ASSUME NEW v \in Ver, StartFinalize(r, v)
      PROVE  GrowInv'
  <2> DEFINE x == [IdleReq EXCEPT !.pc = "finVersion", !.op = "finalize", !.ver = v]
  <2>1. x \in ReqType /\ x.pc = "finVersion" /\ x.ver = v /\ x.op = "finalize"
    BY IdleTyped, PCs, VerIsId DEF ReqType
  <2>2. h'[r] = x /\ \A q \in Req \ {r} : h'[q] = h[q]
    BY <1>0, <1>1, <2>1, SetSlot DEF StartFinalize
  <2> HIDE DEF x
  <2>3. /\ v \in rows /\ chunk[v] = None /\ upload'[v] = "closed" /\ upload[v] = "open"
        /\ \A c \in Chunks : blob[num[v]][c] = key[v]
    BY <1>0, <1>1 DEF StartFinalize, GrowData, Unanswered, DataInv
  <2>4. \A w \in Ver \ {v} : upload'[w] = upload[w]
    BY <1>0, <1>1 DEF StartFinalize, DataInv
  <2>5. GrowSlot(r)'
    <3>1. UNCHANGED <<rows, num, key, chunk, blob>>
      BY <1>1 DEF StartFinalize
    <3>2. /\ h'[r].pc = "finVersion" /\ h'[r].ver = v /\ v \in rows'
          /\ chunk'[v] = None /\ upload'[v] = "closed"
          /\ \A c \in Chunks : blob'[num'[v]][c] = key'[v]
      BY <2>1, <2>2, <2>3, <3>1
    <3> QED
      BY <3>2 DEF GrowSlot, Building, HasSource, Finalizing
  <2>6. \A q \in Req \ {r} : Building(q) => h[q].ver # v /\ h[q].ver \in Ver
    BY <2>3 DEF GrowInv, GrowSlot, Building, TypeInv, SlotInv, SlotTyped, UsesVersion,
                Finalizing
  <2>7. Keeps /\ \A q \in Req \ {r} : Untouched(q)
    BY <1>1, <2>4, <2>6 DEF StartFinalize, Keeps, Kept, Untouched, GrowInv, GrowSlot
  <2>8. Fresh' /\ Unanswered'
    <3>1. ~(v >= next)
      BY <1>0, <2>3 DEF GrowData, Fresh
    <3> QED
      BY <1>0, <1>1, <2>3, <2>4, <3>1 DEF StartFinalize, GrowData, Fresh, Unanswered
  <2>9. GrowData'
    BY <1>0, <1>1, <2>8 DEF StartFinalize, GrowData, UniqueNumbers, RowsKept, Kept, FullRow
  <2> QED
    BY <2>1, <2>2, <2>5, <2>6, <2>7, <2>9, GrowStep
<1>2. CASE FinalizeReadVersion(r)
  <2>1. GrowData' /\ Keeps /\ \A q \in Req : Untouched(q)
    BY <1>2, GrowSame DEF FinalizeReadVersion
  <2>2. Goto(r, "finMeasure") /\ Building(r)
    BY <1>0, <1>2 DEF FinalizeReadVersion, GrowSlot, Building, Finalizing
  <2>3. /\ h'[r].pc = "finMeasure" /\ h'[r].ver = h[r].ver
        /\ \A q \in Req \ {r} : h'[q] = h[q]
    BY <1>0, <1>2, <2>2, GotoSlot, PCs
       DEF FinalizeReadVersion, SlotInv, SlotTyped, UsesVersion
  <2>4. GrowSlot(r)'
    BY <1>0, <1>2, <2>3 DEF FinalizeReadVersion, GrowSlot, Building, HasSource, Finalizing
  <2> QED
    BY <2>1, <2>2, <2>3, <2>4, GrowStep
<1>3. CASE FinalizeMeasure(r)
  <2>1. GrowData' /\ Keeps /\ \A q \in Req : Untouched(q)
    BY <1>3, GrowSame DEF FinalizeMeasure
  <2>2. PICK p \in {"finDrop", "finInsert", "finPurge"} : Goto(r, p)
    BY <1>3 DEF FinalizeMeasure
  <2>3. /\ h'[r].pc = p /\ h'[r].ver = h[r].ver
        /\ \A q \in Req \ {r} : h'[q] = h[q]
    BY <1>0, <1>3, <2>2, GotoSlot, PCs
       DEF FinalizeMeasure, SlotInv, SlotTyped, UsesVersion
  <2>4. GrowSlot(r)' /\ Building(r)
    BY <1>0, <1>3, <2>3 DEF FinalizeMeasure, GrowSlot, Building, HasSource, Finalizing
  <2> QED
    BY <2>1, <2>3, <2>4, GrowStep
<1>4. CASE FinalizeCommit(r)
  <2> DEFINE x == [IdleReq EXCEPT !.pc = "pruneFile", !.op = "prune"]
  <2>1. x \in ReqType /\ x.pc = "pruneFile"
    BY IdleTyped, PCs DEF ReqType
  <2>2. h'[r] = x /\ \A q \in Req \ {r} : h'[q] = h[q]
    BY <1>0, <1>4, <2>1, SetSlot DEF FinalizeCommit, UsesVersion
  <2> HIDE DEF x
  <2>3. GrowSlot(r)' /\ ~Building(r)'
    BY <2>1, <2>2 DEF GrowSlot, Building, HasSource, Finalizing
  <2>4. GrowData' /\ Keeps /\ \A q \in Req : Untouched(q)
    BY <1>0, <1>4, GrowSame DEF FinalizeCommit, GrowSlot
  <2> QED
    BY <2>2, <2>3, <2>4, GrowStep
<1> QED
  BY <1>1, <1>2, <1>3, <1>4

(* The steps of a finalize that delete or insert, on a row with no chunk   *)
(* rows: nobody else is working on it, and nobody points into its prefix.  *)
LEMMA GrowFinalizeData ==
  ASSUME TypeInv, GrowInv, NEW r \in Req, NEW v, v = h[r].ver,
         FinalizePurge(r) \/ FinalizeDrop(r) \/ FinalizeInsertChunks(r)
  PROVE  GrowInv'
<1> USE DEF At
<1>0. SlotInv /\ DataInv /\ GrowData /\ GrowSlot(r)
  BY DEF TypeInv, GrowInv
<1>1. /\ h[r].pc \in Finalizing /\ Building(r) /\ v \in Ver
      /\ v \in rows /\ chunk[v] = None /\ num[v] \in Ver /\ upload[v] = "closed"
  BY <1>0 DEF FinalizePurge, FinalizeDrop, FinalizeInsertChunks, Finalizing, Building,
              GrowSlot, SlotInv, SlotTyped, UsesVersion, GrowData, RowsKept
<1>2. \A w \in Ver \ {v} : w \in rows => num[w] # num[v]
  BY <1>0, <1>1 DEF GrowData, UniqueNumbers
<1>3. \A p, k \in Id : Kept(p, k) => p # num[v] /\ p \in Ver
  BY <1>0, <1>1, <1>2 DEF Kept, DataInv, None, Ver
<1>4. \A q \in Req \ {r} : Building(q) =>
         h[q].ver \in Ver \ {v} /\ h[q].ver \in rows /\ num[h[q].ver] \in Ver \ {num[v]}
  <2>1. ASSUME NEW q \in Req \ {r}, Building(q)
        PROVE  h[q].ver \in Ver \ {v} /\ h[q].ver \in rows
    BY <1>1, <2>1 DEF GrowInv, OneBuilder, GrowSlot, TypeInv, SlotInv, SlotTyped,
                      UsesVersion, Building, Finalizing
  <2> QED
    BY <1>0, <1>2, <2>1 DEF GrowData, RowsKept
<1>5. \A w \in rows : chunk[w] # None =>
         w # v /\ Kept(chunk[w], key[w]) /\ chunk[w] \in Id /\ key[w] \in Id
  BY <1>0, <1>1 DEF GrowData, RowsKept, DataInv
<1>6. \A w \in Ver : upload[w] \in {"open", "abandoned"} =>
         /\ w # v /\ w \in rows /\ chunk[w] = None /\ num[w] \in Ver \ {num[v]}
         /\ \A c \in put[w] : blob[num[w]][c] = key[w]
  BY <1>0, <1>1, <1>2 DEF GrowData, Unanswered, RowsKept
<1>7. CASE FinalizePurge(r)
  <2>1. /\ h'[r].pc = "finDrop" /\ h'[r].ver = v
        /\ \A q \in Req \ {r} : h'[q] = h[q]
    BY <1>0, <1>7, GotoSlot, PCs DEF FinalizePurge, SlotInv, SlotTyped, UsesVersion
  <2>2. \A p \in Ver \ {num[v]} : blob'[p] = blob[p]
    BY <1>0, <1>1, <1>7 DEF FinalizePurge, RemoveObjects, DataInv
  <2>3. UNCHANGED <<file, rows, next, num, key, chunk, upload, put>>
    BY <1>7 DEF FinalizePurge
  <2>4. \A p, k \in Id : Kept(p, k) => Kept(p, k)'
    BY <1>3, <2>2, <2>3 DEF Kept
  <2>5. Keeps /\ \A q \in Req \ {r} : Untouched(q)
    BY <1>4, <2>2, <2>3, <2>4 DEF Keeps, Untouched
  <2>6. RowsKept' /\ Unanswered'
    <3>1. ASSUME NEW w \in rows, chunk[w] # None PROVE Kept(chunk[w], key[w])'
      <4>1. Kept(chunk[w], key[w]) /\ chunk[w] # num[v] /\ chunk[w] \in Ver
        BY <1>3, <1>5, <3>1
      <4> QED
        BY <2>2, <2>3, <4>1 DEF Kept
    <3> QED
      BY <1>0, <1>6, <2>2, <2>3, <3>1 DEF GrowData, RowsKept, Unanswered
  <2>7. GrowData'
    BY <1>0, <2>3, <2>6 DEF GrowData, UniqueNumbers, Fresh, FullRow
  <2>8. GrowSlot(r)'
    BY <1>1, <2>1, <2>3 DEF GrowSlot, Building, HasSource, Finalizing
  <2> QED
    BY <1>1, <2>1, <2>5, <2>7, <2>8, GrowStep
<1>8. CASE FinalizeDrop(r)
  <2>1. /\ rows' = rows \ {v} /\ chunk' = chunk
        /\ UNCHANGED <<file, next, num, key, blob, upload, put>>
    <3>1. chunk' = [chunk EXCEPT ![v] = None]
      BY <1>8 DEF FinalizeDrop, DropVersion
    <3>2. chunk' = chunk
      BY <1>0, <1>1, <3>1 DEF DataInv
    <3> QED
      BY <1>8, <3>2 DEF FinalizeDrop, DropVersion
  <2>2. \A p, k \in Id : Kept(p, k) => Kept(p, k)'
    BY <1>1, <2>1, VerIsId DEF Kept
  <2>3. Keeps /\ \A q \in Req \ {r} : Untouched(q)
    BY <1>4, <1>5, <2>1, <2>2 DEF Keeps, Untouched
  <2>4. RowsKept' /\ Unanswered'
    <3>1. ASSUME NEW w \in rows, chunk[w] # None PROVE Kept(chunk[w], key[w])'
      BY <1>5, <2>1, <2>2, <3>1 DEF Kept
    <3> QED
      BY <1>0, <1>6, <2>1, <3>1 DEF GrowData, RowsKept, Unanswered
  <2>5. GrowData'
    BY <1>0, <1>1, <2>1, <2>4 DEF GrowData, UniqueNumbers, Fresh, FullRow
  <2> QED
    BY <1>8, <2>3, <2>5, GrowReturn, GrowStep DEF FinalizeDrop
<1>9. CASE FinalizeInsertChunks(r)
  <2>1. /\ chunk'[v] = num[v] /\ \A w \in Ver \ {v} : chunk'[w] = chunk[w]
        /\ UNCHANGED <<file, rows, next, num, key, blob, upload, put>>
        /\ Goto(r, "finCommit")
    BY <1>0, <1>1, <1>9 DEF FinalizeInsertChunks, DataInv
  <2>2. /\ h'[r].pc = "finCommit" /\ h'[r].ver = v
        /\ \A q \in Req \ {r} : h'[q] = h[q]
    BY <1>0, <1>9, <2>1, GotoSlot, PCs
       DEF FinalizeInsertChunks, SlotInv, SlotTyped, UsesVersion
  <2>3. \A p, k \in Id : Kept(p, k) => Kept(p, k)'
    <3>1. ASSUME NEW p \in Id, NEW k \in Id, Kept(p, k) PROVE Kept(p, k)'
      <4>1. PICK m \in rows : num[m] = p /\ chunk[m] = p
        BY <3>1 DEF Kept
      <4>2. m \in Ver \ {v}
        BY <1>0, <1>3, <3>1, <4>1 DEF DataInv
      <4> QED
        BY <2>1, <3>1, <4>1, <4>2 DEF Kept
    <3> QED
      BY <3>1
  <2>4. Keeps /\ \A q \in Req \ {r} : Untouched(q)
    <3>1. rows \subseteq Ver
      BY <1>0 DEF DataInv
    <3> QED
      BY <1>4, <1>5, <2>1, <2>3, <3>1 DEF Keeps, Untouched
  <2>5. Kept(chunk[v], key[v])'
    <3>1. \A c \in Chunks : blob[num[v]][c] = key[v]
      BY <1>0, <1>9 DEF FinalizeInsertChunks, GrowSlot
    <3>2. chunk'[v] \in Ver /\ v \in rows' /\ num'[v] = chunk'[v]
      BY <1>1, <2>1
    <3>3. \A c \in Chunks : blob'[chunk'[v]][c] = key'[v]
      BY <2>1, <3>1
    <3> QED
      BY <3>2, <3>3 DEF Kept
  <2>6. RowsKept' /\ Unanswered'
    <3>1. ASSUME NEW w \in rows, w # v, chunk[w] # None PROVE Kept(chunk[w], key[w])'
      <4>1. Kept(chunk[w], key[w]) /\ Kept(chunk[w], key[w]) /\ chunk'[w] = chunk[w]
        BY <1>0, <1>5, <2>1, <3>1 DEF DataInv
      <4>2. \A p, k \in Id : p = chunk[w] /\ k = key[w] => Kept(p, k)'
        BY <2>3, <4>1
      <4> QED
        BY <1>5, <2>1, <3>1, <4>1, <4>2 DEF Kept
    <3>2. \A w \in rows : num'[w] \in Ver /\ (w # v => chunk'[w] = chunk[w])
      BY <1>0, <2>1 DEF GrowData, RowsKept, DataInv
    <3>3. RowsKept'
      <4>1. ASSUME NEW w \in rows', chunk'[w] # None PROVE Kept(chunk[w], key[w])'
        BY <2>1, <2>5, <3>1, <3>2, <4>1
      <4> QED
        BY <2>1, <3>2, <4>1 DEF RowsKept
    <3>4. Unanswered'
      BY <1>6, <2>1 DEF Unanswered
    <3> QED
      BY <3>3, <3>4
  <2>7. GrowData'
    <3>1. Fresh' /\ FullRow(file.cur, file.key)'
      BY <1>0, <1>1, <2>1 DEF GrowData, Fresh, FullRow, DataInv
    <3> QED
      BY <1>0, <2>1, <2>6, <3>1 DEF GrowData, UniqueNumbers
  <2>8. GrowSlot(r)' /\ ~Building(r)'
    BY <1>1, <2>1, <2>2 DEF GrowSlot, Building, HasSource, Finalizing, None, Ver
  <2> QED
    BY <2>2, <2>4, <2>7, <2>8, GrowStep
<1> QED
  BY <1>7, <1>8, <1>9
(* Restores.                                                               *)
LEMMA GrowRestore ==
  ASSUME NothingGoes, TypeInv, GrowInv, NEW r \in Req,
         \/ \E v \in Ver : StartRestore(r, v)
         \/ RestoreReadChunks(r) \/ RestoreReadMax(r) \/ RestoreCommit(r)
  PROVE  GrowInv'
<1> USE DEF At
<1>0. SlotInv /\ DataInv /\ GrowData /\ GrowSlot(r)
  BY DEF TypeInv, GrowInv
<1>1. ASSUME NEW v \in Ver, StartRestore(r, v)
      PROVE  GrowInv'
  <2> DEFINE x == [IdleReq EXCEPT !.pc = "rsChunks", !.op = "restore", !.ver = v,
                                  !.key = key[v]]
  <2>1. v \in Id /\ key[v] \in Id
    BY <1>0, VerIsId DEF DataInv
  <2>2. x \in ReqType /\ x.pc = "rsChunks" /\ x.ver = v /\ x.key = key[v]
    BY <2>1, IdleTyped, PCs DEF ReqType
  <2>3. h'[r] = x /\ \A q \in Req \ {r} : h'[q] = h[q]
    BY <1>0, <1>1, <2>2, SetSlot DEF StartRestore
  <2> HIDE DEF x
  <2>4. GrowData' /\ Keeps /\ \A q \in Req : Untouched(q)
    BY <1>1, GrowSame DEF StartRestore
  <2>5. UNCHANGED <<rows, chunk, key>> /\ v \in rows /\ chunk[v] # None
    BY <1>1 DEF StartRestore, NothingGoes
  <2>6. GrowSlot(r)' /\ ~Building(r)'
    BY <2>2, <2>3, <2>5 DEF GrowSlot, Building, HasSource, Finalizing
  <2> QED
    BY <2>3, <2>4, <2>6, GrowStep
<1>2. CASE RestoreReadChunks(r)
  <2>1. h[r].ver \in Ver /\ chunk[h[r].ver] \in Id
    BY <1>0, <1>2 DEF RestoreReadChunks, DataInv, SlotInv, SlotTyped, UsesVersion
  <2>2. /\ h'[r].pc = "rsMax" /\ h'[r].pre = chunk[h[r].ver] /\ h'[r].key = h[r].key
        /\ \A q \in Req \ {r} : h'[q] = h[q]
    <3>1. "rsMax" \in PC /\ "rsMax" \notin UsesVersion
      BY PCs DEF UsesVersion
    <3>2. PICK w \in Id : /\ w = chunk[h[r].ver]
                          /\ h' = [h EXCEPT ![r].pc = "rsMax", ![r].pre = w]
      BY <1>2, <2>1 DEF RestoreReadChunks
    <3> QED
      BY <1>0, <3>1, <3>2, PreSlot
  <2>3. GrowData' /\ Keeps /\ \A q \in Req : Untouched(q)
    BY <1>2, GrowSame DEF RestoreReadChunks
  <2>4. Kept(h[r].pre, h[r].key)'
    <3>1. Kept(chunk[h[r].ver], key[h[r].ver]) /\ h[r].key = key[h[r].ver]
      BY <1>0, <1>2 DEF RestoreReadChunks, GrowSlot, GrowData, RowsKept
    <3>2. UNCHANGED <<rows, num, chunk, blob>>
      BY <1>2 DEF RestoreReadChunks
    <3> QED
      BY <2>2, <3>1, <3>2 DEF Kept
  <2>5. GrowSlot(r)' /\ ~Building(r)'
    BY <2>2, <2>4 DEF GrowSlot, Building, HasSource, Finalizing
  <2> QED
    BY <2>2, <2>3, <2>5, GrowStep
<1>3. CASE RestoreReadMax(r)
  <2>1. PICK n \in 0..MaxVer+1 : /\ n # None
                                 /\ h' = [h EXCEPT ![r].pc = "insert", ![r].num = n]
    <3>1. 1 \in 0..MaxVer+1 /\ 1 # None
          /\ \A m \in Id : m + 1 \in 0..MaxVer+1 /\ m + 1 # None
      BY Bounds, VerIsId DEF None
    <3> QED
      BY <1>3, <3>1 DEF RestoreReadMax
  <2>2. /\ h'[r].pc = "insert" /\ h'[r].num = n /\ h'[r].op = h[r].op
        /\ h'[r].pre = h[r].pre /\ h'[r].key = h[r].key
        /\ \A q \in Req \ {r} : h'[q] = h[q]
    <3>1. "insert" \in PC /\ "insert" \notin UsesVersion /\ "insert" # "setCount"
      BY PCs DEF UsesVersion
    <3>2. /\ SlotInv /\ r \in Req /\ n \in 0..MaxVer+1
          /\ h' = [h EXCEPT ![r].pc = "insert", ![r].num = n]
      BY <1>0, <2>1
    <3> QED
      BY ONLY <3>1, <3>2, NumSlot
  <2>3. GrowData' /\ Keeps /\ \A q \in Req : Untouched(q)
    BY <1>3, GrowSame DEF RestoreReadMax
  <2>4. Kept(h[r].pre, h[r].key)'
    <3>1. Kept(h[r].pre, h[r].key) /\ UNCHANGED <<rows, num, chunk, blob>>
      BY <1>0, <1>3 DEF RestoreReadMax, GrowSlot, HasSource
    <3> QED
      BY <2>2, <3>1 DEF Kept
  <2>5. GrowSlot(r)' /\ ~Building(r)'
    BY <2>1, <2>2, <2>4 DEF GrowSlot, Building, HasSource, Finalizing
  <2> QED
    BY <2>2, <2>3, <2>5, GrowStep
<1>4. CASE RestoreCommit(r)
  <2>1. GrowData' /\ Keeps /\ \A q \in Req : Untouched(q)
    BY <1>0, <1>4, GrowSame DEF RestoreCommit, GrowSlot
  <2> QED
    BY <1>4, <2>1, GrowReturn, GrowStep DEF RestoreCommit
<1> QED
  BY <1>1, <1>2, <1>3, <1>4

LEMMA GrowCopy ==
  ASSUME TypeInv, GrowInv, NEW r \in Req, NEW v, v = h[r].ver, RestoreCopyChunks(r)
  PROVE  GrowInv'
<1> USE DEF At
<1>0. SlotInv /\ DataInv /\ GrowData /\ GrowSlot(r)
  BY DEF TypeInv, GrowInv
<1>1. /\ h[r].pc = "rsCopy" /\ Building(r) /\ HasSource(r) /\ v \in Ver /\ v \in rows
      /\ chunk[v] = None /\ key[v] = h[r].key /\ upload[v] = "none"
      /\ Kept(h[r].pre, h[r].key) /\ h[r].pre \in Ver /\ h[r].pre # None
  BY <1>0, VerIsId DEF RestoreCopyChunks, Building, HasSource, GrowSlot, SlotInv, SlotTyped,
                       UsesVersion, Kept
<1>2. PICK p \in Ver : p = h[r].pre
  BY <1>1
<1>3. /\ chunk'[v] = p /\ \A w \in Ver \ {v} : chunk'[w] = chunk[w]
      /\ UNCHANGED <<file, rows, next, num, key, blob, upload, put>>
      /\ Goto(r, "rsCommit")
  BY <1>0, <1>1, <1>2 DEF RestoreCopyChunks, DataInv
<1>4. /\ h'[r].pc = "rsCommit" /\ h'[r].ver = v
      /\ \A q \in Req \ {r} : h'[q] = h[q]
  BY <1>0, <1>1, <1>3, GotoSlot, PCs
<1>5. \A o, k \in Id : Kept(o, k) => Kept(o, k)'
  <2>1. ASSUME NEW o \in Id, NEW k \in Id, Kept(o, k) PROVE Kept(o, k)'
    <3>1. PICK m \in rows : num[m] = o /\ chunk[m] = o
      BY <2>1 DEF Kept
    <3>2. m \in Ver \ {v}
      BY <1>0, <1>1, <2>1, <3>1, VerIsId DEF DataInv, Kept
    <3> QED
      BY <1>3, <2>1, <3>1, <3>2 DEF Kept
  <2> QED
    BY <2>1
<1>6. Keeps
  <2>1. rows \subseteq Ver
    BY <1>0 DEF DataInv
  <2> QED
    BY <1>1, <1>3, <1>5, <2>1 DEF Keeps
<1>7. \A q \in Req \ {r} : Untouched(q)
  <2>1. ASSUME NEW q \in Req \ {r}, Building(q)
        PROVE  h[q].ver \in Ver \ {v} /\ h[q].ver \in rows
    BY <1>1, <2>1 DEF GrowInv, OneBuilder, GrowSlot, TypeInv, SlotInv, SlotTyped,
                      UsesVersion, Building, Finalizing
  <2> QED
    BY <1>3, <2>1 DEF Untouched
<1>8. GrowData'
  <2>1. \A w \in rows : num'[w] \in Ver /\ w \in Ver
    BY <1>0, <1>3 DEF GrowData, RowsKept, DataInv
  <2>2. RowsKept'
    <3>1. ASSUME NEW w \in rows', chunk'[w] # None PROVE Kept(chunk[w], key[w])'
      <4>1. CASE w = v
        <5>1. Kept(p, key[v])' /\ key'[v] = key[v] /\ chunk'[v] = p
          <6>1. p \in Id /\ key[v] \in Id /\ Kept(p, key[v])
            BY <1>0, <1>1, <1>2, VerIsId DEF DataInv
          <6>2. \A o, k \in Id : o = p /\ k = key[v] => Kept(o, k)'
            BY <1>5, <6>1
          <6> QED
            BY <1>3, <6>1, <6>2 DEF Kept
        <5> QED
          BY <4>1, <5>1 DEF Kept
      <4>2. CASE w # v
        <5>1. Kept(chunk[w], key[w]) /\ chunk[w] \in Id /\ key[w] \in Id
              /\ chunk'[w] = chunk[w]
          BY <1>0, <1>3, <2>1, <3>1, <4>2 DEF GrowData, RowsKept, DataInv
        <5>2. \A o, k \in Id : o = chunk[w] /\ k = key[w] => Kept(o, k)'
          BY <1>5, <5>1
        <5> QED
          BY <1>3, <5>1, <5>2 DEF Kept
      <4> QED
        BY <4>1, <4>2
    <3> QED
      BY <1>3, <2>1, <3>1 DEF RowsKept
  <2>3. Fresh' /\ Unanswered' /\ FullRow(file.cur, file.key)'
    BY <1>0, <1>1, <1>3 DEF GrowData, Fresh, Unanswered, FullRow, DataInv
  <2> QED
    BY <1>0, <1>3, <2>2, <2>3 DEF GrowData, UniqueNumbers
<1>9. GrowSlot(r)' /\ ~Building(r)'
  <2>1. chunk'[v] # None /\ v \in rows'
    BY <1>1, <1>2, <1>3
  <2> QED
    BY <1>4, <2>1 DEF GrowSlot, Building, HasSource, Finalizing
<1> QED
  BY <1>4, <1>6, <1>7, <1>8, <1>9, GrowStep
(* The prune finds nothing, the download reads, a request dies.            *)
LEMMA GrowOther ==
  ASSUME NothingGoes, TypeInv, GrowInv, NEW r \in Req,
         \/ StartPrune(r) \/ PruneReadFile(r) \/ PruneList(r)
         \/ StartDownload(r) \/ DownloadReadVersion(r) \/ DownloadReadChunks(r)
         \/ FinishDownload(r) \/ Crash(r)
  PROVE  GrowInv'
<1> USE DEF At
<1>0. SlotInv /\ DataInv /\ GrowData /\ GrowSlot(r)
  BY DEF TypeInv, GrowInv
<1>1. /\ UNCHANGED <<file, rows, next, num, key, chunk, blob, upload, put>>
      /\ GrowData' /\ Keeps /\ \A q \in Req : Untouched(q)
  <2>1. UNCHANGED <<file, rows, next, num, key, chunk, blob, upload, put>>
    BY DEF StartPrune, PruneReadFile, PruneList, StartDownload, DownloadReadVersion,
           DownloadReadChunks, FinishDownload, Crash
  <2> QED
    BY <2>1, GrowSame
<1>2. CASE Return(r)
  BY <1>1, <1>2, GrowReturn, GrowStep
<1>3. ASSUME GrowSlot(r)', ~Building(r)', \A q \in Req \ {r} : h'[q] = h[q]
      PROVE  GrowInv'
  BY <1>1, <1>3, GrowStep
<1>4. CASE StartPrune(r)
  <2> DEFINE x == [IdleReq EXCEPT !.pc = "pruneFile", !.op = "prune"]
  <2>1. x \in ReqType /\ x.pc = "pruneFile"
    BY IdleTyped, PCs DEF ReqType
  <2>2. h'[r] = x /\ \A q \in Req \ {r} : h'[q] = h[q]
    BY <1>0, <1>4, <2>1, SetSlot DEF StartPrune, UsesVersion
  <2> HIDE DEF x
  <2> QED
    BY <1>3, <2>1, <2>2 DEF GrowSlot, Building, HasSource, Finalizing
<1>5. CASE PruneReadFile(r)
  <2>1. CASE h' = [h EXCEPT ![r].pc = "pruneList", ![r].cur = file.cur]
    <3>1. PICK n \in Id : n = file.cur /\ h' = [h EXCEPT ![r].pc = "pruneList",
                                                       ![r].cur = n]
      BY <1>0, <2>1 DEF DataInv
    <3>2. "pruneList" \in PC /\ "pruneList" \notin UsesVersion
      BY PCs DEF UsesVersion
    <3>3. /\ h'[r].pc = "pruneList" /\ h'[r].cur = n
          /\ \A q \in Req \ {r} : h'[q] = h[q]
      BY <1>0, <3>1, <3>2, CurSlot
    <3>4. file.key \in Id /\ FullRow(n, file.key)
      BY <1>0, <3>1 DEF GrowData, DataInv
    <3>5. (\E k \in Id : FullRow(h[r].cur, k))'
      BY <1>1, <3>3, <3>4 DEF FullRow
    <3> QED
      BY <1>3, <3>3, <3>5 DEF GrowSlot, Building, HasSource, Finalizing
  <2> QED
    BY <1>2, <1>5, <2>1 DEF PruneReadFile
<1>6. CASE PruneList(r)
  <2>1. Taken(h[r].cur)
    BY <1>0, <1>6 DEF PruneList, GrowSlot, FullRow, Taken
  <2>2. \A id \in Cutoffs : Excess(h[r].cur) \cup Expired(h[r].cur, id) = {}
    BY <2>1, NothingToPrune
  <2> QED
    BY <1>2, <1>6, <2>2 DEF PruneList
<1>7. CASE StartDownload(r)
  <2> DEFINE x == [IdleReq EXCEPT !.pc = "dlVersion", !.cur = file.cur,
                                  !.key = file.key]
  <2>1. file.cur \in Id /\ file.key \in Id
    BY <1>0 DEF DataInv
  <2>2. x \in ReqType /\ x.pc = "dlVersion" /\ x.cur = file.cur /\ x.key = file.key
    BY <2>1, IdleTyped, PCs DEF ReqType
  <2>3. h'[r] = x /\ \A q \in Req \ {r} : h'[q] = h[q]
    BY <1>0, <1>7, <2>2, SetSlot DEF StartDownload, UsesVersion
  <2> HIDE DEF x
  <2>4. FullRow(h[r].cur, h[r].key)'
    BY <1>0, <1>1, <2>2, <2>3 DEF FullRow, GrowData
  <2> QED
    BY <1>3, <2>2, <2>3, <2>4 DEF GrowSlot, Building, HasSource, Finalizing
<1>8. CASE DownloadReadVersion(r)
  <2>1. PICK v \in Id : /\ h' = [h EXCEPT ![r].pc = "dlChunks", ![r].ver = v]
                        /\ "download" \notin Faults => v = RowOf(h[r].cur)
    BY <1>0, <1>8, RowOfTyped, VerIsId DEF DownloadReadVersion, DataInv, Errs
  <2>2. "dlChunks" \in PC /\ "dlChunks" \notin UsesVersion
    BY PCs DEF UsesVersion
  <2>3. /\ h'[r].pc = "dlChunks" /\ h'[r].ver = v /\ h'[r].key = h[r].key
        /\ \A q \in Req \ {r} : h'[q] = h[q]
    BY <1>0, <2>1, <2>2, VerSlot
  <2>4. ASSUME "download" \notin Faults
        PROVE  v \in rows /\ chunk[v] # None /\ key[v] = h[r].key
    <3>1. PICK w \in rows : num[w] = h[r].cur /\ key[w] = h[r].key /\ chunk[w] # None
      BY <1>0, <1>8 DEF DownloadReadVersion, GrowSlot, FullRow
    <3>2. \A u \in rows : num[u] = h[r].cur => u = w
      BY <1>0, <3>1 DEF GrowData, UniqueNumbers
    <3>3. RowOf(h[r].cur) = w
      BY <3>1, <3>2 DEF RowOf, Taken
    <3> QED
      BY <2>1, <2>4, <3>1, <3>3
  <2>5. ("download" \notin Faults =>
            h[r].ver \in rows /\ chunk[h[r].ver] # None /\ key[h[r].ver] = h[r].key)'
    BY <1>1, <2>3, <2>4
  <2> QED
    BY <1>3, <2>3, <2>5 DEF GrowSlot, Building, HasSource, Finalizing
<1>9. CASE DownloadReadChunks(r)
  <2>1. PICK w \in SUBSET Ver : w = {v \in Asked(h[r].ver) : chunk[v] # None}
    BY <1>0 DEF Asked, DataInv
  <2>2. h' = [h EXCEPT ![r].pc = "dlDone", ![r].vs = w]
    BY <1>9, <2>1 DEF DownloadReadChunks
  <2>3. "download" \notin Faults => \A v \in w : v \in rows /\ key[v] = h[r].key
    <3>1. SUFFICES ASSUME "download" \notin Faults
                   PROVE  \A v \in w : v \in rows /\ key[v] = h[r].key
      OBVIOUS
    <3>2. h[r].ver \in rows /\ key[h[r].ver] = h[r].key
      BY <1>0, <1>9, <3>1 DEF DownloadReadChunks, GrowSlot
    <3>3. h[r].ver # None
      BY <1>0, <3>2, VerIsId DEF DataInv
    <3> QED
      BY <2>1, <3>2, <3>3 DEF Asked
  <2>4. \A v \in rows : v < next
    <3>1. \A v \in rows : v \in Ver /\ ~(v >= next)
      BY <1>0 DEF GrowData, Fresh, DataInv
    <3> QED
      BY <1>0, <3>1, Bounds DEF DataInv, Ver
  <2>5. "dlDone" \in PC /\ "dlDone" \notin UsesVersion
    BY PCs DEF UsesVersion
  <2>6. /\ h'[r].pc = "dlDone" /\ h'[r].vs = w /\ h'[r].key = h[r].key
        /\ \A q \in Req \ {r} : h'[q] = h[q]
    <3> DEFINE x == [h[r] EXCEPT !.pc = "dlDone", !.vs = w]
    <3>1. x \in ReqType /\ x.pc = "dlDone" /\ x.vs = w /\ x.key = h[r].key
      BY <1>0, <2>5 DEF SlotInv, ReqType
    <3>2. h' = [h EXCEPT ![r] = x]
      BY <2>2
    <3> HIDE DEF x
    <3> QED
      BY <1>0, <2>5, <3>1, <3>2, SetSlot
  <2>7. ("download" \notin Faults => \A v \in h[r].vs : v < next /\ key[v] = h[r].key)'
    <3>1. w \subseteq rows
      BY <1>0, <2>1 DEF Asked
    <3> QED
      BY <1>1, <2>3, <2>4, <2>6, <3>1
  <2> QED
    BY <1>3, <2>6, <2>7 DEF GrowSlot, Building, HasSource, Finalizing
<1> QED
  BY <1>2, <1>4, <1>5, <1>6, <1>7, <1>8, <1>9 DEF FinishDownload, Crash

(* No request gets to delete.                                              *)
LEMMA GrowNoDelete ==
  ASSUME NothingGoes, TypeInv, GrowInv, NEW r \in Req
  PROVE  /\ \A v \in Ver : ~StartDelete(r, v)
         /\ ~DeleteCheckHold(r) /\ ~DeleteCheckCurrent(r) /\ ~DeleteReadChunks(r)
         /\ ~DeleteRow(r) /\ ~DeleteCountRefs(r) /\ ~DeleteObjects(r)
         /\ ~CountRows(r) /\ ~SetCount(r) /\ ~PruneSkip(r)
<1>1. GrowSlot(r)
  BY DEF GrowInv
<1> QED
  BY <1>1 DEF At, GrowSlot, NothingGoes, StartDelete, DeleteCheckHold, DeleteCheckCurrent,
              DeleteReadChunks, DeleteRow, DeleteCountRefs, DeleteObjects, CountRows,
              SetCount, PruneSkip

(* The uploaded file satisfies the invariant.                              *)
LEMMA GrowInit == Init => GrowInv
<1> SUFFICES ASSUME Init PROVE GrowInv
  OBVIOUS
<1>1. \A r \in Req : h[r].pc = "idle"
  BY IdleTyped DEF Init
<1>2. OneBuilder /\ \A r \in Req : GrowSlot(r)
  BY <1>1 DEF OneBuilder, GrowSlot, Building, HasSource, Finalizing
<1>3. 1 \in Ver /\ 1 # None /\ \A v \in Ver : v >= 2 => v # 1
  BY Bounds DEF None, Ver
<1>4. /\ rows = {1} /\ next = 2 /\ num[1] = 1 /\ key[1] = 1 /\ chunk[1] = 1
      /\ \A c \in Chunks : blob[1][c] = 1
      /\ file.cur = 1 /\ file.key = 1
      /\ \A v \in Ver : /\ upload[v] = IF v = 1 THEN "closed" ELSE "none"
                        /\ put[v] = {} /\ chunk[v] = IF v = 1 THEN 1 ELSE None
  BY <1>3 DEF Init
<1>5. GrowData
  BY <1>3, <1>4 DEF GrowData, UniqueNumbers, Fresh, RowsKept, Kept, Unanswered, FullRow
<1> QED
  BY <1>2, <1>5 DEF GrowInv

(* Every step keeps the invariant.                                         *)
LEMMA GrowNext ==
  ASSUME NothingGoes, TypeInv, GrowInv, [Next]_vars
  PROVE  GrowInv'
<1>1. CASE UNCHANGED vars \/ SetHold
  <2>1. UNCHANGED <<rows, next, num, key, chunk, blob, upload, put, h>>
        /\ file'.cur = file.cur /\ file'.key = file.key
    BY <1>1 DEF vars, SetHold, TypeInv, DataInv
  <2>2. GrowData' /\ Keeps /\ \A q \in Req : Untouched(q)
    BY <2>1, GrowSame
  <2>3. ASSUME NEW q \in Req PROVE GrowSlot(q)'
    BY <2>1, <2>2, GrowSlotStays DEF GrowInv
  <2>4. OneBuilder'
    BY <2>1 DEF GrowInv, OneBuilder, Building
  <2> QED
    BY <2>2, <2>3, <2>4 DEF GrowInv
<1>2. ASSUME NEW r \in Req,
             \/ StartNewVersion(r) \/ StartPrune(r) \/ StartDownload(r)
             \/ Handler(r) \/ PruneSkip(r) \/ Crash(r)
      PROVE  GrowInv'
  <2>1. CASE StartNewVersion(r) \/ InsertRefused(r) \/ InsertVersion(r)
    BY <2>1, GrowInsert
  <2>2. CASE FinalizeReadVersion(r) \/ FinalizeMeasure(r) \/ FinalizeCommit(r)
    BY <2>2, GrowFinalize
  <2>3. CASE FinalizePurge(r) \/ FinalizeDrop(r) \/ FinalizeInsertChunks(r)
    BY <2>3, GrowFinalizeData
  <2>4. CASE RestoreReadChunks(r) \/ RestoreReadMax(r) \/ RestoreCommit(r)
    BY <2>4, GrowRestore
  <2>5. CASE RestoreCopyChunks(r)
    BY <2>5, GrowCopy
  <2>6. CASE \/ StartPrune(r) \/ PruneReadFile(r) \/ PruneList(r)
             \/ StartDownload(r) \/ DownloadReadVersion(r) \/ DownloadReadChunks(r)
             \/ FinishDownload(r) \/ Crash(r)
    BY <2>6, GrowOther
  <2> QED
    BY <1>2, <2>1, <2>2, <2>3, <2>4, <2>5, <2>6, GrowNoDelete DEF Handler
<1>3. ASSUME NEW r \in Req, NEW v \in Ver,
             StartFinalize(r, v) \/ StartRestore(r, v) \/ StartDelete(r, v)
      PROVE  GrowInv'
  BY <1>3, GrowFinalize, GrowRestore, GrowNoDelete
<1>4. ASSUME NEW v \in Ver, Abandon(v) \/ \E c \in Chunks : PutChunk(v, c)
      PROVE  GrowInv'
  BY <1>4, GrowClient
<1> QED
  BY <1>1, <1>2, <1>3, <1>4 DEF Next

(* As long as nothing is deleted, every version with chunk rows can be     *)
(* downloaded and the current one has them, whatever uploads, restores and *)
(* refusals interleave, with any number of requests, crashes and late PUTs *)
(* and whichever reads fail.                                               *)
THEOREM GrowingVersionsDownloadable ==
  ASSUME NothingGoes
  PROVE  Spec => []VersionsDownloadable
<1>1. Init => GrowInv
  BY GrowInit
<1>2. TypeInv /\ GrowInv /\ [Next]_vars => GrowInv'
  BY GrowNext
<1>3. GrowInv => VersionsDownloadable
  BY DEF GrowInv, GrowData, RowsKept, Kept, FullRow, VersionsDownloadable, RowNumbered
<1> QED
  BY <1>1, <1>2, <1>3, TypeInvariant, PTL DEF Spec

(* And a download returns only chunks made with the session key it returns *)
(* with them, although it reads the file, the version and the chunks in    *)
(* three steps - if the read of the version does not fail unnoticed.       *)
THEOREM GrowingDownloadDecrypts ==
  ASSUME NothingGoes, "download" \notin Faults
  PROVE  Spec => []DownloadDecrypts
<1>1. Init => GrowInv
  BY GrowInit
<1>2. TypeInv /\ GrowInv /\ [Next]_vars => GrowInv'
  BY GrowNext
<1>3. GrowInv => DownloadDecrypts
  BY DEF GrowInv, GrowSlot, DownloadDecrypts, At
<1> QED
  BY <1>1, <1>2, <1>3, TypeInvariant, PTL DEF Spec
-----------------------------------------------------------------------------
(* One request at a time, deletions included: a version with chunk rows    *)
(* keeps its objects, and an evidence hold freezes it. Numbers are used    *)
(* again here, so the argument is another one: an upload writes under the  *)
(* number after the current one, and no other version has objects there,   *)
(* because whatever has content sits at or below the current number, or    *)
(* holds the next number itself. That takes what Undisturbed asks: a       *)
(* restore that dies after its version row, or one that passes a pending   *)
(* upload, leaves content above the current number (README, findings).     *)

Undisturbed ==
  /\ Overlap = FALSE
  /\ Ops \cap {"late", "restoreEmpty"} = {}
  /\ ~({"during", "deletePending"} \subseteq Ops)
  /\ Faults \cap {"current", "refs", "max"} = {}
  /\ VersionCount >= 1    \* overrides are positive, the plans keep 3, 10, 30
  /\ "restore" \in Ops => "during" \notin Ops /\ "crash" \notin Faults

\* The objects under prefix p are there and hold ciphertext under k.
Holds(p, k) == p \in Ver /\ \A c \in Chunks : blob[p][c] = k

NumbersLow == \A v \in rows : num[v] <= file.cur + 1
ContentLow == "restore" \in Ops => \A v \in rows : chunk[v] <= file.cur
Resting == \A r \in Req : h[r].pc \notin {"rsCopy", "rsCommit", "finCommit"}

Content == \A v \in rows :
  /\ num[v] \in Ver
  /\ chunk[v] # None => /\ chunk[v] <= file.cur \/ chunk[v] = num[v]
                        /\ Holds(chunk[v], key[v])
Open == \A v \in Ver : upload[v] = "open" =>
  /\ v \in rows /\ num[v] = file.cur + 1 /\ chunk[v] = None
  /\ \A c \in put[v] : blob[num[v]][c] = key[v]

CoreData == Fresh /\ Content /\ Open /\ FullRow(file.cur, file.key)
ContentData == CoreData /\ (Resting => NumbersLow /\ ContentLow)

NoOpen == \A v \in Ver : upload[v] # "open"
FreeOfOpen(p) == \A v \in Ver : upload[v] = "open" => num[v] # p

Restoring(r) == \/ h[r].pc \in {"rsChunks", "rsMax", "rsCopy", "rsCommit"}
                \/ h[r].pc = "insert" /\ h[r].op = "restore"
Copies(r) == \/ h[r].pc \in {"rsMax", "rsCopy"}
             \/ h[r].pc = "insert" /\ h[r].op = "restore"
Removing(r) == \/ h[r].pc = "blobs"
               \/ h[r].pc \in {"count", "setCount"} /\ h[r].op # "prune"

UploadSlot(r) ==
  /\ h[r].pc = "insert" => h[r].num # None
  /\ h[r].pc = "insert" /\ h[r].op = "init" => h[r].num = file.cur + 1
  /\ h[r].pc \in Finalizing \cup {"finCommit"} =>
        h[r].ver \in rows /\ num[h[r].ver] = file.cur + 1
  /\ h[r].pc \in Finalizing => chunk[h[r].ver] = None
  /\ h[r].pc \in {"finVersion", "finMeasure", "finInsert"} =>
        Holds(num[h[r].ver], key[h[r].ver])
  /\ h[r].pc = "finCommit" =>
        /\ chunk[h[r].ver] = num[h[r].ver] /\ NumbersLow
        /\ "restore" \in Ops => \A v \in rows : v # h[r].ver => chunk[v] <= file.cur

RestoreSlot(r) ==
  /\ Restoring(r) => NoOpen /\ "restore" \in Ops
  /\ h[r].pc \in {"rsChunks", "rsMax"} => h[r].op = "restore"
  /\ h[r].pc = "rsChunks" => /\ h[r].ver \in rows /\ chunk[h[r].ver] # None
                             /\ h[r].key = key[h[r].ver]
  /\ Copies(r) => Holds(h[r].pre, h[r].key) /\ h[r].pre <= file.cur
  /\ h[r].pc = "insert" /\ h[r].op = "restore" =>
        h[r].num > file.cur /\ \A v \in rows : num[v] < h[r].num
  /\ h[r].pc \in {"rsCopy", "rsCommit"} =>
        /\ h[r].ver \in rows /\ num[h[r].ver] > file.cur
        /\ \A v \in rows : num[v] <= num[h[r].ver] /\ chunk[v] <= file.cur
  /\ h[r].pc = "rsCopy" => chunk[h[r].ver] = None /\ key[h[r].ver] = h[r].key
  /\ h[r].pc = "rsCommit" => chunk[h[r].ver] # None

DeleteSlot(r) ==
  /\ h[r].pc \in {"pruneFile", "pruneList"} => h[r].op = "prune"
  /\ h[r].pc \in {"dvHold", "dvCurrent", "delChunks", "delRow"} =>
        upload[h[r].ver] # "open"
  /\ h[r].pc = "delRow" => h[r].pre \in {None, chunk[h[r].ver]}
  /\ h[r].pc = "delRefs" \/ Removing(r) => FreeOfOpen(h[r].pre)
  /\ Removing(r) => h[r].pre = None \/ ~Referenced(h[r].pre)
  /\ h[r].op = "prune" /\ h[r].pc \in {"delChunks", "delRow", "delRefs", "blobs"} =>
        \A v \in h[r].vs : upload[v] # "open"
  /\ "hold" \notin Faults /\ h[r].pc \in {"dvCurrent", "pruneList", "delChunks", "delRow",
                                          "delRefs", "blobs", "count", "setCount"} =>
        ~file.held

ContentSlot(r) == UploadSlot(r) /\ RestoreSlot(r) /\ DeleteSlot(r)
ContentInv == ContentData /\ \A r \in Req : ContentSlot(r)

(* A step of slot r has to be checked for slot r and the data.             *)
LEMMA ContentStep ==
  ASSUME Overlap = FALSE, SerialInv, NEW r \in Req, h[r].pc # "idle" \/ CanStart(r),
         \A q \in Req \ {r} : h'[q] = h[q],
         CoreData', ContentSlot(r)',
         h'[r].pc \notin {"rsCopy", "rsCommit", "finCommit"} => (NumbersLow /\ ContentLow)'
  PROVE  ContentInv'
<1>1. \A q \in Req \ {r} : h'[q].pc = "idle"
  BY Solo DEF SerialInv
<1>2. ASSUME NEW q \in Req PROVE ContentSlot(q)'
  <2>1. CASE q # r
    <3>1. h'[q].pc = "idle"
      BY <1>1, <2>1
    <3> QED
      BY <3>1 DEF ContentSlot, UploadSlot, RestoreSlot, DeleteSlot, Restoring, Copies,
                  Removing, Finalizing
  <2> QED
    BY <2>1
<1> QED
  BY <1>2 DEF ContentInv, ContentData, Resting

(* Between the requests that move the current number the numbers are low.  *)
LEMMA LowWhileResting ==
  ASSUME Overlap = FALSE, SerialInv, ContentInv, NEW r \in Req,
         h[r].pc # "idle" \/ CanStart(r),
         h[r].pc \notin {"rsCopy", "rsCommit", "finCommit"}
  PROVE  NumbersLow /\ ContentLow
<1>1. \A q \in Req \ {r} : h[q].pc = "idle"
  BY Solo DEF SerialInv
<1>2. Resting
  BY <1>1 DEF Resting
<1> QED
  BY <1>2 DEF ContentInv, ContentData

(* Steps that change no row, no object and no upload.                      *)
LEMMA ContentSame ==
  ASSUME ContentInv, UNCHANGED <<rows, next, num, key, chunk, blob, upload, put>>,
         file'.cur = file.cur, file'.key = file.key
  PROVE  /\ CoreData'
         /\ NumbersLow => NumbersLow'
         /\ ContentLow => ContentLow'
BY DEF ContentInv, ContentData, CoreData, Fresh, Content, Holds, Open, FullRow,
       NumbersLow, ContentLow

(* A request that answers needs nothing.                                   *)
LEMMA ContentReturn ==
  ASSUME TypeInv, NEW r \in Req, Return(r)
  PROVE  /\ ContentSlot(r)' /\ h'[r].pc = "idle"
         /\ \A q \in Req \ {r} : h'[q] = h[q]
<1>1. h'[r].pc = "idle" /\ \A q \in Req \ {r} : h'[q] = h[q]
  BY ReturnSlot, IdleTyped DEF TypeInv
<1> QED
  BY <1>1 DEF ContentSlot, UploadSlot, RestoreSlot, DeleteSlot, Restoring, Copies,
              Removing, Finalizing

(* So a request that answers and changes nothing else keeps the invariant. *)
LEMMA ContentAnswer ==
  ASSUME Overlap = FALSE, TypeInv, SerialInv, ContentInv, NEW r \in Req, Return(r),
         h[r].pc # "idle", h[r].pc \notin {"rsCopy", "rsCommit", "finCommit"},
         UNCHANGED <<rows, next, num, key, chunk, blob, upload, put>>,
         file'.cur = file.cur, file'.key = file.key
  PROVE  ContentInv'
<1>1. NumbersLow /\ ContentLow
  BY LowWhileResting
<1>2. CoreData' /\ NumbersLow' /\ ContentLow'
  BY <1>1, ContentSame
<1> QED
  BY <1>2, ContentReturn, ContentStep

(* The next number is nobody's prefix while its row has no chunk rows.     *)
LEMMA NextNumberFree ==
  ASSUME TypeInv, SerialInv, ContentInv, NEW v \in rows, num[v] = file.cur + 1,
         chunk[v] = None, NEW w \in rows, chunk[w] # None
  PROVE  chunk[w] # num[v] /\ chunk[w] \in Ver
<1>1. (chunk[w] <= file.cur \/ chunk[w] = num[w]) /\ chunk[w] \in Ver /\ w # v
  BY DEF ContentInv, ContentData, CoreData, Content, Holds
<1>2. num[w] # num[v]
  BY <1>1 DEF SerialInv, HistoryInv, UniqueNumbers
<1>3. file.cur \in Nat /\ chunk[w] \in Nat
  BY <1>1, Bounds, VerIsId DEF TypeInv, DataInv, Ver
<1> QED
  BY <1>1, <1>2, <1>3

(* While a version is being finalized no upload is open.                   *)
LEMMA FinalizingNoOpen ==
  ASSUME SerialInv, ContentInv, NEW r \in Req, h[r].pc \in Finalizing \cup {"finCommit"}
  PROVE  NoOpen
<1>1. h[r].ver \in rows /\ num[h[r].ver] = file.cur + 1 /\ upload[h[r].ver] # "open"
  BY DEF SerialInv, SlotSafe, ContentInv, ContentSlot, UploadSlot
<1>2. ASSUME NEW v \in Ver, upload[v] = "open" PROVE FALSE
  <2>1. v \in rows /\ num[v] = num[h[r].ver]
    BY <1>1, <1>2 DEF ContentInv, ContentData, CoreData, Open
  <2>2. v = h[r].ver
    BY <1>1, <2>1 DEF SerialInv, HistoryInv, UniqueNumbers
  <2> QED
    BY <1>1, <1>2, <2>2
<1> QED
  BY <1>2 DEF NoOpen
(* Inserting a version row, for an upload or a restore.                    *)
LEMMA ContentInsert ==
  ASSUME Undisturbed, TypeInv, SerialInv, ContentInv, NEW r \in Req,
         NEW v, v = next, NEW n, n = h[r].num, InsertVersion(r)
  PROVE  ContentInv'
<1> USE DEF At
<1>0. /\ SlotInv /\ DataInv /\ HistoryInv /\ CoreData /\ ContentSlot(r)
      /\ h[r].pc = "insert" /\ Overlap = FALSE
  BY DEF TypeInv, SerialInv, ContentInv, ContentData, InsertVersion, Undisturbed
<1>1. NumbersLow /\ ContentLow
  BY <1>0, LowWhileResting
<1>2. /\ v \in Ver /\ v \in Nat /\ n \in Ver /\ n \in Nat /\ ~Taken(n) /\ file.cur \in Nat
      /\ v \notin rows /\ upload[v] = "none" /\ put[v] = {} /\ chunk[v] = None
  <2>1. n \in 0..MaxVer+1 /\ n # None
    BY <1>0 DEF ContentSlot, UploadSlot, SlotInv, ReqType
  <2>2. v \in Ver /\ n \in Ver /\ ~Taken(n) /\ v \in Nat /\ n \in Nat /\ file.cur \in Nat
    BY <1>0, <2>1, Bounds
       DEF InsertVersion, Refused, BoundReached, DataInv, Ver, Id, None
  <2> QED
    BY <1>0, <2>2 DEF CoreData, Fresh, Ver
<1>3. /\ rows' = rows \cup {v} /\ next' = next + 1 /\ num'[v] = n
      /\ \A w \in Ver \ {v} : num'[w] = num[w] /\ key'[w] = key[w]
                              /\ upload'[w] = upload[w]
      /\ UNCHANGED <<file, chunk, blob, put>>
  BY <1>0, <1>2 DEF InsertVersion, DataInv
<1>4. \A w \in rows : w \in Ver /\ w # v
  BY <1>0, <1>2 DEF DataInv
<1>5. \A w \in Ver : w >= next' => w >= next /\ w # v
  BY <1>2, <1>3, Bounds DEF Ver
<1>6. Fresh'
  BY <1>0, <1>3, <1>5 DEF CoreData, Fresh
<1>7. Content'
  <2>1. ASSUME NEW w \in rows'
        PROVE  /\ num'[w] \in Ver
               /\ chunk'[w] # None => /\ chunk'[w] <= file'.cur \/ chunk'[w] = num'[w]
                                      /\ Holds(chunk[w], key[w])'
    <3>1. CASE w = v
      BY <1>2, <1>3, <3>1
    <3>2. CASE w # v
      <4>1. w \in rows /\ num'[w] = num[w] /\ key'[w] = key[w] /\ chunk'[w] = chunk[w]
            /\ blob' = blob /\ file' = file
        BY <1>3, <1>4, <2>1, <3>2
      <4> QED
        BY <1>0, <4>1 DEF CoreData, Content, Holds
    <3> QED
      BY <3>1, <3>2
  <2> QED
    BY <2>1 DEF Content
<1>8. FullRow(file.cur, file.key)'
  BY <1>0, <1>3, <1>4 DEF CoreData, FullRow
<1>9. ContentLow'
  BY <1>1, <1>2, <1>3, <1>4, Bounds DEF ContentLow, None
<1>10. CASE h[r].op = "init"
  <2>1. n = file.cur + 1 /\ Return(r)
    BY <1>0, <1>3, <1>10 DEF InsertVersion, ContentSlot, UploadSlot
  <2>2. NumbersLow'
    BY <1>1, <1>2, <1>3, <1>4, <2>1 DEF NumbersLow
  <2>3. Open'
    <3>1. ASSUME NEW w \in Ver, upload'[w] = "open"
          PROVE  /\ w \in rows' /\ num'[w] = file'.cur + 1 /\ chunk'[w] = None
                 /\ \A c \in put'[w] : blob'[num'[w]][c] = key'[w]
      <4>1. CASE w = v
        BY <1>2, <1>3, <2>1, <4>1
      <4>2. CASE w # v
        <5>1. upload[w] = "open" /\ num'[w] = num[w] /\ key'[w] = key[w]
          BY <1>3, <3>1, <4>2
        <5> QED
          BY <1>0, <1>3, <5>1 DEF CoreData, Open
      <4> QED
        BY <4>1, <4>2
    <3> QED
      BY <3>1 DEF Open
  <2> QED
    BY <1>0, <1>6, <1>7, <1>8, <1>9, <2>1, <2>2, <2>3, ContentReturn, ContentStep
       DEF CoreData
<1>11. CASE h[r].op = "restore"
  <2>1. /\ h'[r].pc = "rsCopy" /\ h'[r].ver = v
        /\ h'[r].pre = h[r].pre /\ h'[r].key = h[r].key /\ h'[r].op = h[r].op
        /\ \A q \in Req \ {r} : h'[q] = h[q]
    BY <1>0, <1>2, <1>3, <1>11, VerSlot, VerIsId, PCs DEF InsertVersion
  <2>2. key'[v] = h[r].key /\ upload'[v] = "none" /\ upload' = upload
    BY <1>0, <1>2, <1>3, <1>11 DEF InsertVersion, DataInv
  <2>3. /\ NoOpen /\ "restore" \in Ops /\ h[r].pre <= file.cur
        /\ Holds(h[r].pre, h[r].key) /\ n > file.cur /\ \A w \in rows : num[w] < n
    BY <1>0, <1>11 DEF ContentSlot, RestoreSlot, Restoring, Copies
  <2>4. Open' /\ NoOpen'
    BY <2>2, <2>3 DEF Open, NoOpen
  <2>5. \A w \in rows' : num'[w] <= num'[v] /\ chunk'[w] <= file'.cur
    <3>1. \A w \in rows : num[w] \in Nat
      BY <1>0, Bounds DEF CoreData, Content, Ver
    <3> QED
      BY <1>1, <1>2, <1>3, <1>4, <2>3, <3>1 DEF ContentLow, None
  <2>6. ContentSlot(r)'
    <3>1. (Restoring(r) => NoOpen /\ "restore" \in Ops)'
      BY <2>3, <2>4
    <3>2. (Copies(r) => Holds(h[r].pre, h[r].key) /\ h[r].pre <= file.cur)'
      BY <1>3, <2>1, <2>3 DEF Holds
    <3>3. RestoreSlot(r)'
      BY <1>2, <1>3, <2>1, <2>2, <2>3, <2>5, <3>1, <3>2 DEF RestoreSlot
    <3>4. UploadSlot(r)' /\ DeleteSlot(r)'
      BY <2>1 DEF UploadSlot, DeleteSlot, Removing, Finalizing
    <3> QED
      BY <3>3, <3>4 DEF ContentSlot
  <2> QED
    BY <1>0, <1>6, <1>7, <1>8, <2>1, <2>4, <2>6, ContentStep DEF CoreData
<1> QED
  BY <1>10, <1>11 DEF InsertVersion
(* Starting an upload, and the client's finalize of it.                    *)
LEMMA ContentStartUpload ==
  ASSUME Undisturbed, TypeInv, SerialInv, ContentInv, NEW r \in Req,
         \/ StartNewVersion(r) \/ InsertRefused(r) \/ \E v \in Ver : StartFinalize(r, v)
  PROVE  ContentInv'
<1> USE DEF At
<1>0. /\ SlotInv /\ DataInv /\ CoreData /\ ContentSlot(r) /\ Overlap = FALSE
  BY DEF TypeInv, ContentInv, ContentData, Undisturbed
<1>1. CASE StartNewVersion(r)
  <2> DEFINE x == [IdleReq EXCEPT !.pc = "insert", !.op = "init",
                                  !.num = file.cur + 1]
  <2>1. file.cur + 1 \in 0..MaxVer+1 /\ file.cur + 1 # None
    BY <1>0, Bounds, VerIsId DEF DataInv, None
  <2>2. x \in ReqType /\ x.pc = "insert" /\ x.op = "init" /\ x.num = file.cur + 1
    BY <2>1, IdleTyped, PCs DEF ReqType
  <2>3. h'[r] = x /\ \A q \in Req \ {r} : h'[q] = h[q]
    BY <1>0, <1>1, <2>2, SetSlot DEF StartNewVersion, UsesVersion
  <2> HIDE DEF x
  <2>4. UNCHANGED <<file, rows, next, num, key, chunk, blob, upload, put>> /\ CanStart(r)
    BY <1>1 DEF StartNewVersion, OwnerStarts
  <2>5. NumbersLow /\ ContentLow
    BY <1>0, <2>4, LowWhileResting DEF CanStart
  <2>6. CoreData' /\ NumbersLow' /\ ContentLow'
    BY <2>4, <2>5, ContentSame
  <2>7. h'[r].num = file'.cur + 1 /\ h'[r].num # None
    BY <2>1, <2>2, <2>3, <2>4
  <2>8. ContentSlot(r)'
    BY <2>2, <2>3, <2>7 DEF ContentSlot, UploadSlot, RestoreSlot, DeleteSlot, Restoring,
                            Copies, Removing, Finalizing
  <2> QED
    BY <1>0, <2>3, <2>4, <2>6, <2>8, ContentStep
<1>2. CASE InsertRefused(r)
  BY <1>0, <1>2, ContentAnswer DEF InsertRefused
<1>3. ASSUME NEW v \in Ver, StartFinalize(r, v)
      PROVE  ContentInv'
  <2> DEFINE x == [IdleReq EXCEPT !.pc = "finVersion", !.op = "finalize", !.ver = v]
  <2>1. x \in ReqType /\ x.pc = "finVersion" /\ x.ver = v /\ x.op = "finalize"
    BY IdleTyped, PCs, VerIsId DEF ReqType
  <2>2. h'[r] = x /\ \A q \in Req \ {r} : h'[q] = h[q]
    <3>1. SlotInv /\ h' = [h EXCEPT ![r] = x]
      BY <1>0, <1>3 DEF StartFinalize
    <3> HIDE DEF x
    <3> QED
      BY <2>1, <3>1, SetSlot
  <2> HIDE DEF x
  <2>3. /\ v \in rows /\ num[v] = file.cur + 1 /\ chunk[v] = None /\ num[v] \in Ver
        /\ \A c \in Chunks : blob[num[v]][c] = key[v]
    BY <1>0, <1>3 DEF StartFinalize, CoreData, Open, Content
  <2>4. /\ UNCHANGED <<file, rows, next, num, key, chunk, blob, put>> /\ CanStart(r)
        /\ upload'[v] = "closed" /\ \A w \in Ver \ {v} : upload'[w] = upload[w]
    BY <1>0, <1>3 DEF StartFinalize, DataInv
  <2>5. NumbersLow /\ ContentLow
    BY <1>0, <2>4, LowWhileResting DEF CanStart
  <2>6. NumbersLow' /\ ContentLow' /\ Content' /\ FullRow(file.cur, file.key)'
    BY <1>0, <2>4, <2>5 DEF NumbersLow, ContentLow, CoreData, Content, Holds, FullRow
  <2>7. Fresh' /\ Open'
    <3>1. ~(v >= next)
      BY <1>0, <2>3 DEF CoreData, Fresh
    <3> QED
      BY <1>0, <2>3, <2>4, <3>1 DEF CoreData, Fresh, Open
  <2>8. UploadSlot(r)'
    BY <2>1, <2>2, <2>3, <2>4 DEF UploadSlot, Holds, Finalizing
  <2>9. RestoreSlot(r)' /\ DeleteSlot(r)'
    BY <2>1, <2>2 DEF RestoreSlot, DeleteSlot, Restoring, Copies, Removing
  <2> QED
    BY <1>0, <2>2, <2>4, <2>6, <2>7, <2>8, <2>9, ContentStep DEF ContentSlot, CoreData
<1> QED
  BY <1>1, <1>2, <1>3

(* The steps of a finalize: what it works on has the next number, and      *)
(* nobody else does.                                                       *)
LEMMA ContentFinalize ==
  ASSUME Undisturbed, TypeInv, SerialInv, ContentInv, NEW r \in Req,
         NEW v, v = h[r].ver,
         \/ FinalizeReadVersion(r) \/ FinalizeMeasure(r) \/ FinalizePurge(r)
         \/ FinalizeDrop(r) \/ FinalizeInsertChunks(r) \/ FinalizeCommit(r)
  PROVE  ContentInv'
<1> USE DEF At
<1>0. /\ SlotInv /\ DataInv /\ HistoryInv /\ CoreData /\ ContentSlot(r) /\ SlotSafe(r)
      /\ Overlap = FALSE
      /\ h[r].pc \in Finalizing \cup {"finCommit"} /\ h[r].pc # "idle"
  BY DEF TypeInv, SerialInv, ContentInv, ContentData, Undisturbed, Finalizing,
         FinalizeReadVersion, FinalizeMeasure, FinalizePurge, FinalizeDrop,
         FinalizeInsertChunks, FinalizeCommit
<1>1. /\ v \in rows /\ v \in Ver /\ num[v] = file.cur + 1 /\ num[v] \in Ver /\ NoOpen
      /\ file.cur \in Nat
  <2>1. NoOpen
    BY <1>0, FinalizingNoOpen
  <2>2. v \in rows /\ num[v] = file.cur + 1
    BY <1>0 DEF ContentSlot, UploadSlot
  <2>3. v \in Ver /\ num[v] \in Ver
    BY <1>0, <2>2 DEF CoreData, Content, DataInv
  <2>4. file.cur \in Nat
    BY <1>0, Bounds, VerIsId DEF DataInv
  <2> QED
    BY <2>1, <2>2, <2>3, <2>4
<1>2. h[r].pc \in Finalizing => NumbersLow /\ ContentLow /\ chunk[v] = None
  BY <1>0, LowWhileResting DEF ContentSlot, UploadSlot, Finalizing
<1>3. \A w \in rows : w # v => num[w] # num[v]
  BY <1>0, <1>1 DEF HistoryInv, UniqueNumbers
<1>4. ASSUME NEW p \in {"finMeasure", "finDrop", "finInsert", "finPurge", "finCommit"},
             Goto(r, p)
      PROVE  /\ h'[r].pc = p /\ h'[r].ver = v
             /\ \A q \in Req \ {r} : h'[q] = h[q]
  BY <1>0, <1>1, <1>4, GotoSlot, PCs
<1>5. CASE FinalizeReadVersion(r)
  <2>1. /\ Goto(r, "finMeasure")
        /\ UNCHANGED <<file, rows, next, num, key, chunk, blob, upload, put>>
    BY <1>1, <1>5 DEF FinalizeReadVersion
  <2>2. CoreData' /\ NumbersLow' /\ ContentLow'
    BY <1>2, <1>5, <2>1, ContentSame DEF FinalizeReadVersion, Finalizing
  <2>3. Holds(num[v], key[v]) /\ chunk[v] = None
    BY <1>0, <1>2, <1>5 DEF FinalizeReadVersion, ContentSlot, UploadSlot, Finalizing
  <2>4. UploadSlot(r)'
    BY <1>1, <1>4, <2>1, <2>3 DEF UploadSlot, Holds, Finalizing
  <2>5. RestoreSlot(r)' /\ DeleteSlot(r)'
    BY <1>4, <2>1 DEF RestoreSlot, DeleteSlot, Restoring, Copies, Removing
  <2> QED
    BY <1>0, <1>4, <2>1, <2>2, <2>4, <2>5, ContentStep DEF ContentSlot
<1>6. CASE FinalizeMeasure(r)
  <2>1. PICK p \in {"finDrop", "finInsert", "finPurge"} : Goto(r, p)
    BY <1>6 DEF FinalizeMeasure
  <2>2. UNCHANGED <<file, rows, next, num, key, chunk, blob, upload, put>>
    BY <1>6 DEF FinalizeMeasure
  <2>3. CoreData' /\ NumbersLow' /\ ContentLow'
    BY <1>2, <1>6, <2>2, ContentSame DEF FinalizeMeasure, Finalizing
  <2>4. Holds(num[v], key[v]) /\ chunk[v] = None
    BY <1>0, <1>2, <1>6 DEF FinalizeMeasure, ContentSlot, UploadSlot, Finalizing
  <2>5. h'[r].pc = p /\ h'[r].ver = v /\ \A q \in Req \ {r} : h'[q] = h[q]
    BY <1>4, <2>1
  <2>6. UploadSlot(r)'
    BY <1>1, <2>2, <2>4, <2>5 DEF UploadSlot, Holds, Finalizing
  <2>7. RestoreSlot(r)' /\ DeleteSlot(r)'
    BY <2>5 DEF RestoreSlot, DeleteSlot, Restoring, Copies, Removing
  <2> QED
    BY <1>0, <2>3, <2>5, <2>6, <2>7, ContentStep DEF ContentSlot
<1>7. CASE FinalizePurge(r)
  <2>1. /\ Goto(r, "finDrop") /\ chunk[v] = None /\ NumbersLow /\ ContentLow
        /\ UNCHANGED <<file, rows, next, num, key, chunk, upload, put>>
    BY <1>2, <1>7 DEF FinalizePurge, Finalizing
  <2>2. \A p \in Ver \ {num[v]} : blob'[p] = blob[p]
    BY <1>0, <1>1, <1>7 DEF FinalizePurge, RemoveObjects, DataInv
  <2>3. Content'
    <3>1. ASSUME NEW w \in rows, chunk[w] # None
          PROVE  Holds(chunk[w], key[w])'
      <4>1. Holds(chunk[w], key[w])
        BY <1>0, <3>1 DEF CoreData, Content
      <4>2. chunk[w] # num[v] /\ chunk[w] \in Ver
        BY <1>1, <2>1, <3>1, NextNumberFree
      <4> QED
        BY <2>1, <2>2, <4>1, <4>2 DEF Holds
    <3> QED
      BY <1>0, <2>1, <3>1 DEF CoreData, Content
  <2>4. CoreData' /\ NumbersLow' /\ ContentLow'
    <3>1. Open'
      BY <1>1, <2>1 DEF Open, NoOpen
    <3> QED
      BY <1>0, <2>1, <2>3, <3>1 DEF CoreData, Fresh, FullRow, NumbersLow, ContentLow
  <2>5. UploadSlot(r)'
    BY <1>1, <1>4, <2>1 DEF UploadSlot, Finalizing
  <2>6. RestoreSlot(r)' /\ DeleteSlot(r)'
    BY <1>4, <2>1 DEF RestoreSlot, DeleteSlot, Restoring, Copies, Removing
  <2> QED
    BY <1>0, <1>4, <2>1, <2>4, <2>5, <2>6, ContentStep DEF ContentSlot
<1>8. CASE FinalizeDrop(r)
  <2>1. /\ rows' = rows \ {v} /\ chunk' = chunk /\ Return(r) /\ NumbersLow /\ ContentLow
        /\ UNCHANGED <<file, next, num, key, blob, upload, put>>
    <3>1. chunk' = [chunk EXCEPT ![v] = None] /\ chunk[v] = None
      BY <1>2, <1>8 DEF FinalizeDrop, DropVersion, Finalizing
    <3>2. chunk' = chunk
      BY <1>0, <1>1, <3>1 DEF DataInv
    <3> QED
      BY <1>2, <1>8, <3>2 DEF FinalizeDrop, DropVersion, Finalizing
  <2>2. num[v] # file.cur
    BY <1>1
  <2>3. Fresh'
    BY <1>0, <1>2, <1>8, <2>1 DEF CoreData, Fresh, FinalizeDrop, Finalizing
  <2>4. Open'
    BY <1>1, <2>1 DEF Open, NoOpen
  <2>5. CoreData' /\ NumbersLow' /\ ContentLow'
    BY <1>0, <2>1, <2>2, <2>3, <2>4
       DEF CoreData, Content, Holds, FullRow, NumbersLow, ContentLow
  <2> QED
    BY <1>0, <2>1, <2>5, ContentReturn, ContentStep
<1>9. CASE FinalizeInsertChunks(r)
  <2>1. /\ chunk'[v] = num[v] /\ \A w \in Ver \ {v} : chunk'[w] = chunk[w]
        /\ Goto(r, "finCommit") /\ NumbersLow /\ ContentLow
        /\ UNCHANGED <<file, rows, next, num, key, blob, upload, put>>
    BY <1>0, <1>1, <1>2, <1>9 DEF FinalizeInsertChunks, DataInv, Finalizing
  <2>2. Holds(num[v], key[v])
    BY <1>0, <1>9 DEF FinalizeInsertChunks, ContentSlot, UploadSlot
  <2>3. \A w \in rows : w \in Ver /\ (w # v => chunk'[w] = chunk[w])
    BY <1>0, <2>1 DEF DataInv
  <2>4. Content'
    <3>1. ASSUME NEW w \in rows', chunk'[w] # None
          PROVE  /\ chunk'[w] <= file'.cur \/ chunk'[w] = num'[w]
                 /\ Holds(chunk[w], key[w])'
      <4>1. CASE w = v
        <5>1. chunk'[w] = num[v] /\ num'[w] = num[v] /\ key'[w] = key[v] /\ blob' = blob
          BY <2>1, <4>1
        <5> QED
          BY <2>2, <5>1 DEF Holds
      <4>2. CASE w # v
        <5>1. /\ chunk'[w] = chunk[w] /\ num'[w] = num[w] /\ key'[w] = key[w]
              /\ blob' = blob /\ file' = file /\ w \in rows /\ chunk[w] # None
          BY <2>1, <2>3, <3>1, <4>2
        <5> QED
          BY <1>0, <5>1 DEF CoreData, Content, Holds
      <4> QED
        BY <4>1, <4>2
    <3> QED
      BY <1>0, <2>1, <3>1 DEF CoreData, Content
  <2>5. CoreData'
    <3>1. Open'
      BY <1>1, <2>1 DEF Open, NoOpen
    <3>2. Fresh'
      BY <1>0, <1>1, <2>1 DEF CoreData, Fresh
    <3>3. FullRow(file.cur, file.key)'
      <4>1. PICK w \in rows : num[w] = file.cur /\ key[w] = file.key /\ chunk[w] # None
        BY <1>0 DEF CoreData, FullRow
      <4>2. w # v
        BY <1>1, <4>1
      <4> QED
        BY <2>1, <2>3, <4>1, <4>2 DEF FullRow
    <3> QED
      BY <2>4, <3>1, <3>2, <3>3 DEF CoreData
  <2>6. UploadSlot(r)'
    <3>1. ("restore" \in Ops => \A w \in rows : w # h[r].ver => chunk[w] <= file.cur)'
      BY <1>4, <2>1, <2>3 DEF ContentLow
    <3>2. NumbersLow'
      BY <2>1 DEF NumbersLow
    <3> QED
      BY <1>1, <1>4, <2>1, <3>1, <3>2 DEF UploadSlot, Finalizing
  <2>7. RestoreSlot(r)' /\ DeleteSlot(r)'
    BY <1>4, <2>1 DEF RestoreSlot, DeleteSlot, Restoring, Copies, Removing
  <2> QED
    BY <1>0, <1>4, <2>1, <2>5, <2>6, <2>7, ContentStep DEF ContentSlot
<1>10. CASE FinalizeCommit(r)
  <2> DEFINE x == [IdleReq EXCEPT !.pc = "pruneFile", !.op = "prune"]
  <2>1. x \in ReqType /\ x.pc = "pruneFile" /\ x.op = "prune"
    BY IdleTyped, PCs DEF ReqType
  <2>2. h'[r] = x /\ \A q \in Req \ {r} : h'[q] = h[q]
    BY <1>0, <1>10, <2>1, SetSlot DEF FinalizeCommit, UsesVersion
  <2> HIDE DEF x
  <2>3. /\ file'.cur = num[v] /\ file'.key = key[v]
        /\ UNCHANGED <<rows, next, num, key, chunk, blob, upload, put>>
    BY <1>0, <1>10 DEF FinalizeCommit, PointFileAt, DataInv
  <2>4. /\ chunk[v] = num[v] /\ NumbersLow
        /\ "restore" \in Ops => \A w \in rows : w # v => chunk[w] <= file.cur
    BY <1>0, <1>10 DEF FinalizeCommit, ContentSlot, UploadSlot
  <2>5. \A w \in rows : num[w] \in Nat /\ chunk[w] \in Nat
    BY <1>0, Bounds DEF DataInv, CoreData, Content, Ver, Id, None
  <2>6. NumbersLow' /\ ContentLow'
    BY <1>1, <2>3, <2>4, <2>5 DEF NumbersLow, ContentLow
  <2>7. Content'
    BY <1>0, <1>1, <2>3, <2>5 DEF CoreData, Content, Holds
  <2>8. Open' /\ FullRow(file.cur, file.key)' /\ Fresh'
    <3>1. chunk[v] # None
      BY <1>1, <2>4, VerIsId
    <3> QED
      BY <1>0, <1>1, <2>3, <3>1 DEF CoreData, Open, NoOpen, FullRow, Fresh
  <2>9. ContentSlot(r)'
    BY <2>1, <2>2 DEF ContentSlot, UploadSlot, RestoreSlot, DeleteSlot, Restoring, Copies,
                      Removing, Finalizing
  <2> QED
    BY <1>0, <2>2, <2>6, <2>7, <2>8, <2>9, ContentStep DEF CoreData
<1> QED
  BY <1>5, <1>6, <1>7, <1>8, <1>9, <1>10
(* Restores.                                                               *)
LEMMA ContentRestore ==
  ASSUME Undisturbed, TypeInv, SerialInv, ContentInv, NEW r \in Req,
         \/ \E v \in Ver : StartRestore(r, v)
         \/ RestoreReadChunks(r) \/ RestoreReadMax(r)
  PROVE  ContentInv'
<1> USE DEF At
<1>0. /\ SlotInv /\ DataInv /\ HistoryInv /\ CoreData /\ ContentSlot(r)
      /\ Overlap = FALSE
  BY DEF TypeInv, SerialInv, ContentInv, ContentData, Undisturbed
<1>1. /\ UNCHANGED <<file, rows, next, num, key, chunk, blob, upload, put>>
      /\ h[r].pc # "idle" \/ CanStart(r)
      /\ h[r].pc \notin {"rsCopy", "rsCommit", "finCommit"}
  BY DEF StartRestore, RestoreReadChunks, RestoreReadMax, OwnerStarts, CanStart
<1>2. NumbersLow /\ ContentLow
  BY <1>0, <1>1, LowWhileResting
<1>3. CoreData' /\ NumbersLow' /\ ContentLow'
  BY <1>1, <1>2, ContentSame
<1>4. ASSUME \A q \in Req \ {r} : h'[q] = h[q], ContentSlot(r)'
      PROVE  ContentInv'
  BY <1>0, <1>1, <1>3, <1>4, ContentStep
<1>5. \A v \in rows : v \in Ver /\ num[v] \in Nat /\ chunk[v] \in Nat
  BY <1>0, Bounds DEF DataInv, Ver, Id, None
<1>6. file.cur \in Nat
  BY <1>0, Bounds, VerIsId DEF DataInv
<1>7. ASSUME NEW v \in Ver, StartRestore(r, v)
      PROVE  ContentInv'
  <2> DEFINE x == [IdleReq EXCEPT !.pc = "rsChunks", !.op = "restore", !.ver = v,
                                  !.key = key[v]]
  <2>1. v \in Id /\ key[v] \in Id
    BY <1>0, VerIsId DEF DataInv
  <2>2. x \in ReqType /\ x.pc = "rsChunks" /\ x.ver = v /\ x.key = key[v]
        /\ x.op = "restore"
    BY <2>1, IdleTyped, PCs DEF ReqType
  <2>3. h'[r] = x /\ \A q \in Req \ {r} : h'[q] = h[q]
    <3>1. SlotInv /\ h' = [h EXCEPT ![r] = x]
      BY <1>0, <1>7 DEF StartRestore
    <3> HIDE DEF x
    <3> QED
      BY <2>2, <3>1, SetSlot
  <2> HIDE DEF x
  <2>4. /\ v \in rows /\ chunk[v] # None /\ "restore" \in Ops
        /\ \A w \in Ver : ~InProgress(w)
    BY <1>7 DEF StartRestore, OwnerStarts, Undisturbed
  <2>5. NoOpen'
    BY <1>1, <2>4 DEF NoOpen, InProgress
  <2>6. RestoreSlot(r)'
    BY <1>1, <2>2, <2>3, <2>4, <2>5 DEF RestoreSlot, Copies
  <2>7. UploadSlot(r)' /\ DeleteSlot(r)'
    BY <2>2, <2>3 DEF UploadSlot, DeleteSlot, Removing, Finalizing
  <2> QED
    BY <1>4, <2>3, <2>6, <2>7 DEF ContentSlot
<1>8. CASE RestoreReadChunks(r)
  <2>1. h[r].ver \in Ver /\ chunk[h[r].ver] \in Id
    BY <1>0, <1>8 DEF RestoreReadChunks, DataInv, SlotInv, SlotTyped, UsesVersion
  <2>2. /\ h'[r].pc = "rsMax" /\ h'[r].pre = chunk[h[r].ver] /\ h'[r].key = h[r].key
        /\ h'[r].op = h[r].op /\ \A q \in Req \ {r} : h'[q] = h[q]
    <3>1. "rsMax" \in PC /\ "rsMax" \notin UsesVersion
      BY PCs DEF UsesVersion
    <3>2. PICK w \in Id : /\ w = chunk[h[r].ver]
                          /\ h' = [h EXCEPT ![r].pc = "rsMax", ![r].pre = w]
      BY <1>8, <2>1 DEF RestoreReadChunks
    <3> QED
      BY <1>0, <3>1, <3>2, PreSlot
  <2>3. /\ h[r].ver \in rows /\ chunk[h[r].ver] # None /\ h[r].key = key[h[r].ver]
        /\ NoOpen /\ "restore" \in Ops /\ h[r].op = "restore"
    BY <1>0, <1>8 DEF RestoreReadChunks, ContentSlot, RestoreSlot, Restoring
  <2>4. Holds(chunk[h[r].ver], h[r].key) /\ chunk[h[r].ver] <= file.cur
    BY <1>0, <1>2, <2>3 DEF CoreData, Content, ContentLow
  <2>5. Holds(h[r].pre, h[r].key)' /\ h'[r].pre <= file'.cur /\ NoOpen'
    BY <1>1, <2>2, <2>3, <2>4 DEF Holds, NoOpen
  <2>6. RestoreSlot(r)'
    BY <2>2, <2>3, <2>5 DEF RestoreSlot
  <2>7. UploadSlot(r)' /\ DeleteSlot(r)'
    BY <2>2 DEF UploadSlot, DeleteSlot, Removing, Finalizing
  <2> QED
    BY <1>4, <2>2, <2>6, <2>7 DEF ContentSlot
<1>9. CASE RestoreReadMax(r)
  <2>1. PICK n \in 0..MaxVer+1 :
           /\ n # None /\ n > file.cur /\ \A v \in rows : num[v] < n
           /\ h' = [h EXCEPT ![r].pc = "insert", ![r].num = n]
    <3>1. PICK m \in Id : /\ IsMaxNumber(m)
                          /\ h' = [h EXCEPT ![r].pc = "insert", ![r].num = m + 1]
      BY <1>9 DEF RestoreReadMax, Errs, Undisturbed
    <3>2. m \in Nat /\ m + 1 \in 0..MaxVer+1 /\ m + 1 # None
      BY Bounds, VerIsId DEF None
    <3>3. \A v \in rows : num[v] < m + 1
      BY <1>5, <3>1, <3>2 DEF IsMaxNumber
    <3>4. m + 1 > file.cur
      BY <1>0, <1>5, <1>6, <3>2, <3>3 DEF CoreData, FullRow
    <3> QED
      BY <3>1, <3>2, <3>3, <3>4
  <2>2. /\ h'[r].pc = "insert" /\ h'[r].num = n /\ h'[r].op = h[r].op
        /\ h'[r].pre = h[r].pre /\ h'[r].key = h[r].key
        /\ \A q \in Req \ {r} : h'[q] = h[q]
    <3>1. "insert" \in PC /\ "insert" \notin UsesVersion /\ "insert" # "setCount"
      BY PCs DEF UsesVersion
    <3>2. /\ SlotInv /\ r \in Req /\ n \in 0..MaxVer+1
          /\ h' = [h EXCEPT ![r].pc = "insert", ![r].num = n]
      BY <1>0, <2>1
    <3> QED
      BY ONLY <3>1, <3>2, NumSlot
  <2>3. /\ Holds(h[r].pre, h[r].key) /\ h[r].pre <= file.cur
        /\ NoOpen /\ "restore" \in Ops /\ h[r].op = "restore"
    BY <1>0, <1>9 DEF RestoreReadMax, ContentSlot, RestoreSlot, Restoring, Copies
  <2>4. Holds(h[r].pre, h[r].key)' /\ h'[r].pre <= file'.cur /\ NoOpen'
    BY <1>1, <2>2, <2>3 DEF Holds, NoOpen
  <2>5. RestoreSlot(r)'
    BY <1>1, <2>1, <2>2, <2>3, <2>4 DEF RestoreSlot
  <2>6. UploadSlot(r)' /\ DeleteSlot(r)'
    BY <2>1, <2>2, <2>3 DEF UploadSlot, DeleteSlot, Removing, Finalizing
  <2> QED
    BY <1>4, <2>2, <2>5, <2>6 DEF ContentSlot
<1> QED
  BY <1>7, <1>8, <1>9

(* A restore copies chunk rows that point below the current number, and    *)
(* moves the current number above all others.                              *)
LEMMA ContentRestored ==
  ASSUME Undisturbed, TypeInv, SerialInv, ContentInv, NEW r \in Req, NEW v, v = h[r].ver,
         RestoreCopyChunks(r) \/ RestoreCommit(r)
  PROVE  ContentInv'
<1> USE DEF At
<1>0. /\ SlotInv /\ DataInv /\ HistoryInv /\ CoreData /\ ContentSlot(r)
      /\ Overlap = FALSE /\ h[r].pc \in {"rsCopy", "rsCommit"}
  BY DEF TypeInv, SerialInv, ContentInv, ContentData, Undisturbed, RestoreCopyChunks,
         RestoreCommit
<1>1. /\ v \in rows /\ num[v] > file.cur /\ NoOpen /\ "restore" \in Ops
      /\ \A w \in rows : num[w] <= num[v] /\ chunk[w] <= file.cur
  BY <1>0 DEF ContentSlot, RestoreSlot, Restoring
<1>2. \A w \in rows : w \in Ver /\ num[w] \in Nat /\ chunk[w] \in Nat
  <2>1. Id \subseteq Nat
    BY Bounds, VerIsId
  <2> QED
    BY <1>0, <2>1 DEF DataInv
<1>3. file.cur \in Nat /\ v \in Ver
  BY <1>0, <1>1, <1>2, Bounds, VerIsId DEF DataInv
<1>4. CASE RestoreCopyChunks(r)
  <2>1. PICK p \in Ver : p = h[r].pre /\ Holds(p, h[r].key) /\ p <= file.cur /\ p # None
    BY <1>0, <1>4, VerIsId DEF RestoreCopyChunks, ContentSlot, RestoreSlot, Copies, Holds
  <2>2. key[v] = h[r].key /\ chunk[v] = None
    BY <1>0, <1>4 DEF RestoreCopyChunks, ContentSlot, RestoreSlot
  <2>3. /\ chunk'[v] = p /\ \A w \in Ver \ {v} : chunk'[w] = chunk[w]
        /\ UNCHANGED <<file, rows, next, num, key, blob, upload, put>>
        /\ Goto(r, "rsCommit")
    BY <1>0, <1>1, <1>3, <1>4, <2>1 DEF RestoreCopyChunks, DataInv
  <2>4. /\ h'[r].pc = "rsCommit" /\ h'[r].ver = v /\ h'[r].op = h[r].op
        /\ \A q \in Req \ {r} : h'[q] = h[q]
    BY <1>0, <1>3, <2>3, GotoSlot, PCs
  <2>5. Content'
    <3>1. ASSUME NEW w \in rows', chunk'[w] # None
          PROVE  /\ chunk'[w] <= file'.cur \/ chunk'[w] = num'[w]
                 /\ Holds(chunk[w], key[w])'
      <4>1. CASE w = v
        <5>1. chunk'[w] = p /\ key'[w] = h[r].key /\ blob' = blob /\ file' = file
          BY <2>2, <2>3, <4>1
        <5> QED
          BY <2>1, <5>1 DEF Holds
      <4>2. CASE w # v
        <5>1. /\ chunk'[w] = chunk[w] /\ num'[w] = num[w] /\ key'[w] = key[w]
              /\ blob' = blob /\ file' = file /\ w \in rows /\ chunk[w] # None
          BY <1>2, <2>3, <3>1, <4>2
        <5> QED
          BY <1>0, <5>1 DEF CoreData, Content, Holds
      <4> QED
        BY <4>1, <4>2
    <3> QED
      BY <1>0, <2>3, <3>1 DEF CoreData, Content
  <2>6. CoreData'
    <3>1. Open' /\ Fresh' /\ FullRow(file.cur, file.key)'
      BY <1>0, <1>1, <1>2, <2>1, <2>3
         DEF CoreData, Open, NoOpen, Fresh, FullRow
    <3> QED
      BY <2>5, <3>1 DEF CoreData
  <2>7. RestoreSlot(r)'
    <3>1. NoOpen'
      BY <1>1, <2>3 DEF NoOpen
    <3>2. \A w \in rows' : num'[w] <= num'[v] /\ chunk'[w] <= file'.cur
      BY <1>1, <1>2, <2>1, <2>3
    <3> QED
      BY <1>1, <2>1, <2>3, <2>4, <3>1, <3>2 DEF RestoreSlot, Restoring, Copies
  <2>8. UploadSlot(r)' /\ DeleteSlot(r)'
    BY <2>4 DEF UploadSlot, DeleteSlot, Removing, Finalizing
  <2> QED
    BY <1>0, <2>4, <2>6, <2>7, <2>8, ContentStep DEF ContentSlot
<1>5. CASE RestoreCommit(r)
  <2>1. /\ file'.cur = num[v] /\ file'.key = key[v] /\ Return(r) /\ chunk[v] # None
        /\ UNCHANGED <<rows, next, num, key, chunk, blob, upload, put>>
    BY <1>0, <1>5 DEF RestoreCommit, PointFileAt, DataInv, ContentSlot, RestoreSlot
  <2>2. NumbersLow' /\ ContentLow'
    BY <1>1, <1>2, <1>3, <2>1 DEF NumbersLow, ContentLow
  <2>3. Content'
    BY <1>0, <1>1, <1>2, <1>3, <2>1 DEF CoreData, Content, Holds
  <2>4. CoreData'
    BY <1>0, <1>1, <2>1, <2>3 DEF CoreData, Open, NoOpen, FullRow, Fresh
  <2> QED
    BY <1>0, <2>1, <2>2, <2>4, ContentReturn, ContentStep
<1> QED
  BY <1>4, <1>5
(* The requests that delete, count or read.                                *)
Clearing == {"dvHold", "dvCurrent", "pruneFile", "pruneList", "delChunks", "delRow",
             "delRefs", "blobs", "count", "setCount", "dlVersion", "dlChunks", "dlDone"}

\* The steps after the check of the hold.
Cleared == {"dvCurrent", "pruneList", "delChunks", "delRow", "delRefs", "blobs",
            "count", "setCount"}

(* A step of such a request: only its DeleteSlot and the data are at stake. *)
LEMMA ContentClear ==
  ASSUME Overlap = FALSE, SerialInv, NEW r \in Req, h[r].pc # "idle" \/ CanStart(r),
         \A q \in Req \ {r} : h'[q] = h[q], h'[r].pc \in Clearing,
         CoreData', NumbersLow', ContentLow', DeleteSlot(r)'
  PROVE  ContentInv'
<1>1. UploadSlot(r)' /\ RestoreSlot(r)'
  BY DEF Clearing, UploadSlot, RestoreSlot, Restoring, Copies, Finalizing
<1> QED
  BY <1>1, ContentStep DEF ContentSlot

(* When it reads only, not even the data are.                              *)
LEMMA ContentClearRead ==
  ASSUME Overlap = FALSE, SerialInv, ContentInv, NEW r \in Req,
         h[r].pc # "idle" \/ CanStart(r),
         h[r].pc \notin {"rsCopy", "rsCommit", "finCommit"},
         \A q \in Req \ {r} : h'[q] = h[q], h'[r].pc \in Clearing, DeleteSlot(r)',
         UNCHANGED <<rows, next, num, key, chunk, blob, upload, put>>,
         file'.cur = file.cur, file'.key = file.key
  PROVE  ContentInv'
<1>1. NumbersLow /\ ContentLow
  BY LowWhileResting
<1>2. CoreData' /\ NumbersLow' /\ ContentLow'
  BY <1>1, ContentSame
<1> QED
  BY <1>2, ContentClear

(* The prune's loop takes versions that no upload is writing.              *)
LEMMA ContentPruneLoop ==
  ASSUME SlotInv, NEW r \in Req, NEW vs \in SUBSET Ver, PruneLoop(r, vs),
         h[r].op = "prune", \A v \in vs : upload[v] # "open", UNCHANGED upload,
         "hold" \notin Faults => ~file.held, UNCHANGED file
  PROVE  /\ DeleteSlot(r)' /\ h'[r].pc \in Clearing
         /\ \A q \in Req \ {r} : h'[q] = h[q]
<1>1. /\ h'[r].op = "prune" /\ \A q \in Req \ {r} : h'[q] = h[q]
      /\ \/ h'[r].pc = "count"
         \/ /\ h'[r].pc = "delChunks"
            /\ h'[r].ver \in vs /\ h'[r].vs = vs \ {h'[r].ver}
  BY PruneLoopSlot
<1>2. DeleteSlot(r)'
  BY <1>1 DEF DeleteSlot, Removing
<1> QED
  BY <1>1, <1>2 DEF Clearing

(* The checks before a deletion.                                           *)
LEMMA ContentDeleteChecks ==
  ASSUME Undisturbed, TypeInv, SerialInv, ContentInv, NEW r \in Req,
         \/ \E v \in Ver : StartDelete(r, v)
         \/ DeleteCheckHold(r) \/ DeleteCheckCurrent(r) \/ DeleteReadChunks(r)
  PROVE  ContentInv'
<1> USE DEF At
<1>0. SlotInv /\ DataInv /\ ContentSlot(r) /\ DeleteSlot(r) /\ SlotSafe(r) /\ Overlap = FALSE
  BY DEF TypeInv, ContentInv, ContentSlot, SerialInv, Undisturbed
<1>1. ASSUME NEW v \in Ver, StartDelete(r, v)
      PROVE  ContentInv'
  <2> DEFINE x == [IdleReq EXCEPT !.pc = "dvHold", !.op = "delete", !.ver = v]
  <2>1. x \in ReqType /\ x.pc = "dvHold" /\ x.ver = v /\ x.op = "delete"
    BY IdleTyped, PCs, VerIsId DEF ReqType
  <2>2. h'[r] = x /\ \A q \in Req \ {r} : h'[q] = h[q]
    BY <1>0, <1>1, <2>1, SetSlot DEF StartDelete
  <2> HIDE DEF x
  <2>3. ~InProgress(v)
    BY <1>1 DEF StartDelete, OwnerStarts, Undisturbed
  <2>4. /\ UNCHANGED <<file, rows, next, num, key, chunk, blob, upload, put>>
        /\ CanStart(r) /\ upload[v] # "open"
    BY <1>1, <2>3 DEF StartDelete, OwnerStarts, InProgress
  <2>5. DeleteSlot(r)' /\ h'[r].pc \in Clearing
    BY <2>1, <2>2, <2>4 DEF DeleteSlot, Removing, Clearing
  <2> QED
    BY <1>0, <2>2, <2>4, <2>5, ContentClearRead DEF CanStart
<1>2. CASE DeleteCheckHold(r)
  <2>1. /\ UNCHANGED <<file, rows, next, num, key, chunk, blob, upload, put>>
        /\ h[r].pc = "dvHold" /\ upload[h[r].ver] # "open" /\ h[r].op # "prune"
    BY <1>0, <1>2 DEF DeleteCheckHold, DeleteSlot, SlotSafe
  <2>2. CASE Return(r)
    BY <1>0, <2>1, <2>2, ContentAnswer
  <2>3. CASE Goto(r, "dvCurrent") /\ ("hold" \notin Faults => ~file.held)
    <3>1. /\ h'[r].pc = "dvCurrent" /\ h'[r].op = h[r].op /\ h'[r].ver = h[r].ver
          /\ \A q \in Req \ {r} : h'[q] = h[q]
      BY <1>0, <2>1, <2>3, GotoSlot, PCs DEF SlotInv, SlotTyped, UsesVersion
    <3>2. DeleteSlot(r)' /\ h'[r].pc \in Clearing
      BY <2>1, <2>3, <3>1 DEF DeleteSlot, Removing, Clearing
    <3> QED
      BY <1>0, <2>1, <3>1, <3>2, ContentClearRead
  <2> QED
    BY <1>2, <2>2, <2>3 DEF DeleteCheckHold, Errs
<1>3. CASE DeleteCheckCurrent(r)
  <2>1. /\ UNCHANGED <<file, rows, next, num, key, chunk, blob, upload, put>>
        /\ h[r].pc = "dvCurrent" /\ upload[h[r].ver] # "open" /\ h[r].op # "prune"
        /\ "hold" \notin Faults => ~file.held
    BY <1>0, <1>3 DEF DeleteCheckCurrent, DeleteSlot, SlotSafe
  <2>2. CASE Return(r)
    BY <1>0, <2>1, <2>2, ContentAnswer
  <2>3. CASE Goto(r, "delChunks")
    <3>1. /\ h'[r].pc = "delChunks" /\ h'[r].op = h[r].op /\ h'[r].ver = h[r].ver
          /\ \A q \in Req \ {r} : h'[q] = h[q]
      BY <1>0, <2>1, <2>3, GotoSlot, PCs DEF SlotInv, SlotTyped, UsesVersion
    <3>2. DeleteSlot(r)' /\ h'[r].pc \in Clearing
      BY <2>1, <3>1 DEF DeleteSlot, Removing, Clearing
    <3> QED
      BY <1>0, <2>1, <3>1, <3>2, ContentClearRead
  <2> QED
    BY <1>3, <2>2, <2>3 DEF DeleteCheckCurrent
<1>4. CASE DeleteReadChunks(r)
  <2>1. h[r].ver \in Ver /\ chunk[h[r].ver] \in Id /\ None \in Id
    BY <1>0, <1>4, VerIsId DEF DeleteReadChunks, DataInv, SlotInv, SlotTyped, UsesVersion
  <2>2. PICK p \in Id : /\ p \in {None, chunk[h[r].ver]}
                        /\ h' = [h EXCEPT ![r].pc = "delRow", ![r].pre = p]
    BY <1>4, <2>1 DEF DeleteReadChunks
  <2>3. /\ h'[r].pc = "delRow" /\ h'[r].ver = h[r].ver /\ h'[r].vs = h[r].vs
        /\ h'[r].op = h[r].op /\ h'[r].pre = p /\ \A q \in Req \ {r} : h'[q] = h[q]
    <3>1. "delRow" \in PC /\ "delRow" # "setCount"
      BY PCs
    <3> QED
      BY <1>0, <2>1, <2>2, <3>1, PreSlot
  <2>4. /\ UNCHANGED <<file, rows, next, num, key, chunk, blob, upload, put>>
        /\ h[r].pc = "delChunks"
    BY <1>4 DEF DeleteReadChunks
  <2>5. DeleteSlot(r)' /\ h'[r].pc \in Clearing
    BY <1>0, <2>2, <2>3, <2>4 DEF DeleteSlot, Removing, Clearing
  <2> QED
    BY <1>0, <2>3, <2>4, <2>5, ContentClearRead
<1> QED
  BY <1>1, <1>2, <1>3, <1>4
(* Deleting a row: its prefix is none that an upload is writing to.        *)
LEMMA ContentDeleteRow ==
  ASSUME Undisturbed, TypeInv, SerialInv, ContentInv, NEW r \in Req,
         NEW v, v = h[r].ver, DeleteRow(r)
  PROVE  ContentInv'
<1> USE DEF At
<1>0. /\ SlotInv /\ DataInv /\ HistoryInv /\ CoreData /\ DeleteSlot(r) /\ SlotSafe(r)
      /\ Overlap = FALSE /\ h[r].pc = "delRow"
  BY DEF TypeInv, SerialInv, ContentInv, ContentData, ContentSlot, Undisturbed, DeleteRow
<1>1. NumbersLow /\ ContentLow
  BY <1>0, LowWhileResting
<1>2. v \in Ver /\ upload[v] # "open" /\ num[v] # file.cur
  BY <1>0 DEF SlotInv, SlotTyped, UsesVersion, DeleteSlot, SlotSafe
<1>3. /\ rows' = rows \ {v} /\ \A w \in Ver \ {v} : chunk'[w] = chunk[w]
      /\ chunk'[v] = None
      /\ UNCHANGED <<file, next, num, key, blob, upload, put>>
  BY <1>0, <1>2 DEF DeleteRow, DropVersion, DataInv
<1>4. \A w \in rows' : w \in rows /\ w \in Ver /\ w # v /\ chunk'[w] = chunk[w]
  BY <1>0, <1>3 DEF DataInv
<1>5. CoreData' /\ NumbersLow' /\ ContentLow'
  <2>1. Fresh'
    BY <1>0, <1>3 DEF CoreData, Fresh
  <2>2. Content'
    BY <1>0, <1>3, <1>4 DEF CoreData, Content, Holds
  <2>3. Open'
    BY <1>0, <1>2, <1>3 DEF CoreData, Open
  <2>4. FullRow(file.cur, file.key)'
    BY <1>0, <1>2, <1>3, <1>4 DEF CoreData, FullRow
  <2> QED
    BY <1>1, <1>3, <1>4, <2>1, <2>2, <2>3, <2>4 DEF CoreData, NumbersLow, ContentLow
<1>6. /\ h'[r].pc = "delRefs" /\ h'[r].vs = h[r].vs /\ h'[r].op = h[r].op
      /\ h'[r].pre = h[r].pre /\ \A q \in Req \ {r} : h'[q] = h[q]
  BY <1>0, GotoSlot, PCs DEF DeleteRow, UsesVersion
<1>7. file.cur \in Nat /\ file.cur + 1 # None
  BY <1>0, Bounds, VerIsId DEF DataInv, None
<1>8. FreeOfOpen(h[r].pre)
  <2>1. ASSUME NEW w \in Ver, upload[w] = "open", num[w] = h[r].pre PROVE FALSE
    <3>1. w \in rows /\ num[w] = file.cur + 1 /\ w # v
      BY <1>0, <1>2, <2>1 DEF CoreData, Open
    <3>2. chunk[v] = file.cur + 1 /\ chunk[v] # None
      BY <1>0, <1>7, <2>1, <3>1 DEF DeleteSlot
    <3>3. v \in rows
      BY <1>0, <1>2, <3>2 DEF CoreData, Fresh
    <3>4. chunk[v] = num[v]
      BY <1>0, <1>7, <3>2, <3>3 DEF CoreData, Content
    <3> QED
      BY <1>0, <3>1, <3>2, <3>3, <3>4 DEF HistoryInv, UniqueNumbers
  <2> QED
    BY <2>1 DEF FreeOfOpen
<1>9. FreeOfOpen(h[r].pre)'
  BY <1>3, <1>6, <1>8 DEF FreeOfOpen
<1>10. DeleteSlot(r)' /\ h'[r].pc \in Clearing
  BY <1>0, <1>3, <1>6, <1>9 DEF DeleteSlot, Removing, Clearing
<1> QED
  BY <1>0, <1>5, <1>6, <1>10, ContentClear

(* Counting the references: the prefix is given up when a row has it.      *)
LEMMA ContentCountRefs ==
  ASSUME Undisturbed, TypeInv, SerialInv, ContentInv, NEW r \in Req, DeleteCountRefs(r)
  PROVE  ContentInv'
<1> USE DEF At
<1>0. /\ SlotInv /\ DataInv /\ CoreData /\ DeleteSlot(r)
      /\ Overlap = FALSE /\ h[r].pc = "delRefs"
      /\ UNCHANGED <<file, rows, next, num, key, chunk, blob, upload, put>>
  BY DEF TypeInv, ContentInv, ContentData, ContentSlot, Undisturbed, DeleteCountRefs
<1>1. PICK w \in Id : /\ w = IF Referenced(h[r].pre) THEN None ELSE h[r].pre
                      /\ h' = [h EXCEPT ![r].pc = AfterRefs(r), ![r].pre = w]
  <2>1. h[r].pre \in Id /\ None \in Id
    BY <1>0, VerIsId DEF SlotInv, ReqType
  <2> QED
    BY <1>0, <2>1 DEF DeleteCountRefs, Errs, Undisturbed, SlotInv
<1>2. PICK p \in {"blobs", "count"} : p = AfterRefs(r)
  BY DEF AfterRefs
<1>3. /\ h'[r].pc = p /\ h'[r].vs = h[r].vs /\ h'[r].op = h[r].op /\ h'[r].pre = w
      /\ \A q \in Req \ {r} : h'[q] = h[q]
  <2>1. p \in PC /\ p \notin UsesVersion /\ p # "setCount"
    BY PCs DEF UsesVersion
  <2> QED
    BY <1>0, <1>1, <1>2, <2>1, PreSlot
<1>4. FreeOfOpen(w) /\ (w = None \/ ~Referenced(w))
  <2>1. FreeOfOpen(None)
    <3>1. file.cur \in Nat /\ file.cur + 1 # None
      BY <1>0, Bounds, VerIsId DEF DataInv, None
    <3> QED
      BY <1>0, <3>1 DEF FreeOfOpen, CoreData, Open
  <2> QED
    BY <1>0, <1>1, <2>1 DEF DeleteSlot
<1>5. FreeOfOpen(h[r].pre)' /\ (h[r].pre = None \/ ~Referenced(h[r].pre))'
  BY <1>0, <1>3, <1>4 DEF FreeOfOpen, Referenced
<1>6. DeleteSlot(r)' /\ h'[r].pc \in Clearing
  BY <1>0, <1>2, <1>3, <1>5 DEF DeleteSlot, Clearing
<1> QED
  BY <1>0, <1>3, <1>6, ContentClearRead

(* Deleting the objects: no row points at them and no upload writes them.  *)
LEMMA ContentDeleteObjects ==
  ASSUME Undisturbed, TypeInv, SerialInv, ContentInv, NEW r \in Req,
         NEW p, p = h[r].pre, DeleteObjects(r)
  PROVE  ContentInv'
<1> USE DEF At
<1>0. /\ SlotInv /\ DataInv /\ CoreData /\ DeleteSlot(r)
      /\ Overlap = FALSE /\ h[r].pc = "blobs"
      /\ UNCHANGED <<file, rows, next, num, key, chunk, upload, put>>
  BY DEF TypeInv, ContentInv, ContentData, ContentSlot, Undisturbed, DeleteObjects
<1>1. NumbersLow /\ ContentLow
  BY <1>0, LowWhileResting
<1>2. FreeOfOpen(p) /\ (p = None \/ ~Referenced(p))
  BY <1>0 DEF DeleteSlot, Removing
<1>3. \A w \in Ver : w # p => blob'[w] = blob[w]
  BY <1>0 DEF DeleteObjects, RemoveObjects, DataInv
<1>4. Content'
  <2>1. \A w \in rows : chunk[w] # None => chunk[w] # p /\ chunk[w] \in Ver
    BY <1>0, <1>2 DEF Referenced, CoreData, Content, Holds
  <2> QED
    BY <1>0, <1>3, <2>1 DEF CoreData, Content, Holds
<1>5. Open'
  <2>1. \A w \in Ver : upload[w] = "open" => num[w] # p /\ num[w] \in Ver
    BY <1>0, <1>2 DEF FreeOfOpen, CoreData, Open, Content
  <2> QED
    BY <1>0, <1>3, <2>1 DEF CoreData, Open
<1>6. CoreData' /\ NumbersLow' /\ ContentLow'
  BY <1>0, <1>1, <1>4, <1>5 DEF CoreData, Fresh, FullRow, NumbersLow, ContentLow
<1>7. CASE h[r].op = "prune"
  <2>1. /\ h[r].vs \in SUBSET Ver /\ PruneLoop(r, h[r].vs)
        /\ \A v \in h[r].vs : upload[v] # "open"
        /\ "hold" \notin Faults => ~file.held
    BY <1>0, <1>7 DEF DeleteObjects, DeleteSlot, SlotInv, ReqType
  <2> QED
    BY <1>0, <1>6, <1>7, <2>1, ContentPruneLoop, ContentClear
<1>8. CASE Return(r)
  BY <1>0, <1>6, <1>8, ContentReturn, ContentStep
<1> QED
  BY <1>0, <1>7, <1>8 DEF DeleteObjects

(* Storing the number of rows left.                                        *)
LEMMA ContentCount ==
  ASSUME Undisturbed, TypeInv, SerialInv, ContentInv, NEW r \in Req,
         CountRows(r) \/ SetCount(r)
  PROVE  ContentInv'
<1> USE DEF At
<1>0. /\ SlotInv /\ DataInv /\ DeleteSlot(r)
      /\ Overlap = FALSE /\ h[r].pc \in {"count", "setCount"}
      /\ UNCHANGED <<rows, next, num, key, chunk, blob, upload, put>>
      /\ file'.cur = file.cur /\ file'.key = file.key /\ file'.held = file.held
  BY DEF TypeInv, ContentInv, ContentSlot, Undisturbed, CountRows, SetCount, DataInv
<1>1. ("hold" \notin Faults => ~file'.held)
      /\ (h[r].op # "prune" => (FreeOfOpen(h[r].pre) /\ (h[r].pre = None \/ ~Referenced(h[r].pre))))
  BY <1>0 DEF DeleteSlot, Removing
<1>2. ASSUME NEW p \in {"setCount", "blobs"}, h'[r].pc = p, h'[r].op = h[r].op,
             h'[r].pre = h[r].pre, p = "blobs" => h[r].op # "prune",
             \A q \in Req \ {r} : h'[q] = h[q]
      PROVE  ContentInv'
  <2>1. h[r].op # "prune" => (FreeOfOpen(h[r].pre) /\ (h[r].pre = None \/ ~Referenced(h[r].pre)))'
    BY <1>0, <1>1, <1>2 DEF FreeOfOpen, Referenced
  <2>2. DeleteSlot(r)' /\ h'[r].pc \in Clearing
    BY <1>1, <1>2, <2>1 DEF DeleteSlot, Removing, Clearing
  <2> QED
    BY <1>0, <1>2, <2>2, ContentClearRead
<1>3. CASE CountRows(r)
  <2>1. PICK n \in Id : h' = [h EXCEPT ![r].pc = "setCount", ![r].num = n]
    BY <1>0, <1>3, RowsFit, Bounds, VerIsId DEF CountRows, DataInv
  <2>2. n \in 0..MaxVer+1
    BY Bounds, VerIsId
  <2>3. /\ h'[r].pc = "setCount" /\ h'[r].op = h[r].op /\ h'[r].pre = h[r].pre
        /\ \A q \in Req \ {r} : h'[q] = h[q]
    BY <1>0, <2>1, <2>2, NumSlot, PCs DEF UsesVersion
  <2> QED
    BY <1>2, <2>3
<1>4. CASE SetCount(r)
  <2>1. CASE h[r].op = "prune"
    BY <1>0, <1>4, <2>1, ContentAnswer DEF SetCount
  <2>2. CASE h[r].op # "prune"
    <3>1. /\ h'[r].pc = "blobs" /\ h'[r].op = h[r].op /\ h'[r].pre = h[r].pre
          /\ \A q \in Req \ {r} : h'[q] = h[q]
      BY <1>0, <1>4, <2>2, GotoSlot, PCs DEF SetCount, UsesVersion
    <3> QED
      BY <1>2, <2>2, <3>1
  <2> QED
    BY <2>1, <2>2
<1> QED
  BY <1>3, <1>4
(* The retention prune lists no version that is being uploaded: it has the *)
(* highest number, and the cut-off is no later than its start.             *)
LEMMA PruneSparesOpen ==
  ASSUME Undisturbed, TypeInv, SerialInv, ContentInv, NumbersLow,
         NEW id \in Cutoffs, NEW v \in Ver, upload[v] = "open"
  PROVE  v \notin Excess(file.cur) \cup Expired(file.cur, id)
<1>0. /\ DataInv /\ v \in rows /\ num[v] = file.cur + 1 /\ UniqueNumbers /\ Content
  BY DEF TypeInv, ContentInv, ContentData, CoreData, Open, SerialInv, HistoryInv
<1>1. \A w \in rows : num[w] >= num[v] => w = v
  <2>1. \A w \in rows : num[w] \in Nat /\ num[w] <= num[v]
    BY <1>0, Bounds DEF NumbersLow, Content, Ver
  <2> QED
    BY <1>0, <2>1 DEF UniqueNumbers
<1>2. v \notin Excess(file.cur)
  <2> DEFINE s == {w \in {x \in rows : num[x] # file.cur} : num[w] >= num[v]}
  <2>1. s \subseteq {v}
    BY <1>1
  <2> HIDE DEF s
  <2>2. IsFiniteSet({v}) /\ Cardinality({v}) = 1
    BY FS_Singleton
  <2>3. Cardinality(s) <= 1 /\ Cardinality(s) \in Nat
    BY <2>1, <2>2, FS_Subset, FS_CardinalityType
  <2>4. ~(Cardinality(s) > VersionCount)
    BY <2>3, VersionCountAssumption DEF Undisturbed
  <2> QED
    BY <2>4 DEF Excess, s
<1>3. v \notin Expired(file.cur, id)
  <2>1. id <= v /\ id \in Nat /\ v \in Nat
    <3>1. next \in Nat /\ v \in Nat /\ v >= 1
      BY <1>0, Bounds DEF DataInv, Ver
    <3>2. CASE "expire" \in Ops
      BY <3>1, <3>2 DEF Cutoffs, InProgress
    <3>3. CASE "expire" \notin Ops
      BY <3>1, <3>3 DEF Cutoffs
    <3> QED
      BY <3>2, <3>3
  <2> QED
    BY <2>1 DEF Expired
<1> QED
  BY <1>2, <1>3

(* The retention prune.                                                    *)
LEMMA ContentPrune ==
  ASSUME Undisturbed, TypeInv, SerialInv, ContentInv, NEW r \in Req,
         StartPrune(r) \/ PruneReadFile(r) \/ PruneList(r) \/ PruneSkip(r)
  PROVE  ContentInv'
<1> USE DEF At
<1>0. /\ SlotInv /\ DataInv /\ DeleteSlot(r) /\ SlotSafe(r) /\ Overlap = FALSE
      /\ UNCHANGED <<file, rows, next, num, key, chunk, blob, upload, put>>
      /\ h[r].pc # "idle" \/ CanStart(r)
      /\ h[r].pc \notin {"rsCopy", "rsCommit", "finCommit"}
  BY DEF TypeInv, ContentInv, ContentSlot, SerialInv, Undisturbed, StartPrune,
         PruneReadFile, PruneList, PruneSkip, CanStart
<1>1. CASE StartPrune(r)
  <2> DEFINE x == [IdleReq EXCEPT !.pc = "pruneFile", !.op = "prune"]
  <2>1. x \in ReqType /\ x.pc = "pruneFile" /\ x.op = "prune"
    BY IdleTyped, PCs DEF ReqType
  <2>2. h'[r] = x /\ \A q \in Req \ {r} : h'[q] = h[q]
    BY <1>0, <1>1, <2>1, SetSlot DEF StartPrune, UsesVersion
  <2> HIDE DEF x
  <2>3. DeleteSlot(r)' /\ h'[r].pc \in Clearing
    BY <2>1, <2>2 DEF DeleteSlot, Removing, Clearing
  <2> QED
    BY <1>0, <2>2, <2>3, ContentClearRead
<1>2. CASE PruneReadFile(r)
  <2>1. CASE Return(r)
    BY <1>0, <1>2, <2>1, ContentAnswer DEF PruneReadFile
  <2>2. CASE ~file.held /\ h' = [h EXCEPT ![r].pc = "pruneList", ![r].cur = file.cur]
    <3>1. PICK n \in Id : n = file.cur /\ h' = [h EXCEPT ![r].pc = "pruneList",
                                                       ![r].cur = n]
      BY <1>0, <2>2 DEF DataInv
    <3>2. h'[r].pc = "pruneList" /\ h'[r].op = h[r].op /\ \A q \in Req \ {r} : h'[q] = h[q]
      <4>1. "pruneList" \in PC /\ "pruneList" \notin UsesVersion
        BY PCs DEF UsesVersion
      <4> QED
        BY <1>0, <3>1, <4>1, CurSlot
    <3>3. DeleteSlot(r)' /\ h'[r].pc \in Clearing
      BY <1>0, <1>2, <2>2, <3>2 DEF PruneReadFile, DeleteSlot, Removing, Clearing
    <3> QED
      BY <1>0, <3>2, <3>3, ContentClearRead
  <2> QED
    BY <1>2, <2>1, <2>2 DEF PruneReadFile
<1>3. CASE PruneList(r)
  <2>1. h[r].cur = file.cur /\ ("hold" \notin Faults => ~file.held) /\ NumbersLow
    BY <1>0, <1>3, LowWhileResting DEF PruneList, SlotSafe, DeleteSlot
  <2>2. ASSUME NEW id \in Cutoffs,
               PruneLoop(r, Excess(file.cur) \cup Expired(file.cur, id))
        PROVE  ContentInv'
    <3> DEFINE del == Excess(file.cur) \cup Expired(file.cur, id)
    <3>1. del \in SUBSET Ver
      BY <1>0 DEF Excess, Expired, DataInv
    <3>2. \A v \in del : upload[v] # "open"
      BY <2>1, <3>1, PruneSparesOpen
    <3>3. PruneLoop(r, del)
      BY <2>2
    <3> HIDE DEF del
    <3>4. CASE h[r].op = "prune"
      <4>1. /\ DeleteSlot(r)' /\ h'[r].pc \in Clearing
            /\ \A q \in Req \ {r} : h'[q] = h[q]
        BY <1>0, <2>1, <3>1, <3>2, <3>3, <3>4, ContentPruneLoop
      <4> QED
        BY <1>0, <4>1, ContentClearRead
    <3> QED
      BY <1>0, <1>3, <3>4 DEF PruneList, DeleteSlot
  <2>3. CASE Return(r)
    BY <1>0, <1>3, <2>3, ContentAnswer DEF PruneList
  <2> QED
    BY <1>3, <2>1, <2>2, <2>3 DEF PruneList
<1>4. CASE PruneSkip(r)
  <2>1. /\ h[r].vs \in SUBSET Ver /\ PruneLoop(r, h[r].vs) /\ h[r].op = "prune"
        /\ \A v \in h[r].vs : upload[v] # "open"
        /\ "hold" \notin Faults => ~file.held
    BY <1>0, <1>4 DEF PruneSkip, DeleteSlot, SlotInv, ReqType
  <2> QED
    BY <1>0, <2>1, ContentPruneLoop, ContentClearRead
<1> QED
  BY <1>1, <1>2, <1>3, <1>4

(* Downloads read.                                                         *)
LEMMA ContentDownload ==
  ASSUME Undisturbed, TypeInv, SerialInv, ContentInv, NEW r \in Req,
         \/ StartDownload(r) \/ DownloadReadVersion(r) \/ DownloadReadChunks(r)
         \/ FinishDownload(r)
  PROVE  ContentInv'
<1> USE DEF At
<1>0. /\ SlotInv /\ DataInv /\ Overlap = FALSE
      /\ UNCHANGED <<file, rows, next, num, key, chunk, blob, upload, put>>
      /\ h[r].pc # "idle" \/ CanStart(r)
      /\ h[r].pc \notin {"rsCopy", "rsCommit", "finCommit"}
  BY DEF TypeInv, Undisturbed, StartDownload, DownloadReadVersion, DownloadReadChunks,
         FinishDownload, CanStart
<1>1. ASSUME h'[r].pc \in {"dlVersion", "dlChunks", "dlDone"},
             \A q \in Req \ {r} : h'[q] = h[q]
      PROVE  ContentInv'
  <2>1. DeleteSlot(r)' /\ h'[r].pc \in Clearing
    BY <1>1 DEF DeleteSlot, Removing, Clearing
  <2> QED
    BY <1>0, <1>1, <2>1, ContentClearRead
<1>2. CASE StartDownload(r)
  <2> DEFINE x == [IdleReq EXCEPT !.pc = "dlVersion", !.cur = file.cur,
                                  !.key = file.key]
  <2>1. file.cur \in Id /\ file.key \in Id
    BY <1>0 DEF DataInv
  <2>2. x \in ReqType /\ x.pc = "dlVersion"
    BY <2>1, IdleTyped, PCs DEF ReqType
  <2>3. h'[r] = x /\ \A q \in Req \ {r} : h'[q] = h[q]
    BY <1>0, <1>2, <2>2, SetSlot DEF StartDownload, UsesVersion
  <2> HIDE DEF x
  <2> QED
    BY <1>1, <2>2, <2>3
<1>3. CASE DownloadReadVersion(r)
  <2>1. PICK v \in Id : h' = [h EXCEPT ![r].pc = "dlChunks", ![r].ver = v]
    BY <1>0, <1>3, RowOfTyped, VerIsId DEF DownloadReadVersion, DataInv
  <2>2. h'[r].pc = "dlChunks" /\ \A q \in Req \ {r} : h'[q] = h[q]
    BY <1>0, <2>1, VerSlot, PCs DEF UsesVersion
  <2> QED
    BY <1>1, <2>2
<1>4. CASE DownloadReadChunks(r)
  <2> DEFINE w == {v \in Asked(h[r].ver) : chunk[v] # None}
  <2>1. w \in SUBSET Ver
    BY <1>0 DEF Asked, DataInv
  <2>2. h' = [h EXCEPT ![r].pc = "dlDone", ![r].vs = w]
    BY <1>4 DEF DownloadReadChunks
  <2> HIDE DEF w
  <2>3. h'[r].pc = "dlDone" /\ \A q \in Req \ {r} : h'[q] = h[q]
    BY <1>0, <2>1, <2>2, VsSlot, PCs DEF UsesVersion
  <2> QED
    BY <1>1, <2>3
<1>5. CASE FinishDownload(r)
  BY <1>0, <1>5, ContentAnswer DEF FinishDownload
<1> QED
  BY <1>2, <1>3, <1>4, <1>5

(* A request that dies: a restore does not, and a finalize that dies       *)
(* before its commit leaves a version that holds the next number itself.   *)
LEMMA ContentCrash ==
  ASSUME Undisturbed, TypeInv, SerialInv, ContentInv, NEW r \in Req, Crash(r)
  PROVE  ContentInv'
<1>0. /\ Overlap = FALSE /\ h[r].pc # "idle" /\ "crash" \in Faults /\ Return(r)
      /\ UNCHANGED <<file, rows, next, num, key, chunk, blob, upload, put>>
      /\ ContentSlot(r)
  BY DEF Crash, Errs, Undisturbed, ContentInv
<1>1. "restore" \notin Ops
  BY <1>0 DEF Undisturbed
<1>2. h[r].pc \notin {"rsCopy", "rsCommit"}
  BY <1>0, <1>1 DEF ContentSlot, RestoreSlot, Restoring
<1>3. NumbersLow /\ ContentLow
  <2>1. CASE h[r].pc = "finCommit"
    BY <1>0, <1>1, <2>1 DEF ContentSlot, UploadSlot, ContentLow
  <2>2. CASE h[r].pc # "finCommit"
    BY <1>0, <1>2, <2>2, LowWhileResting
  <2> QED
    BY <2>1, <2>2
<1>4. CoreData' /\ NumbersLow' /\ ContentLow'
  BY <1>0, <1>3, ContentSame
<1> QED
  BY <1>0, <1>4, ContentReturn, ContentStep

(* A PUT writes under the number after the current one, where no version   *)
(* with chunk rows has its objects.                                        *)
LEMMA ContentPut ==
  ASSUME Undisturbed, TypeInv, SerialInv, ContentInv, NEW v \in Ver, NEW c \in Chunks,
         PutChunk(v, c)
  PROVE  ContentInv'
<1>0. /\ DataInv /\ SlotInv /\ UniqueNumbers /\ CoreData /\ upload[v] = "open"
      /\ UNCHANGED <<file, rows, next, num, key, chunk, upload, faults, h>>
  BY DEF TypeInv, SerialInv, HistoryInv, ContentInv, ContentData, PutChunk, Undisturbed
<1>1. v \in rows /\ num[v] = file.cur + 1 /\ chunk[v] = None /\ num[v] \in Ver
  BY <1>0 DEF CoreData, Open, Content
<1>2. /\ \A p \in Ver : p # num[v] => blob'[p] = blob[p]
      /\ \A d \in Chunks : blob'[num[v]][d] = IF d = c THEN key[v] ELSE blob[num[v]][d]
      /\ put'[v] = put[v] \cup {c} /\ \A w \in Ver \ {v} : put'[w] = put[w]
  BY <1>0, <1>1 DEF PutChunk, DataInv
<1>3. file.cur \in Nat
  BY <1>0, Bounds, VerIsId DEF DataInv
<1>4. Content'
  <2>1. \A w \in rows : chunk[w] # None => chunk[w] # num[v] /\ chunk[w] \in Ver
    BY <1>1, NextNumberFree
  <2> QED
    BY <1>0, <1>2, <2>1 DEF CoreData, Content, Holds
<1>5. Open'
  <2>1. ASSUME NEW w \in Ver, upload[w] = "open" PROVE w = v
    BY <1>0, <1>1, <2>1 DEF CoreData, Open, UniqueNumbers
  <2>2. \A d \in put'[v] : blob'[num'[v]][d] = key'[v]
    <3>1. \A d \in put[v] : blob[num[v]][d] = key[v]
      BY <1>0 DEF CoreData, Open
    <3>2. put'[v] \subseteq Chunks
      BY <1>0, <1>2 DEF DataInv
    <3> QED
      BY <1>0, <1>2, <3>1, <3>2
  <2> QED
    BY <1>0, <1>1, <2>1, <2>2 DEF Open
<1>6. Fresh'
  <2>1. v \in Nat /\ next \in Nat /\ ~(v >= next)
    BY <1>0, <1>1, Bounds DEF CoreData, Fresh, DataInv, Ver
  <2> QED
    BY <1>0, <1>2, <2>1 DEF CoreData, Fresh
<1>7. CoreData'
  BY <1>0, <1>4, <1>5, <1>6 DEF CoreData, FullRow
<1>8. ContentData'
  BY <1>0, <1>7 DEF ContentInv, ContentData, Resting, NumbersLow, ContentLow
<1>9. ASSUME NEW q \in Req PROVE ContentSlot(q)'
  <2>1. ContentSlot(q) /\ ~NoOpen
    BY <1>0 DEF ContentInv, NoOpen
  <2>2. h[q].pc \notin Finalizing \cup {"finCommit"} /\ ~Restoring(q)
    BY <2>1, FinalizingNoOpen DEF ContentSlot, RestoreSlot
  <2>3. UploadSlot(q)'
    BY <1>0, <2>1, <2>2 DEF ContentSlot, UploadSlot, Finalizing
  <2>4. RestoreSlot(q)'
    BY <1>0, <2>2 DEF RestoreSlot, Restoring, Copies
  <2>5. DeleteSlot(q)'
    BY <1>0, <2>1 DEF ContentSlot, DeleteSlot, Removing, FreeOfOpen, Referenced
  <2> QED
    BY <2>3, <2>4, <2>5 DEF ContentSlot
<1> QED
  BY <1>8, <1>9 DEF ContentInv

(* A client that gives up.                                                 *)
LEMMA ContentAbandon ==
  ASSUME Undisturbed, TypeInv, SerialInv, ContentInv, NEW v \in Ver, Abandon(v)
  PROVE  ContentInv'
<1>0. /\ UNCHANGED <<file, rows, next, num, key, chunk, blob, put, h>>
      /\ \A w \in Ver : upload'[w] = "open" => upload[w] = "open"
      /\ \A w \in Ver : upload'[w] = "none" <=> upload[w] = "none"
  BY DEF Abandon, TypeInv, DataInv
<1>1. CoreData'
  BY <1>0 DEF ContentInv, ContentData, CoreData, Fresh, Content, Holds, Open, FullRow
<1>2. ContentData'
  BY <1>0, <1>1 DEF ContentInv, ContentData, Resting, NumbersLow, ContentLow
<1>3. ASSUME NEW q \in Req PROVE ContentSlot(q)'
  <2>1. ContentSlot(q) /\ SlotTyped(q) /\ h[q] \in ReqType
    BY DEF ContentInv, TypeInv, SlotInv
  <2>2. UploadSlot(q)'
    BY <1>0, <2>1 DEF ContentSlot, UploadSlot, Holds, NumbersLow
  <2>3. RestoreSlot(q)'
    <3>1. NoOpen => NoOpen'
      BY <1>0 DEF NoOpen
    <3> QED
      BY <1>0, <2>1, <3>1 DEF ContentSlot, RestoreSlot, Restoring, Copies, Holds
  <2>4. DeleteSlot(q)'
    <3>1. FreeOfOpen(h[q].pre) => FreeOfOpen(h[q].pre)'
      BY <1>0 DEF FreeOfOpen
    <3> QED
      BY <1>0, <2>1, <3>1 DEF ContentSlot, DeleteSlot, SlotTyped, UsesVersion, Removing,
                              Referenced, ReqType
  <2> QED
    BY <2>2, <2>3, <2>4 DEF ContentSlot
<1> QED
  BY <1>2, <1>3 DEF ContentInv

(* An administrator sets or lifts the hold between requests.               *)
LEMMA ContentHold ==
  ASSUME Undisturbed, TypeInv, ContentInv, SetHold
  PROVE  ContentInv'
<1>0. /\ UNCHANGED <<rows, next, num, key, chunk, blob, upload, put, h>>
      /\ file'.cur = file.cur /\ file'.key = file.key
      /\ \A q \in Req : h[q].pc = "idle"
  BY DEF SetHold, TypeInv, DataInv, Undisturbed
<1>1. CoreData' /\ NumbersLow' /\ ContentLow'
  <2>1. NumbersLow /\ ContentLow
    BY <1>0 DEF ContentInv, ContentData, Resting
  <2> QED
    BY <1>0, <2>1, ContentSame
<1>2. \A q \in Req : ContentSlot(q)'
  BY <1>0 DEF ContentSlot, UploadSlot, RestoreSlot, DeleteSlot, Restoring, Copies,
              Removing, Finalizing
<1> QED
  BY <1>1, <1>2 DEF ContentInv, ContentData
(* The uploaded file satisfies the invariant.                              *)
LEMMA ContentInit == Init => ContentInv
<1> SUFFICES ASSUME Init PROVE ContentInv
  OBVIOUS
<1>1. \A r \in Req : h[r].pc = "idle"
  BY IdleTyped DEF Init
<1>2. \A r \in Req : ContentSlot(r)
  BY <1>1 DEF ContentSlot, UploadSlot, RestoreSlot, DeleteSlot, Restoring, Copies,
              Removing, Finalizing
<1>3. 1 \in Ver /\ 1 # None /\ \A v \in Ver : v >= 2 => v # 1
  BY Bounds DEF None, Ver
<1>4. /\ rows = {1} /\ next = 2 /\ num[1] = 1 /\ key[1] = 1 /\ chunk[1] = 1
      /\ \A c \in Chunks : blob[1][c] = 1
      /\ file.cur = 1 /\ file.key = 1
      /\ \A v \in Ver : /\ upload[v] = IF v = 1 THEN "closed" ELSE "none"
                        /\ put[v] = {} /\ chunk[v] = IF v = 1 THEN 1 ELSE None
  BY <1>3 DEF Init
<1>5. CoreData
  BY <1>3, <1>4 DEF CoreData, Fresh, Content, Holds, Open, FullRow
<1>6. NumbersLow /\ ContentLow
  BY <1>4 DEF NumbersLow, ContentLow
<1> QED
  BY <1>2, <1>5, <1>6 DEF ContentInv, ContentData

(* Every step keeps the invariant.                                         *)
LEMMA ContentNext ==
  ASSUME Undisturbed, TypeInv, SerialInv, ContentInv, [Next]_vars
  PROVE  ContentInv'
<1>1. CASE UNCHANGED vars
  <2>1. /\ UNCHANGED <<rows, next, num, key, chunk, blob, upload, put, h>>
        /\ UNCHANGED file
    BY <1>1 DEF vars
  <2>2. ContentData'
    BY <2>1, ContentSame DEF ContentInv, ContentData, Resting
  <2>3. \A q \in Req : ContentSlot(q)'
    BY <2>1 DEF ContentInv, ContentSlot, UploadSlot, RestoreSlot, DeleteSlot, Restoring,
                Copies, Removing, Holds, NumbersLow, NoOpen, FreeOfOpen, Referenced
  <2> QED
    BY <2>2, <2>3 DEF ContentInv
<1>2. ASSUME NEW r \in Req,
             \/ StartNewVersion(r) \/ StartPrune(r) \/ StartDownload(r)
             \/ Handler(r) \/ PruneSkip(r) \/ Crash(r)
      PROVE  ContentInv'
  <2>1. CASE StartNewVersion(r) \/ InsertRefused(r) \/ InsertVersion(r)
    BY <2>1, ContentStartUpload, ContentInsert
  <2>2. CASE \/ FinalizeReadVersion(r) \/ FinalizeMeasure(r) \/ FinalizePurge(r)
             \/ FinalizeDrop(r) \/ FinalizeInsertChunks(r) \/ FinalizeCommit(r)
    BY <2>2, ContentFinalize
  <2>3. CASE \/ RestoreReadChunks(r) \/ RestoreReadMax(r)
             \/ RestoreCopyChunks(r) \/ RestoreCommit(r)
    BY <2>3, ContentRestore, ContentRestored
  <2>4. CASE DeleteCheckHold(r) \/ DeleteCheckCurrent(r) \/ DeleteReadChunks(r)
    BY <2>4, ContentDeleteChecks
  <2>5. CASE \/ DeleteRow(r) \/ DeleteCountRefs(r) \/ DeleteObjects(r)
             \/ CountRows(r) \/ SetCount(r)
    BY <2>5, ContentDeleteRow, ContentCountRefs, ContentDeleteObjects, ContentCount
  <2>6. CASE StartPrune(r) \/ PruneReadFile(r) \/ PruneList(r) \/ PruneSkip(r)
    BY <2>6, ContentPrune
  <2>7. CASE \/ StartDownload(r) \/ DownloadReadVersion(r) \/ DownloadReadChunks(r)
             \/ FinishDownload(r) \/ Crash(r)
    BY <2>7, ContentDownload, ContentCrash
  <2> QED
    BY <1>2, <2>1, <2>2, <2>3, <2>4, <2>5, <2>6, <2>7 DEF Handler
<1>3. ASSUME NEW r \in Req, NEW v \in Ver,
             StartFinalize(r, v) \/ StartRestore(r, v) \/ StartDelete(r, v)
      PROVE  ContentInv'
  BY <1>3, ContentStartUpload, ContentRestore, ContentDeleteChecks
<1>4. ASSUME NEW v \in Ver, Abandon(v) \/ \E c \in Chunks : PutChunk(v, c)
      PROVE  ContentInv'
  BY <1>4, ContentAbandon, ContentPut
<1> QED
  BY <1>1, <1>2, <1>3, <1>4, ContentHold DEF Next

(* One request at a time, deletions, retention and expiry included: every  *)
(* version with chunk rows can be downloaded and the current one has them. *)
(* Reference counting keeps the objects a restored version shares, and the *)
(* objects of a new upload never land on another version's - although a    *)
(* deleted version's number is used again.                                 *)
THEOREM SerialVersionsDownloadable ==
  ASSUME Undisturbed
  PROVE  Spec => []VersionsDownloadable
<1>1. Init => SerialInv /\ ContentInv
  BY SerialInit, ContentInit
<1>2. TypeInv /\ SerialInv /\ ContentInv /\ [Next]_vars => SerialInv' /\ ContentInv'
  BY SerialStep, ContentNext DEF Undisturbed
<1>3. ContentInv => VersionsDownloadable
  BY DEF ContentInv, ContentData, CoreData, Content, Holds, FullRow,
         VersionsDownloadable, RowNumbered
<1> QED
  BY <1>1, <1>2, <1>3, TypeInvariant, PTL DEF Spec
(* What a step of the model may do to a version with content while the     *)
(* hold is on: nothing.                                                    *)
LEMMA HeldStep ==
  ASSUME Undisturbed, "hold" \notin Faults, TypeInv, SerialInv, ContentInv, Next,
         file.held, NEW v \in rows, chunk[v] # None
  PROVE  /\ v \in rows'
         /\ \A c \in Chunks : blob[chunk[v]][c] # None => blob'[chunk[v]][c] # None
<1> USE DEF At
<1>0. DataInv /\ Content /\ v \in Ver /\ chunk[v] \in Ver
  BY DEF TypeInv, DataInv, ContentInv, ContentData, CoreData, Content, Holds
<1>1. ASSUME NEW r \in Req, h[r].pc \in {"delRow", "blobs"} PROVE FALSE
  BY <1>1 DEF ContentInv, ContentSlot, DeleteSlot
<1>2. ASSUME NEW r \in Req, FinalizePurge(r) \/ FinalizeDrop(r)
      PROVE  /\ v \in rows'
             /\ \A c \in Chunks : blob[chunk[v]][c] # None => blob'[chunk[v]][c] # None
  <2>1. /\ h[r].ver \in rows /\ num[h[r].ver] = file.cur + 1 /\ chunk[h[r].ver] = None
    BY <1>2 DEF FinalizePurge, FinalizeDrop, Finalizing, ContentInv, ContentSlot,
                UploadSlot
  <2>2. v # h[r].ver /\ chunk[v] # num[h[r].ver]
    BY <2>1, NextNumberFree
  <2> QED
    BY <1>0, <1>2, <2>2 DEF FinalizePurge, FinalizeDrop, DropVersion, RemoveObjects, DataInv
<1>3. ASSUME NEW w \in Ver, NEW d \in Chunks, PutChunk(w, d)
      PROVE  v \in rows' /\ blob'[chunk[v]] = blob[chunk[v]]
  <2>1. w \in rows /\ num[w] = file.cur + 1 /\ chunk[w] = None
    BY <1>3 DEF PutChunk, Undisturbed, ContentInv, ContentData, CoreData, Open
  <2>2. chunk[v] # num[w]
    BY <2>1, NextNumberFree
  <2> QED
    BY <1>0, <1>3, <2>2 DEF PutChunk, DataInv
<1>4. ASSUME NEW r \in Req, Handler(r),
             ~(FinalizePurge(r) \/ FinalizeDrop(r) \/ DeleteRow(r) \/ DeleteObjects(r))
      PROVE  v \in rows' /\ blob' = blob
  BY <1>4 DEF Handler, InsertRefused, InsertVersion, FinalizeReadVersion,
     FinalizeMeasure, FinalizeInsertChunks, FinalizeCommit, RestoreReadChunks,
     RestoreReadMax, RestoreCopyChunks, RestoreCommit, DeleteCheckHold,
     DeleteCheckCurrent, DeleteReadChunks, DeleteCountRefs, CountRows, SetCount,
     PruneReadFile, PruneList, DownloadReadVersion, DownloadReadChunks, FinishDownload
<1>5. ASSUME NEW r \in Req,
             \/ StartNewVersion(r) \/ StartPrune(r) \/ StartDownload(r)
             \/ PruneSkip(r) \/ Crash(r)
             \/ \E w \in Ver : StartFinalize(r, w) \/ StartRestore(r, w) \/ StartDelete(r, w)
      PROVE  v \in rows' /\ blob' = blob
  BY <1>5 DEF StartNewVersion, StartPrune, StartDownload, PruneSkip, Crash,
     StartFinalize, StartRestore, StartDelete
<1>6. ASSUME (\E w \in Ver : Abandon(w)) \/ SetHold
      PROVE  v \in rows' /\ blob' = blob
  BY <1>6 DEF Abandon, SetHold
<1>7. ASSUME NEW r \in Req, DeleteRow(r) \/ DeleteObjects(r) PROVE FALSE
  BY <1>1, <1>7 DEF DeleteRow, DeleteObjects
<1> QED
  BY <1>2, <1>3, <1>4, <1>5, <1>6, <1>7 DEF Next

(* While an evidence hold is on the file and handlers do not overlap, no   *)
(* step removes a version with content or an object one points at: the     *)
(* deletions look at the hold first, and what a refused finalize purges is *)
(* nobody else's. Without the fault that has the route take a failed read  *)
(* of the hold for no hold.                                                *)
THEOREM SerialHoldFreezesVersions ==
  ASSUME Undisturbed, "hold" \notin Faults
  PROVE  Spec => HoldFreezesVersions
<1>1. Init => SerialInv /\ ContentInv
  BY SerialInit, ContentInit
<1>2. TypeInv /\ SerialInv /\ ContentInv /\ [Next]_vars => SerialInv' /\ ContentInv'
  BY SerialStep, ContentNext DEF Undisturbed
<1>3. TypeInv /\ SerialInv /\ ContentInv /\ [Next]_vars =>
        [file.held /\ file'.held =>
           \A v \in rows : chunk[v] # None =>
              /\ v \in rows'
              /\ \A c \in Chunks : blob[chunk[v]][c] # None =>
                                   blob'[chunk[v]][c] # None]_vars
  BY HeldStep
<1> QED
  BY <1>1, <1>2, <1>3, TypeInvariant, PTL DEF Spec, HoldFreezesVersions
-----------------------------------------------------------------------------
(* One request at a time, a download returns only what its key decrypts,   *)
(* deletions included: between its reads nothing changes but what clients  *)
(* and administrators do.                                                  *)

Reading == {"dlVersion", "dlChunks", "dlDone"}

ReadSlot(r) ==
  /\ h[r].pc = "dlVersion" => h[r].cur = file.cur /\ h[r].key = file.key
  /\ h[r].pc = "dlChunks" => h[r].ver \in rows /\ key[h[r].ver] = h[r].key
  /\ h[r].pc = "dlDone" => \A v \in h[r].vs : key[v] = h[r].key

ReadInv == \A r \in Req : ReadSlot(r)

(* No other request becomes a download, or moves one.                      *)
LEMMA OthersDoNotRead ==
  ASSUME SlotInv, NEW r \in Req,
         \/ StartNewVersion(r) \/ StartPrune(r) \/ PruneSkip(r) \/ Crash(r)
         \/ Handler(r) /\ ~(DownloadReadVersion(r) \/ DownloadReadChunks(r))
         \/ \E v \in Ver : StartFinalize(r, v) \/ StartRestore(r, v) \/ StartDelete(r, v)
  PROVE  h'[r].pc \notin Reading /\ \A q \in Req \ {r} : h'[q] = h[q]
<1> USE DEF At
<1>0. h \in [Req -> ReqType] /\ DOMAIN h[r] = DOMAIN IdleReq
  BY IdleTyped DEF SlotInv, ReqType, IdleReq
<1>1. CASE Return(r)
  BY <1>0, <1>1, ReturnSlot, IdleTyped DEF Reading
<1>2. ASSUME NEW p, p \notin Reading, Goto(r, p)
      PROVE  h'[r].pc \notin Reading /\ \A q \in Req \ {r} : h'[q] = h[q]
  BY <1>0, <1>2 DEF Goto, ReqType
<1>3. ASSUME NEW vs, PruneLoop(r, vs)
      PROVE  h'[r].pc \notin Reading /\ \A q \in Req \ {r} : h'[q] = h[q]
  <2>1. CASE h' = [h EXCEPT ![r].pc = "count", ![r].vs = {}]
    <3> DEFINE x == [h[r] EXCEPT !.pc = "count", !.vs = {}]
    <3>1. h' = [h EXCEPT ![r] = x] /\ x.pc = "count"
      BY <1>0, <2>1 DEF ReqType
    <3> HIDE DEF x
    <3> QED
      BY <1>0, <3>1 DEF Reading
  <2>2. ASSUME NEW v, h' = [h EXCEPT ![r].pc = "delChunks", ![r].ver = v,
                                     ![r].vs = vs \ {v}]
        PROVE  h'[r].pc \notin Reading /\ \A q \in Req \ {r} : h'[q] = h[q]
    <3> DEFINE x == [h[r] EXCEPT !.pc = "delChunks", !.ver = v, !.vs = vs \ {v}]
    <3>1. h' = [h EXCEPT ![r] = x] /\ x.pc = "delChunks"
      BY <1>0, <2>2 DEF ReqType
    <3> HIDE DEF x
    <3> QED
      BY <1>0, <3>1 DEF Reading
  <2> QED
    BY <1>3, <2>1, <2>2 DEF PruneLoop
<1>4. CASE \/ StartNewVersion(r) \/ StartPrune(r)
           \/ \E v \in Ver : StartFinalize(r, v) \/ StartRestore(r, v) \/ StartDelete(r, v)
  <2>1. ASSUME NEW x, x.pc \notin Reading, h' = [h EXCEPT ![r] = x]
        PROVE  h'[r].pc \notin Reading /\ \A q \in Req \ {r} : h'[q] = h[q]
    BY <1>0, <2>1
  <2>2. CASE StartNewVersion(r)
    BY <2>1, <2>2 DEF StartNewVersion, IdleReq, Reading
  <2>3. CASE StartPrune(r)
    BY <2>1, <2>3 DEF StartPrune, IdleReq, Reading
  <2>4. ASSUME NEW v \in Ver, StartFinalize(r, v)
        PROVE  h'[r].pc \notin Reading /\ \A q \in Req \ {r} : h'[q] = h[q]
    BY <2>1, <2>4 DEF StartFinalize, IdleReq, Reading
  <2>5. ASSUME NEW v \in Ver, StartRestore(r, v)
        PROVE  h'[r].pc \notin Reading /\ \A q \in Req \ {r} : h'[q] = h[q]
    BY <2>1, <2>5 DEF StartRestore, IdleReq, Reading
  <2>6. ASSUME NEW v \in Ver, StartDelete(r, v)
        PROVE  h'[r].pc \notin Reading /\ \A q \in Req \ {r} : h'[q] = h[q]
    BY <2>1, <2>6 DEF StartDelete, IdleReq, Reading
  <2> QED
    BY <1>4, <2>2, <2>3, <2>4, <2>5, <2>6
<1>5. CASE PruneSkip(r) \/ Crash(r)
  BY <1>1, <1>3, <1>5 DEF PruneSkip, Crash
<1>6. CASE \/ InsertRefused(r) \/ FinalizeReadVersion(r) \/ FinalizeMeasure(r)
           \/ FinalizePurge(r) \/ FinalizeDrop(r) \/ FinalizeInsertChunks(r)
           \/ RestoreCopyChunks(r) \/ RestoreCommit(r) \/ DeleteCheckHold(r)
           \/ DeleteCheckCurrent(r) \/ DeleteRow(r) \/ SetCount(r) \/ FinishDownload(r)
  BY <1>1, <1>2, <1>6 DEF InsertRefused, FinalizeReadVersion, FinalizeMeasure,
     FinalizePurge, FinalizeDrop, FinalizeInsertChunks, RestoreCopyChunks, RestoreCommit,
     DeleteCheckHold, DeleteCheckCurrent, DeleteRow, SetCount, FinishDownload, Reading
<1>7. CASE \/ InsertVersion(r) \/ FinalizeCommit(r) \/ RestoreReadChunks(r)
           \/ RestoreReadMax(r) \/ DeleteReadChunks(r) \/ CountRows(r) \/ PruneReadFile(r)
  <2>1. ASSUME NEW p, p \notin Reading, NEW w,
               \/ h' = [h EXCEPT ![r].pc = p, ![r].pre = w]
               \/ h' = [h EXCEPT ![r].pc = p, ![r].num = w]
               \/ h' = [h EXCEPT ![r].pc = p, ![r].cur = w]
               \/ h' = [h EXCEPT ![r].pc = p, ![r].ver = w]
        PROVE  h'[r].pc \notin Reading /\ \A q \in Req \ {r} : h'[q] = h[q]
    <3>1. PICK x : h' = [h EXCEPT ![r] = x] /\ x.pc = p
      BY <1>0, <2>1 DEF ReqType
    <3> QED
      BY <1>0, <2>1, <3>1
  <2>2. CASE FinalizeCommit(r)
    <3> DEFINE x == [IdleReq EXCEPT !.pc = "pruneFile", !.op = "prune"]
    <3>1. h' = [h EXCEPT ![r] = x] /\ x.pc = "pruneFile"
      BY <2>2 DEF FinalizeCommit, IdleReq
    <3> HIDE DEF x
    <3> QED
      BY <1>0, <3>1 DEF Reading
  <2>3. \A p \in {"rsCopy", "rsMax", "insert", "delRow", "setCount", "pruneList"} :
           p \notin Reading
    BY DEF Reading
  <2>4. CASE InsertVersion(r) \/ PruneReadFile(r)
    BY <1>1, <2>1, <2>3, <2>4 DEF InsertVersion, PruneReadFile
  <2>5. CASE RestoreReadChunks(r) \/ RestoreReadMax(r)
    BY <2>1, <2>3, <2>5 DEF RestoreReadChunks, RestoreReadMax
  <2>6. CASE DeleteReadChunks(r) \/ CountRows(r)
    BY <2>1, <2>3, <2>6 DEF DeleteReadChunks, CountRows
  <2> QED
    BY <1>7, <2>2, <2>4, <2>5, <2>6
<1>8. CASE DeleteCountRefs(r)
  BY <1>0, <1>2, <1>8 DEF DeleteCountRefs, AfterRefs, ReqType, Reading
<1>9. CASE PruneList(r) \/ DeleteObjects(r)
  BY <1>1, <1>3, <1>9 DEF PruneList, DeleteObjects
<1> QED
  BY <1>4, <1>5, <1>6, <1>7, <1>8, <1>9 DEF Handler

(* The version row a download looks up is the one the files row speaks of. *)
LEMMA ReadRow ==
  ASSUME UniqueNumbers, CurrentRowExists
  PROVE  RowOf(file.cur) \in rows /\ key[RowOf(file.cur)] = file.key
<1>1. PICK v \in rows : num[v] = file.cur /\ key[v] = file.key
  BY DEF CurrentRowExists
<1>2. RowOf(file.cur) = CHOOSE w \in rows : num[w] = file.cur
  BY <1>1 DEF RowOf, Taken
<1>3. RowOf(file.cur) \in rows /\ num[RowOf(file.cur)] = file.cur
  BY <1>1, <1>2
<1> QED
  BY <1>1, <1>3 DEF UniqueNumbers

(* The steps of a download itself.                                         *)
LEMMA ReadStep ==
  ASSUME Overlap = FALSE, "download" \notin Faults, TypeInv, SerialInv, ReadInv,
         NEW r \in Req,
         StartDownload(r) \/ DownloadReadVersion(r) \/ DownloadReadChunks(r)
  PROVE  ReadInv'
<1> USE DEF At
<1>0. /\ SlotInv /\ DataInv /\ UniqueNumbers /\ CurrentRowExists /\ ReadSlot(r)
      /\ UNCHANGED <<file, rows, key>>
  BY DEF TypeInv, SerialInv, HistoryInv, ReadInv, StartDownload, DownloadReadVersion,
         DownloadReadChunks
<1>1. ASSUME ReadSlot(r)', \A q \in Req \ {r} : h'[q] = h[q] PROVE ReadInv'
  <2>1. \A q \in Req \ {r} : h[q].pc = "idle"
    BY Solo DEF SerialInv, StartDownload, DownloadReadVersion, DownloadReadChunks
  <2>2. \A q \in Req \ {r} : ReadSlot(q)'
    BY <1>1, <2>1 DEF ReadSlot
  <2> QED
    BY <1>1, <2>2 DEF ReadInv
<1>2. CASE StartDownload(r)
  <2> DEFINE x == [IdleReq EXCEPT !.pc = "dlVersion", !.cur = file.cur,
                                  !.key = file.key]
  <2>1. file.cur \in Id /\ file.key \in Id
    BY <1>0 DEF DataInv
  <2>2. x \in ReqType /\ x.pc = "dlVersion" /\ x.cur = file.cur /\ x.key = file.key
    BY <2>1, IdleTyped, PCs DEF ReqType
  <2>3. h'[r] = x /\ \A q \in Req \ {r} : h'[q] = h[q]
    BY <1>0, <1>2, <2>2, SetSlot DEF StartDownload, UsesVersion
  <2> HIDE DEF x
  <2>4. ReadSlot(r)'
    BY <1>0, <2>2, <2>3 DEF ReadSlot
  <2> QED
    BY <1>1, <2>3, <2>4
<1>3. CASE DownloadReadVersion(r)
  <2>1. PICK v \in Id : /\ v = RowOf(h[r].cur)
                        /\ h' = [h EXCEPT ![r].pc = "dlChunks", ![r].ver = v]
    BY <1>0, <1>3, RowOfTyped, VerIsId DEF DownloadReadVersion, Errs, DataInv
  <2>2. v \in rows /\ key[v] = h[r].key
    BY <1>0, <1>3, <2>1, ReadRow DEF DownloadReadVersion, ReadSlot
  <2>3. /\ h'[r].pc = "dlChunks" /\ h'[r].ver = v /\ h'[r].key = h[r].key
        /\ \A q \in Req \ {r} : h'[q] = h[q]
    <3>1. "dlChunks" \in PC /\ "dlChunks" \notin UsesVersion
      BY PCs DEF UsesVersion
    <3> QED
      BY <1>0, <2>1, <3>1, VerSlot
  <2>4. ReadSlot(r)'
    BY <1>0, <2>2, <2>3 DEF ReadSlot
  <2> QED
    BY <1>1, <2>3, <2>4
<1>4. CASE DownloadReadChunks(r)
  <2> DEFINE w == {v \in Asked(h[r].ver) : chunk[v] # None}
  <2>1. w \in SUBSET Ver
    BY <1>0 DEF Asked, DataInv
  <2>2. PICK u \in SUBSET Ver : /\ u = w
                               /\ h' = [h EXCEPT ![r].pc = "dlDone", ![r].vs = u]
    BY <1>4, <2>1 DEF DownloadReadChunks
  <2>3. \A v \in u : key[v] = h[r].key
    <3>1. h[r].ver \in rows /\ key[h[r].ver] = h[r].key /\ h[r].ver # None
      BY <1>0, <1>4, VerIsId DEF DownloadReadChunks, ReadSlot, DataInv
    <3> QED
      BY <2>2, <3>1 DEF Asked
  <2> HIDE DEF w
  <2>4. /\ h'[r].pc = "dlDone" /\ h'[r].vs = u /\ h'[r].key = h[r].key
        /\ \A q \in Req \ {r} : h'[q] = h[q]
    <3> DEFINE x == [h[r] EXCEPT !.pc = "dlDone", !.vs = u]
    <3>1. "dlDone" \in PC /\ "dlDone" \notin UsesVersion
      BY PCs DEF UsesVersion
    <3>2. x \in ReqType /\ x.pc = "dlDone" /\ x.vs = u /\ x.key = h[r].key
      BY <1>0, <3>1 DEF SlotInv, ReqType
    <3>3. h' = [h EXCEPT ![r] = x]
      BY <2>2
    <3> HIDE DEF x
    <3> QED
      BY <1>0, <3>1, <3>2, <3>3, SetSlot
  <2>5. ReadSlot(r)'
    BY <1>0, <2>3, <2>4 DEF ReadSlot
  <2> QED
    BY <1>1, <2>4, <2>5
<1> QED
  BY <1>2, <1>3, <1>4

(* Every step keeps the invariant.                                         *)
LEMMA ReadNext ==
  ASSUME Overlap = FALSE, "download" \notin Faults, TypeInv, SerialInv, ReadInv,
         [Next]_vars
  PROVE  ReadInv'
<1>1. CASE \/ UNCHANGED vars \/ SetHold
           \/ \E v \in Ver : Abandon(v) \/ \E c \in Chunks : PutChunk(v, c)
  <2>1. UNCHANGED <<rows, key, h>> /\ file'.cur = file.cur /\ file'.key = file.key
    BY <1>1 DEF vars, SetHold, Abandon, PutChunk, TypeInv, DataInv
  <2> QED
    BY <2>1 DEF ReadInv, ReadSlot
<1>2. ASSUME NEW r \in Req,
             \/ StartNewVersion(r) \/ StartPrune(r) \/ PruneSkip(r) \/ Crash(r)
             \/ Handler(r) /\ ~(DownloadReadVersion(r) \/ DownloadReadChunks(r))
             \/ \E v \in Ver : StartFinalize(r, v) \/ StartRestore(r, v) \/ StartDelete(r, v)
      PROVE  ReadInv'
  <2>1. h'[r].pc \notin Reading /\ \A q \in Req \ {r} : h'[q] = h[q]
    BY <1>2, OthersDoNotRead DEF TypeInv
  <2>2. h[r].pc # "idle" \/ CanStart(r)
    BY <1>2 DEF At, StartNewVersion, OwnerStarts, StartPrune, PruneSkip, Crash,
       StartFinalize, StartRestore, StartDelete, Handler, InsertRefused, InsertVersion,
       FinalizeReadVersion, FinalizeMeasure, FinalizePurge, FinalizeDrop,
       FinalizeInsertChunks, FinalizeCommit, RestoreReadChunks, RestoreReadMax,
       RestoreCopyChunks, RestoreCommit, DeleteCheckHold, DeleteCheckCurrent,
       DeleteReadChunks, DeleteRow, DeleteCountRefs, DeleteObjects, CountRows, SetCount,
       PruneReadFile, PruneList, FinishDownload
  <2>3. \A q \in Req \ {r} : h[q].pc = "idle"
    BY <2>2, Solo DEF SerialInv
  <2> QED
    BY <2>1, <2>3 DEF ReadInv, ReadSlot, Reading
<1>3. ASSUME NEW r \in Req,
             StartDownload(r) \/ DownloadReadVersion(r) \/ DownloadReadChunks(r)
      PROVE  ReadInv'
  BY <1>3, ReadStep
<1> QED
  BY <1>1, <1>2, <1>3 DEF Next

(* One request at a time, a download returns only chunks made with the     *)
(* session key it returns, deletions, restores and crashes included, if    *)
(* no read of the current number and none of the download's own fails      *)
(* unnoticed.                                                              *)
THEOREM SerialDownloadDecrypts ==
  ASSUME Overlap = FALSE, Faults \cap {"current", "download"} = {}
  PROVE  Spec => []DownloadDecrypts
<1>1. Init => SerialInv /\ ReadInv
  <2>1. Init => ReadInv
    BY IdleTyped DEF Init, ReadInv, ReadSlot
  <2> QED
    BY <2>1, SerialInit
<1>2. TypeInv /\ SerialInv /\ ReadInv /\ [Next]_vars => SerialInv' /\ ReadInv'
  BY SerialStep, ReadNext
<1>3. ReadInv => DownloadDecrypts
  BY DEF ReadInv, ReadSlot, DownloadDecrypts, At
<1> QED
  BY <1>1, <1>2, <1>3, TypeInvariant, PTL DEF Spec
=============================================================================
