---------------------------- MODULE FileVersions ----------------------------
(***************************************************************************)
(* The version history of ONE uploaded file: its row in `files`, its rows  *)
(* in `file_versions` and `file_chunks`, and its objects in R2.            *)
(*                                                                         *)
(* Route handlers run as a sequence of awaits, each one statement against  *)
(* Postgres or one call to R2; there is no multi-statement transaction.    *)
(* Every await that touches shared state is a step of its own, any step    *)
(* may be the last one a handler takes (Crash: the Worker dies, or the     *)
(* statement throws and the route answers 500), and a read whose `error`   *)
(* the code never looks at may come back empty (tags of Faults).           *)
(*                                                                         *)
(* Simplifications.                                                        *)
(*  - A version row's metadata, nonce and session-key wrap are one value:  *)
(*    the id of the upload that minted the session key (key[v]).           *)
(*  - A finalize inserts all chunk rows of a version in one statement and  *)
(*    they all live under one storage-key prefix .../v{n}/, so the chunk   *)
(*    rows of v are the prefix number chunk[v] (None: no rows).            *)
(*  - An object holds the key its ciphertext was made with.                *)
(***************************************************************************)
EXTENDS Naturals, FiniteSets

CONSTANTS
  MaxVer,        \* bound: file_versions rows ever inserted (v1 included)
  Chunks,        \* the chunk sequences of every version
  Req,           \* slots for requests being handled
  VersionCount,  \* entitlement: past versions the retention prune keeps
  MaxFault,      \* bound: crashes plus ignored read errors in a behaviour
  Overlap,       \* TRUE: handlers interleave; FALSE: one request at a time
  Ops,           \* the operations users and crons perform in this instance
  Faults         \* the faults that may occur in this instance

OpTag == {"upload", "abandon", "late", "restore", "restoreEmpty", "delete",
          "deletePending", "during", "prune", "expire", "hold", "download",
          "reject"}
FaultTag == {"crash", "hold", "current", "chunks", "refs", "max", "count",
             "download"}

ASSUME MaxVerAssumption == MaxVer \in Nat \ {0}
ASSUME VersionCountAssumption == VersionCount \in Nat
ASSUME MaxFaultAssumption == MaxFault \in Nat
ASSUME ChunksAssumption == Chunks # {}
ASSUME TagsAssumption == Ops \subseteq OpTag /\ Faults \subseteq FaultTag
ASSUME OverlapAssumption == Overlap \in BOOLEAN

Ver  == 1..MaxVer
None == 0
Id   == Ver \cup {None}    \* also version numbers, prefixes and keys

VARIABLES
  file,    \* the files row: cur, key, count, held
  rows,    \* ids of the live file_versions rows
  next,    \* id the next inserted row gets
  num,     \* num[v]: version_number of row v
  key,     \* key[v]: the session key row v wraps
  chunk,   \* chunk[v]: prefix the file_chunks rows of v point into, or None
  blob,    \* blob[p][c]: key the object v{p}/chunk-{c} is encrypted with
  upload,  \* upload[v]: the client's side of the upload that created v
  put,     \* put[v]: chunks whose PUT the client saw succeed
  faults,  \* faults so far
  h        \* h[r]: program counter and locals of the request in slot r

vars == <<file, rows, next, num, key, chunk, blob, upload, put, faults, h>>

PC == {"idle", "insert", "rsChunks", "rsMax", "rsCopy", "rsCommit",
       "finVersion", "finMeasure", "finPurge", "finDrop", "finInsert",
       "finCommit", "dvHold", "dvCurrent", "pruneFile", "pruneList",
       "delChunks", "delRow", "delRefs", "blobs", "count", "setCount",
       "dlVersion", "dlChunks", "dlDone"}

IdleReq == [pc |-> "idle", op |-> "none", ver |-> None, num |-> None,
            cur |-> None, key |-> None, pre |-> None, vs |-> {}]

ReqType == [pc: PC, op: {"none", "init", "finalize", "restore", "delete", "prune"},
            ver: Id, num: 0..MaxVer+1, cur: Id, key: Id, pre: Id,
            vs: SUBSET Ver]

TypeOK ==
  /\ file \in [cur: Id, key: Id, count: Id, held: BOOLEAN]
  /\ rows \subseteq Ver
  /\ next \in 1..MaxVer+1
  /\ num \in [Ver -> Id]
  /\ key \in [Ver -> Id]
  /\ chunk \in [Ver -> Id]
  /\ blob \in [Ver -> [Chunks -> Id]]
  /\ upload \in [Ver -> {"none", "open", "abandoned", "closed"}]
  /\ put \in [Ver -> SUBSET Chunks]
  /\ faults \in 0..MaxFault
  /\ h \in [Req -> ReqType]

(* The file right after the finalize of its first upload: v1 is current.   *)
Init ==
  /\ file = [cur |-> 1, key |-> 1, count |-> 1, held |-> FALSE]
  /\ rows = {1}
  /\ next = 2
  /\ num = [v \in Ver |-> IF v = 1 THEN 1 ELSE None]
  /\ key = [v \in Ver |-> IF v = 1 THEN 1 ELSE None]
  /\ chunk = [v \in Ver |-> IF v = 1 THEN 1 ELSE None]
  /\ blob = [p \in Ver |-> [c \in Chunks |-> IF p = 1 THEN 1 ELSE None]]
  /\ upload = [v \in Ver |-> IF v = 1 THEN "closed" ELSE "none"]
  /\ put = [v \in Ver |-> {}]
  /\ faults = 0
  /\ h = [r \in Req |-> IdleReq]

-----------------------------------------------------------------------------
(* Request slots.                                                          *)

CanStart(r) ==
  /\ h[r].pc = "idle"
  /\ Overlap \/ \A q \in Req : h[q].pc = "idle"

\* The upload that created v has not been answered yet.
InProgress(v) ==
  \/ upload[v] = "open"
  \/ \E r \in Req : h[r].op = "finalize" /\ h[r].ver = v

\* A request that changes the history, started by the owner: without the tag
\* "during" the owner waits until no upload of theirs is in progress.
OwnerStarts(r) ==
  /\ CanStart(r)
  /\ "during" \in Ops \/ \A v \in Ver : ~InProgress(v)

At(r, pc)  == h[r].pc = pc
Return(r)  == h' = [h EXCEPT ![r] = IdleReq]
Goto(r, p) == h' = [h EXCEPT ![r].pc = p]

\* The statement in slot r reports an error the code does not look at.
Errs(r, tag) ==
  /\ tag \in Faults
  /\ faults < MaxFault
  /\ faults' = faults + 1
Ok == UNCHANGED faults

Taken(n) == \E v \in rows : num[v] = n
RowNumbered(n) == {v \in rows : num[v] = n}

-----------------------------------------------------------------------------
(* Uploading a new version: new-version-init.                              *)

StartNewVersion(r) ==
  /\ "upload" \in Ops
  /\ OwnerStarts(r)
  /\ h' = [h EXCEPT ![r] = [IdleReq EXCEPT !.pc = "insert", !.op = "init",
                                           !.num = file.cur + 1]]
  /\ UNCHANGED <<file, rows, next, num, key, chunk, blob, upload, put, faults>>

\* createFileVersion, for new-version-init and for restore: UNIQUE(file_id,
\* version_number) refuses a number that is taken. The bound MaxVer ends the
\* request the same way.
\* Mutant of Refused: without the UNIQUE constraint.
BoundReached(n) == next > MaxVer \/ n > MaxVer
Refused(n) == Taken(n) \/ BoundReached(n)

InsertRefused(r) ==
  /\ At(r, "insert")
  /\ Refused(h[r].num)
  /\ Return(r)
  /\ UNCHANGED <<file, rows, next, num, key, chunk, blob, upload, put, faults>>

InsertVersion(r) ==
  LET v == next
      n == h[r].num IN
  /\ At(r, "insert")
  /\ ~Refused(n)
  /\ rows' = rows \cup {v}
  /\ next' = next + 1
  /\ num' = [num EXCEPT ![v] = n]
  /\ \/ /\ h[r].op = "init"
        /\ key' = [key EXCEPT ![v] = v]
        /\ upload' = [upload EXCEPT ![v] = "open"]
        /\ Return(r)
     \/ /\ h[r].op = "restore"
        /\ key' = [key EXCEPT ![v] = h[r].key]
        /\ upload' = upload
        /\ h' = [h EXCEPT ![r].pc = "rsCopy", ![r].ver = v]
  /\ UNCHANGED <<file, chunk, blob, put, faults>>

(* The client's side: PUTs to the presigned URLs, whose storage keys hold  *)
(* the version NUMBER. A PUT may land again (retry) and, when the client   *)
(* has given up because another chunk failed, late.                        *)
PutChunk(v, c) ==
  /\ \/ upload[v] = "open"
     \/ upload[v] = "abandoned" /\ "late" \in Ops
  /\ blob' = [blob EXCEPT ![num[v]][c] = key[v]]
  /\ put' = [put EXCEPT ![v] = @ \cup {c}]
  /\ UNCHANGED <<file, rows, next, num, key, chunk, upload, faults, h>>

Abandon(v) ==
  /\ "abandon" \in Ops
  /\ upload[v] = "open"
  /\ upload' = [upload EXCEPT ![v] = "abandoned"]
  /\ UNCHANGED <<file, rows, next, num, key, chunk, blob, put, faults, h>>

-----------------------------------------------------------------------------
(* Finalize of a new version: sent once, after every PUT succeeded.        *)

StartFinalize(r, v) ==
  /\ CanStart(r)
  /\ upload[v] = "open" /\ put[v] = Chunks
  /\ upload' = [upload EXCEPT ![v] = "closed"]
  /\ h' = [h EXCEPT ![r] = [IdleReq EXCEPT !.pc = "finVersion",
                                           !.op = "finalize", !.ver = v]]
  /\ UNCHANGED <<file, rows, next, num, key, chunk, blob, put, faults>>

FinalizeReadVersion(r) ==
  /\ At(r, "finVersion")
  /\ IF h[r].ver \in rows THEN Goto(r, "finMeasure") ELSE Return(r)
  /\ UNCHANGED <<file, rows, next, num, key, chunk, blob, upload, put, faults>>

\* measureAndCheck: an absent object refuses the request; the quota verdict
\* on the measured total is the environment's.
FinalizeMeasure(r) ==
  LET p == num[h[r].ver] IN
  /\ At(r, "finMeasure")
  /\ IF \E c \in Chunks : blob[p][c] = None
       THEN Goto(r, "finDrop")
       ELSE \/ Goto(r, "finInsert")
            \/ "reject" \in Ops /\ Goto(r, "finPurge")
  /\ UNCHANGED <<file, rows, next, num, key, chunk, blob, upload, put, faults>>

\* deleteBlobs deletes shard by shard and may stop early: some objects go.
RemoveObjects(p, S) ==
  blob' = [blob EXCEPT ![p] = [c \in Chunks |-> IF c \in S THEN None
                                                ELSE blob[p][c]]]

FinalizePurge(r) ==
  /\ At(r, "finPurge")
  /\ \E S \in SUBSET Chunks : RemoveObjects(num[h[r].ver], S)
  /\ Goto(r, "finDrop")
  /\ UNCHANGED <<file, rows, next, num, key, chunk, upload, put, faults>>

\* Deleting a version row cascades to its chunk rows.
DropVersion(v) ==
  /\ rows' = rows \ {v}
  /\ chunk' = [chunk EXCEPT ![v] = None]

FinalizeDrop(r) ==
  /\ At(r, "finDrop")
  /\ DropVersion(h[r].ver)
  /\ Return(r)
  /\ UNCHANGED <<file, next, num, key, blob, upload, put, faults>>

FinalizeInsertChunks(r) ==
  LET v == h[r].ver IN
  /\ At(r, "finInsert")
  /\ IF v \in rows   \* file_chunks.version_id references file_versions
       THEN chunk' = [chunk EXCEPT ![v] = num[v]] /\ Goto(r, "finCommit")
       ELSE chunk' = chunk /\ Return(r)
  /\ UNCHANGED <<file, rows, next, num, key, blob, upload, put, faults>>

\* Mutant: the count is derived by one more than the new number.
PointFileAtCountedTwice(v) ==
  file' = [file EXCEPT !.cur = num[v], !.key = key[v], !.count = num[v] + 1]

\* Point `files` at version v; finalize and restore write the same columns.
PointFileAt(v) ==
  file' = [file EXCEPT !.cur = num[v], !.key = key[v], !.count = num[v]]

FinalizeCommit(r) ==
  /\ At(r, "finCommit")
  /\ PointFileAt(h[r].ver)
  /\ h' = [h EXCEPT ![r] = [IdleReq EXCEPT !.pc = "pruneFile", !.op = "prune"]]
  /\ UNCHANGED <<rows, next, num, key, chunk, blob, upload, put, faults>>

-----------------------------------------------------------------------------
(* Restoring an old version.                                               *)

StartRestore(r, s) ==
  /\ "restore" \in Ops
  /\ OwnerStarts(r)
  /\ s \in rows
  /\ chunk[s] # None \/ "restoreEmpty" \in Ops
  /\ h' = [h EXCEPT ![r] = [IdleReq EXCEPT !.pc = "rsChunks", !.op = "restore",
                                           !.ver = s, !.key = key[s]]]
  /\ UNCHANGED <<file, rows, next, num, key, chunk, blob, upload, put, faults>>

RestoreReadChunks(r) ==
  /\ At(r, "rsChunks")
  /\ h' = [h EXCEPT ![r].pc = "rsMax", ![r].pre = chunk[h[r].ver]]
  /\ UNCHANGED <<file, rows, next, num, key, chunk, blob, upload, put, faults>>

\* max(version_number) + 1; the read's error is ignored and counts as 0 + 1.
IsMaxNumber(m) == (m = None \/ Taken(m)) /\ \A v \in rows : num[v] <= m

RestoreReadMax(r) ==
  /\ At(r, "rsMax")
  /\ \/ Ok /\ \E m \in Id : /\ IsMaxNumber(m)
                            /\ h' = [h EXCEPT ![r].pc = "insert",
                                              ![r].num = m + 1]
     \/ Errs(r, "max") /\ h' = [h EXCEPT ![r].pc = "insert", ![r].num = 1]
  /\ UNCHANGED <<file, rows, next, num, key, chunk, blob, upload, put>>

\* The copied chunk rows share the source's objects.
RestoreCopyChunks(r) ==
  LET v == h[r].ver IN
  /\ At(r, "rsCopy")
  /\ IF h[r].pre # None /\ v \notin rows
       THEN chunk' = chunk /\ Return(r)
       ELSE /\ chunk' = IF v \in rows THEN [chunk EXCEPT ![v] = h[r].pre]
                                      ELSE chunk
            /\ Goto(r, "rsCommit")
  /\ UNCHANGED <<file, rows, next, num, key, blob, upload, put, faults>>

RestoreCommit(r) ==
  /\ At(r, "rsCommit")
  /\ PointFileAt(h[r].ver)
  /\ Return(r)
  /\ UNCHANGED <<rows, next, num, key, chunk, blob, upload, put, faults>>

-----------------------------------------------------------------------------
(* Deleting one past version, on the owner's request.                      *)

StartDelete(r, v) ==
  /\ "delete" \in Ops
  /\ OwnerStarts(r)
  /\ v \in rows
  /\ ~InProgress(v) \/ "deletePending" \in Ops
  /\ h' = [h EXCEPT ![r] = [IdleReq EXCEPT !.pc = "dvHold", !.op = "delete",
                                           !.ver = v]]
  /\ UNCHANGED <<file, rows, next, num, key, chunk, blob, upload, put, faults>>

DeleteCheckHold(r) ==
  /\ At(r, "dvHold")
  /\ \/ Ok /\ IF file.held THEN Return(r) ELSE Goto(r, "dvCurrent")
     \/ Errs(r, "hold") /\ Goto(r, "dvCurrent")
  /\ UNCHANGED <<file, rows, next, num, key, chunk, blob, upload, put>>

DeleteCheckCurrent(r) ==
  /\ At(r, "dvCurrent")
  /\ \/ Ok /\ IF file.cur = num[h[r].ver] THEN Return(r)
                                          ELSE Goto(r, "delChunks")
     \/ Errs(r, "current") /\ Goto(r, "delChunks")
  /\ UNCHANGED <<file, rows, next, num, key, chunk, blob, upload, put>>

(* deleteFileVersion, shared by the delete route and the prune.            *)

DeleteReadChunks(r) ==
  /\ At(r, "delChunks")
  /\ \/ Ok /\ h' = [h EXCEPT ![r].pc = "delRow", ![r].pre = chunk[h[r].ver]]
     \/ Errs(r, "chunks") /\ h' = [h EXCEPT ![r].pc = "delRow", ![r].pre = None]
  /\ UNCHANGED <<file, rows, next, num, key, chunk, blob, upload, put>>

DeleteRow(r) ==
  /\ At(r, "delRow")
  /\ DropVersion(h[r].ver)
  /\ Goto(r, "delRefs")
  /\ UNCHANGED <<file, next, num, key, blob, upload, put, faults>>

AfterRefs(r) == IF h[r].op = "prune" THEN "blobs" ELSE "count"
\* Mutant: only the version the prefix was made for counts as a reference.
ReferencedByMaker(p) == \E v \in rows : chunk[v] = p /\ num[v] = p
Referenced(p) == \E v \in rows : chunk[v] = p

\* Objects another version still references are kept; when this read errs,
\* the code takes the empty answer for "no reference left".
DeleteCountRefs(r) ==
  /\ At(r, "delRefs")
  /\ \/ /\ Ok
        /\ h' = [h EXCEPT ![r].pc = AfterRefs(r),
                          ![r].pre = IF Referenced(@) THEN None ELSE @]
     \/ Errs(r, "refs") /\ Goto(r, AfterRefs(r))
  /\ UNCHANGED <<file, rows, next, num, key, chunk, blob, upload, put>>

\* The prune's loop over the versions vs to delete, newest first.
IsNewest(v, vs) == v \in vs /\ \A w \in vs : num[w] <= num[v]
PruneLoop(r, vs) ==
  \/ /\ vs = {}
     /\ h' = [h EXCEPT ![r].pc = "count", ![r].vs = {}]
  \/ \E v \in vs : /\ IsNewest(v, vs)
                   /\ h' = [h EXCEPT ![r].pc = "delChunks", ![r].ver = v,
                                     ![r].vs = vs \ {v}]

\* The route deletes the objects last; the prune does so per version.
DeleteObjects(r) ==
  /\ At(r, "blobs")
  /\ IF h[r].pre = None THEN blob' = blob
     ELSE \E S \in SUBSET Chunks : RemoveObjects(h[r].pre, S)
  /\ IF h[r].op = "prune" THEN PruneLoop(r, h[r].vs) ELSE Return(r)
  /\ UNCHANGED <<file, rows, next, num, key, chunk, upload, put, faults>>

CountRows(r) ==
  /\ At(r, "count")
  /\ \/ Ok /\ h' = [h EXCEPT ![r].pc = "setCount", ![r].num = Cardinality(rows)]
     \/ Errs(r, "count") /\ h' = [h EXCEPT ![r].pc = "setCount", ![r].num = 1]
  /\ UNCHANGED <<file, rows, next, num, key, chunk, blob, upload, put>>

\* Mutant: the prune leaves the denormalized count at its default.
SetCountDefault(r) ==
  /\ At(r, "setCount")
  /\ Ok /\ file' = [file EXCEPT !.count = 1]
  /\ IF h[r].op = "prune" THEN Return(r) ELSE Goto(r, "blobs")
  /\ UNCHANGED <<rows, next, num, key, chunk, blob, upload, put>>

SetCount(r) ==
  /\ At(r, "setCount")
  /\ \/ Ok /\ file' = [file EXCEPT !.count = IF h[r].num > 1 THEN h[r].num ELSE 1]
     \/ Errs(r, "count") /\ file' = file
  /\ IF h[r].op = "prune" THEN Return(r) ELSE Goto(r, "blobs")
  /\ UNCHANGED <<rows, next, num, key, chunk, blob, upload, put>>

-----------------------------------------------------------------------------
(* Retention: inline after a finalize, and by the nightly cron.            *)

\* The cron scans the files whose version_count exceeds 1.
StartPrune(r) ==
  /\ "prune" \in Ops
  /\ CanStart(r)
  /\ file.count > 1
  /\ h' = [h EXCEPT ![r] = [IdleReq EXCEPT !.pc = "pruneFile", !.op = "prune"]]
  /\ UNCHANGED <<file, rows, next, num, key, chunk, blob, upload, put, faults>>

\* Mutant: the retention prune does not look at the hold.
PruneReadFileHeld(r) ==
  /\ At(r, "pruneFile")
  /\ h' = [h EXCEPT ![r].pc = "pruneList", ![r].cur = file.cur]
  /\ UNCHANGED <<file, rows, next, num, key, chunk, blob, upload, put, faults>>

PruneReadFile(r) ==
  /\ At(r, "pruneFile")
  /\ IF file.held THEN Return(r)
     ELSE h' = [h EXCEPT ![r].pc = "pruneList", ![r].cur = file.cur]
  /\ UNCHANGED <<file, rows, next, num, key, chunk, blob, upload, put, faults>>

\* Past versions in excess of VersionCount, ranked by number without the
\* one the handler took for current.
Excess(cur) ==
  LET past == {v \in rows : num[v] # cur} IN
  {v \in past : Cardinality({w \in past : num[w] >= num[v]}) > VersionCount}

\* Past versions older than the retention period: ids follow creation order,
\* and an upload in progress is younger than the shortest period (7 days).
\* Mutant ExpiredToo: the current version ages out with the others.
ExpiredToo(cur, id) == {v \in rows : v < id}
Expired(cur, id) == {v \in rows : num[v] # cur /\ v < id}
Cutoffs ==
  IF "expire" \notin Ops THEN {1}
  ELSE {id \in 1..next : \A v \in Ver : InProgress(v) => id <= v}

PruneList(r) ==
  /\ At(r, "pruneList")
  /\ \E id \in Cutoffs :
       LET del == Excess(h[r].cur) \cup Expired(h[r].cur, id) IN
       IF del = {} THEN Return(r) ELSE PruneLoop(r, del)
  /\ UNCHANGED <<file, rows, next, num, key, chunk, blob, upload, put, faults>>

\* deleteFileVersion threw - the row was not deleted, or it was and the answer
\* got lost: the prune logs it and goes on with the next version.
PruneSkip(r) ==
  /\ h[r].op = "prune" /\ h[r].pc \in {"delRow", "delRefs"}
  /\ Errs(r, "crash")
  /\ PruneLoop(r, h[r].vs)
  /\ UNCHANGED <<file, rows, next, num, key, chunk, blob, upload, put>>

-----------------------------------------------------------------------------
(* Downloading the current version, and the trust-and-safety hold.         *)

StartDownload(r) ==
  /\ "download" \in Ops
  /\ CanStart(r)
  /\ h' = [h EXCEPT ![r] = [IdleReq EXCEPT !.pc = "dlVersion",
                              !.cur = file.cur, !.key = file.key]]
  /\ UNCHANGED <<file, rows, next, num, key, chunk, blob, upload, put, faults>>

RowOf(n) == IF Taken(n) THEN CHOOSE v \in rows : num[v] = n ELSE None

DownloadReadVersion(r) ==
  /\ At(r, "dlVersion")
  /\ \/ Ok /\ h' = [h EXCEPT ![r].pc = "dlChunks", ![r].ver = RowOf(h[r].cur)]
     \/ Errs(r, "download") /\ h' = [h EXCEPT ![r].pc = "dlChunks",
                                              ![r].ver = None]
  /\ UNCHANGED <<file, rows, next, num, key, chunk, blob, upload, put>>

\* Without a version row the route serves every chunk row of the file.
\* Mutant AskedAll: the filter on the version id is missing.
AskedAll(v) == rows
Asked(v) == IF v = None THEN rows ELSE rows \cap {v}

DownloadReadChunks(r) ==
  /\ At(r, "dlChunks")
  /\ h' = [h EXCEPT ![r].pc = "dlDone",
                    ![r].vs = {v \in Asked(h[r].ver) : chunk[v] # None}]
  /\ UNCHANGED <<file, rows, next, num, key, chunk, blob, upload, put, faults>>

FinishDownload(r) ==
  /\ At(r, "dlDone")
  /\ Return(r)
  /\ UNCHANGED <<file, rows, next, num, key, chunk, blob, upload, put, faults>>

SetHold ==
  /\ "hold" \in Ops
  /\ Overlap \/ \A q \in Req : h[q].pc = "idle"
  /\ file' = [file EXCEPT !.held = ~@]
  /\ UNCHANGED <<rows, next, num, key, chunk, blob, upload, put, faults, h>>

Crash(r) ==
  /\ h[r].pc # "idle"
  /\ Errs(r, "crash")
  /\ Return(r)
  /\ UNCHANGED <<file, rows, next, num, key, chunk, blob, upload, put>>

-----------------------------------------------------------------------------
Handler(r) ==
  \/ InsertRefused(r) \/ InsertVersion(r)
  \/ FinalizeReadVersion(r) \/ FinalizeMeasure(r) \/ FinalizePurge(r)
  \/ FinalizeDrop(r) \/ FinalizeInsertChunks(r) \/ FinalizeCommit(r)
  \/ RestoreReadChunks(r) \/ RestoreReadMax(r)
  \/ RestoreCopyChunks(r) \/ RestoreCommit(r)
  \/ DeleteCheckHold(r) \/ DeleteCheckCurrent(r) \/ DeleteReadChunks(r)
  \/ DeleteRow(r) \/ DeleteCountRefs(r) \/ DeleteObjects(r)
  \/ CountRows(r) \/ SetCount(r)
  \/ PruneReadFile(r) \/ PruneList(r)
  \/ DownloadReadVersion(r) \/ DownloadReadChunks(r) \/ FinishDownload(r)

Next ==
  \/ \E r \in Req :
       \/ StartNewVersion(r) \/ StartPrune(r) \/ StartDownload(r)
       \/ Handler(r) \/ PruneSkip(r) \/ Crash(r)
       \/ \E v \in Ver : StartFinalize(r, v) \/ StartRestore(r, v)
                         \/ StartDelete(r, v)
  \/ \E v \in Ver : Abandon(v) \/ \E c \in Chunks : PutChunk(v, c)
  \/ SetHold

Spec == Init /\ [][Next]_vars

\* A started request runs on until it answers or dies; users and clients owe
\* nothing; the nightly cron keeps coming (strong fairness: the platform starts
\* it whatever requests happen to occupy the model's slots).
FairSpec ==
  /\ Spec
  /\ \A r \in Req : WF_vars(Handler(r))
  /\ SF_vars(\E r \in Req : StartPrune(r))

-----------------------------------------------------------------------------
(* Properties.                                                             *)

(* The files row points at a version row that exists, and its session-key  *)
(* wrap is that version's: chunk-download looks the current version up by  *)
(* number and hands out the wrap of the files row with its chunks.         *)
CurrentRowExists ==
  \E v \in rows : num[v] = file.cur /\ key[v] = file.key

(* Every version that has chunk rows can be downloaded: each object its    *)
(* rows point at is there and was made with that version's session key, so *)
(* reference counting in deleteFileVersion never took an object a row      *)
(* still needs and no two uploads wrote to one storage key. And the        *)
(* current version has chunk rows: it is no upload that did not finish.    *)
VersionsDownloadable ==
  /\ \A v \in rows : chunk[v] # None =>
        \A c \in Chunks : blob[chunk[v]][c] = key[v]
  /\ \E v \in RowNumbered(file.cur) : chunk[v] # None

(* A download returns only chunks encrypted with the session key it        *)
(* returns, whatever happened between its reads.                           *)
DownloadDecrypts ==
  \A r \in Req : At(r, "dlDone") => \A v \in h[r].vs : key[v] = h[r].key

(* While an evidence hold is on the file, no version with content goes     *)
(* away, and neither does an object one of them points at.                 *)
HoldFreezesVersions ==
  [][file.held /\ file'.held =>
       \A v \in rows : chunk[v] # None =>
          /\ v \in rows'
          /\ \A c \in Chunks : blob[chunk[v]][c] # None =>
                               blob'[chunk[v]][c] # None]_vars

(* The retention prune gets rid of every past version beyond the           *)
(* entitlement, although only files with version_count > 1 are scanned and *)
(* a prune may die half way through its loop.                              *)
RetentionEnforced == Excess(file.cur) # {} ~> Excess(file.cur) = {}

(* chunk-upload: "so a retry starts clean" - the row of an upload that     *)
(* failed does not keep the next replacement's number taken for ever.      *)
RetryStartsClean ==
  (\E v \in RowNumbered(file.cur + 1) : ~InProgress(v))
     ~> ~(\E v \in RowNumbered(file.cur + 1) : ~InProgress(v))
=============================================================================
