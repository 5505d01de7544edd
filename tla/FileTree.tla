------------------------------ MODULE FileTree ------------------------------
(***************************************************************************)
(* One user's drive: the tree of files and folders (files.parent_id), its  *)
(* trash (files.deleted_at), the first upload of a file, and everything    *)
(* that deletes rows and R2 objects for good: purge, empty, the nightly    *)
(* expiry of the trash and the sweep of uploads that were given up.        *)
(*                                                                         *)
(* Each await that touches shared state is a step. The constant Apart      *)
(* names the pairs of operations that do not overlap in an instance: the   *)
(* code has no lock between any two of them, so whatever a property needs  *)
(* there is a race the code leaves open.                                   *)
(*                                                                         *)
(* Simplifications.                                                        *)
(*  - The personal drive of one owner; workspaces and sharing are left     *)
(*    out, and so are the keys of new rows (see FileRotation).             *)
(*  - The chunks and versions of a file are one object with one chunk row  *)
(*    (see FileVersions).                                                  *)
(*  - deleted_at is the number of the trash operation that set it.         *)
(***************************************************************************)
EXTENDS Naturals, FiniteSets

CONSTANTS
  Folders, Files, \* the ids rows may get
  Root,           \* the parent of what lies at the top of the drive
  Old,            \* the nodes the drive starts with
  Slot,           \* slots for requests being handled
  MaxTrash,       \* bound: trash operations that trash something
  MaxFault,       \* bound: crashes plus failed object deletes in a behaviour
  Apart,          \* pairs {o, p} of operations that do not overlap
  Ops,            \* the operations in this instance
  Faults          \* the faults in this instance

Node == Folders \cup Files
Live == 0

OpTag == {"create", "abandon", "slow", "reject", "finalize", "trash", "restore",
          "nested", "purge", "folders", "empty", "expire", "sweep", "move",
          "hold"}
FaultTag == {"crash", "halfway", "objects", "hold", "chunks"}

ASSUME NodeAssumption ==
  Folders \cap Files = {} /\ Root \notin Node /\ Old \subseteq Node
ASSUME BoundAssumption == MaxTrash \in Nat /\ MaxFault \in Nat
ASSUME TagAssumption == Ops \subseteq OpTag /\ Faults \subseteq FaultTag

VARIABLES
  rows,      \* the rows of files
  parent,    \* parent[n]: parent_id
  stamp,     \* stamp[n]: deleted_at, or Live
  complete,  \* rows with upload_complete
  held,      \* rows with evidence_hold_at
  chunk,     \* files with rows in file_chunks
  object,    \* files with objects in R2
  client,    \* client[n]: how far the client that creates n has come
  clock,     \* trash operations so far
  aged,      \* stamps up to this one are more than 30 days old
  faults,    \* faults so far
  s          \* s[i]: program counter and locals of the request in slot i

vars == <<rows, parent, stamp, complete, held, chunk, object, client, clock,
          aged, faults, s>>

Op == {"none", "create", "finalize", "trash", "restore", "purge", "empty",
       "expire", "sweep", "move"}

PC == {"idle", "crParent", "crInsert", "fnRow", "fnMeasure", "fnChunks", "fnFlip",
       "trHold", "trMark", "rsRow", "rsMark", "puRow", "puKeys", "puHeld",
       "emList", "emHeld", "exList", "keys", "objects", "delete", "swList",
       "mvRow", "mvDest", "mvWalk", "mvUpdate"}

Idle == [pc |-> "idle", op |-> "none", node |-> Root, dest |-> Root,
         ids |-> {}, keys |-> {}]

TypeOK ==
  /\ rows \subseteq Node
  /\ parent \in [Node -> Node \cup {Root}]
  /\ stamp \in [Node -> 0..MaxTrash]
  /\ complete \subseteq rows /\ held \subseteq complete
  /\ chunk \subseteq Files \cap rows
  /\ object \subseteq Files
  /\ client \in [Node -> {"none", "open", "gone", "done"}]
  /\ clock \in 0..MaxTrash /\ aged \in 0..clock
  /\ faults \in 0..MaxFault
  /\ s \in [Slot -> [pc: PC, op: Op, node: Node \cup {Root},
                     dest: Node \cup {Root}, ids: SUBSET Node,
                     keys: SUBSET Files]]

-----------------------------------------------------------------------------
(* The tree.                                                               *)

\* n and everything below it that is reached through nodes of Q: what every
\* set contains that contains n and, with a node, its children in Q.
Closed(n, Q) ==
  {S \in SUBSET (Q \cup {n}) : n \in S /\ \A c \in Q : parent[c] \in S => c \in S}
Below(n, Q) == LET C == Closed(n, Q) IN {m \in Q \cup {n} : \A S \in C : m \in S}

\* What the user can navigate to: complete, live, in live folders.
Shown == Below(Root, {n \in complete : stamp[n] = Live}) \ {Root}

Trashed == {n \in rows : stamp[n] # Live}

\* getTrashedForUser: a trashed node whose parent was not trashed with it.
TopOfTrash ==
  {n \in Trashed \cap complete :
     parent[n] \in Trashed \cap complete => stamp[parent[n]] # stamp[n]}

(* A drive with some folders and files in it, none in the trash.           *)
Init ==
  /\ rows = Old /\ complete = Old
  /\ parent \in {p \in [Node -> Folders \cup {Root}] :
                   \A n \in Node : IF n \in Old THEN p[n] \in Old \cup {Root}
                                                ELSE p[n] = Root}
  /\ Old \subseteq Below(Root, Old)
  /\ stamp = [n \in Node |-> Live]
  /\ held = {}
  /\ chunk = Old \cap Files /\ object = Old \cap Files
  /\ client = [n \in Node |-> IF n \in Old THEN "done" ELSE "none"]
  /\ clock = 0 /\ aged = 0 /\ faults = 0
  /\ s = [i \in Slot |-> Idle]

-----------------------------------------------------------------------------
At(i, pc)  == s[i].pc = pc
Goto(i, p) == s' = [s EXCEPT ![i].pc = p]
Return(i)  == s' = [s EXCEPT ![i] = Idle]

MayRun(op) ==
  \A i \in Slot : s[i].op = "none" \/ {op, s[i].op} \notin Apart

Start(i, op, pc, n, d) ==
  /\ At(i, "idle") /\ MayRun(op)
  /\ s' = [s EXCEPT ![i] = [Idle EXCEPT !.pc = pc, !.op = op, !.node = n,
                                        !.dest = d]]

Errs(tag) == tag \in Faults /\ faults < MaxFault /\ faults' = faults + 1
Ok == UNCHANGED faults

-----------------------------------------------------------------------------
(* Creating a folder, and the init of an upload.                           *)

StartCreate(i, n, p) ==
  /\ "create" \in Ops
  /\ Start(i, "create", IF p = Root THEN "crInsert" ELSE "crParent", n, p)
  /\ client[n] = "none"
  /\ client' = [client EXCEPT ![n] = "done"]
  /\ UNCHANGED <<rows, parent, stamp, complete, held, chunk, object, clock, aged,
                 faults>>

\* getEffectivePermission: the owner has a key row while the parent exists.
CreateCheckParent(i) ==
  /\ At(i, "crParent")
  /\ IF s[i].dest \in rows THEN Goto(i, "crInsert") ELSE Return(i)
  /\ UNCHANGED <<rows, parent, stamp, complete, held, chunk, object, client, clock,
                 aged, faults>>

CreateInsert(i) ==
  LET n == s[i].node IN
  /\ At(i, "crInsert")
  /\ IF s[i].dest \in rows \cup {Root}   \* parent_id references files
       THEN /\ rows' = rows \cup {n}
            /\ parent' = [parent EXCEPT ![n] = s[i].dest]
            /\ complete' = IF n \in Folders THEN complete \cup {n} ELSE complete
            /\ client' = IF n \in Files THEN [client EXCEPT ![n] = "open"] ELSE client
       ELSE UNCHANGED <<rows, parent, complete, client>>
  /\ Return(i)
  /\ UNCHANGED <<stamp, held, chunk, object, clock, aged, faults>>

(* The uploading client: PUTs, or it goes away and never comes back.       *)
PutObject(n) ==
  /\ client[n] = "open"
  /\ object' = object \cup {n}
  /\ UNCHANGED <<rows, parent, stamp, complete, held, chunk, client, clock, aged,
                 faults, s>>

Abandon(n) ==
  /\ "abandon" \in Ops
  /\ client[n] = "open"
  /\ client' = [client EXCEPT ![n] = "gone"]
  /\ UNCHANGED <<rows, parent, stamp, complete, held, chunk, object, clock, aged,
                 faults, s>>

(* Finalize of the first version.                                          *)
StartFinalize(i, n) ==
  /\ Start(i, "finalize", "fnRow", n, Root)
  /\ client[n] = "open" /\ n \in object
  /\ client' = [client EXCEPT ![n] = "done"]
  /\ UNCHANGED <<rows, parent, stamp, complete, held, chunk, object, clock, aged,
                 faults>>

FinalizeReadRow(i) ==
  /\ At(i, "fnRow")
  /\ IF s[i].node \in rows THEN Goto(i, "fnMeasure") ELSE Return(i)
  /\ UNCHANGED <<rows, parent, stamp, complete, held, chunk, object, client, clock,
                 aged, faults>>

\* Mutant: a refusal by the quota purges the objects and goes on.
FinalizeMeasureGoesOn(i) ==
  /\ At(i, "fnMeasure")
  /\ Goto(i, "fnChunks")
  /\ object' \in {object, object \ {s[i].node}}
  /\ UNCHANGED <<rows, parent, stamp, complete, held, chunk, client, clock, aged,
                 faults>>

\* measureAndCheck: an absent object or the quota refuses; the latter purges.
FinalizeMeasure(i) ==
  LET n == s[i].node IN
  /\ At(i, "fnMeasure")
  /\ \/ n \in object /\ Goto(i, "fnChunks") /\ object' = object
     \/ n \notin object /\ Return(i) /\ object' = object
     \/ "reject" \in Ops /\ n \in object /\ Return(i) /\ object' = object \ {n}
  /\ UNCHANGED <<rows, parent, stamp, complete, held, chunk, client, clock, aged,
                 faults>>

FinalizeInsertChunks(i) ==
  LET n == s[i].node IN
  /\ At(i, "fnChunks")
  /\ IF n \in rows THEN chunk' = chunk \cup {n} /\ Goto(i, "fnFlip")
                   ELSE chunk' = chunk /\ Return(i)
  /\ UNCHANGED <<rows, parent, stamp, complete, held, object, client, clock, aged,
                 faults>>

FinalizeFlip(i) ==
  /\ At(i, "fnFlip")
  /\ complete' = complete \cup ({s[i].node} \cap rows)
  /\ Return(i)
  /\ UNCHANGED <<rows, parent, stamp, held, chunk, object, client, clock, aged,
                 faults>>

-----------------------------------------------------------------------------
(* Trash and restore.                                                      *)

StartTrash(i, n) ==
  /\ "trash" \in Ops
  /\ Start(i, "trash", "trHold", n, Root)
  /\ UNCHANGED <<rows, parent, stamp, complete, held, chunk, object, client, clock,
                 aged, faults>>

TrashCheckHold(i) ==
  /\ At(i, "trHold")
  /\ \/ Ok /\ IF s[i].node \in held THEN Return(i) ELSE Goto(i, "trMark")
     \/ Errs("hold") /\ Goto(i, "trMark")
  /\ UNCHANGED <<rows, parent, stamp, complete, held, chunk, object, client, clock,
                 aged>>

\* The subtree soft_delete_subtree takes.
TrashSet(n) ==
  IF n \in rows \ Trashed THEN Below(n, rows \ Trashed) ELSE {}

TrashMark(i) ==
  LET T == TrashSet(s[i].node) IN
  /\ At(i, "trMark")
  /\ IF T # {} /\ clock < MaxTrash
       THEN /\ clock' = clock + 1
            /\ stamp' = [n \in Node |-> IF n \in T THEN clock + 1 ELSE stamp[n]]
       ELSE UNCHANGED <<clock, stamp>>
  /\ Return(i)
  /\ UNCHANGED <<rows, parent, complete, held, chunk, object, client, aged, faults>>

\* Tag "nested": a node whose folder is in the trash may be restored too.
StartRestore(i, n) ==
  /\ "restore" \in Ops
  /\ Start(i, "restore", "rsRow", n, Root)
  /\ parent[n] \notin Trashed \/ "nested" \in Ops
  /\ UNCHANGED <<rows, parent, stamp, complete, held, chunk, object, client, clock,
                 aged, faults>>

RestoreReadRow(i) ==
  /\ At(i, "rsRow")
  /\ IF s[i].node \in Trashed THEN Goto(i, "rsMark") ELSE Return(i)
  /\ UNCHANGED <<rows, parent, stamp, complete, held, chunk, object, client, clock,
                 aged, faults>>

\* The subtree restore_subtree takes. Mutant: whenever it was trashed.
RestoreSetAll(n) == Below(n, Trashed)
RestoreSet(n) ==
  IF n \in Trashed THEN Below(n, {m \in Trashed : stamp[m] = stamp[n]}) ELSE {}

RestoreMark(i) ==
  LET R == RestoreSet(s[i].node) IN
  /\ At(i, "rsMark")
  /\ stamp' = [n \in Node |-> IF n \in R THEN Live ELSE stamp[n]]
  /\ Return(i)
  /\ UNCHANGED <<rows, parent, complete, held, chunk, object, client, clock, aged,
                 faults>>

-----------------------------------------------------------------------------
(* Deleting for good: the storage keys are gathered, the objects deleted,  *)
(* then the rows. files.parent_id has no ON DELETE CASCADE.                *)

\* Mutant: file_chunks rows stay behind.
DeleteRowsOnly(T) ==
  IF \E n \in rows \ T : parent[n] \in T
    THEN UNCHANGED <<rows, complete, held, chunk>>
    ELSE /\ rows' = rows \ T
         /\ complete' = complete \ T
         /\ held' = held \ T
         /\ chunk' = chunk

DeleteRows(T) ==
  IF \E n \in rows \ T : parent[n] \in T
    THEN UNCHANGED <<rows, complete, held, chunk>>
    ELSE /\ rows' = rows \ T
         /\ complete' = complete \ T
         /\ held' = held \ T
         /\ chunk' = chunk \ T

\* Purge of one trashed subtree. Tag "folders": it may have nodes below it.
StartPurge(i, n) ==
  /\ "purge" \in Ops
  /\ Start(i, "purge", "puRow", n, Root)
  /\ "folders" \in Ops \/ \A m \in rows : parent[m] # n
  /\ UNCHANGED <<rows, parent, stamp, complete, held, chunk, object, client, clock,
                 aged, faults>>

PurgeReadRow(i) ==
  /\ At(i, "puRow")
  /\ IF s[i].node \in Trashed \ held THEN Goto(i, "puKeys") ELSE Return(i)
  /\ UNCHANGED <<rows, parent, stamp, complete, held, chunk, object, client, clock,
                 aged, faults>>

PurgeReadKeys(i) ==
  LET n == s[i].node IN
  /\ At(i, "puKeys")
  /\ s' = [s EXCEPT ![i].pc = "puHeld", ![i].ids = {n},
                    ![i].keys = IF n \in rows THEN Below(n, rows) \cap chunk ELSE {}]
  /\ UNCHANGED <<rows, parent, stamp, complete, held, chunk, object, client, clock,
                 aged, faults>>

PurgeCheckHeld(i) ==
  /\ At(i, "puHeld")
  /\ IF s[i].keys \cap held # {} THEN Return(i) ELSE Goto(i, "objects")
  /\ UNCHANGED <<rows, parent, stamp, complete, held, chunk, object, client, clock,
                 aged, faults>>

(* trash/empty.                                                            *)
StartEmpty(i) ==
  /\ "empty" \in Ops
  /\ Start(i, "empty", "emList", Root, Root)
  /\ Trashed # {}
  /\ UNCHANGED <<rows, parent, stamp, complete, held, chunk, object, client, clock,
                 aged, faults>>

\* Mutant: it lists what the trash view shows.
EmptyListTops(i) ==
  /\ At(i, "emList")
  /\ IF TopOfTrash = {} THEN Return(i)
     ELSE s' = [s EXCEPT ![i].pc = "emHeld", ![i].ids = TopOfTrash]
  /\ UNCHANGED <<rows, parent, stamp, complete, held, chunk, object, client, clock,
                 aged, faults>>

EmptyList(i) ==
  /\ At(i, "emList")
  /\ IF Trashed = {} THEN Return(i)
     ELSE s' = [s EXCEPT ![i].pc = "emHeld", ![i].ids = Trashed]
  /\ UNCHANGED <<rows, parent, stamp, complete, held, chunk, object, client, clock,
                 aged, faults>>

\* Mutant: held files are looked for among the tops of the trash only.
EmptyBlockedTop(ids) == ids \cap held \cap TopOfTrash # {}
EmptyBlocked(ids) == ids \cap held # {}

EmptyCheckHeld(i) ==
  /\ At(i, "emHeld")
  /\ IF EmptyBlocked(s[i].ids) THEN Return(i) ELSE Goto(i, "keys")
  /\ UNCHANGED <<rows, parent, stamp, complete, held, chunk, object, client, clock,
                 aged, faults>>

(* cron/expire-trash: held nodes and the expired folders above them stay.  *)
Expired == {n \in Trashed : stamp[n] <= aged}

StartExpire(i) ==
  /\ "expire" \in Ops
  /\ Start(i, "expire", "exList", Root, Root)
  /\ UNCHANGED <<rows, parent, stamp, complete, held, chunk, object, client, clock,
                 aged, faults>>

\* Mutant: only the held nodes themselves are excluded.
ExpirableBesideHeld == Expired \ held
Expirable == {n \in Expired : Below(n, Expired) \cap held = {}}

ExpireList(i) ==
  /\ At(i, "exList")
  /\ IF Expirable = {} THEN Return(i)
     ELSE s' = [s EXCEPT ![i].pc = "keys", ![i].ids = Expirable]
  /\ UNCHANGED <<rows, parent, stamp, complete, held, chunk, object, client, clock,
                 aged, faults>>

(* admin/cleanup-stale: uploads of more than 24 hours ago, one by one.     *)
(* Tag "slow": their client may still be at it.                            *)
Stale == {n \in rows \ complete : client[n] # "open" \/ "slow" \in Ops}

StartSweep(i) ==
  /\ "sweep" \in Ops
  /\ Start(i, "sweep", "swList", Root, Root)
  /\ Stale # {}
  /\ UNCHANGED <<rows, parent, stamp, complete, held, chunk, object, client, clock,
                 aged, faults>>

SweepNext(i, ids) ==
  IF ids = {} THEN Return(i)
  ELSE \E n \in ids : s' = [s EXCEPT ![i].pc = "keys", ![i].node = n,
                                     ![i].ids = ids, ![i].keys = {}]

SweepList(i) ==
  /\ At(i, "swList")
  /\ SweepNext(i, Stale)
  /\ UNCHANGED <<rows, parent, stamp, complete, held, chunk, object, client, clock,
                 aged, faults>>

(* What empty, expiry and sweep have in common.                            *)

Targets(i) == IF s[i].op = "sweep" THEN {s[i].node} ELSE s[i].ids

\* The crons take an error of this read for "no chunks".
ReadKeys(i) ==
  /\ At(i, "keys")
  /\ \/ Ok /\ s' = [s EXCEPT ![i].pc = "objects", ![i].keys = Targets(i) \cap chunk]
     \/ /\ s[i].op \in {"expire", "sweep"} /\ Errs("chunks")
        /\ Goto(i, "objects")
  /\ UNCHANGED <<rows, parent, stamp, complete, held, chunk, object, client, clock,
                 aged>>

\* deleteBlobs: best effort, an error is logged and the rows go all the same.
DeleteObjects(i) ==
  /\ At(i, "objects")
  /\ \/ Ok /\ object' = object \ s[i].keys
     \/ Errs("objects") /\ \E S \in SUBSET s[i].keys : object' = object \ S
  /\ Goto(i, "delete")
  /\ UNCHANGED <<rows, parent, stamp, complete, held, chunk, client, clock, aged>>

\* empty deletes what is in the trash by now, the others what they listed.
Doomed(i) == IF s[i].op = "empty" THEN Trashed ELSE Targets(i)

FinishDelete(i) ==
  /\ At(i, "delete")
  /\ DeleteRows(Doomed(i) \cap rows)
  /\ IF s[i].op = "sweep" THEN SweepNext(i, s[i].ids \ {s[i].node}) ELSE Return(i)
  /\ UNCHANGED <<parent, stamp, object, client, clock, aged, faults>>

-----------------------------------------------------------------------------
(* Moving n into folder d, or to the top.                                  *)

StartMove(i, n, d) ==
  /\ "move" \in Ops
  /\ Start(i, "move", "mvRow", n, d)
  /\ parent[n] # d
  /\ UNCHANGED <<rows, parent, stamp, complete, held, chunk, object, client, clock,
                 aged, faults>>

MoveReadRow(i) ==
  LET n == s[i].node IN
  /\ At(i, "mvRow")
  /\ IF n \in rows \ Trashed /\ parent[n] # s[i].dest
       THEN Goto(i, IF s[i].dest = Root THEN "mvUpdate" ELSE "mvDest")
       ELSE Return(i)
  /\ UNCHANGED <<rows, parent, stamp, complete, held, chunk, object, client, clock,
                 aged, faults>>

\* A folder is compared with its destination and all that lies above it.
\* Mutant: with the destination only.
MoveReadDestOnly(i) ==
  /\ At(i, "mvDest")
  /\ IF s[i].dest \in rows \ Trashed /\ s[i].node # s[i].dest
       THEN Goto(i, "mvUpdate") ELSE Return(i)
  /\ UNCHANGED <<rows, parent, stamp, complete, held, chunk, object, client, clock,
                 aged, faults>>

MoveReadDest(i) ==
  LET n == s[i].node
      d == s[i].dest IN
  /\ At(i, "mvDest")
  /\ IF d \in rows \ Trashed /\ n # d
       THEN s' = [s EXCEPT ![i].pc = IF n \in Folders THEN "mvWalk" ELSE "mvUpdate",
                           ![i].ids = {d}]
       ELSE Return(i)
  /\ UNCHANGED <<rows, parent, stamp, complete, held, chunk, object, client, clock,
                 aged, faults>>

\* isDescendantOf, one read per level; ids holds the level being read. A row
\* that is gone by then is taken for the top.
MoveWalk(i) ==
  /\ At(i, "mvWalk")
  /\ \E m \in s[i].ids :
       IF m \in rows /\ parent[m] = s[i].node THEN Return(i)
       ELSE IF m \notin rows \/ parent[m] = Root THEN s' = [s EXCEPT ![i].pc = "mvUpdate", ![i].ids = {}]
       ELSE s' = [s EXCEPT ![i].ids = {parent[m]}]
  /\ UNCHANGED <<rows, parent, stamp, complete, held, chunk, object, client, clock,
                 aged, faults>>

MoveUpdate(i) ==
  LET n == s[i].node IN
  /\ At(i, "mvUpdate")
  /\ IF n \in rows /\ s[i].dest \in rows \cup {Root}
       THEN parent' = [parent EXCEPT ![n] = s[i].dest]
       ELSE parent' = parent
  /\ Return(i)
  /\ UNCHANGED <<rows, stamp, complete, held, chunk, object, client, clock, aged,
                 faults>>

-----------------------------------------------------------------------------
(* Trust and safety sets or clears a hold; time passes; handlers die.      *)

SetHold(n) ==
  /\ "hold" \in Ops
  /\ n \in complete /\ MayRun("hold")
  /\ held' = IF n \in held THEN held \ {n} ELSE held \cup {n}
  /\ UNCHANGED <<rows, parent, stamp, complete, chunk, object, client, clock, aged,
                 faults, s>>

Age ==
  /\ aged < clock
  /\ aged' = aged + 1
  /\ UNCHANGED <<rows, parent, stamp, complete, held, chunk, object, client, clock,
                 faults, s>>

\* Tag "halfway": between the deletes of the objects and of the rows.
Crash(i) ==
  /\ s[i].pc # "idle"
  /\ Errs(IF s[i].pc = "delete" THEN "halfway" ELSE "crash")
  /\ Return(i)
  /\ UNCHANGED <<rows, parent, stamp, complete, held, chunk, object, client, clock,
                 aged>>

Handler(i) ==
  \/ CreateCheckParent(i) \/ CreateInsert(i)
  \/ FinalizeReadRow(i) \/ FinalizeMeasure(i) \/ FinalizeInsertChunks(i)
  \/ FinalizeFlip(i)
  \/ TrashCheckHold(i) \/ TrashMark(i) \/ RestoreReadRow(i) \/ RestoreMark(i)
  \/ PurgeReadRow(i) \/ PurgeReadKeys(i) \/ PurgeCheckHeld(i)
  \/ EmptyList(i) \/ EmptyCheckHeld(i) \/ ExpireList(i) \/ SweepList(i)
  \/ ReadKeys(i) \/ DeleteObjects(i) \/ FinishDelete(i)
  \/ MoveReadRow(i) \/ MoveReadDest(i) \/ MoveWalk(i) \/ MoveUpdate(i)

\* What a browser asks for concerns what the drive or the trash shows it.
Place == (Shown \cap Folders) \cup {Root}

Begin(i) ==
  \/ StartEmpty(i) \/ StartExpire(i) \/ StartSweep(i)
  \/ \E n \in Files : StartFinalize(i, n)
  \/ \E n \in TopOfTrash : StartRestore(i, n) \/ StartPurge(i, n)
  \/ \E n \in Shown : StartTrash(i, n)
  \/ \E n \in Node, d \in Place : StartCreate(i, n, d)
  \/ \E n \in Shown, d \in Place : StartMove(i, n, d)

Next ==
  \/ \E i \in Slot : Handler(i) \/ Crash(i) \/ (At(i, "idle") /\ Begin(i))
  \/ \E n \in Node : PutObject(n) \/ Abandon(n) \/ SetHold(n)
  \/ Age

Spec == Init /\ [][Next]_vars

\* A started request runs on until it answers or dies, and the nightly expiry
\* keeps coming whatever requests occupy the model's slots.
FairSpec ==
  /\ Spec
  /\ \A i \in Slot : WF_vars(Handler(i))
  /\ SF_vars(\E i \in Slot : StartExpire(i))

-----------------------------------------------------------------------------
(* Properties.                                                             *)

(* delete: "blobs stay in R2 so a user can restore them from the Trash     *)
(* view" - a file that is live and complete has its chunk rows and its     *)
(* objects, whatever was trashed, restored and deleted around it.          *)
LiveFilesIntact ==
  (complete \cap Files) \ Trashed \subseteq chunk \cap object

(* Every live node can be navigated to: it lies in live folders all the    *)
(* way up to the top of the drive, in no cycle and under no trashed folder *)
(* (where neither the drive nor the trash would list it).                  *)
LiveNodesShown == complete \ Trashed \subseteq Shown

(* Restoring a node undoes one trash operation as a whole - the nodes it   *)
(* trashed and no others - so a file the user trashed earlier stays in the *)
(* trash when its folder comes back.                                       *)
RestoreUndoesTrash ==
  [][\A n \in Trashed : n \in rows' /\ stamp'[n] = Live =>
       \A m \in rows : IF stamp[m] = stamp[n] THEN stamp'[m] = Live
                                              ELSE stamp'[m] = stamp[m]]_vars

(* A held node, its objects included, outlives every way of deleting it,   *)
(* also when it lies deep in a folder that was trashed and purged.         *)
HeldSurvives ==
  [][\A n \in (held \cap held') \cup (held \ rows') :
       n \in rows' /\ (n \in object => n \in object')]_vars

(* No row with chunk rows is deleted before its objects: afterwards        *)
(* nobody would know their storage keys.                                   *)
ObjectsGoFirst == [][(chunk \ rows') \cap object' = {}]_vars

(* What was trashed more than 30 days ago goes, unless the user restores   *)
(* it or something held lies in it: no foreign key, however the trash is   *)
(* nested, makes the nightly batch fail for ever.                          *)
Sheltered(n) == n \notin Expired \/ Below(n, rows) \cap held # {}
ExpiredTrashGoes == \A n \in Node : ~Sheltered(n) ~> Sheltered(n)
=============================================================================
