---------------------------- MODULE FileRotation ----------------------------
(***************************************************************************)
(* Sharing of ONE file that is not inside a folder, and the rotation that  *)
(* revokes a collaborator with forward secrecy.                            *)
(*                                                                         *)
(* Every rotation mints an ERA: a hierarchical keypair, a session key and  *)
(* a storage prefix. A collaborator's file_keys row wraps the private key  *)
(* of one era and opens the file when that is the era of the files row.    *)
(* rotate-commit is a sequence of single statements, without transaction:  *)
(* each is a step, other requests come between, and any may be the last.   *)
(*                                                                         *)
(* Simplifications.                                                        *)
(*  - Every collaborator is an editor; workspaces and inherited access are *)
(*    left out, and so are the wraps' sender keys.                         *)
(*  - The objects of a rotation are one value, its prefix. The objects of  *)
(*    uploaded replacements, their prune and their restore are the subject *)
(*    of FileVersions; here a replacement is only its rows.                *)
(*  - An activity slot holds a request, and for a replacement also the     *)
(*    client's PUTs between new-version-init and finalize.                 *)
(***************************************************************************)
EXTENDS Integers, FiniteSets

CONSTANTS
  Users,      \* everybody who may hold a key
  Owner,      \* the owner of the file
  Slot,       \* slots for requests being handled
  MaxEra,     \* bound: rotations ever prepared by a client
  MaxRow,     \* bound: file_versions rows ever inserted
  MaxFault,   \* bound: faults in a behaviour
  Overlap,    \* TRUE: requests interleave; FALSE: one at a time
  Ops,        \* the operations in this instance
  Faults      \* the faults in this instance

OpTag == {"rotate", "tabs", "resend", "reject", "share", "unshare", "leave",
          "link", "upload", "hold"}
FaultTag == {"crash", "locked", "linked", "max"}

ASSUME OwnerAssumption == Owner \in Users
ASSUME BoundAssumption == MaxEra \in Nat /\ MaxRow \in Nat \ {0} /\ MaxFault \in Nat
ASSUME TagAssumption == Ops \subseteq OpTag /\ Faults \subseteq FaultTag
ASSUME OverlapIsBoolean == Overlap \in BOOLEAN

None == -1
Eras == 0..MaxEra
Era  == Eras \cup {None}

VARIABLES
  file,     \* the files row: cur, hier, wrap (era the session key is wrapped to), held
  rows,     \* the file_versions rows: id, num, hier, pre (prefix), full (has chunk rows)
  next,     \* id the next row gets
  keys,     \* keys[u]: era u's file_keys row wraps, None without a row
  link,     \* link[u]: era wrapped in u's active public link, or None
  blob,     \* prefixes of eras whose objects are in R2
  rot,      \* rot[e]: the client's side of rotation e
  since,    \* since[u]: era as of which u's access was removed, None when u may have it
  spared,   \* whoever's removal missed a link: it died half way, or the link was
            \* past its check (a history variable)
  faults,   \* faults so far
  s         \* s[i]: program counter and locals of slot i

vars == <<file, rows, next, keys, link, blob, rot, since, spared, faults, s>>

PC == {"idle", "acl", "old", "measure", "max", "version", "chunks", "flip",
       "dropChunks", "dropVersions", "grant", "revoke", "links", "blobs",
       "shCheck", "shExisting", "shGrant", "unKey", "unLinks",
       "lnCheck", "lnInsert", "upInsert", "upRead", "upChunks", "upFlip"}

IdleSlot == [pc |-> "idle", e |-> None, actor |-> Owner, user |-> Owner,
             old |-> {}, num |-> 0, row |-> 0]

TypeOK ==
  /\ file \in [cur: 0..MaxRow, hier: Eras, wrap: Eras, held: BOOLEAN]
  /\ rows \subseteq [id: 1..MaxRow, num: 1..MaxRow, hier: Eras, pre: Era, full: BOOLEAN]
  /\ next \in 1..MaxRow+1
  /\ keys \in [Users -> Era] /\ link \in [Users -> Era] /\ since \in [Users -> Era]
  /\ blob \subseteq Eras /\ spared \subseteq Users
  /\ rot \in [Eras -> [state: {"none", "ready", "sent", "again", "failed", "done"},
                       rem: SUBSET Users, out: Users, retried: BOOLEAN]]
  /\ faults \in 0..MaxFault
  /\ s \in [Slot -> [pc: PC, e: Era, actor: Users, user: Users,
                     old: SUBSET Era, num: 0..MaxRow+1, row: 0..MaxRow]]

(* The uploaded file, shared with everybody.                               *)
Init ==
  /\ file = [cur |-> 1, hier |-> 0, wrap |-> 0, held |-> FALSE]
  /\ rows = {[id |-> 1, num |-> 1, hier |-> 0, pre |-> 0, full |-> TRUE]}
  /\ next = 2
  /\ keys = [u \in Users |-> 0]
  /\ link = [u \in Users |-> None]
  /\ blob = {0}
  /\ rot = [e \in Eras |-> [state |-> "none", rem |-> {}, out |-> Owner,
                            retried |-> FALSE]]
  /\ since = [u \in Users |-> None]
  /\ spared = {} /\ faults = 0
  /\ s = [i \in Slot |-> IdleSlot]

-----------------------------------------------------------------------------
At(i, pc)     == s[i].pc = pc
Goto(i, pc)   == s' = [s EXCEPT ![i].pc = pc]
Return(i)     == s' = [s EXCEPT ![i] = IdleSlot]
Start(i, rec) == s' = [s EXCEPT ![i] = rec]

CanStart(i) ==
  /\ At(i, "idle")
  /\ Overlap \/ \A j \in Slot : At(j, "idle")

Holders == {u \in Users : keys[u] # None}
Taken(n) == \E v \in rows : v.num = n

\* chunk-download of the current version followed by the client's decryption.
Readable ==
  /\ file.wrap = file.hier
  /\ \E v \in rows : /\ v.num = file.cur /\ v.hier = file.hier /\ v.full
                     /\ v.pre = None \/ v.pre \in blob

Answer(e, state) == rot' = [rot EXCEPT ![e].state = state]

-----------------------------------------------------------------------------
(* The client of rotation e: download, decrypt, list the collaborators,    *)
(* upload under the new prefix, commit; on 409 list again, commit once     *)
(* more. Tag "tabs": a second tab rotates at the same time. Tag "resend":  *)
(* the same payload is committed again after a failure.                    *)

\* Whoever the owner's client lists among those who stay has access again.
GivenBack(users) == [u \in Users |-> IF u \in users THEN None ELSE since[u]]

OneTab == "tabs" \in Ops \/ \A d \in Eras : rot[d].state \in {"none", "failed", "done"}

PrepareRotation(e, u) ==
  /\ "rotate" \in Ops
  /\ \A d \in Eras : d < e /\ d # 0 => rot[d].state # "none"
  /\ e # 0 /\ rot[e].state = "none"
  /\ OneTab
  /\ Readable /\ keys[Owner] = file.hier /\ ~file.held
  /\ u \in Holders \ {Owner}
  /\ rot' = [rot EXCEPT ![e] = [state |-> "ready", rem |-> Holders \ {u},
                                out |-> u, retried |-> FALSE]]
  /\ blob' = blob \cup {e}
  /\ since' = GivenBack(Holders \ {u})
  /\ UNCHANGED <<file, rows, next, keys, link, spared, faults, s>>

ListAgain(e) ==
  /\ rot[e].state = "again"
  /\ rot' = [rot EXCEPT ![e] = [@ EXCEPT !.state = "ready", !.retried = TRUE,
                                         !.rem = Holders \ {rot[e].out}]]
  /\ since' = GivenBack(Holders \ {rot[e].out})
  /\ UNCHANGED <<file, rows, next, keys, link, blob, spared, faults, s>>

Resend(e) ==
  /\ "resend" \in Ops
  /\ rot[e].state = "failed" /\ OneTab
  /\ \A d \in Eras : d > e => rot[d].state = "none"
  /\ Answer(e, "ready")
  /\ UNCHANGED <<file, rows, next, keys, link, blob, since, spared, faults, s>>

-----------------------------------------------------------------------------
(* rotate-commit.                                                          *)

StartCommit(i, e) ==
  /\ CanStart(i)
  /\ rot[e].state = "ready"
  /\ Answer(e, "sent")
  /\ Start(i, [IdleSlot EXCEPT !.pc = "acl", !.e = e])
  /\ UNCHANGED <<file, rows, next, keys, link, blob, since, spared, faults>>

Fail(i) == Answer(s[i].e, "failed") /\ Return(i)

\* Mutant: no check that the payload names every current collaborator.
AclMatchesAny(p) == p.out \in Holders
AclMatches(p) == Holders = p.rem \cup {p.out}

RotateCheckAcl(i) ==
  LET p == rot[s[i].e] IN
  /\ At(i, "acl")
  /\ IF AclMatches(p) THEN rot' = rot /\ Goto(i, "old")
     ELSE /\ Answer(s[i].e, IF p.retried THEN "failed" ELSE "again")
          /\ Return(i)
  /\ UNCHANGED <<file, rows, next, keys, link, blob, since, spared, faults>>

\* Mutant: the new chunks may be the ones already registered.
ReusesNothing(e, old) == FALSE
Reuses(e, old) == e \in old

RotateReadOldChunks(i) ==
  LET old == {v.pre : v \in {w \in rows : w.full}} IN
  /\ At(i, "old")
  /\ IF Reuses(s[i].e, old) THEN Fail(i)
     ELSE /\ s' = [s EXCEPT ![i].pc = "measure", ![i].old = old]
          /\ rot' = rot
  /\ UNCHANGED <<file, rows, next, keys, link, blob, since, spared, faults>>

RotateMeasure(i) ==
  LET e == s[i].e IN
  /\ At(i, "measure")
  /\ \/ e \in blob /\ Goto(i, "max") /\ UNCHANGED <<rot, blob>>
     \/ e \notin blob /\ Fail(i) /\ UNCHANGED blob
     \/ "reject" \in Ops /\ e \in blob /\ Fail(i) /\ blob' = blob \ {e}
  /\ UNCHANGED <<file, rows, next, keys, link, since, spared, faults>>

Errs(tag) == tag \in Faults /\ faults < MaxFault /\ faults' = faults + 1

\* max(version_number) + 1; an error of the read is ignored and gives 1.
IsMaxNumber(m) == (m = 0 \/ Taken(m)) /\ \A v \in rows : v.num <= m

RotateReadMax(i) ==
  /\ At(i, "max")
  /\ \/ \E m \in 0..MaxRow : /\ IsMaxNumber(m) /\ UNCHANGED faults
                             /\ s' = [s EXCEPT ![i].pc = "version", ![i].num = m + 1]
     \/ Errs("max") /\ s' = [s EXCEPT ![i].pc = "version", ![i].num = 1]
  /\ UNCHANGED <<file, rows, next, keys, link, blob, rot, since, spared>>

\* UNIQUE(file_id, version_number); the bound MaxRow fails the same way.
Refused(n) == Taken(n) \/ next > MaxRow \/ n > MaxRow

InsertRow(n, hier, pre) ==
  /\ rows' = rows \cup {[id |-> next, num |-> n, hier |-> hier, pre |-> pre,
                         full |-> FALSE]}
  /\ next' = next + 1

RotateInsertVersion(i) ==
  /\ At(i, "version")
  /\ IF Refused(s[i].num) THEN Fail(i) /\ UNCHANGED <<rows, next>>
     ELSE /\ InsertRow(s[i].num, s[i].e, s[i].e)
          /\ s' = [s EXCEPT ![i].pc = "chunks", ![i].row = next]
          /\ rot' = rot
  /\ UNCHANGED <<file, keys, link, blob, since, spared, faults>>

\* The chunk rows of version row id; the insert fails when that row is gone.
Exists(id) == \E v \in rows : v.id = id
FillRow(id) == rows' = {[v EXCEPT !.full = @ \/ v.id = id] : v \in rows}

RotateInsertChunks(i) ==
  /\ At(i, "chunks")
  /\ IF Exists(s[i].row) THEN FillRow(s[i].row) /\ Goto(i, "flip") /\ rot' = rot
                         ELSE rows' = rows /\ Fail(i)
  /\ UNCHANGED <<file, next, keys, link, blob, since, spared, faults>>

RotateFlip(i) ==
  /\ At(i, "flip")
  /\ file' = [file EXCEPT !.cur = s[i].num, !.hier = s[i].e, !.wrap = s[i].e]
  /\ since' = [since EXCEPT ![rot[s[i].e].out] = s[i].e]
  /\ Goto(i, "dropChunks")
  /\ UNCHANGED <<rows, next, keys, link, blob, rot, spared, faults>>

\* Mutant: the clean-up keeps the version that was current before.
KeptBefore(id) == {v \in rows : v.id = id - 1}
Kept(id) == {v \in rows : v.id = id}

RotateDropChunks(i) ==
  /\ At(i, "dropChunks")
  /\ rows' = {[v EXCEPT !.full = @ /\ v \in Kept(s[i].row)] : v \in rows}
  /\ Goto(i, "dropVersions")
  /\ UNCHANGED <<file, next, keys, link, blob, rot, since, spared, faults>>

RotateDropVersions(i) ==
  /\ At(i, "dropVersions")
  /\ rows' = Kept(s[i].row)
  /\ Goto(i, "grant")
  /\ UNCHANGED <<file, next, keys, link, blob, rot, since, spared, faults>>

\* Mutant: the payload replaces the table.
NewWrapsOnly(p, e) == [u \in p.rem |-> e]
\* Mutant: the upsert follows the rows in the table, not the payload.
NewWrapsAll(p, e) == [u \in Users |-> IF keys[u] # None THEN e ELSE None]
NewWraps(p, e) == [u \in Users |-> IF u \in p.rem THEN e ELSE keys[u]]

RotateGrant(i) ==
  /\ At(i, "grant")
  /\ keys' = NewWraps(rot[s[i].e], s[i].e)
  /\ Goto(i, "revoke")
  /\ UNCHANGED <<file, rows, next, link, blob, rot, since, spared, faults>>

RotateRevoke(i) ==
  LET u == rot[s[i].e].out IN
  /\ At(i, "revoke")
  /\ keys' = [keys EXCEPT ![u] = None]
  /\ Goto(i, "links")
  /\ UNCHANGED <<file, rows, next, link, blob, rot, since, spared, faults>>

\* Mutant: the links made by u stay active.
LinksLeft(u) == link
WithoutLinks(u) == [link EXCEPT ![u] = None]

\* A link of u is past its check and not inserted yet.
LinkDue(u) == \E k \in Slot : At(k, "lnInsert") /\ s[k].user = u

RetireLinks(u) ==
  /\ link' = WithoutLinks(u)
  /\ spared' = IF LinkDue(u) THEN spared \cup {u} ELSE spared \ {u}

RotateRevokeLinks(i) ==
  /\ At(i, "links")
  /\ RetireLinks(rot[s[i].e].out)
  /\ Answer(s[i].e, "done")
  /\ Goto(i, "blobs")
  /\ UNCHANGED <<file, rows, next, keys, blob, since, faults>>

\* The detached deleteBlobs may or may not outlive the response.
RotateDeleteObjects(i) ==
  /\ At(i, "blobs")
  /\ blob' \in {blob, blob \ s[i].old}
  /\ Return(i)
  /\ UNCHANGED <<file, rows, next, keys, link, rot, since, spared, faults>>

-----------------------------------------------------------------------------
(* Sharing: actor a wraps the private key of the era it knows for user u.  *)

StartShare(i, a, u) ==
  /\ "share" \in Ops
  /\ CanStart(i)
  /\ keys[a] = file.hier /\ u # a
  /\ Start(i, [IdleSlot EXCEPT !.pc = "shCheck", !.e = keys[a],
                               !.actor = a, !.user = u])
  /\ UNCHANGED <<file, rows, next, keys, link, blob, rot, since, spared, faults>>

ShareCheckAccess(i) ==
  /\ At(i, "shCheck")
  /\ IF keys[s[i].actor] = None \/ s[i].user = Owner
       THEN Return(i) ELSE Goto(i, "shExisting")
  /\ UNCHANGED <<file, rows, next, keys, link, blob, rot, since, spared, faults>>

ShareCheckExisting(i) ==
  /\ At(i, "shExisting")
  /\ IF keys[s[i].user] # None /\ s[i].actor # Owner
       THEN Return(i) ELSE Goto(i, "shGrant")
  /\ UNCHANGED <<file, rows, next, keys, link, blob, rot, since, spared, faults>>

\* u is invited again, unless the wrap is older than u's removal.
ShareGrant(i) ==
  LET u == s[i].user IN
  /\ At(i, "shGrant")
  /\ keys' = [keys EXCEPT ![u] = s[i].e]
  /\ since' = [since EXCEPT ![u] = IF s[i].e >= @ THEN None ELSE @]
  /\ Return(i)
  /\ UNCHANGED <<file, rows, next, link, blob, rot, spared, faults>>

(* unshare by the owner and leave by the collaborator: no rotation.        *)

StartUnshare(i, u) ==
  /\ Ops \cap {"unshare", "leave"} # {}
  /\ CanStart(i)
  /\ u \in Holders \ {Owner}
  /\ Start(i, [IdleSlot EXCEPT !.pc = "unKey", !.user = u])
  /\ UNCHANGED <<file, rows, next, keys, link, blob, rot, since, spared, faults>>

UnshareKey(i) ==
  /\ At(i, "unKey")
  /\ keys' = [keys EXCEPT ![s[i].user] = None]
  /\ since' = [since EXCEPT ![s[i].user] = file.hier]
  /\ Goto(i, "unLinks")
  /\ UNCHANGED <<file, rows, next, link, blob, rot, spared, faults>>

UnshareLinks(i) ==
  /\ At(i, "unLinks")
  /\ RetireLinks(s[i].user)
  /\ Return(i)
  /\ UNCHANGED <<file, rows, next, keys, blob, rot, since, faults>>

(* A public link made by u.                                                *)

StartLink(i, u) ==
  /\ "link" \in Ops
  /\ CanStart(i)
  /\ keys[u] = file.hier
  /\ Start(i, [IdleSlot EXCEPT !.pc = "lnCheck", !.e = keys[u], !.user = u])
  /\ UNCHANGED <<file, rows, next, keys, link, blob, rot, since, spared, faults>>

LinkCheckAccess(i) ==
  /\ At(i, "lnCheck")
  /\ IF keys[s[i].user] = None THEN Return(i) ELSE Goto(i, "lnInsert")
  /\ UNCHANGED <<file, rows, next, keys, link, blob, rot, since, spared, faults>>

LinkInsert(i) ==
  /\ At(i, "lnInsert")
  /\ link' = [link EXCEPT ![s[i].user] = s[i].e]
  /\ Return(i)
  /\ UNCHANGED <<file, rows, next, keys, blob, rot, since, spared, faults>>

-----------------------------------------------------------------------------
(* The owner uploads a replacement, wrapped to the era of the files row.   *)

StartUpload(i) ==
  /\ "upload" \in Ops
  /\ CanStart(i)
  /\ ~file.held
  /\ Start(i, [IdleSlot EXCEPT !.pc = "upInsert", !.e = file.hier,
                               !.num = file.cur + 1])
  /\ UNCHANGED <<file, rows, next, keys, link, blob, rot, since, spared, faults>>

UploadInsertVersion(i) ==
  /\ At(i, "upInsert")
  /\ IF Refused(s[i].num) THEN Return(i) /\ UNCHANGED <<rows, next>>
     ELSE /\ InsertRow(s[i].num, s[i].e, None)
          /\ s' = [s EXCEPT ![i].pc = "upRead", ![i].row = next]
  /\ UNCHANGED <<file, keys, link, blob, rot, since, spared, faults>>

UploadReadVersion(i) ==
  /\ At(i, "upRead")
  /\ IF Exists(s[i].row) THEN Goto(i, "upChunks") ELSE Return(i)
  /\ UNCHANGED <<file, rows, next, keys, link, blob, rot, since, spared, faults>>

UploadInsertChunks(i) ==
  /\ At(i, "upChunks")
  /\ IF Exists(s[i].row) THEN FillRow(s[i].row) /\ Goto(i, "upFlip")
                         ELSE rows' = rows /\ Return(i)
  /\ UNCHANGED <<file, next, keys, link, blob, rot, since, spared, faults>>

UploadFlip(i) ==
  /\ At(i, "upFlip")
  /\ file' = [file EXCEPT !.cur = s[i].num, !.wrap = s[i].e]
  /\ Return(i)
  /\ UNCHANGED <<rows, next, keys, link, blob, rot, since, spared, faults>>

-----------------------------------------------------------------------------
SetHold ==
  /\ "hold" \in Ops
  /\ file' = [file EXCEPT !.held = ~@]
  /\ UNCHANGED <<rows, next, keys, link, blob, rot, since, spared, faults, s>>

\* The handler dies or throws: between the flip and the new wraps only with
\* the tag "locked", before a removed user's links go only with "linked".
Locking == {"dropChunks", "dropVersions", "grant"}

Committing == {"acl", "old", "measure", "max", "version", "chunks", "flip",
               "revoke", "links"} \cup Locking

\* Whose access is gone, and whose links are next.
Removed(r) == CASE r.pc = "unLinks" -> {r.user}
                [] r.pc = "links"   -> {rot[r.e].out}
                [] OTHER            -> {}

Crash(i) ==
  /\ s[i].pc # "idle"
  /\ Errs(CASE s[i].pc \in Locking -> "locked"
           [] s[i].pc = "unLinks"  -> "linked"
           [] OTHER                -> "crash")
  /\ IF s[i].pc \in Committing THEN Fail(i) ELSE rot' = rot /\ Return(i)
  /\ spared' = spared \cup {u \in Removed(s[i]) : link[u] = file.hier \/ LinkDue(u)}
  /\ UNCHANGED <<file, rows, next, keys, link, blob, since>>

Rotate(i) ==
  \/ RotateCheckAcl(i) \/ RotateReadOldChunks(i) \/ RotateMeasure(i)
  \/ RotateReadMax(i) \/ RotateInsertVersion(i) \/ RotateInsertChunks(i)
  \/ RotateFlip(i) \/ RotateDropChunks(i) \/ RotateDropVersions(i)
  \/ RotateGrant(i) \/ RotateRevoke(i) \/ RotateRevokeLinks(i)
  \/ RotateDeleteObjects(i)
Grant(i) ==
  \/ ShareCheckAccess(i) \/ ShareCheckExisting(i) \/ ShareGrant(i)
  \/ UnshareKey(i) \/ UnshareLinks(i) \/ LinkCheckAccess(i) \/ LinkInsert(i)
Upload(i) ==
  \/ UploadInsertVersion(i) \/ UploadReadVersion(i) \/ UploadInsertChunks(i)
  \/ UploadFlip(i)

Next ==
  \/ \E i \in Slot : \/ Rotate(i) \/ Grant(i) \/ Upload(i) \/ Crash(i)
                     \/ StartUpload(i)
                     \/ \E e \in Eras : StartCommit(i, e)
                     \/ \E u \in Users :
                          \/ StartUnshare(i, u) \/ StartLink(i, u)
                          \/ \E a \in Users : StartShare(i, a, u)
  \/ \E e \in Eras : \/ ListAgain(e) \/ Resend(e)
                     \/ \E u \in Users : PrepareRotation(e, u)
  \/ SetHold

Spec == Init /\ [][Next]_vars

\* A request runs on until it answers or dies, and the rotating client goes on:
\* it commits what it prepared, lists again on 409 and resends after a failure.
FairSpec ==
  /\ Spec
  /\ \A i \in Slot : WF_vars(Rotate(i) \/ Grant(i) \/ Upload(i))
  /\ \A e \in Eras : /\ WF_vars(ListAgain(e)) /\ WF_vars(Resend(e))
                     /\ WF_vars(\E i \in Slot : StartCommit(i, e))

-----------------------------------------------------------------------------
(* Properties.                                                             *)

(* The current version can always be read by whoever holds the key of the  *)
(* files row's era: rotate-commit deletes versions, chunk rows and objects *)
(* one statement at a time and never one that the files row still needs.   *)
CurrentReadable == Readable

(* Somebody whose access was removed - by rotation, unshare or leave - does *)
(* not hold the key of that era or of a later one, unless a share of that   *)
(* era, or a rotation prepared since, gave it to them.                      *)
RevokedLosesAccess ==
  \A u \in Users : since[u] # None => keys[u] < since[u]

(* Between requests, unless the last rotation was cut short, every         *)
(* file_keys row opens the file: nobody is listed as a collaborator with a *)
(* key of an era that is gone.                                             *)
GrantsOpenFile ==
  (\A i \in Slot : At(i, "idle")) /\ rot[file.hier].state \in {"none", "done"} =>
     \A u \in Holders : keys[u] = file.hier

(* Between requests, a public link that opens the file belongs to somebody *)
(* with access to it (files.ts: it must not outlive that access), but for  *)
(* those whose removal died before their links went, or went past a link   *)
(* that had been checked and not inserted.                                 *)
LinkNeedsAccess ==
  (\A i \in Slot : At(i, "idle")) =>
     \A u \in Users \ spared : link[u] = file.hier => keys[u] # None

(* rotate-commit: when it dies between the flip of the files row and the   *)
(* new file_keys rows, a retry gives the owner the new key.                *)
OwnerRegainsAccess ==
  keys[Owner] # file.hier ~> keys[Owner] = file.hier
=============================================================================
