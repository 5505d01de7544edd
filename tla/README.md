# SecureWarp: a TLA+ model of the encrypted file service

SecureWarp stores end-to-end encrypted files. A Next.js application on
Cloudflare Workers keeps rows in Postgres (through PostgREST) and ciphertext
objects in R2; the browser holds the keys. Paths below are relative to the
repository (`src/` is its root, so its own sources are under `src/src/`).

What makes the service hard to get right is the same everywhere: a route
handler is a sequence of awaits, each **one** Postgres statement or one call to
R2, without a transaction around them. Between two awaits any other request may
run, the Worker may die at any of them, and several handlers do not look at the
`error` of a read. The modules here take every such await as a step.

## 1. Inventory

Entities: `files` (a file or folder, `parent_id`, `deleted_at`,
`upload_complete`, `current_version_number`, `version_count`, the session-key
wrap of the current version, `parent_keys_claim`), `file_versions`,
`file_chunks` (storage keys, cascade with their version), `file_keys` (who holds
a wrap of the hierarchical private key), `public_links`, evidence holds
(`reports`), `users` (credentials, second factor, suspension), `sessions`,
`srp_sessions`, `billing_subscriptions`, and the R2 objects. The schema is in
`src/README.md` (about lines 150-760).

| Component | State | Operations | Hard behaviour | What makes it correct | Module |
|---|---|---|---|---|---|
| Version history of a file | `files` columns, `file_versions`, `file_chunks`, objects | new-version-init, PUTs, finalize, restore, delete, prune (inline, cron), download | unchecked reads, number allocation, objects shared by restored versions, abandoned uploads | the current row exists and has content; a version with chunk rows can be decrypted; retention ends; holds freeze | `FileVersions` |
| Sharing and forward-secret revocation | `file_keys`, `public_links`, `files` era | share, unshare, leave, link, rotate-init, rotate-commit | nine statements without a transaction, a retry, concurrent shares | whoever was revoked holds no later key; the file stays readable; nobody is locked out | `FileRotation` |
| Initial upload and clean-up | incomplete `files` row, objects | init, PUT, finalize, cleanup-stale | sweep against finalize, abandoned objects | a finalized file is not swept; nothing leaks | `FileTree`, `Upload` |
| Trash | `deleted_at` over a tree, objects | delete, restore, purge, empty, expire-trash | list-then-delete against restore and hold; `parent_id` without cascade | live files keep their objects; held files survive | `FileTree` |
| Folders, move | `parent_id` | create, move, rename | concurrent moves | the tree has no cycle | `FileTree` |
| Folder key rotation, inherited access | folder row, `parent_keys_claim` of children, `file_keys` | folder-rotate-context, rotate-folder-commit, create in, move into, share | children changed while the folder is rotated, cached keys, payloads made earlier | who opens a folder opens what is in it; who was revoked does not open what is added | `FolderKeys` |
| Login, sessions, second factor, recovery, passkeys | `users`, `srp_sessions`, `sessions`, cookies | init, verify, code, passkey, sign-outs, change, recover, suspend, 2FA set-up | sign-in against sign-out, two tabs with one cookie jar, one code sent twice | no session a sign-out finds survives it; no orphaned row; a code passes once; nobody is asked for a factor they lack | `LoginSessions` |
| Client pipeline | promises per chunk, the session key's bytes, page, service worker and browser | uploadFile, putChunkWithRetry, downloadFile, the sinks | bounded concurrency, stragglers, refreshed URLs, messages that cross, a worker that is killed | done only when every chunk has landed, unless the other side dropped the file; a verdict comes and stays; bounded memory | `Upload`, `Download`, `Transfers` |
| Billing | subscriptions at Stripe, their rows, the panel | checkout, abandon, change-plan, cancel, webhook, status | events late, twice, out of order, lost; payments while handlers run | the rows converge to Stripe; what is paid is not canceled by a clean-up | `Billing` |
| Public links | `public_links` | create, view, download, revoke, expire | counting downloads, revocation | a dead link opens nothing | (creation and retirement in `FileRotation`) |
| Quota | usage derived from rows | check before insert | concurrent uploads | usage bounded by the entitlement | - |
| Workspaces | membership and key rows, seats | invite, remove, leave, transfer, delete | two statements per change; seats counted first | no key without membership, owner exists, seats bounded | - |
| Trust and safety | holds, suspensions | report actions | checked before and outside what it forbids | a held file is frozen | (holds, suspension in the modules above) |
| Realtime, notifications, caches, cryptography, admin, pages | - | - | best effort, or third-party | not modelled (section 7) | - |

The components meet in the rows they share. Uploads, restores, rotations and
the prune all move `files.current_version_number` and write `file_versions`;
deletes, prunes, purges and sweeps remove objects that rows of another
component may still name; `rotate-commit`, `rotate-folder-commit` and the sharing
routes write `file_keys`, claims and `public_links`; a hold is read by delete,
prune and purge. Sessions gate every route, but no route but those of
`LoginSessions` writes them. The client's pipeline meets the server in the
objects and in the row that finalize completes. Interaction is by shared rows,
and by the client, which calls routes in a fixed order and abandons or repeats
them; between page and service worker it is by messages.

`PROJECT.json` lists the hazards, each at its line, with the property that
covers it.

## 2. Conventions

* **A step is an await.** Every statement against Postgres and every call to R2
  that touches modelled state is one action; the program counter of a request
  (`h[r].pc`, `s[i].pc`) names the await it is about to take, its locals are the
  other fields of the record. What a handler computes between two awaits belongs
  to the step before it. Reads whose result nothing depends on are left out.
* **Requests run in slots.** `Req` / `Slot` is a set of slots, so its size is the
  number of requests that are handled at once. `Overlap = FALSE` (in `FileTree`:
  the pairs of `Apart`) keeps requests from overlapping without taking away their
  steps: a crash can still fall between any two.
* **Ids are never reused, rows are sets.** The bounds (`MaxVer`, `MaxRow`,
  `MaxEra`, `MaxTrash`, and `MaxSent` of `MCFolderKeys`) limit how many ids, eras,
  stamps or requests a behaviour uses up; the action that would exceed one is not taken, as if the request failed.
* **Faults are tags.** `Faults` names what may go wrong in an instance, `MaxFault`
  how often: a handler dies between two awaits (`crash`), or a statement reports
  an error that the code does not look at (one tag per such read).
* **Pairs are kept apart by name.** `Apart`, `ApartTab` (and `Races`, which lists
  the pairs of an instance) say which requests do not overlap. Nothing in the code
  keeps them apart: a pair is there because, overlapping, it breaks a property, or
  because its steps commute and the run is smaller so; section 4 says which is which.
* **Operations are tags too.** `Ops` names what users, clients and crons do in an
  instance. Some tags are not operations of their own but habits (`late`,
  `during`, `nested`, ...) that a run can leave out. Section 4 says for each what
  a run without it does not see and which properties break when it is added.
* **Keys are ideal.** A wrap opens with its key and with nothing else.

`MC<Module>.tla` holds the model values and small sets of the instances; the
`.cfg` files set the bounds and tags.

## 3. Plan

Done, in this order because the first is the data everything else points at:

1. `FileVersions`, `FileVersions_proofs` - the history of one file.
2. `FileRotation`, `FileRotation_proofs` - who can open it, and revocation with
   forward secrecy.
3. `FileTree`, `FileTree_proofs` - the drive around it: trash, deletion for good,
   moves, first uploads.
4. `FolderKeys`, `FolderKeys_proofs` - inherited access, the claims that carry
   it, and the rotation of a folder.
5. `LoginSessions`, `LoginSessions_proofs` - who is signed in, and stays so.
6. `Transfer` (abstract), `Chunked`, `Upload`, `Download`, `Transfers` and their
   proofs - the client's pipeline, and that it implements what the panel promises.
7. `Billing`, `Billing_proofs` - the mirror of Stripe.

Left, most important first:

8. `AtomicRotation` - what a rotation promises: one step from an era to the next,
   for exactly the remaining collaborators; `FileRotation` shown to implement it
   (the linearisation point being the upsert of the new wraps) when no commit is
   cut short between the flip and the wraps.
9. `Workspaces` with `Quota` (seats and usage counted before the insert), the
   pool of crypto workers, views and downloads of public links.

## 4. The modules

### 4.1 FileVersions

One file after its first upload: `file` is its row of `files` (current number,
session-key wrap, `version_count`, hold), `rows`/`num`/`key`/`chunk` its
`file_versions` rows with the prefix their `file_chunks` rows point into,
`blob[p][c]` the object under `v{p}/chunk-{c}` with the key it was encrypted
with, `upload`/`put` the client's side of each upload.

| Code | Actions |
|---|---|
| `chunk-upload` new-version-init | `StartNewVersion`, `InsertVersion` (or `InsertRefused`: UNIQUE) |
| the client's chunk loop | `PutChunk`, `Abandon`, `StartFinalize` |
| `chunk-upload` finalize, `measureAndCheck` | `FinalizeReadVersion`, `FinalizeMeasure`, `FinalizePurge`, `FinalizeDrop`, `FinalizeInsertChunks`, `FinalizeCommit` |
| `versions/[versionId]/restore`, `restoreFileVersion` | `StartRestore`, `RestoreReadChunks`, `RestoreReadMax`, `InsertVersion`, `RestoreCopyChunks`, `RestoreCommit` |
| `versions/[versionId]` DELETE, `deleteFileVersion` | `StartDelete`, `DeleteCheckHold`, `DeleteCheckCurrent`, `DeleteReadChunks`, `DeleteRow`, `DeleteCountRefs`, `DeleteObjects`, `CountRows`, `SetCount` |
| `version-prune`, `cron/prune-versions` | `StartPrune` (or inline after a finalize or restore), `PruneReadFile`, `PruneList`, the delete loop above, `PruneSkip` |
| `chunk-download` | `StartDownload`, `DownloadReadVersion`, `DownloadReadChunks`, `FinishDownload` |
| evidence hold | `SetHold` |

What the passing runs leave out, and what each breaks when added:

| Tag | Behaviour | Breaks |
|---|---|---|
| fault `current` | the delete route's read of the current number fails, its error is ignored | `CurrentRowExists`, also serially |
| fault `refs` | the reference count fails and counts as none | `VersionsDownloadable` |
| fault `max` | the read of the highest number fails in a restore | `VersionsDownloadable`, `HoldFreezesVersions` |
| fault `hold` | `isFileOnHold` fails and answers no | `HoldFreezesVersions` |
| fault `download` | the download's read of the version row fails: every chunk row is served | `DownloadDecrypts` |
| `late` | PUTs of an abandoned upload land after its number was given to the next | `VersionsDownloadable` (two chunks) |
| `restoreEmpty` | a version without chunk rows is restored (the client does not offer it) | `VersionsDownloadable` |
| `during` with `restore` and `delete`, seven rows | a restore passes an upload in progress, whose finalize then sets the current number back (finding 6) | `VersionsDownloadable` |
| `restore` with two crashes, four rows | a finalize and a restore die one after the other before their commit (finding 6) | `VersionsDownloadable` |
| `during` with `deletePending` | the version of an unfinished upload is deleted while the upload goes on | `VersionsDownloadable` |
| overlapping with `delete`, `expire` or `VersionCount` below the versions there are | list-then-delete against restore and finalize | `CurrentRowExists`, `VersionsDownloadable`, `DownloadDecrypts` |
| `restore` under the retention run | a restore that dies after its version row leaves the count, and with it the cron's selection, too low | `RetentionEnforced` |

`FileVersionsSerial` has all of these but fault `current`, the second crash and
the overlap: `CurrentRowExists` survives them (and the second crash, by the theorem
of section 6). What breaks `VersionsDownloadable` needs a version
that goes, so that its number or its objects do: while nothing is deleted it
survives `late` and any overlap, too (`GrowingVersionsDownloadable`).

### 4.2 FileRotation

One file outside any folder and the people it is shared with. Each rotation mints
an era (keypair, session key, storage prefix); `keys[u]` is the era whose private
key user u's `file_keys` row wraps, `file.hier` the era of the files row,
`file.wrap` the era its session key is wrapped to, `link[u]` the era in u's public
link, `rot[e]` the rotating client, `since[u]` a history variable: the era as of
which u's access was taken away. `spared` is one, too: whoever's removal left a link
behind, because it died before it got to the links or because the link had been
checked and not inserted; a later removal that gets through clears it.

| Code | Actions |
|---|---|
| `rotateAndRevoke` in the browser, `rotate-init` and the PUTs | `PrepareRotation`, `StartCommit`, `ListAgain` (409), `Resend` (after a failure) |
| `rotate-commit`, one action per statement | `RotateCheckAcl`, `RotateReadOldChunks`, `RotateMeasure`, `RotateReadMax`, `RotateInsertVersion`, `RotateInsertChunks`, `RotateFlip`, `RotateDropChunks`, `RotateDropVersions`, `RotateGrant`, `RotateRevoke`, `RotateRevokeLinks`, `RotateDeleteObjects` |
| `share` | `StartShare`, `ShareCheckAccess`, `ShareCheckExisting`, `ShareGrant` |
| `unshare`, `leave` | `StartUnshare`, `UnshareKey`, `UnshareLinks` |
| `link/create` | `StartLink`, `LinkCheckAccess`, `LinkInsert` |
| a replacement (rows only) | `StartUpload`, `UploadInsertVersion`, `UploadReadVersion`, `UploadInsertChunks`, `UploadFlip` |

| Added | Breaks |
|---|---|
| `tabs`: a second tab rotates meanwhile | `RevokedLosesAccess` (also serially: the second tab prepared its wraps before the revocation), `CurrentReadable` |
| overlapping `upload`: a replacement begun before a rotation finalizes after it | `CurrentReadable` (its session key is wrapped to the discarded keypair) |
| overlapping `unshare` or `leave`: the commit's upsert gives the wrap back | `RevokedLosesAccess` |
| overlapping `share`: a wrap of the old era granted between the commit's comparison and its last write | `GrantsOpenFile`, which is therefore of the serial run and not of `FileRotationOverlap` |
| fault `locked`: the commit dies between flip and wraps | `OwnerRegainsAccess` (finding 3); the properties of the passing runs hold with it |

### 4.3 FileTree

The drive of one user: `rows`, `parent`, `stamp` (which trash operation set
`deleted_at`), `complete`, `held`, `chunk` (files with chunk rows), `object`
(files with objects), `client` (the uploading browser), `clock` and `aged` (trash
operations so far, and those more than 30 days ago).

| Code | Actions |
|---|---|
| `folder`, `chunk-upload` init | `StartCreate`, `CreateCheckParent`, `CreateInsert` |
| first upload | `PutObject`, `Abandon`, `StartFinalize`, `FinalizeReadRow`, `FinalizeMeasure`, `FinalizeInsertChunks`, `FinalizeFlip` |
| `delete` | `StartTrash`, `TrashCheckHold`, `TrashMark` (`soft_delete_subtree`) |
| `restore` | `StartRestore`, `RestoreReadRow`, `RestoreMark` (`restore_subtree`) |
| `purge` | `StartPurge`, `PurgeReadRow`, `PurgeReadKeys`, `PurgeCheckHeld`, then `DeleteObjects`, `FinishDelete` |
| `trash/empty` | `StartEmpty`, `EmptyList`, `EmptyCheckHeld`, then `ReadKeys`, `DeleteObjects`, `FinishDelete` |
| `cron/expire-trash` | `StartExpire`, `ExpireList`, then the same |
| `admin/cleanup-stale` | `StartSweep`, `SweepList`, then the same for one file after the other |
| `[id]/move`, `isDescendantOf` | `StartMove`, `MoveReadRow`, `MoveReadDest`, `MoveWalk` (one read per level), `MoveUpdate` |
| evidence hold, time | `SetHold`, `Age` |

`DeleteRows` is the foreign keys of the schema: chunk rows go with their file, but
a row with children cannot be deleted, and then the whole statement fails.

There is no lock between any two of these routes. To find out which overlaps
matter, each pair of operations was overlapped with everything else apart; these
are the pairs that break something, and the constant `Races` lists exactly them:

| Pair | Breaks | How |
|---|---|---|
| create - trash | `LiveNodesShown` | the row is inserted under a folder trashed since the check |
| trash - move | `LiveNodesShown`, `RestoreUndoesTrash`, `LiveFilesIntact` | a node moves out of, or into, a subtree that is being trashed; a live node under a trashed folder makes the foreign key refuse an empty whose objects are gone by then |
| trash - restore | `LiveNodesShown`, `LiveFilesIntact` | the folder above is trashed while a node is being restored; then as before |
| move - move | `LiveNodesShown` | two moves pass the cycle check and close a cycle |
| trash - empty | `ObjectsGoFirst`, `HeldSurvives` | the last statement deletes what is in the trash by then, listed or not |
| finalize - empty, expire | `ObjectsGoFirst` | chunk rows appear after the list of keys was read |
| finalize - sweep | `LiveFilesIntact`, `ObjectsGoFirst` | the sweep deletes what it listed as incomplete |
| restore - purge, empty, expire | `LiveFilesIntact` | the file comes back after its objects are listed for deletion |
| hold - purge, empty, expire | `HeldSurvives` | the hold is set after it was looked for |

`FileTreeOverlap` lets every other pair overlap, two at a time, and finds nothing;
with a crash at any step added (3.2 million states) it is the same. So these
fourteen pairs are the complete list of the races of two requests, for a drive of
two folders and a file, that break one of these properties. That keeping them apart
is enough for a drive of any size and any number of requests is proved (section 6),
property by property, each from the pairs it needs. `HeldSurvives` needs one that
is not in its rows of the table: finalize - sweep, since with a third actor, a hold
set on the file in between, the sweep deletes what is held.

| Tag | Behaviour | Breaks |
|---|---|---|
| `nested` | a node is restored whose folder is still in the trash (the trash view offers it when the two were trashed at different times) | `LiveNodesShown`; `ExpiredTrashGoes`: the foreign key fails the nightly batch for ever |
| `folders` | a folder that is not empty is purged | `LiveFilesIntact` (finding 4) |
| `slow` | the sweep lists uploads whose client is still at it | nothing |

### 4.4 LoginSessions

One account: `era` of its credentials, `secret`, `pending`, `lastUsed` (the TOTP
columns of `users`), `suspended`; `rows` of `sessions`; `cookie[d]` of each
browser and `hand[d]`, its SRP handshake. `phone` holds the secrets in the
user's authenticator. Two history variables serve one property each: `stale`, the
rows that a sign-out has decided should end or that came while it ran, and `spent`,
the last code accepted.

| Code | Actions |
|---|---|
| `login/init`, expiry of the SRP row | `LoginInit`, `LoginExpire` |
| `login/verify` | `StartVerify`, `VerifyAsksCode`, `VerifyRefuses` |
| `login/verify-2fa` | `StartCode`, `CodeCas` |
| `createSession` and the response | `Prune`, `Insert`, `Reply` |
| `passkey/login-verify` | `StartPasskey` |
| `logout` | `StartLogout`, `LogoutDelete`, `ReplyClear` |
| `sessions/revoke-all`, `revokeAllSessions` | `StartRevokeAll`, `RevokeAll` |
| `sessions` DELETE (all others) | `StartRevokeOthers`, `RevokeOthers` |
| `sessions/[jti]` DELETE | `StartRevokeOne`, `RevokeOne`, `ReplyClear` |
| `admin/.../suspend`, unsuspend | `StartSuspend`, `SuspendRevoke`, `Unsuspend` |
| `change-password` | `StartChange`, `ChangeUser`, `ChangeUpdate`, then `RevokeAll` |
| `recover` | `StartRecover`, `RecoverToken`, `RecoverUpdate` |
| `2fa/setup`, `verify-setup`, `disable` | `StartSetup`, `SetupWrite`, `StartEnable`, `EnableWrite`, `StartDisable`, `DisableWrite` |
| a sign-out that stops between what it has decided and its delete | `Die` |
| time | `Tick` |

Any two requests may overlap but for these pairs (`Races`, `TabRaces`, which the
module defines because the proofs assume them):

| Pair | Breaks | How |
|---|---|---|
| code - recover | `CodeUsedOnce` | recovery clears `totp_last_used_at` between the check and the compare-and-set of a second login with the same code |
| enable - recover | `SecondFactorPassable` | recovery clears the pending secret that enable then puts into force |
| two sign-ins (or a sign-in and a sign-out) of one browser | `NoOrphanSessions` | both replace the row of the cookie they were sent with; the cookie that arrives last hides the other's row |

`MCLoginSessions` keeps apart, besides, the set-up and removal of the second factor
and requests that neither read nor write one once past their checks
(`RacesAndCommuting`): they commute, and this makes the run a quarter smaller.

Sign-ins and sign-outs overlap in every order. What a sign-out promises is the
sessions its delete finds: those there when it decided, and those created while it
ran. The code does not promise more, and its comments do:

| Survives | In the code | Against |
|---|---|---|
| a session created after the delete by a sign-in that had passed its checks, or waited for its code, before | nothing ties a sign-in to a sign-out (`session.ts:219`); `SignOutHolds` does not speak of it | "forces re-login on other devices" (`change-password/route.ts:67`), "Kick them out everywhere" (`suspend/route.ts:55`) once the suspension is lifted |
| every session, when the request dies between `updateUserAuth`, or the suspension, and `revokeAllSessions` | two statements, no transaction; the action `Die` takes what the dead request was to end out of `stale` | the same comments |

Two changes of the credentials at once overwrite each other where `MaxEra` lets
both write: the `UPDATE` does not look at the verifier it replaces.

### 4.5 FolderKeys

A shared folder, a folder in it, a file. `hier[n]` is the era of the keys in n's
row, `wrap[n][u]` the era of u's `file_keys` row, `claim[n]` n's
`parent_keys_claim`: which folder's keys, and which era of them, it is sealed
to, and which era of n's keys it holds. `Derived(u, n)` is what u's client can
unseal on the way down: its own row, or, if the server finds a row of it on a folder
above (`FromAbove`), what the chain of claims from there yields (`Unsealed`).
`ring[u]` remembers every folder key it ever could, and `out[f]` who was revoked
from f.

| Code | Actions |
|---|---|
| `folder`, `chunk-upload` init and finalize | `StartCreate`, `CreateInsert`, `CreateFinal` |
| `[id]/move` | `StartMove`, `MoveUpdate` |
| `share` on a folder | `StartShare`, `ShareGrant` |
| `folder-rotate-context` and the client's re-sealing | `StartRotate` |
| `rotate-folder-commit` | `RotateGuard`, `RotateFolder`, `RotateWraps`, `RotateChild`, `RotateRevoke` |
| a page closed, a handler that dies | `Crash` |

A client takes a folder's public key from its cache before it asks the server
(`SealsTo`; `use-files.ts:495-496`), and nothing between the guards of a rotation and
its last write keeps other payloads out: `rotate-folder-commit` locks nothing. Both are
in the model, and so is a handler that dies after any statement. What they write is
not readable by whom it should be, or is sealed to a key that somebody revoked holds,
so no property of all claims and rows can hold; the three of this module hold of the
claims and rows that are not *stray*. Two history variables, `strayClaim` and
`strayRow`, keep those that are:

| Stray is what | Why the properties cannot have it |
|---|---|
| was written from a payload that was out of date when it was sent: made of a folder key from a cache, of what is stray itself, or of keys read between two writes of a rotation (`OldClaims`, `OldRows`) | the claim is sealed to an old key, which who was revoked has: `NewFilesProtected`, against `src/README.md:1282`, "New files added after rotation: fully protected" |
| was written from a payload that was on its way, made of the folder's keys, when a rotation of the folder passed its guards, or that is sent between them and its first write (`RotateGuard` and `Send` mark it, `AboutToChange`) | the guards count collaborators and children once. A file whose claim was sealed before the flip is inserted after it |
| belongs to a folder that a move takes elsewhere while it is being rotated: its claim is written for the old parent (`SealsOwn`) | nobody opens it from its new one: `ClaimsOpen` |
| a rotation that died had still to write, after its first write: the children it has not come to, the rows, and the row of who was to go (`Crash`) | `ClaimsOpen`, `GrantsOpen`. The comment at `rotate-folder-commit/route.ts:58` calls a retry idempotent; the client keeps no payload, mints other keys, and cannot open the claims that are already sealed to the first ones (`use-files.ts:3265-3300`) |

A row or claim written again from a payload that is not late is stray no more.
None of the exceptions can be spared: with any one of the marks taken out (old claims
by parent, child or node, old rows, `AboutToChange`, either mark of `RotateGuard`,
each of `Crash`, that of `SealsOwn`, each part of `ClaimsBy`) TLC finds one of the
properties violated. What is left is no small promise: a share, a move or an upload that
is sent before a rotation and lands before its guards fails them; one that is sent
after its first write with keys as the server gives them is sound; a rotation does not undo
what another one that overlaps has done, except that it may let somebody back in, whom
`out` then forgets (`RotateWraps`, `out \ who`).

`Apart` lets a request overlap with rotations only, of which there may be two: nothing
else changes the keys that payloads are made from, so two other requests commute as
far as the properties can tell. It is there for the size of the run; the proofs of section 6
need no such limit.

### 4.6 Transfer, Chunked, Upload, Download, Transfers

`Transfer` is the promise to the panel: a record, the chunks that have landed, and
whether the other side has dropped the file; done only when all have landed or the
file was dropped; a verdict never changes; one comes, unless the transfer is turned
away. `Upload` and
`Download` are the two sides of the client, over the object store and the
`files` row that `Chunked` declares; `Transfers` composes them.

| Code | Actions (`Upload`) |
|---|---|
| `uploadFile` (`use-files.ts:1299-1549`) | the loop over chunks, a promise each, `Promise.race` at the window, the final `Promise.all`, finalize, the zeroing of the key on return |
| `putChunkWithRetry` (`net/chunk-upload`), `refresh-urls` | read and encrypt, PUT, retry up to `MaxAttempts`, one refresh of expired URLs |
| `chunk-upload` init, finalize | the row appears, and is completed if every object is there |

| Code | Actions (`Download`) |
|---|---|
| `downloadFile` (`use-files.ts:2005-2186`) | the window of fetches, the drain in order, close and abort |
| `net/download-sink` | the three sinks, the port to the worker, waits with their time-outs |
| `public/download-sw.js` | the worker: takes messages, enqueues, closes, errors, cancels |
| the browser | reads the stream, cancels it, shows the file, kills the worker at any moment |

Mapping. The record is what the panel says, in both. Upload: `landed` is the
chunks stored under the live session key, `dropped` that the upload came to its end
and the server does not have the file (`Rejected`). Download: `landed` is what the
destination has kept, `dropped` that the browser was told to cancel, or that the
worker was killed while it streamed (`Dropped`). Both are checked with their
fairness (`UploadIsTransfer`, `DownloadIsTransfer`), and their safety half is proved
for every size, with no assumption.

So the exceptions are part of the promise, and the code uses each of them:

| Exception | In the code |
|---|---|
| a refused finalize is shown as done | the status of the response is not looked at (`use-files.ts:1474`, 1517-1520) |
| a refused init is shown as uploading for ever | it returns and leaves the record (`use-files.ts:1346-1350`) |
| a download canceled after the last chunk was drained is shown as done | the ack is on its way or has come; the comment at `use-files.ts:2182-2186` ("the bytes really are on disk") says otherwise |
| a download whose worker was killed in mid-stream is shown as done | nothing but the stream keeps the worker alive; the same comment |

### 4.7 Billing

The subscriptions of one customer as Stripe has them (`stripe`, `ending`, `void`,
`paying`), their rows (`row`, `order`), events under way, the panel of each tab.
Three variables are history: `told`, what the user was told last of the end of
each; `late`, the abandons whose subscription was paid after they had read it;
`crossed`, the subscriptions a cancel ended between the two steps of a plan change.

| Code | Actions |
|---|---|
| `billing/checkout` | `StartCheckout`, per stale subscription `CheckoutVoid`, `CheckoutCancel`, `CheckoutDelete`; `CheckoutCreate`, `CheckoutFails`, `CheckoutUpsert` |
| the panel | `Confirm`, `Close`, `Remount` |
| `billing/checkout-abandon` | `AbandonRetrieve`, `AbandonVoid`, `AbandonCancel`, `AbandonDelete` |
| `billing/change-plan` | `StartChange`, `ChangeUpdate`, `ChangeUpsert` |
| `billing/cancel` | `StartCancel`, `CancelUpdate` |
| `billing/webhook` | `Webhook` |
| `billing/status`, `lib/billing/sync` | `StartStatus`, `StatusUpsert`, `StatusAnswer` |
| Stripe (external) | `PaySucceeds`, `PayFails`, `EndPeriod`, `Dunning`, `Emits` |

Requests run in two kinds of slots: checkouts and plan changes (`Fore`), and what
runs besides, a status or an abandon (`Aside`); a cancel or a resumption takes
either, so that it overlaps a plan change of the same tab: `changingBusy` and
`cancelBusy` of the panel do not know of each other, and the dialog of a cancel
closes while its request is under way (`plan-billing-panel.tsx:84`, 102, 652, 669-674).

Two things the code does are exceptions that the properties state, no more:

* A payment succeeds while the abandon of its checkout runs, after it has read the
  subscription as incomplete. The void is refused, the error is caught
  (`checkout-abandon/route.ts:64`), the cancel takes the paid subscription, against
  the comment at lines 23-24 ("active subs aren't touched even if the caller asks").
  `PaidIsSpared` excepts the abandons in `late` and nobody else. The same order
  in checkout is safe, because there an error of the void skips the cancel.
* A cancel reaches Stripe after the update of a plan change and before its answer.
  The subscription ends, and the last thing the user hears is that the plan
  changed, which is to resume it (`change-plan/route.ts:67-74`). `EndsAsTold` excepts
  the subscriptions in `crossed`, until the next cancel, resumption or change.

`MirrorConverges` is conditional on the end of abandons: an abandon drops the
row even if its cancel failed, and the next status brings it back.

## 5. Runs

`tlc -config <Run>.cfg MC<Module>.tla` for the module the run's name begins with;
safety runs take up to four minutes with two workers. `tlapm <Module>_proofs.tla`
checks the proofs.

| Run | Shows | Instance |
|---|---|---|
| `FileVersionsSerial` | `TypeOK`, `CurrentRowExists`: every operation, every fault but `current` | 4 version rows, 1 fault, 1 request; 1.06M states |
| `FileVersionsContent` | `VersionsDownloadable`, `HoldFreezesVersions` | the same with 2 chunks, crashes and two kinds of failing read, no operation while an upload is in progress; 842k |
| `FileVersionsOverlap` | `VersionsDownloadable`, `DownloadDecrypts` for two interleaved requests, nothing for retention to delete | 4 rows, 2 requests, 1 fault; 235k |
| `FileVersionsRetention` | `RetentionEnforced` (liveness) | 4 rows, entitlement 1, 1 crash; 19k |
| `FileRotationSerial` | all five safety properties, a crash at any statement | 3 users, 2 rotations, 3 rows; 2.7M |
| `FileRotationOverlap` | `CurrentReadable`, `RevokedLosesAccess` with a commit interleaved with shares and holds, cut short and resent | 3 users, 2 rotations, 4 rows, 2 slots; 958k |
| `FileTreeOverlap` | all six safety properties, two requests interleaved but for `Races` | 2 folders, 1 file, 2 trash operations; 1.4M |
| `FileTreeExpiry` | `ExpiredTrashGoes` (liveness), with crashes, failing reads and object deletes | 2 folders, 1 file, 2 trash operations, 1 fault; 219k |
| `LoginSessions` | all five properties, two requests interleaved, sign-ins with sign-outs among them, but for `Races`, `TabRaces` and pairs that commute; sign-outs die | 2 browsers, 3 rows, 2 eras, 1 secret, 2 periods, 2 slots; 1.39M |
| `FolderKeys` | `ClaimsOpen`, `GrantsOpen`, `NewFilesProtected` of what is not stray, a rotation interleaved with everything else, keys from caches, a crash at any statement | 2 folders, 1 file, 3 users (one a viewer, who has the folder at the start), 3 eras, 5 requests sent, 2 slots; 1.35M |
| `Transfers` | the invariants of both directions, and both refinements of `Transfer`, liveness included | 4 chunks, window 2, 3 attempts, kills and cancels at any moment; 43k |
| `Billing` | `EndsAsTold`, `PaidIsSpared`, `MirrorConverges` (liveness) | 2 subscriptions, 2 prices, 1 tab, 3 changes, 1 event, a slot of each kind; 534k |

Bounds. Four version rows are a current version, two past ones (one to keep, one
to prune) and one in flight, which is what a restore of a copy of a copy, a
reused number and a prune that loops twice need. Two rotations let the second
overwrite or resend what the first left; three users are the owner, somebody
revoked and somebody who stays. Two folders and a file are the shortest chain in
which a folder lies between; two trash operations are what it takes to tell apart
what one restore has to bring back. Two slots are enough for every race of two
requests; three at once are not checked. One fault per behaviour: each
property that a fault breaks is broken by one, with one exception. The version that
two crashes lose (finding 6) is kept out of `FileVersionsContent` by this bound alone, and
the theorem of section 6 has to assume it away. Two chunks appear where a partial delete or a partial PUT matters
(`FileVersionsContent`), one where chunks move together.

Two browsers and three rows are one session each and one being created; two
periods let a code be sent in its own and in the next. Two eras of a folder are
before and after its rotation. Four chunks and a window of two make the window
fill, slide and drain twice; three attempts are a failure, a refresh and a retry.
Two subscriptions are the least with a stale one and the next; three changes at
Stripe are created, paid and canceled, or created, paid and changed, and one
event on its way may still arrive after any number of later snapshots. What is
left out of these bounds is named with the findings: three requests at once, two
panels that pay for two subscriptions.

Symmetry (slots, chunks, folders, users other than the owner, browsers, rows) is
used in safety runs only.

Deadlock. `FileVersions` never stops: somebody can always download or prune.
The others may come to rest when the bounds on eras, rows, stamps, changes or
periods are used up, or the transfer is over, and nobody has anything left to do,
so their runs switch the check off. That nothing waits for ever is what
`DownloadIsTransfer` and `UploadIsTransfer` say where there is anything to wait for.

Fairness. A handler that was started goes on (`WF` of each slot's steps): the
platform runs it until it answers, and its death is an action, `Crash`, that the
fault bound makes finite. The nightly crons come back (`SF` of their start,
because in the model they compete with users for a slot, which they do not on the
platform); so does the status request of `Billing`, which the sidebar, the panel and
its polling send. In `Transfers` the event loops of page, worker and browser go on
(`WF` of `UploadGoesOn` and `DownloadGoesOn`): a promise that can settle does, a
message posted is taken, a time-out runs out. Users owe nothing: no upload,
download, cancel, hold, restore or payment is ever assumed to happen or to end.
`FairSpec` of `FileRotation` serves finding 3: the rotating client goes on as
`rotateAndRevoke` does, commits what it prepared, lists again on 409 and may send
the payload again, so that not even the most persistent client gets the owner in.

## 6. Proofs

`FileVersions_proofs` holds for every value of the constants: any number of
versions, chunks, slots and faults, any set of operations.

* `TypeCorrect`: `Spec => []TypeOK`. `TypeOK` is not inductive: a handler
  indexes `num`, `key` and `chunk` by the version it carries and stores the
  count it read, so the invariant `TypeInv` adds what each program counter knows of
  its locals (`SlotTyped`: from `finVersion` to `delRow` the slot carries a
  version, at `setCount` a number that fits). `TypeStep` has one lemma per group
  of actions, and under it one step per action and per conjunct the action
  disturbs; `RowsFit` bounds a count of rows by `MaxVer`.
* `SerialCurrentRowExists`: with `Overlap = FALSE` and without fault `current`,
  `Spec => []CurrentRowExists`. Alone it is not inductive: the handler
  that is about to delete a row or to point the files row at one must know which
  row that is. `SerialInv` adds that at most one slot is busy (`Alone`);
  that numbers of rows are unique, ids below `next`, and the current row is not one
  whose upload is open (`HistoryInv`); and per program counter what the busy handler
  has established (`SlotSafe`): the rows it is going to delete, or to drop after a
  refused finalize, do not have the current number, and the row it is going to
  point the files row at exists. The assumption about `current` is necessary: the table of
  section 4.1 has the counterexample.

* `GrowingVersionsDownloadable`, `GrowingDownloadDecrypts`: under `NothingGoes` (no
  delete, expiry or restore of an empty version, and an entitlement no file exceeds)
  `VersionsDownloadable` holds for any number of requests that overlap as they like,
  with late PUTs, crashes and every failing read; and `DownloadDecrypts` without
  fault `download`. Rows still go - a refused finalize drops its own - so numbers
  are used again. `GrowInv` says why that is harmless: the row a prefix was made
  for stays, with its number, as long as somebody points into the prefix (`Kept`);
  a row that an upload or a restore is working on has no chunk rows, and nobody
  else works on it (`OneBuilder`).
* `SerialVersionsDownloadable`, `SerialHoldFreezesVersions`: under `Undisturbed`
  (requests do not overlap; no late PUT, restore of an empty version or delete of an
  unfinished one during its upload; no failing read of the current number, the
  references or the highest number; an entitlement of at least 1; and, where versions
  are restored, no crash and no operation while an upload is in progress)
  `VersionsDownloadable` holds with deletes, retention and expiry, and, without fault
  `hold`, `HoldFreezesVersions`. `ContentInv` says where content is: at or below the
  current number, or, after a finalize that died, under the version's own number; an
  open upload has the number after the current one, so what its PUTs overwrite is
  nobody's (`NextNumberFree`). Per program counter it adds what a restore has to copy
  and that nobody writes there, what a delete has found to be unreferenced, and that
  no open upload is on a prune's list, which follows from ranks and dates
  (`PruneSparesOpen`). The last clause of `Undisturbed` is the result of a proof that
  failed: without it content lies above the current number, and finding 6 is the
  counterexample TLC then found.
* `SerialDownloadDecrypts`: without overlap and the faults `current` and `download`,
  `DownloadDecrypts` holds with deletes, whatever crashes. `ReadInv` carries what the
  download has read so far; it stays true because nothing but clients and
  administrators moves between its reads.

The client's pipeline is proved for any number of chunks, any window and any number of
attempts, in two modules:

* `Transfers_proofs`, its first part. Three invariants of `Upload`, each inductive on
  top of the ones before:
  the types; `WindowInv`, that the loop goes on only while there is room for one
  more promise; `KeyInv`, that ciphertext made after the key was overwritten is
  never in a row that is complete, because finalize is asked for only when every
  promise has succeeded under the live key. `UploadImplementsTransfer`: the initial state maps to the
  initial state of `Transfer`, and every step to one of its steps or a stutter; what
  finalize rejects maps to `Drop`.
* `Download_proofs`. `DownloadInv` is the types and five named parts: chunks are
  written in order (`Ordered`), fetches stay in the window (`Windowed`), what each
  stage of the page has settled (`Stages`), that the two directions of the port
  never run ahead of what was posted (`Port`), and what each message that was
  said commits the stream to (`Spoken`). `Spoken` is the heart: a verdict reaches
  the page as a message, and holds only if what it says stays true while it is
  under way. A cancel and a kill are kept as what they are, `Dropped`, which
  never ends: `DownloadImplementsTransfer` and `DownloadDoneIsWhole` need no
  assumption.
* `Transfers_proofs`, its second part, lifts these to the composition: a behaviour of `Transfers`
  is one of each part with stuttering (`UploadPart`, `DownloadPart`), so
  `TypeCorrect`, `StaysInWindow`, `CompleteStaysReadable`, `FailedStaysUnsaved`
  and `DoneStaysWhole` follow from the parts.

`LoginSessions_proofs` holds for any number of browsers, rows and slots and any
bounds, and it is the one about requests that overlap: `TypeCorrect` and `SignOutsHold` assume nothing, the
other three theorems assume `RacesApart`, that `Apart` and `ApartTab` contain the
pairs of the table in section 4.4, and leave every other pair free. With
`MaxEra = 3` and any one pair of `Races` let go, or any one of `TabRaces` that
`Races` does not keep apart already, TLC finds the violation the table names; all
but `{"verify", "code"}`, a password's and a code's sign-in from one tab, which the
proof asks for and two slots do not show to be needed. `Inv` has five parts beside
the types:

* `SlotInv`: which request may be at which statement (`Placed`), and that no
  two in flight are a pair kept apart (`Together`).
* `StaleInv`: a row that is to end is one that a delete still to come takes
  (`Ends`); it holds for a session created meanwhile because its id is nobody's
  cookie, so no sign-out keeps it. `SignOutsHold` is the case where none is running.
* `CookieInv`: the cookie a sign-in was sent with is still its browser's, and
  once the row behind it is replaced it is not in `rows` any more (`Held`); so
  overwriting the cookie hides no row, which is `NoSessionIsOrphaned`.
* `FactorInv`: a secret on its way into force is in the user's authenticator,
  like the one in force: `SecondFactorStaysPassable`.
* `CodeInv`: the code accepted last is not newer than the recorded period,
  or else its secret is `Retired` - in force nowhere, pending nowhere and carried by no
  request - which is what makes it harmless that recovery clears the record: `CodesPassOnce`, an action
  property.

The eighteen actions of `Step` change this state in few ways. Two lemmas
say which: `Begins` (a request arrives, `Started`) and `Steps` (one that is under
way moves on, `Advanced`); each part of `Inv` is proved against those shapes and then
against only the statements that write what it speaks of.

`FileRotation_proofs` holds for any number of users, requests, eras, rows and
faults. `TypeCorrect` assumes nothing; each of the others assumes only what keeps
out the counterexamples of the table in section 4.2.

* `EraInv` and `RowInv` are what all rest on: eras are prepared in their order, no two
  commits are of one era, a commit past its insert has its own version row, and past
  the flip the files row is of its era.
* `CurrentStaysReadable` (`NoLateUpload`: no overlap, or neither a second tab nor a
  replacement). `CurrentInv` has the current row, whole, outside of what a clean-up
  is going to delete (`Doomed`); `OldInv`, that what a commit has read as old
  belongs to eras that are over, so that a clean-up that runs late takes nothing
  of the current one.
* `RevokedStaysOut` (`NoLateUnshare`: one tab, and no `unshare` or `leave` that
  overlaps). `RevokedInv`: whoever a rotation that may still commit is going to give
  a wrap to has not been revoked since it was prepared. `GrowsInv`: no key and
  no link is of an era ahead of the files row.
* `GrantsKeepOpening` (one request at a time), by `GrantsInv`, which says per program
  counter who the commit has given a wrap to.
* `LinksNeedAccess` (one tab), for every overlap and every crash. `LinkInv`: whoever has
  a link that opens the file, or is about to insert one, has access, or a removal is on
  its way to the link (`Retiring`), or is `spared`. The run has one slot and checks
  the crash; that a link inserted behind a removal is the only other way to keep one is
  what the theorem adds.

`Billing_proofs` holds for any number of subscriptions, tabs and slots.
`TypeCorrect` has most of its work in the operators that order rows, which are
proved correct first: that `Latest` is a row (`LatestIsRow`), that the order stays
the order of the rows when one is dropped (`OrderDrops`) or comes (`OrderGrows`).

* `PaidStaysPaid` assumes nothing. The property is about a step; it needs
  `PaidInv`: an invoice that is void is of a subscription that was not paid then, and
  whoever is about to cancel one has voided it, or has seen it unpaid with no
  payment since, or is an abandon in `late`.
* `UsersAreToldTheTruth` assumes nothing either, one tab or many. `ToldInv`: while
  a plan change is between its two steps the subscription does not end, whatever the user
  thinks; otherwise the user thinks what is so; for any number of overlapping
  changes, and unless the subscription is in `crossed`.

`FolderKeys_proofs` assumes nothing: any tree, any number of users, requests, eras and
rotations at once, any `Apart` (the run keeps pairs apart for its size only), keys from
caches, crashes at any statement. `TypeCorrect` needs that the eras in payloads are not
ahead of their nodes' (`Plan`), that no two creations are of one node (`Distinct`), and
of the keys that clients hold that their folders exist (`OutInv`).

* `LateInv` says that what is made of the keys of a folder whose rotation is past its
  guards has been marked, and `FreshInv` that what is not marked in a payload, however
  old, is made of the keys of now: the row that changes is one that a rotation flips
  (`HierStep`), and to the others that rotation is at `rtFolder` (`FreshStays`).
* `GuardInv`: past its guards, the payload of a rotation still has every child of its
  folder, and everyone with a row, but for what is stray. The guards say so when they
  pass; later whoever adds a child or a row is late.
* `ClaimInv`: every claim that is not stray is sealed by the node's parent to the
  parent's keys of now and holds the node's keys of now, or a rotation is about to seal
  it again (`Resealing`), which `GuardInv` gives at the first write. It is what makes the
  chain of claims open all the way: `WhoOpensOpensAll`.
* `WrapInv` is the same of rows: `CollaboratorsOpen`.
* `OutInv`: who is out has no row of the folder's era and has never held its key.
  What a user can derive without access from above is its own row or nothing
  (`DerivedNext`), so no reasoning about the chain itself, a recursive function, is
  needed: `NewFilesStayProtected`.

`FileTree_proofs` holds for any drive, any number of requests, trash operations and
faults. `TypeCorrect` assumes nothing. The others say which pairs must not overlap,
and leave every other pair free; what a node's subtree is, `Below`, is defined by the
sets that are closed downwards and not by recursion, so that what the proofs need of
it can be proved: that it has the node and, with a node, its children, is the least
such set (`BelowLeast`), and what becomes of it when parents change or nodes come
and go (`BelowSame`, `BelowGrows`, `BelowLoses`).

* `BirthInv` holds of every behaviour, like the types: a node gets one row, from
  one request, once, and requests that are kept apart do not overlap.
* `RestoreUndoes` (`UndoApart`: trash - move, trash - restore). `UndoInv`: the nodes
  one operation trashed are, for as long as they are in the trash, one tree with one
  top (`GroupsWhole`). Deletions take from it what is closed downwards, or the
  foreign key refuses them; the top of it is what a restore is asked for. That is
  why `restore_subtree` may look at nothing but the time stamp.
* `LiveShown` (`TreeApart`: that, create - trash, one move at a time, and no restore
  into a folder in the trash). `TreeInv` has the live folders hang together below
  the root (`Rooted`), and per program counter what the walk of a move has shown:
  its destination lies below the folder it has come to, and if the destination is
  below the node that is moved, so is that folder (`Walking`). At the root it
  cannot be any more.
* `FilesIntact` (`FilesApart`: that, the pairs of restore and of finalize with the
  deletions, no handler that dies between objects and rows, and no purge of a folder
  that is not empty). `FilesInv`: what lies in the trash below something in the
  trash went there no later (`StampOrder`), so that what expires is closed downwards;
  and what a request is going to delete is in the trash, with all below it.
* `DeletesGoThrough`, from the same invariant: the foreign key on `parent_id`, which
  has no `ON DELETE CASCADE`, refuses none of the deletions. The property is of no
  run; the foreign key is why `FilesIntact` holds, since a refused deletion would leave
  rows whose objects are gone.
* `HeldStays` (`HeldApart`: a hold against purge, empty and expiry, trash - empty,
  finalize - sweep). `HeldInv`: past the check of the hold nothing a request carries
  is held, and an empty carries all of the trash. No fault is excluded: the read
  of the hold that may fail open is the one before a trash, and a held node in the
  trash is still found by the ones before a deletion.
* `ObjectsFirst` (`GoneApart`: trash - empty, finalize against empty, expiry and
  sweep, and no deletion of objects or reading of chunks that fails). `GoneInv`: the
  keys of every file a request is going to delete are on its list, and past
  `DeleteObjects` none of their objects is there. It needs no pair apart of restore,
  move or purge, and no bound on crashes.

The assumptions are those of the modules (bounds are natural numbers, tags are
tags) and the ones named here: no overlap and no fault `current` for
`SerialCurrentRowExists` (and `download` for `SerialDownloadDecrypts`),
`NothingGoes`, `Undisturbed` (of `FileVersions_proofs`), `RacesApart`, `NoLateUpload`, `NoLateUnshare`, one tab for `LinksNeedAccess`, no overlap for
`GrantsKeepOpening`, and the five
`...Apart` of `FileTree_proofs` (the instance of `FileTreeOverlap` satisfies all of them). TLC checks the
same formulas in the runs of section 5, whose instances satisfy them, with one
exception: `FileVersionsContent` has a crash beside restores, which `Undisturbed`
has not.

Only model-checked: of `FileVersions` one crash beside restores
(`VersionsDownloadable`, `HoldFreezesVersions`).
Liveness (`MirrorConverges`, `RetentionEnforced`, `ExpiredTrashGoes`, and the fairness
half of the two refinements) stays with TLC: fairness and `ENABLED` are out of the
prover's reach.

## 7. Not modelled

Read, and left for the next modules of the plan:

* **Workspaces.** Membership row and key row are written, and deleted, by
  separate statements (grant then upsert, delete then delete with the second's
  error ignored), so a handler that dies leaves one without the other; seats are counted
  before the insert (`workspaces/invite/route.ts:75-104`), so two invitations
  pass the last one; admins can demote and remove each other; a transfer does
  not look at the new owner's seats; a workspace can be deleted under an upload;
  removing a member rotates no key.
* **Quota.** Usage is a sum over rows, checked before the insert; the verdict is a
  choice of the environment in the modules above.
* **Public links.** Views, download counts and expiry; creation and retirement are in
  `FileRotation`.
* **The pool of crypto workers**, preview and zip downloads.
* **Registration and account deletion.** In `LoginSessions`, handlers that
  die other than in the middle of a sign-out, rate limits and the age of rows.
* **Billing's** creation of customers, overrides, invoices and their e-mails, and
  the customer portal.

Left out for good:

* **Cryptography** - primitives of libraries; taken as ideal.
* **Realtime, notifications, client caches** - best effort; a stale view ends with
  the next fetch, and no server state depends on it. That a client acts on a stale
  view is in the models: requests name rows that are gone by the time they run, and
  `SealsTo` takes a folder key from the cache.
* **Administration, audit, flags, status, pages** - single reads and writes, or
  rendering; half of the repository's lines are pages.
* **WebAuthn** - verified by a library.
* Inside modelled parts: sizes, names and metadata, permission levels other than
  editor and viewer, link passwords and limits, shards, `recordFileAccess`, broadcasts.
  `cleanup-stale` never finds the objects of an abandoned upload (it looks for chunk
  rows, which a finalize writes); that is visible in the model as objects without
  rows and follows from one line, so no property is spent on it. A restore copies
  the `parent_keys_claim` of the old version (`lib/db/files.ts:235-252`), which a
  rotation of the folder in between has made unreadable: it takes `FileVersions` and
  `FolderKeys` together, which no module composes yet.

## 8. Findings

Each of the first six is a violation TLC finds in an instance of the module
named; none of them has a run of its own, and the instance is given so that it
can be repeated. (The sets are in the `MC` modules; what is not named is as in the
module's configuration that section 5 lists first.)

1. **A restore races a delete.** The restore has read the chunk rows of its
   source; the delete counts no reference to them and removes the objects; the
   restore inserts copies of the rows. Restored version and current version then
   have no content. `MCFileVersions`, `Spec`, `MaxVer = 3`, `OneChunk`, `TwoReqs`,
   `VersionCount = 1`, `MaxFault = 0`, `Overlap = TRUE`,
   `Ops = {"upload", "restore", "delete"}`, `Faults = {}`: `VersionsDownloadable`.
2. **A failed upload blocks every later one.** Its row keeps the number
   current + 1, which is what the next new-version-init asks for and the UNIQUE
   constraint refuses, until the row is deleted by hand. `MCFileVersions`,
   `FairSpec`, `MaxVer = 3`, `OneChunk`, `OneReq`, `VersionCount = 1`,
   `MaxFault = 1`, `Overlap = FALSE`, `Ops = {"upload", "reject"}`,
   `Faults = {"crash"}`: `RetryStartsClean`.
3. **A rotation cut short locks the owner out.** Between the flip of the files row
   and the upsert of the wraps nobody holds the new key; the payload sent again
   is refused because its storage keys are registered already. `MCFileRotation`,
   `FairSpec`, `ThreeUsers`, `OneSlot`, `MaxEra = 1`, `MaxRow = 4`, `MaxFault = 1`,
   `Overlap = FALSE`, `Ops = {"rotate", "resend"}`, `Faults = {"locked"}`:
   `OwnerRegainsAccess`.
4. **Purging a folder loses its files but not the folder.** The objects of the
   subtree go, the delete of the one row fails on the foreign key, and what is
   restored from the trash afterwards is empty. `MCFileTree`, `Spec`, `TwoFolders`,
   `OneFile`, `Old <- Drive`, `OneSlot`, `Apart <- Serial`, `MaxTrash = 1`,
   `MaxFault = 0`, `Ops = {"trash", "restore", "purge", "folders"}`:
   `LiveFilesIntact`.
5. **The panel says uploaded although finalize refused.** `uploadFile` does not look
   at the status of finalize's response (`use-files.ts:1474`). `MCTransfers`,
   `MaxAttempts = 1`: `DoneIsComplete`.
6. **An upload overwrites the content of a restored version.** A restored version
   shares the objects of its source, which stay under the source's number; when that
   number is above the current one and its row is deleted, the next new-version-init
   gives it out again and the PUTs land on the shared objects. It comes about in two ways.
   Two handlers die: a finalize after it inserted the chunk rows, the restore of
   that version before its commit. `MCFileVersions`, `Spec`, `MaxVer = 4`,
   `OneChunk`, `OneReq`, `VersionCount = 1`, `MaxFault = 2`, `Overlap = FALSE`,
   `Ops = {"upload", "restore", "delete"}`, `Faults = {"crash"}`:
   `VersionsDownloadable`. Or nothing fails, and a restore passes an upload in
   progress, whose finalize then sets the current number back below the restored
   version's: the same with `MaxVer = 7`, `VersionCount = 7`, `MaxFault = 0`,
   `Ops = {"during", "upload", "restore", "delete"}`, `Faults = {}`.

Met while modelling, with the constant or pair of sections 4.1-4.7 that shows it
where there is one:

* **Sign-in.** A login that waits for its code survives revoke-all, a change of
  the password and a suspension undone: the SRP row, not a session, is its state,
  and no sign-out deletes it (the comments say "forces re-login on other
  devices", `change-password/route.ts:67`, and "Kick them out everywhere",
  `suspend/route.ts:55`). `recover` revokes no session
  of other browsers. A recovery token issued before a change of the password
  works after it. Section 4.4 has what else survives. Two verifications can pass on one
  SRP row (`srp-sessions.ts:53`).
* **Folders.** The rows of the table in 4.5: a rotation cut short, which cannot be
  retried (against `rotate-folder-commit/route.ts:58`), a key from the cache and a file
  under way (against `src/README.md:1282`), a folder moved while it is rotated. Two
  rotations of one folder that overlap leave in place, or put back, the row of whom
  the other one revoked.
* **Transfers.** A download is "done" although the worker was killed in
  mid-stream, or the browser canceled after the last chunk was drained
  (`use-files.ts:2182-2186`). An init that is refused leaves the record
  "uploading" for ever (`use-files.ts:1346-1350`, and `replaceFile`,
  1625-1632); section 4.6 says how the mapping treats it.
  Stragglers of a failed upload encrypt under the overwritten key; `CompleteIsReadable`
  shows they never reach a complete row.
* **Billing.** The abandon that races a payment, against the comment at
  `checkout-abandon/route.ts:23-24`, and the cancel that overtakes a plan change
  (4.7). Closing the form and asking
  again uses the incomplete subscription that the abandon is about to void. Who is
  past due counts as free, and checkout creates a second subscription beside the
  one still being collected. Closing after paying and before the status says so,
  and buying again, pays twice. An event that comes late overwrites a newer row
  until the next status. `getOrCreateStripeCustomer` replaces the customer when
  a retrieve fails for the moment; the lists end at 10 and 20.
