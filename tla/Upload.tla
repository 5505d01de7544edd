------------------------------- MODULE Upload -------------------------------
(***************************************************************************)
(* uploadFile: one tab uploads one file. Its loop starts a promise per     *)
(* chunk, at most Window at a time, each promise reads its slice, encrypts *)
(* it with the session key and PUTs it with retries; when all have         *)
(* succeeded the tab asks the server to finalize. The session key is a     *)
(* byte array that is overwritten when uploadFile returns, whether or not  *)
(* promises are still running.                                             *)
(*                                                                         *)
(* Simplifications.                                                        *)
(*  - A slice is encrypted with the key as it is when the read has ended:  *)
(*    comlink copies the arguments when encrypt is called.                 *)
(*  - Backoff delays, progress and the search cache are left out; what the *)
(*    server does with rows is the subject of FileTree and FileVersions.   *)
(*  - replaceFile runs the same loop and ends in the same way.             *)
(***************************************************************************)
EXTENDS Chunked

CONSTANT MaxAttempts   \* DEFAULT_MAX_ATTEMPTS

ASSUME AttemptAssumption == MaxAttempts \in Nat \ {0}

VARIABLES
  page,     \* where uploadFile is
  next,     \* the chunk its loop comes to next
  key,      \* the session key's bytes
  job       \* job[c]: the promise of chunk c

uploadVars == <<page, next, key, job, stored, row>>

-----------------------------------------------------------------------------
(* Helpers.                                                                *)

\* A promise's locals die with it.
Promise(pc)       == [pc |-> pc, under |-> "none", try |-> 0, fresh |-> FALSE]
Putting(k, try, fresh) == [pc |-> "put", under |-> k, try |-> try, fresh |-> fresh]

Inflight == {c \in Chunk : job[c].pc \in {"read", "put", "refresh"}}

Goto(c, p) == job' = [job EXCEPT ![c] = p]

OnlyJobs == UNCHANGED <<page, next, key, stored, row>>
OnlyPage == UNCHANGED <<job, stored, row>>

UploadInit ==
  /\ page = "idle" /\ next = 1 /\ key = "none"
  /\ job = [c \in Chunk |-> Promise("none")]
  /\ stored = [c \in Chunk |-> "none"]
  /\ row = "none"

-----------------------------------------------------------------------------
(* uploadFile.                                                             *)

StartUpload ==
  /\ page = "idle"
  /\ page' = "init" /\ key' = "live" /\ next' = next /\ OnlyPage

InitAccepted ==
  /\ page = "init"
  /\ page' = "loop" /\ row' = "incomplete"
  /\ UNCHANGED <<next, key, job, stored>>

\* The finally clause: the key's bytes are overwritten.
Leave(p) == page' = p /\ key' = "zero" /\ next' = next

\* A refusal (permission, quota, uploads switched off) returns without a word
\* to the record in the panel.
InitRefused == page = "init" /\ Leave("refused") /\ OnlyPage

\* The request, or its answer, is lost.
InitLost ==
  /\ page = "init"
  /\ Leave("error")
  /\ row' \in {"none", "incomplete"}
  /\ UNCHANGED <<job, stored>>

\* Mutant: the gate is one wide of its mark.
FullLate == Cardinality(Inflight) + 1 > Window

\* One round of the loop: the promise starts; if the set of those in flight is
\* full, the loop waits for one of them.
Full == Cardinality(Inflight) + 1 >= Window

Dispatch ==
  /\ page = "loop" /\ next \in Chunk
  /\ Goto(next, Promise("read"))
  /\ next' = next + 1
  /\ page' = IF Full THEN "gate" ELSE "loop"
  /\ UNCHANGED <<key, stored, row>>

\* Promise.race(inflight).catch: whichever settles, in whatever way, leaves.
PassGate ==
  /\ page = "gate" /\ Cardinality(Inflight) < Window
  /\ page' = "loop" /\ UNCHANGED <<next, key>> /\ OnlyPage

\* Mutant: the key is overwritten as soon as every chunk is on its way.
LoopEndsClean ==
  /\ page = "loop" /\ next \notin Chunk
  /\ page' = "all" /\ key' = "zero" /\ next' = next /\ OnlyPage

LoopEnds ==
  /\ page = "loop" /\ next \notin Chunk
  /\ page' = "all" /\ UNCHANGED <<next, key>> /\ OnlyPage

\* Promise.all(allChunks).
AllStored ==
  /\ page = "all" /\ \A c \in Chunk : job[c].pc = "ok"
  /\ page' = "finalize" /\ UNCHANGED <<next, key>> /\ OnlyPage

SomeFailed ==
  /\ page = "all" /\ \E c \in Chunk : job[c].pc = "failed"
  /\ Leave("error") /\ OnlyPage

-----------------------------------------------------------------------------
(* The promise of a chunk, and putChunkWithRetry.                          *)

ReadSlice(c) ==
  /\ job[c].pc = "read"
  /\ Goto(c, Putting(key, 0, FALSE)) /\ OnlyJobs

ReadFails(c) ==
  /\ job[c].pc = "read"
  /\ Goto(c, Promise("failed")) /\ OnlyJobs

\* The object arrives.
Store(c) == stored' = [stored EXCEPT ![c] = job[c].under]

PutOk(c) ==
  /\ job[c].pc = "put"
  /\ Store(c) /\ Goto(c, Promise("ok"))
  /\ UNCHANGED <<page, next, key, row>>

\* Mutant: one attempt more than MaxAttempts.
PutTransientOnce(c) ==
  /\ job[c].pc = "put"
  /\ Store(c) \/ UNCHANGED stored
  /\ Goto(c, IF job[c].try = MaxAttempts THEN Promise("failed")
             ELSE [job[c] EXCEPT !.try = @ + 1])
  /\ UNCHANGED <<page, next, key, row>>

\* A network error, after which the object may be there, or a 5xx.
PutTransient(c) ==
  /\ job[c].pc = "put"
  /\ Store(c) \/ UNCHANGED stored
  /\ Goto(c, IF job[c].try + 1 = MaxAttempts THEN Promise("failed")
             ELSE [job[c] EXCEPT !.try = @ + 1])
  /\ UNCHANGED <<page, next, key, row>>

\* A 403 is taken for an expired URL, once.
PutForbidden(c) ==
  /\ job[c].pc = "put"
  /\ Goto(c, IF job[c].fresh THEN Promise("failed") ELSE [job[c] EXCEPT !.pc = "refresh"])
  /\ OnlyJobs

PutRefused(c) ==
  /\ job[c].pc = "put"
  /\ Goto(c, Promise("failed")) /\ OnlyJobs

\* Mutant: the refresh is not remembered.
RefreshForgets(c) ==
  /\ job[c].pc = "refresh" /\ row = "incomplete"
  /\ Goto(c, Putting(job[c].under, 0, FALSE)) /\ OnlyJobs

\* refresh-urls needs the row of an upload that is not finalized; the attempts
\* are counted anew.
Refresh(c) ==
  /\ job[c].pc = "refresh" /\ row = "incomplete"
  /\ Goto(c, Putting(job[c].under, 0, TRUE)) /\ OnlyJobs

RefreshFails(c) ==
  /\ job[c].pc = "refresh"
  /\ Goto(c, Promise("failed")) /\ OnlyJobs

-----------------------------------------------------------------------------
(* Finalize, and what becomes of the row.                                  *)

\* The server measures the objects, inserts the chunk rows and flips the row.
Finalize ==
  /\ page = "finalize" /\ row = "incomplete"
  /\ \A c \in Chunk : stored[c] # "none"
  /\ row' = "complete" /\ page' = "answer"
  /\ UNCHANGED <<next, key, job, stored>>

\* It refuses, or fails half way. What does not fit the quota is deleted.
FinalizeRefused ==
  /\ page = "finalize"
  /\ stored' \in {stored, [c \in Chunk |-> "none"]}
  /\ page' = "answer"
  /\ UNCHANGED <<next, key, job, row>>

\* fetch resolves whatever the status: uploadFile does not look at it.
Answered == page = "answer" /\ Leave("done") /\ OnlyPage

\* The answer is lost and fetch rejects.
AnswerLost == page = "answer" /\ Leave("error") /\ OnlyPage

\* The daily sweep deletes the row of an upload that did not complete in time.
Sweep ==
  /\ row = "incomplete"
  /\ row' = "gone"
  /\ UNCHANGED <<page, next, key, job, stored>>

-----------------------------------------------------------------------------
UploadPage ==
  \/ InitAccepted \/ InitRefused \/ InitLost
  \/ Dispatch \/ PassGate \/ LoopEnds \/ AllStored \/ SomeFailed
  \/ Finalize \/ FinalizeRefused \/ Answered \/ AnswerLost

UploadJob(c) ==
  \/ ReadSlice(c) \/ ReadFails(c)
  \/ PutOk(c) \/ PutTransient(c) \/ PutForbidden(c) \/ PutRefused(c)
  \/ Refresh(c) \/ RefreshFails(c)

\* The tab goes on: its event loop runs what is ready, and requests end.
UploadGoesOn == UploadPage \/ \E c \in Chunk : UploadJob(c)

UploadNext == StartUpload \/ UploadGoesOn \/ Sweep

UploadSafety == UploadInit /\ [][UploadNext]_uploadVars

-----------------------------------------------------------------------------
(* Properties.                                                             *)

UploadTypeOK ==
  /\ page \in {"idle", "init", "loop", "gate", "all", "finalize", "answer",
               "done", "error", "refused"}
  /\ next \in 1..(Last + 1)
  /\ key \in {"none", "live", "zero"}
  /\ job \in [Chunk -> [pc : {"none", "read", "put", "refresh", "ok", "failed"},
                        under : {"none", "live", "zero"},
                        try : 0..(MaxAttempts - 1), fresh : BOOLEAN]]
  /\ stored \in [Chunk -> {"none", "live", "zero"}]
  /\ row \in {"none", "incomplete", "complete", "gone"}

\* A file that the server lists as complete has every object, each encrypted
\* under the session key that its row wraps and not under its overwritten bytes.
CompleteIsReadable == row = "complete" => \A c \in Chunk : stored[c] = "live"

\* No more chunks are read, encrypted and sent at a time than the code's
\* comment on its semaphore says, however many of them fail.
UploadInWindow == Cardinality(Inflight) <= Window

\* The panel says done only of what the server has accepted. The code does not
\* see to it, so no run checks it: see the README's findings.
DoneIsComplete == page = "done" => row = "complete"

\* What the panel says. It says "done" whatever finalize answered, and it goes on
\* saying "uploading", which the transfer calls ignored, when init was refused.
UploadRecord ==
  CASE page \in {"idle", "done", "error"} -> page
    [] page = "refused" -> "ignored"
    [] OTHER -> "running"

\* The upload came to its end and the server does not have the file.
Rejected == page \in {"answer", "done", "error"} /\ row # "complete"

\* uploadFile is a transfer of the chunks to their storage keys: the panel says
\* done only of a file whose chunks all lie there encrypted under the session key,
\* or which finalize has rejected; its verdict stays; and there is one, unless
\* init was refused: no chunk is tried for ever.
UT == INSTANCE Transfer WITH
       Piece <- Chunk, record <- UploadRecord,
       landed <- {c \in Chunk : stored[c] = "live"}, dropped <- Rejected

UploadIsTransfer == UT!Spec
=============================================================================
