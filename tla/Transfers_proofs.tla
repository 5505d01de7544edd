-------------------------- MODULE Transfers_proofs --------------------------
(***************************************************************************)
(* Theorems about Upload, for every number of chunks, window and number of *)
(* attempts; and about both transfers together: what is proved of an       *)
(* upload and of a download holds of the two side by side, whatever they   *)
(* do to the chunks and the row they share.                                *)
(***************************************************************************)
EXTENDS Transfers, Download_proofs, FiniteSetTheorems

JobType == [pc : {"none", "read", "put", "refresh", "ok", "failed"},
            under : {"none", "live", "zero"},
            try : 0..(MaxAttempts - 1), fresh : BOOLEAN]

Key == {"none", "live", "zero"}

LEMMA Bounds ==
  /\ Last \in Nat /\ Last >= 1 /\ Window \in Nat /\ Window >= 1
  /\ MaxAttempts \in Nat /\ MaxAttempts >= 1
  /\ 0 \in 0..(MaxAttempts - 1)
BY ChunkAssumption, AttemptAssumption

LEMMA PromiseTyped ==
  ASSUME NEW p \in {"none", "read", "put", "refresh", "ok", "failed"}
  PROVE  Promise(p) \in JobType /\ Promise(p).pc = p /\ Promise(p).under = "none"
BY Bounds DEF Promise, JobType

LEMMA PuttingTyped ==
  ASSUME NEW k \in Key, NEW f \in BOOLEAN
  PROVE  /\ Putting(k, 0, f) \in JobType
         /\ Putting(k, 0, f).pc = "put" /\ Putting(k, 0, f).under = k
BY Bounds DEF Putting, JobType, Key

(* What a step of one promise does, whichever it is: the promise was running, *)
(* and if it still is then with the ciphertext it had, or one made just now   *)
(* with the key as it is; the object is written with that ciphertext or not   *)
(* at all, and written when the promise succeeds.                             *)
JobStep(c) ==
  /\ UNCHANGED <<page, next, key, row>>
  /\ job[c].pc \in {"read", "put", "refresh"}
  /\ \E p \in JobType :
       /\ job' = [job EXCEPT ![c] = p]
       /\ p.pc \in {"put", "refresh", "ok", "failed"}
       /\ p.pc \in {"put", "refresh"}
            => p.under = IF job[c].pc = "read" THEN key ELSE job[c].under
       /\ \/ stored' = stored /\ p.pc # "ok"
          \/ job[c].pc = "put" /\ stored' = [stored EXCEPT ![c] = job[c].under]

LEMMA JobSteps ==
  ASSUME UploadTypeOK, NEW c \in Chunk, UploadJob(c)
  PROVE  JobStep(c)
<1> USE DEF OnlyJobs, Goto, Store
<1>j. job[c] \in JobType /\ key \in Key
  BY DEF UploadTypeOK, JobType, Key
<1>1. CASE ReadSlice(c)
  BY <1>1, <1>j, PuttingTyped DEF ReadSlice, JobStep
<1>2. CASE ReadFails(c)
  BY <1>2, PromiseTyped DEF ReadFails, JobStep
<1>3. CASE PutOk(c)
  BY <1>3, PromiseTyped DEF PutOk, JobStep
<1>4. CASE PutTransient(c)
  <2> DEFINE p == IF job[c].try + 1 = MaxAttempts THEN Promise("failed")
                  ELSE [job[c] EXCEPT !.try = @ + 1]
  <2>1. job[c].try + 1 # MaxAttempts
          => [job[c] EXCEPT !.try = @ + 1] \in JobType
    BY <1>j, Bounds DEF JobType
  <2>2. p \in JobType /\ p.pc \in {"put", "failed"} /\ (p.pc = "put" => p.under = job[c].under)
    BY <2>1, <1>j, <1>4, PromiseTyped DEF PutTransient, JobType
  <2>3. /\ job' = [job EXCEPT ![c] = p] /\ job[c].pc = "put"
        /\ stored' = stored \/ stored' = [stored EXCEPT ![c] = job[c].under]
        /\ UNCHANGED <<page, next, key, row>>
    BY <1>4 DEF PutTransient
  <2> HIDE DEF p
  <2> QED
    BY <2>2, <2>3 DEF JobStep
<1>5. CASE PutForbidden(c)
  <2> DEFINE p == IF job[c].fresh THEN Promise("failed") ELSE [job[c] EXCEPT !.pc = "refresh"]
  <2>2. p \in JobType /\ p.pc \in {"refresh", "failed"} /\ (p.pc = "refresh" => p.under = job[c].under)
    BY <1>j, PromiseTyped DEF JobType
  <2>3. job' = [job EXCEPT ![c] = p] /\ job[c].pc = "put" /\ UNCHANGED <<page, next, key, row, stored>>
    BY <1>5 DEF PutForbidden
  <2> HIDE DEF p
  <2> QED
    BY <2>2, <2>3 DEF JobStep
<1>6. CASE PutRefused(c)
  BY <1>6, PromiseTyped DEF PutRefused, JobStep
<1>7. CASE Refresh(c)
  <2>1. job[c].under \in Key
    BY <1>j DEF JobType, Key
  <2> QED
    BY <1>7, <2>1, PuttingTyped DEF Refresh, JobStep
<1>8. CASE RefreshFails(c)
  BY <1>8, PromiseTyped DEF RefreshFails, JobStep
<1> QED
  BY <1>1, <1>2, <1>3, <1>4, <1>5, <1>6, <1>7, <1>8 DEF UploadJob

-----------------------------------------------------------------------------
(* Type correctness.                                                       *)

LEMMA TypeInit == UploadInit => UploadTypeOK
BY Bounds, PromiseTyped DEF UploadInit, UploadTypeOK, JobType, Chunk

LEMMA TypeNext ==
  ASSUME UploadTypeOK, [UploadNext]_uploadVars
  PROVE  UploadTypeOK'
<1> USE DEF UploadTypeOK, OnlyPage, Leave
<1>1. CASE StartUpload
  BY <1>1 DEF StartUpload
<1>2. CASE UploadPage
  <2>1. CASE Dispatch
    <3>1. Promise("read") \in JobType
      BY PromiseTyped
    <3>2. next + 1 \in 1..(Last + 1)
      BY <2>1, Bounds DEF Dispatch, Chunk
    <3> QED
      BY <2>1, <3>1, <3>2 DEF Dispatch, Goto, JobType
  <2>2. CASE UploadPage /\ ~Dispatch
    BY <2>2, <1>2 DEF UploadPage, InitAccepted, InitRefused, InitLost, PassGate,
      LoopEnds, AllStored, SomeFailed, Finalize, FinalizeRefused, Answered, AnswerLost
  <2> QED
    BY <1>2, <2>1, <2>2
<1>3. ASSUME NEW c \in Chunk, UploadJob(c)
      PROVE  UploadTypeOK'
  <2>1. JobStep(c)
    BY <1>3, JobSteps
  <2>2. job[c].under \in Key
    BY DEF Key
  <2> QED
    BY <2>1, <2>2 DEF JobStep, JobType, Key
<1>4. CASE Sweep
  BY <1>4 DEF Sweep
<1>5. CASE UNCHANGED uploadVars
  BY <1>5 DEF uploadVars
<1> QED
  BY <1>1, <1>2, <1>3, <1>4, <1>5 DEF UploadNext, UploadGoesOn

\* Every variable of uploadFile, the object store and the row keeps its type.
THEOREM UploadTypeCorrect == UploadSafety => []UploadTypeOK
<1>1. UploadInit => UploadTypeOK
  BY TypeInit
<1>2. UploadTypeOK /\ [UploadNext]_uploadVars => UploadTypeOK'
  BY TypeNext
<1> QED
  BY <1>1, <1>2, PTL DEF UploadSafety

-----------------------------------------------------------------------------
(* The window. The loop goes on only while there is room for one more.     *)

WindowInv ==
  /\ page \in {"idle", "init"} => Inflight = {}
  /\ page = "loop" => Cardinality(Inflight) < Window
  /\ UploadInWindow

LEMMA InflightFinite ==
  /\ IsFiniteSet(Inflight) /\ Cardinality(Inflight) \in Nat
  /\ IsFiniteSet(Inflight') /\ Cardinality(Inflight') \in Nat
<1>1. IsFiniteSet(Chunk)
  BY Bounds, FS_Interval DEF Chunk
<1> QED
  BY <1>1, FS_Subset, FS_CardinalityType DEF Inflight

\* A settled promise leaves and nothing joins.
LEMMA InflightShrinks ==
  ASSUME Inflight' \subseteq Inflight
  PROVE  Cardinality(Inflight') <= Cardinality(Inflight)
BY InflightFinite, FS_Subset

LEMMA WindowInit == UploadInit => WindowInv
<1> SUFFICES ASSUME UploadInit PROVE WindowInv
  OBVIOUS
<1>1. Inflight = {}
  BY PromiseTyped DEF UploadInit, Inflight
<1>2. Cardinality(Inflight) = 0
  BY <1>1, FS_EmptySet
<1> QED
  BY <1>1, <1>2, Bounds DEF UploadInit, WindowInv, UploadInWindow

LEMMA WindowNext ==
  ASSUME UploadTypeOK, WindowInv, [UploadNext]_uploadVars
  PROVE  WindowInv'
<1> USE DEF WindowInv, UploadInWindow
<1>0. Cardinality(Inflight) \in Nat /\ Cardinality(Inflight') \in Nat
  BY InflightFinite
<1>s. ASSUME UNCHANGED job
      PROVE  Inflight' = Inflight
  BY <1>s DEF Inflight
<1>1. CASE StartUpload
  BY <1>1, <1>s DEF StartUpload, OnlyPage
<1>2. CASE InitAccepted
  <2>1. Cardinality(Inflight) = 0
    BY <1>2, FS_EmptySet DEF InitAccepted
  <2> QED
    BY <1>2, <1>s, <2>1, Bounds DEF InitAccepted
<1>3. CASE Dispatch
  <2>1. Inflight' \subseteq Inflight \cup {next}
    BY <1>3 DEF Dispatch, Goto, Inflight, UploadTypeOK
  <2>2. /\ IsFiniteSet(Inflight \cup {next})
        /\ Cardinality(Inflight \cup {next}) \in Nat
        /\ Cardinality(Inflight \cup {next}) <= Cardinality(Inflight) + 1
    <3>1. /\ IsFiniteSet(Inflight \cup {next})
          /\ \/ Cardinality(Inflight \cup {next}) = Cardinality(Inflight)
             \/ Cardinality(Inflight \cup {next}) = Cardinality(Inflight) + 1
      BY InflightFinite, FS_AddElement
    <3> HIDE DEF Inflight
    <3> QED
      BY <3>1, <1>0
  <2>3. Cardinality(Inflight') <= Cardinality(Inflight) + 1
    BY <2>1, <2>2, <1>0, FS_Subset
  <2>4. Cardinality(Inflight) < Window
    BY <1>3 DEF Dispatch
  <2>5. page' \in {"gate", "loop"} /\ (page' = "loop" => Cardinality(Inflight) + 1 < Window)
    BY <1>3, <1>0, Bounds DEF Dispatch, Full
  <2> QED
    BY <2>3, <2>4, <2>5, <1>0, Bounds
<1>4. CASE PassGate
  BY <1>4, <1>s DEF PassGate, OnlyPage
<1>5. CASE InitRefused \/ InitLost \/ LoopEnds \/ AllStored \/ SomeFailed
           \/ Finalize \/ FinalizeRefused \/ Answered \/ AnswerLost
  BY <1>5, <1>s DEF InitRefused, InitLost, LoopEnds, AllStored, SomeFailed,
    Finalize, FinalizeRefused, Answered, AnswerLost, Leave, OnlyPage
<1>6. ASSUME NEW c \in Chunk, UploadJob(c)
      PROVE  WindowInv'
  <2>1. JobStep(c)
    BY <1>6, JobSteps
  <2>2. Inflight' \subseteq Inflight
    BY <2>1 DEF JobStep, Inflight, UploadTypeOK
  <2>3. Cardinality(Inflight') <= Cardinality(Inflight)
    BY <2>2, InflightShrinks
  <2>4. page' = page
    BY <2>1 DEF JobStep
  <2> QED
    BY <2>2, <2>3, <2>4, <1>0, Bounds
<1>7. CASE Sweep \/ UNCHANGED uploadVars
  BY <1>7, <1>s DEF Sweep, uploadVars
<1> QED
  BY <1>1, <1>2, <1>3, <1>4, <1>5, <1>6, <1>7 DEF UploadNext, UploadGoesOn, UploadPage

\* However many promises fail or are retried, no more than Window of them run.
THEOREM UploadStaysInWindow == UploadSafety => []UploadInWindow
<1>1. UploadInit => WindowInv
  BY WindowInit
<1>2. UploadTypeOK /\ WindowInv /\ [UploadNext]_uploadVars => WindowInv'
  BY WindowNext
<1>3. WindowInv => UploadInWindow
  BY DEF WindowInv
<1> QED
  BY <1>1, <1>2, <1>3, UploadTypeCorrect, PTL DEF UploadSafety

-----------------------------------------------------------------------------
(* Readability. Until the tab has asked for finalize its key is whole, so   *)
(* whatever is encrypted or stored is under that key; when it asks, every   *)
(* promise has succeeded, so none can write any more, not even after the    *)
(* key has been overwritten.                                                *)

Sending == {"idle", "init", "loop", "gate", "all"}

KeyInv ==
  /\ page \in {"idle", "init", "refused"} => \A c \in Chunk : job[c].pc = "none" /\ stored[c] = "none"
  /\ page \in Sending \ {"idle"} => key = "live"
  /\ page \in Sending => \A c \in Chunk :
       /\ stored[c] \in {"none", "live"}
       /\ job[c].pc \in {"put", "refresh"} => job[c].under = "live"
       /\ job[c].pc = "ok" => stored[c] = "live"
  /\ page \in {"finalize", "answer", "done"} \/ row = "complete" => \A c \in Chunk : job[c].pc = "ok"
  /\ page = "finalize" \/ row = "complete" => \A c \in Chunk : stored[c] = "live"
  /\ row = "complete" => page \in {"answer", "done", "error"}

LEMMA KeyInit == UploadInit => KeyInv
BY PromiseTyped DEF UploadInit, KeyInv, Sending

LEMMA KeyNext ==
  ASSUME UploadTypeOK, KeyInv, [UploadNext]_uploadVars
  PROVE  KeyInv'
<1> USE DEF KeyInv, Sending, Leave, OnlyPage
<1>1. CASE StartUpload
  BY <1>1 DEF StartUpload
<1>2. CASE InitAccepted \/ InitRefused \/ InitLost
  BY <1>2 DEF InitAccepted, InitRefused, InitLost
<1>3. CASE Dispatch
  <2>1. Promise("read").pc = "read"
    BY PromiseTyped
  <2> HIDE DEF KeyInv
  <2>2. /\ page = "loop" /\ page' \in {"loop", "gate"} /\ next \in Chunk
        /\ job' = [job EXCEPT ![next] = Promise("read")]
        /\ key' = key /\ stored' = stored /\ row' = row
    BY <1>3 DEF Dispatch, Goto
  <2>3. job \in [Chunk -> JobType]
    BY DEF UploadTypeOK, JobType
  <2> QED
    BY <2>1, <2>2, <2>3 DEF KeyInv
<1>4. CASE PassGate \/ LoopEnds
  BY <1>4 DEF PassGate, LoopEnds
<1>5. CASE AllStored \/ SomeFailed
  BY <1>5 DEF AllStored, SomeFailed
<1>6. CASE Finalize \/ FinalizeRefused \/ Answered \/ AnswerLost
  BY <1>6 DEF Finalize, FinalizeRefused, Answered, AnswerLost
<1>7. ASSUME NEW c \in Chunk, UploadJob(c)
      PROVE  KeyInv'
  <2>1. JobStep(c)
    BY <1>7, JobSteps
  <2>2. page' = page /\ key' = key /\ row' = row /\ job[c].pc \in {"read", "put", "refresh"}
    BY <2>1 DEF JobStep
  <2>3. job \in [Chunk -> JobType] /\ stored \in [Chunk -> Key]
    BY DEF UploadTypeOK, JobType, Key
  <2>4. row # "complete" /\ page \notin {"idle", "init", "refused", "finalize", "answer", "done"}
    BY <2>2
  <2>5. CASE page \notin Sending
    BY <2>2, <2>4, <2>5
  <2>6. CASE page \in Sending
    <3>1. \A d \in Chunk :
            /\ stored'[d] \in {"none", "live"}
            /\ job'[d].pc \in {"put", "refresh"} => job'[d].under = "live"
            /\ job'[d].pc = "ok" => stored'[d] = "live"
      BY <2>1, <2>2, <2>3, <2>4, <2>6 DEF JobStep
    <3> QED
      BY <3>1, <2>2, <2>4
  <2> QED
    BY <2>5, <2>6
<1>8. CASE Sweep \/ UNCHANGED uploadVars
  BY <1>8 DEF Sweep, uploadVars
<1> QED
  BY <1>1, <1>2, <1>3, <1>4, <1>5, <1>6, <1>7, <1>8 DEF UploadNext, UploadGoesOn, UploadPage

LEMMA KeyHolds == UploadSafety => []KeyInv
<1>1. UploadInit => KeyInv
  BY KeyInit
<1>2. UploadTypeOK /\ KeyInv /\ [UploadNext]_uploadVars => KeyInv'
  BY KeyNext
<1> QED
  BY <1>1, <1>2, UploadTypeCorrect, PTL DEF UploadSafety

\* A complete file's objects are all there, under the key that its row wraps,
\* although the key's bytes are overwritten while other promises may still run.
THEOREM UploadCompleteIsReadable == UploadSafety => []CompleteIsReadable
<1>1. KeyInv => CompleteIsReadable
  BY DEF KeyInv, CompleteIsReadable
<1> QED
  BY <1>1, KeyHolds, PTL

-----------------------------------------------------------------------------
(* uploadFile implements Transfer, but for its liveness.                   *)

Landed == {c \in Chunk : stored[c] = "live"}

LEMMA TransferInit == UploadInit => UT!Init
BY DEF UploadInit, UT!Init, UploadRecord, Rejected

LEMMA TransferNext ==
  ASSUME UploadTypeOK, KeyInv, KeyInv', [UploadNext]_uploadVars
  PROVE  [UT!Next]_UT!transferVars
<1> USE DEF UploadRecord, Rejected, Leave, OnlyPage
<1>s. ASSUME UploadRecord' = UploadRecord, stored' = stored, Rejected' = Rejected
      PROVE  UNCHANGED UT!transferVars
  BY <1>s DEF UT!transferVars
<1>1. CASE StartUpload
  <2>1. UT!Begin
    BY <1>1 DEF StartUpload, UT!Begin
  <2> QED
    BY <2>1 DEF UT!Next
<1>2. CASE InitRefused
  <2>1. UT!Ignore
    BY <1>2 DEF InitRefused, UT!Ignore
  <2> QED
    BY <2>1 DEF UT!Next
<1>9. CASE InitLost \/ SomeFailed \/ AnswerLost
  <2>1. UT!Fail
    BY <1>9 DEF InitLost, SomeFailed, AnswerLost, UT!Fail
  <2> QED
    BY <2>1 DEF UT!Next
<1>3. CASE InitAccepted \/ Dispatch \/ PassGate \/ LoopEnds \/ AllStored \/ Finalize
  <2>1. UploadRecord' = UploadRecord /\ stored' = stored /\ Rejected' = Rejected
    BY <1>3 DEF InitAccepted, Dispatch, PassGate, LoopEnds, AllStored, Finalize
  <2> QED
    BY <2>1, <1>s
<1>4. CASE FinalizeRefused
  <2>1. UT!Drop
    BY <1>4 DEF FinalizeRefused, UT!Drop, UploadTypeOK, KeyInv
  <2> QED
    BY <2>1 DEF UT!Next
<1>5. CASE Answered
  <2>1. CASE row = "complete"
    <3>1. Landed = Chunk
      BY <2>1 DEF KeyInv, Landed
    <3>2. UT!Finish
      BY <1>5, <2>1, <3>1 DEF Answered, UT!Finish, Landed
    <3> QED
      BY <3>2 DEF UT!Next
  <2>2. CASE row # "complete"
    <3>1. UT!Finish
      BY <1>5, <2>2 DEF Answered, UT!Finish
    <3> QED
      BY <3>1 DEF UT!Next
  <2> QED
    BY <2>1, <2>2
<1>6. ASSUME NEW c \in Chunk, UploadJob(c)
      PROVE  [UT!Next]_UT!transferVars
  <2>1. JobStep(c)
    BY <1>6, JobSteps
  <2>2. UploadRecord' = UploadRecord /\ Rejected' = Rejected
    BY <2>1 DEF JobStep
  <2>3. UploadRecord # "done" /\ page \in Sending \cup {"error"}
    BY <2>1 DEF JobStep, KeyInv, Sending, UploadTypeOK
  <2>4. CASE stored' = stored
    BY <2>2, <2>4, <1>s
  <2>5. CASE stored' = [stored EXCEPT ![c] = job[c].under] /\ job[c].under = "live"
    <3>1. Landed' = Landed \cup {c}
      BY <2>5 DEF Landed, UploadTypeOK
    <3>2. UT!Land(c)
      BY <2>2, <2>3, <3>1 DEF UT!Land, Landed
    <3> QED
      BY <3>2 DEF UT!Next
  <2>6. CASE job[c].pc = "put" /\ stored' = [stored EXCEPT ![c] = job[c].under] /\ job[c].under # "live"
    <3>1. Landed' \subseteq Landed
      BY <2>6 DEF Landed, UploadTypeOK
    <3>2. UploadRecord = "error"
      BY <2>1, <2>3, <2>6 DEF JobStep, KeyInv
    <3>3. UT!Clear
      BY <2>2, <3>1, <3>2 DEF UT!Clear, Landed
    <3> QED
      BY <3>3 DEF UT!Next
  <2> QED
    BY <2>1, <2>4, <2>5, <2>6 DEF JobStep
<1>7. CASE Sweep
  <2>1. UploadRecord' = UploadRecord /\ stored' = stored /\ Rejected' = Rejected
    BY <1>7 DEF Sweep, KeyInv
  <2> QED
    BY <2>1, <1>s
<1>8. CASE UNCHANGED uploadVars
  BY <1>8, <1>s DEF uploadVars
<1> QED
  BY <1>1, <1>2, <1>3, <1>4, <1>5, <1>6, <1>7, <1>8, <1>9 DEF UploadNext, UploadGoesOn, UploadPage

\* Every behaviour of the upload is one of a transfer: what the panel says is final,
\* and it says done only when every chunk is at its storage key under the session
\* key, or finalize has rejected the file.
THEOREM UploadImplementsTransfer == UploadSafety => UT!Safety
<1>1. UploadInit => UT!Init
  BY TransferInit
<1>2. UploadTypeOK /\ KeyInv /\ KeyInv' /\ [UploadNext]_uploadVars
        => [UT!Next]_UT!transferVars
  BY TransferNext
<1> QED
  BY <1>1, <1>2, UploadTypeCorrect, KeyHolds, PTL DEF UploadSafety, UT!Safety

-----------------------------------------------------------------------------
(* Both transfers.                                                         *)

LEMMA UploadPart == Spec => UploadSafety
<1>1. Init => UploadInit
  BY DEF Init
<1>2. [Next]_vars => [UploadNext]_uploadVars
  BY DEF Next, UploadStep, DownloadStep, vars
<1> QED
  BY <1>1, <1>2, PTL DEF Spec, UploadSafety

LEMMA DownloadPart == Spec => DownloadSafety
<1>1. Init => DownloadInit
  BY DEF Init
<1>2. [Next]_vars => [DownloadNext]_downloadVars
  BY DEF Next, UploadStep, DownloadStep, vars
<1> QED
  BY <1>1, <1>2, PTL DEF Spec, DownloadSafety

\* Every variable of both transfers keeps its type.
THEOREM TypeCorrect == Spec => []TypeOK
<1>1. UploadTypeOK /\ DownloadTypeOK => TypeOK
  BY DEF TypeOK
<1> QED
  BY <1>1, UploadPart, DownloadPart, UploadTypeCorrect, DownloadTypeCorrect, PTL

\* Neither side ever has more than Window chunks in hand: the memory of a tab is
\* bounded for a file of any size, with retries, failures and cancels.
THEOREM StaysInWindow == Spec => []InWindow
<1>1. UploadInWindow /\ DownloadInWindow => InWindow
  BY DEF InWindow
<1> QED
  BY <1>1, UploadPart, DownloadPart, UploadStaysInWindow, DownloadStaysInWindow, PTL

\* A files row that says complete has every chunk's object under the row's key.
THEOREM CompleteStaysReadable == Spec => []CompleteIsReadable
BY UploadPart, UploadCompleteIsReadable, PTL

\* A download that failed or was dismissed shows no finished file.
THEOREM FailedStaysUnsaved == Spec => []FailedIsNotSaved
BY DownloadPart, DownloadFailedIsNotSaved, PTL

\* Done is said of a download only when every chunk is in the destination, as
\* long as no worker is killed while it streams.
THEOREM DoneStaysWhole == Spec => []DoneIsWhole
BY DownloadPart, DownloadDoneIsWhole, PTL
=============================================================================
