-------------------------- MODULE Download_proofs --------------------------
(***************************************************************************)
(* Theorems about Download, for every number of chunks and window.         *)
(***************************************************************************)
EXTENDS Download, FiniteSetTheorems, TLAPS

LEMMA Sizes == Last \in Nat /\ Last >= 1 /\ Window \in Nat /\ Window >= 1
BY ChunkAssumption

-----------------------------------------------------------------------------
(* The inductive invariant, part by part.                                  *)

\* The chunks drained so far are in the sink, in order.
Ordered ==
  /\ Len(written) = i - 1
  /\ \A k \in 1..(i - 1) : written[k] = k

\* A fetch was started for the next Window chunks and no others.
Windowed == \A c \in Chunk : fetch[c] # "none" => i <= c /\ c < i + Window

\* What each place in downloadFile knows of the rest.
Stages ==
  /\ pc \in {"idle", "ask", "open"} => sink = "none"
  /\ sink = "none" => stream = "none" /\ dest = 0
  /\ pc = "ack" => sink = "worker" /\ stream \notin {"closed", "late", "cancelled"}
  /\ pc \in {"idle", "ask", "open", "ack"} => i = 1 /\ ~saved
  /\ pc \in {"idle", "ask", "open", "ack", "pull"} => ending = "none"
  /\ pc \in {"pull", "done"} => sink # "none"
  /\ pc = "wait" => sink = "worker" /\ ending = "close"
  /\ ending = "close" => i = Last + 1 /\ pc \in {"wait", "done", "error"} /\ sink = "worker"
  /\ pc = "done" => i = Last + 1 /\ ending # "abort"
  /\ sink = "direct" /\ pc \in {"pull", "done"} => dest = i - 1
  /\ sink = "worker" /\ pc \in {"pull", "wait"} => stream # "none"
  /\ saved => (sink = "direct" /\ pc = "done") \/ stream = "closed"

\* Where the worker is in what the page posted, and what it made of it.
Port ==
  /\ taken <= i
  /\ taken = i => ending # "none"
  /\ dest <= i - 1
  /\ sink # "worker" => taken = 0 /\ stream \in {"none", "open", "errored"}
  /\ stream = "none" => said = <<>> /\ taken = 0
  /\ sink = "worker" /\ stream = "none" => dest = 0
  /\ sink = "worker" /\ stream = "open" => dest = taken /\ taken <= i - 1
  /\ stream \in {"closed", "late"} => taken = Last + 1 /\ ending = "close"
  /\ stream = "closed" => dest = Last

\* The order of what the worker said: who closes a cancelled stream has said so
\* before. This is why close may look at browserCancelled when it has drained.
Spoken ==
  /\ alive /\ stream = "errored" => ending = "abort"
  /\ stream \in {"cancelled", "late"} => \E k \in 1..Len(said) : said[k] = "cancelled"
  /\ \A k \in 1..Len(said) : said[k] = "cancelled" => stream \notin {"none", "open", "closed"}
  /\ \A k \in 1..Len(said) : said[k] = "drained" =>
       /\ ending = "close" /\ taken = Last + 1
       /\ stream \in {"errored", "late"} \/ dest = Last \/ \E l \in 1..(k - 1) : said[l] = "cancelled"

Failed ==
  pc \in {"error", "dropped"} =>
    ~saved /\ (ending = "close" => stream \notin {"none", "open", "closed"})

\* Unless the browser has discarded the file.
Kept ==
  ~Dropped => /\ ~alive /\ sink = "worker" /\ stream # "none" => saved
              /\ stream = "errored" => ending = "abort"
              /\ pc = "done" => dest = Last
              /\ pc = "done" /\ sink = "worker" => taken = Last + 1

DownloadInv == /\ DownloadTypeOK /\ Ordered /\ Windowed /\ Stages /\ Port /\ Spoken
               /\ Failed /\ Kept

\* The steps that say nothing of a cancel and kill no worker.
LEMMA SameDropped ==
  ASSUME UNCHANGED <<said, alive, stream>>
  PROVE  Dropped' = Dropped
BY DEF Dropped

LEMMA SaysNoCancel ==
  ASSUME DownloadInv, NEW m \in {"ack", "drained"}, said' = Append(said, m), alive, alive' = alive
  PROVE  Dropped' = Dropped
<1>1. said \in Seq({"ack", "drained", "cancelled"})
  BY DEF DownloadInv, DownloadTypeOK
<1>2. /\ Len(said') = Len(said) + 1 /\ said'[Len(said) + 1] = m
      /\ \A k \in 1..Len(said) : said'[k] = said[k]
  BY <1>1
<1>3. (\E k \in 1..Len(said') : said'[k] = "cancelled") <=> (\E k \in 1..Len(said) : said[k] = "cancelled")
  BY <1>1, <1>2
<1> QED
  BY <1>3 DEF Dropped

LEMMA InvInit == DownloadInit => DownloadInv
<1> SUFFICES ASSUME DownloadInit PROVE DownloadInv
  OBVIOUS
<1> USE Sizes DEF DownloadInit, Chunk
<1>1. DownloadTypeOK
  <2>1. written \in Seq(Chunk) /\ said \in Seq({"ack", "drained", "cancelled"})
    OBVIOUS
  <2>2. i \in 1..(Last + 1) /\ taken \in 0..(Last + 1) /\ dest \in 0..Last
    OBVIOUS
  <2>3. heard \in 0..Len(said)
    OBVIOUS
  <2> QED
    BY <2>1, <2>2, <2>3 DEF DownloadTypeOK
<1>2. Ordered /\ Windowed /\ Stages
  BY DEF Ordered, Windowed, Stages
<1>3. Port /\ Spoken /\ Failed /\ Kept
  BY DEF Port, Spoken, Failed, Kept
<1> QED
  BY <1>1, <1>2, <1>3 DEF DownloadInv

(* Opening the sink. *)
LEMMA PageOpens ==
  ASSUME DownloadInv, StartDownload \/ Answer \/ OpenDirect \/ OpenFails \/ OpenWorker \/ InitAck \/ AckTimeout
  PROVE  DownloadInv'
<1> USE Sizes DEF DownloadInv, pageVars, workerVars, Chunk
<1>1. CASE StartDownload
  <2>1. DownloadTypeOK'
    BY <1>1 DEF StartDownload, DownloadTypeOK, Ordered, Stages, Port
  <2>2. Ordered'
    BY <1>1 DEF StartDownload, DownloadTypeOK, Ordered, Stages
  <2>3. Windowed'
    BY <1>1 DEF StartDownload, DownloadTypeOK, Windowed, Stages, Chunk
  <2>4. Stages'
    BY <1>1 DEF StartDownload, DownloadTypeOK, Stages, Port, Ordered
  <2>5. Port'
    BY <1>1 DEF StartDownload, DownloadTypeOK, Port, Stages, Ordered
  <2>6. Spoken'
    BY <1>1 DEF StartDownload, DownloadTypeOK, Spoken, Port, Stages
  <2>7. Failed'
    BY <1>1 DEF StartDownload, DownloadTypeOK, Failed, Stages, Port, Spoken
  <2>8. Kept'
    BY <1>1 DEF StartDownload, DownloadTypeOK, Kept, Dropped, Stages, Port, Spoken
  <2> QED
    BY <2>1, <2>2, <2>3, <2>4, <2>5, <2>6, <2>7, <2>8
<1>2. CASE Answer
  <2>1. DownloadTypeOK'
    BY <1>2 DEF Answer, DownloadTypeOK, Ordered, Stages, Port
  <2>2. Ordered'
    BY <1>2 DEF Answer, DownloadTypeOK, Ordered, Stages
  <2>3. Windowed'
    BY <1>2 DEF Answer, DownloadTypeOK, Windowed, Stages, Chunk
  <2>4. Stages'
    BY <1>2 DEF Answer, DownloadTypeOK, Stages, Port, Ordered
  <2>5. Port'
    BY <1>2 DEF Answer, DownloadTypeOK, Port, Stages, Ordered
  <2>6. Spoken'
    BY <1>2 DEF Answer, DownloadTypeOK, Spoken, Port, Stages
  <2>7. Failed'
    BY <1>2 DEF Answer, DownloadTypeOK, Failed, Stages, Port, Spoken
  <2>8. Kept'
    BY <1>2 DEF Answer, DownloadTypeOK, Kept, Dropped, Stages, Port, Spoken
  <2> QED
    BY <2>1, <2>2, <2>3, <2>4, <2>5, <2>6, <2>7, <2>8
<1>3. CASE OpenDirect
  <2>1. DownloadTypeOK'
    BY <1>3 DEF OpenDirect, Open, pageVars, DownloadTypeOK, Ordered, Stages, Port
  <2>2. Ordered'
    BY <1>3 DEF OpenDirect, Open, pageVars, DownloadTypeOK, Ordered, Stages
  <2>3. Windowed'
    BY <1>3 DEF OpenDirect, Open, pageVars, DownloadTypeOK, Windowed, Stages, Chunk
  <2>4. Stages'
    BY <1>3 DEF OpenDirect, Open, pageVars, DownloadTypeOK, Stages, Port, Ordered
  <2>5. Port'
    BY <1>3 DEF OpenDirect, Open, pageVars, DownloadTypeOK, Port, Stages, Ordered
  <2>6. Spoken'
    BY <1>3 DEF OpenDirect, Open, pageVars, DownloadTypeOK, Spoken, Port, Stages
  <2>7. Failed'
    BY <1>3 DEF OpenDirect, Open, pageVars, DownloadTypeOK, Failed, Stages, Port, Spoken
  <2>8. Kept'
    BY <1>3 DEF OpenDirect, Open, pageVars, DownloadTypeOK, Kept, Dropped, Stages, Port, Spoken
  <2> QED
    BY <2>1, <2>2, <2>3, <2>4, <2>5, <2>6, <2>7, <2>8
<1>4. CASE OpenFails
  <2>1. DownloadTypeOK'
    BY <1>4 DEF OpenFails, DownloadTypeOK, Ordered, Stages, Port
  <2>2. Ordered'
    BY <1>4 DEF OpenFails, DownloadTypeOK, Ordered, Stages
  <2>3. Windowed'
    BY <1>4 DEF OpenFails, DownloadTypeOK, Windowed, Stages, Chunk
  <2>4. Stages'
    BY <1>4 DEF OpenFails, DownloadTypeOK, Stages, Port, Ordered
  <2>5. Port'
    BY <1>4 DEF OpenFails, DownloadTypeOK, Port, Stages, Ordered
  <2>6. Spoken'
    BY <1>4 DEF OpenFails, DownloadTypeOK, Spoken, Port, Stages
  <2>7. Failed'
    BY <1>4 DEF OpenFails, DownloadTypeOK, Failed, Stages, Port, Spoken
  <2>8. Kept'
    BY <1>4 DEF OpenFails, DownloadTypeOK, Kept, Dropped, Stages, Port, Spoken
  <2> QED
    BY <2>1, <2>2, <2>3, <2>4, <2>5, <2>6, <2>7, <2>8
<1>5. CASE OpenWorker
  <2>1. DownloadTypeOK'
    BY <1>5 DEF OpenWorker, DownloadTypeOK, Ordered, Stages, Port
  <2>2. Ordered'
    BY <1>5 DEF OpenWorker, DownloadTypeOK, Ordered, Stages
  <2>3. Windowed'
    BY <1>5 DEF OpenWorker, DownloadTypeOK, Windowed, Stages, Chunk
  <2>4. Stages'
    BY <1>5 DEF OpenWorker, DownloadTypeOK, Stages, Port, Ordered
  <2>5. Port'
    BY <1>5 DEF OpenWorker, DownloadTypeOK, Port, Stages, Ordered
  <2>6. Spoken'
    BY <1>5 DEF OpenWorker, DownloadTypeOK, Spoken, Port, Stages
  <2>7. Failed'
    BY <1>5 DEF OpenWorker, DownloadTypeOK, Failed, Stages, Port, Spoken
  <2>8. Kept'
    BY <1>5 DEF OpenWorker, DownloadTypeOK, Kept, Dropped, Stages, Port, Spoken
  <2> QED
    BY <2>1, <2>2, <2>3, <2>4, <2>5, <2>6, <2>7, <2>8
<1>6. CASE InitAck
  <2>1. DownloadTypeOK'
    BY <1>6 DEF InitAck, Open, pageVars, DownloadTypeOK, Ordered, Stages, Port
  <2>2. Ordered'
    BY <1>6 DEF InitAck, Open, pageVars, DownloadTypeOK, Ordered, Stages
  <2>3. Windowed'
    BY <1>6 DEF InitAck, Open, pageVars, DownloadTypeOK, Windowed, Stages, Chunk
  <2>4. Stages'
    BY <1>6 DEF InitAck, Open, pageVars, DownloadTypeOK, Stages, Port, Ordered
  <2>5. Port'
    BY <1>6 DEF InitAck, Open, pageVars, DownloadTypeOK, Port, Stages, Ordered
  <2>6. Spoken'
    BY <1>6 DEF InitAck, Open, pageVars, DownloadTypeOK, Spoken, Port, Stages
  <2>7. Failed'
    BY <1>6 DEF InitAck, Open, pageVars, DownloadTypeOK, Failed, Stages, Port, Spoken
  <2>8. Kept'
    BY <1>6 DEF InitAck, Open, pageVars, DownloadTypeOK, Kept, Dropped, Stages, Port, Spoken
  <2> QED
    BY <2>1, <2>2, <2>3, <2>4, <2>5, <2>6, <2>7, <2>8
<1>7. CASE AckTimeout
  <2>1. DownloadTypeOK'
    BY <1>7 DEF AckTimeout, Open, pageVars, DownloadTypeOK, Ordered, Stages, Port
  <2>2. Ordered'
    BY <1>7 DEF AckTimeout, Open, pageVars, DownloadTypeOK, Ordered, Stages
  <2>3. Windowed'
    BY <1>7 DEF AckTimeout, Open, pageVars, DownloadTypeOK, Windowed, Stages, Chunk
  <2>4. Stages'
    BY <1>7 DEF AckTimeout, Open, pageVars, DownloadTypeOK, Stages, Port, Ordered
  <2>5. Port'
    BY <1>7 DEF AckTimeout, Open, pageVars, DownloadTypeOK, Port, Stages, Ordered
  <2>6. Spoken'
    BY <1>7 DEF AckTimeout, Open, pageVars, DownloadTypeOK, Spoken, Port, Stages
  <2>7. Failed'
    BY <1>7 DEF AckTimeout, Open, pageVars, DownloadTypeOK, Failed, Stages, Port, Spoken
  <2>8. Kept'
    BY <1>7 DEF AckTimeout, Open, pageVars, DownloadTypeOK, Kept, Dropped, Stages, Port, Spoken
  <2> QED
    BY <2>1, <2>2, <2>3, <2>4, <2>5, <2>6, <2>7, <2>8
<1> QED
  BY <1>1, <1>2, <1>3, <1>4, <1>5, <1>6, <1>7

(* Draining the window. *)
LEMMA PagePulls ==
  ASSUME DownloadInv, Write \/ WriteThrows \/ PullThrows
  PROVE  DownloadInv'
<1> USE Sizes DEF DownloadInv, pageVars, workerVars, Chunk
<1>1. CASE Write
  <2>1. DownloadTypeOK'
    BY <1>1 DEF Write, Direct, Slide, BrowserCancelled, Heard, DownloadTypeOK, Ordered, Stages, Port
  <2>2. Ordered'
    BY <1>1 DEF Write, Direct, Slide, BrowserCancelled, Heard, DownloadTypeOK, Ordered, Stages
  <2>3. Windowed'
    BY <1>1 DEF Write, Direct, Slide, BrowserCancelled, Heard, DownloadTypeOK, Windowed, Stages, Chunk
  <2>4. Stages'
    BY <1>1 DEF Write, Direct, Slide, BrowserCancelled, Heard, DownloadTypeOK, Stages, Port, Ordered
  <2>5. Port'
    BY <1>1 DEF Write, Direct, Slide, BrowserCancelled, Heard, DownloadTypeOK, Port, Stages, Ordered
  <2>6. Spoken'
    BY <1>1 DEF Write, Direct, Slide, BrowserCancelled, Heard, DownloadTypeOK, Spoken, Port, Stages
  <2>7. Failed'
    BY <1>1 DEF Write, Direct, Slide, BrowserCancelled, Heard, DownloadTypeOK, Failed, Stages, Port, Spoken
  <2>8. Kept'
    BY <1>1 DEF Write, Direct, Slide, BrowserCancelled, Heard, DownloadTypeOK, Kept, Dropped, Stages, Port, Spoken
  <2> QED
    BY <2>1, <2>2, <2>3, <2>4, <2>5, <2>6, <2>7, <2>8
<1>2. CASE WriteThrows
  <2>1. DownloadTypeOK'
    BY <1>2 DEF WriteThrows, Abort, Direct, DownloadTypeOK, Ordered, Stages, Port
  <2>2. Ordered'
    BY <1>2 DEF WriteThrows, Abort, Direct, DownloadTypeOK, Ordered, Stages
  <2>3. Windowed'
    BY <1>2 DEF WriteThrows, Abort, Direct, DownloadTypeOK, Windowed, Stages, Chunk
  <2>4. Stages'
    BY <1>2 DEF WriteThrows, Abort, Direct, DownloadTypeOK, Stages, Port, Ordered
  <2>5. Port'
    BY <1>2 DEF WriteThrows, Abort, Direct, DownloadTypeOK, Port, Stages, Ordered
  <2>6. Spoken'
    BY <1>2 DEF WriteThrows, Abort, Direct, DownloadTypeOK, Spoken, Port, Stages
  <2>7. Failed'
    BY <1>2 DEF WriteThrows, Abort, Direct, DownloadTypeOK, Failed, Stages, Port, Spoken
  <2>8. Kept'
    BY <1>2 DEF WriteThrows, Abort, Direct, DownloadTypeOK, Kept, Dropped, Stages, Port, Spoken
  <2> QED
    BY <2>1, <2>2, <2>3, <2>4, <2>5, <2>6, <2>7, <2>8
<1>3. CASE PullThrows
  <2>1. DownloadTypeOK'
    BY <1>3 DEF PullThrows, Abort, Direct, DownloadTypeOK, Ordered, Stages, Port
  <2>2. Ordered'
    BY <1>3 DEF PullThrows, Abort, Direct, DownloadTypeOK, Ordered, Stages
  <2>3. Windowed'
    BY <1>3 DEF PullThrows, Abort, Direct, DownloadTypeOK, Windowed, Stages, Chunk
  <2>4. Stages'
    BY <1>3 DEF PullThrows, Abort, Direct, DownloadTypeOK, Stages, Port, Ordered
  <2>5. Port'
    BY <1>3 DEF PullThrows, Abort, Direct, DownloadTypeOK, Port, Stages, Ordered
  <2>6. Spoken'
    BY <1>3 DEF PullThrows, Abort, Direct, DownloadTypeOK, Spoken, Port, Stages
  <2>7. Failed'
    BY <1>3 DEF PullThrows, Abort, Direct, DownloadTypeOK, Failed, Stages, Port, Spoken
  <2>8. Kept'
    BY <1>3 DEF PullThrows, Abort, Direct, DownloadTypeOK, Kept, Dropped, Stages, Port, Spoken
  <2> QED
    BY <2>1, <2>2, <2>3, <2>4, <2>5, <2>6, <2>7, <2>8
<1> QED
  BY <1>1, <1>2, <1>3

(* Closing the sink. *)
LEMMA PageCloses ==
  ASSUME DownloadInv, CloseDirect \/ CloseThrows \/ CloseWorker \/ Drained \/ DrainTimeout \/ Hear
  PROVE  DownloadInv'
<1> USE Sizes DEF DownloadInv, pageVars, workerVars, Chunk
<1>1. CASE CloseDirect
  <2>1. DownloadTypeOK'
    BY <1>1 DEF CloseDirect, Direct, DownloadTypeOK, Ordered, Stages, Port
  <2>2. Ordered'
    BY <1>1 DEF CloseDirect, Direct, DownloadTypeOK, Ordered, Stages
  <2>3. Windowed'
    BY <1>1 DEF CloseDirect, Direct, DownloadTypeOK, Windowed, Stages, Chunk
  <2>4. Stages'
    BY <1>1 DEF CloseDirect, Direct, DownloadTypeOK, Stages, Port, Ordered
  <2>5. Port'
    BY <1>1 DEF CloseDirect, Direct, DownloadTypeOK, Port, Stages, Ordered
  <2>6. Spoken'
    BY <1>1 DEF CloseDirect, Direct, DownloadTypeOK, Spoken, Port, Stages
  <2>7. Failed'
    BY <1>1 DEF CloseDirect, Direct, DownloadTypeOK, Failed, Stages, Port, Spoken
  <2>8. Kept'
    BY <1>1 DEF CloseDirect, Direct, DownloadTypeOK, Kept, Dropped, Stages, Port, Spoken
  <2> QED
    BY <2>1, <2>2, <2>3, <2>4, <2>5, <2>6, <2>7, <2>8
<1>2. CASE CloseThrows
  <2>1. DownloadTypeOK'
    BY <1>2 DEF CloseThrows, Direct, DownloadTypeOK, Ordered, Stages, Port
  <2>2. Ordered'
    BY <1>2 DEF CloseThrows, Direct, DownloadTypeOK, Ordered, Stages
  <2>3. Windowed'
    BY <1>2 DEF CloseThrows, Direct, DownloadTypeOK, Windowed, Stages, Chunk
  <2>4. Stages'
    BY <1>2 DEF CloseThrows, Direct, DownloadTypeOK, Stages, Port, Ordered
  <2>5. Port'
    BY <1>2 DEF CloseThrows, Direct, DownloadTypeOK, Port, Stages, Ordered
  <2>6. Spoken'
    BY <1>2 DEF CloseThrows, Direct, DownloadTypeOK, Spoken, Port, Stages
  <2>7. Failed'
    BY <1>2 DEF CloseThrows, Direct, DownloadTypeOK, Failed, Stages, Port, Spoken
  <2>8. Kept'
    BY <1>2 DEF CloseThrows, Direct, DownloadTypeOK, Kept, Dropped, Stages, Port, Spoken
  <2> QED
    BY <2>1, <2>2, <2>3, <2>4, <2>5, <2>6, <2>7, <2>8
<1>3. CASE CloseWorker
  <2>1. DownloadTypeOK'
    BY <1>3 DEF CloseWorker, Direct, DownloadTypeOK, Ordered, Stages, Port
  <2>2. Ordered'
    BY <1>3 DEF CloseWorker, Direct, DownloadTypeOK, Ordered, Stages
  <2>3. Windowed'
    BY <1>3 DEF CloseWorker, Direct, DownloadTypeOK, Windowed, Stages, Chunk
  <2>4. Stages'
    BY <1>3 DEF CloseWorker, Direct, DownloadTypeOK, Stages, Port, Ordered
  <2>5. Port'
    BY <1>3 DEF CloseWorker, Direct, DownloadTypeOK, Port, Stages, Ordered
  <2>6. Spoken'
    BY <1>3 DEF CloseWorker, Direct, DownloadTypeOK, Spoken, Port, Stages
  <2>7. Failed'
    BY <1>3 DEF CloseWorker, Direct, DownloadTypeOK, Failed, Stages, Port, Spoken
  <2>8. Kept'
    BY <1>3 DEF CloseWorker, Direct, DownloadTypeOK, Kept, Dropped, Stages, Port, Spoken
  <2> QED
    BY <2>1, <2>2, <2>3, <2>4, <2>5, <2>6, <2>7, <2>8
<1>4. CASE Drained
  <2>1. DownloadTypeOK'
    BY <1>4 DEF Drained, Closed, DrainWait, BrowserCancelled, Heard, DownloadTypeOK, Ordered, Stages, Port
  <2>2. Ordered'
    BY <1>4 DEF Drained, Closed, DrainWait, BrowserCancelled, Heard, DownloadTypeOK, Ordered, Stages
  <2>3. Windowed'
    BY <1>4 DEF Drained, Closed, DrainWait, BrowserCancelled, Heard, DownloadTypeOK, Windowed, Stages, Chunk
  <2>4. Stages'
    BY <1>4 DEF Drained, Closed, DrainWait, BrowserCancelled, Heard, DownloadTypeOK, Stages, Port, Ordered
  <2>5. Port'
    BY <1>4 DEF Drained, Closed, DrainWait, BrowserCancelled, Heard, DownloadTypeOK, Port, Stages, Ordered
  <2>6. Spoken'
    BY <1>4 DEF Drained, Closed, DrainWait, BrowserCancelled, Heard, DownloadTypeOK, Spoken, Port, Stages
  <2>7. Failed'
    BY <1>4 DEF Drained, Closed, DrainWait, BrowserCancelled, Heard, DownloadTypeOK, Failed, Stages, Port, Spoken
  <2>8. Kept'
    BY <1>4 DEF Drained, Closed, DrainWait, BrowserCancelled, Heard, DownloadTypeOK, Kept, Dropped, Stages, Port, Spoken
  <2> QED
    BY <2>1, <2>2, <2>3, <2>4, <2>5, <2>6, <2>7, <2>8
<1>5. CASE DrainTimeout
  <2>1. DownloadTypeOK'
    BY <1>5 DEF DrainTimeout, Closed, BrowserCancelled, Heard, DownloadTypeOK, Ordered, Stages, Port
  <2>2. Ordered'
    BY <1>5 DEF DrainTimeout, Closed, BrowserCancelled, Heard, DownloadTypeOK, Ordered, Stages
  <2>3. Windowed'
    BY <1>5 DEF DrainTimeout, Closed, BrowserCancelled, Heard, DownloadTypeOK, Windowed, Stages, Chunk
  <2>4. Stages'
    BY <1>5 DEF DrainTimeout, Closed, BrowserCancelled, Heard, DownloadTypeOK, Stages, Port, Ordered
  <2>5. Port'
    BY <1>5 DEF DrainTimeout, Closed, BrowserCancelled, Heard, DownloadTypeOK, Port, Stages, Ordered
  <2>6. Spoken'
    BY <1>5 DEF DrainTimeout, Closed, BrowserCancelled, Heard, DownloadTypeOK, Spoken, Port, Stages
  <2>7. Failed'
    BY <1>5 DEF DrainTimeout, Closed, BrowserCancelled, Heard, DownloadTypeOK, Failed, Stages, Port, Spoken
  <2>8. Kept'
    BY <1>5 DEF DrainTimeout, Closed, BrowserCancelled, Heard, DownloadTypeOK, Kept, Dropped, Stages, Port, Spoken
  <2> QED
    BY <2>1, <2>2, <2>3, <2>4, <2>5, <2>6, <2>7, <2>8
<1>6. CASE Hear
  <2>1. DownloadTypeOK'
    BY <1>6 DEF Hear, Direct, DownloadTypeOK, Ordered, Stages, Port
  <2>2. Ordered'
    BY <1>6 DEF Hear, Direct, DownloadTypeOK, Ordered, Stages
  <2>3. Windowed'
    BY <1>6 DEF Hear, Direct, DownloadTypeOK, Windowed, Stages, Chunk
  <2>4. Stages'
    BY <1>6 DEF Hear, Direct, DownloadTypeOK, Stages, Port, Ordered
  <2>5. Port'
    BY <1>6 DEF Hear, Direct, DownloadTypeOK, Port, Stages, Ordered
  <2>6. Spoken'
    BY <1>6 DEF Hear, Direct, DownloadTypeOK, Spoken, Port, Stages
  <2>7. Failed'
    BY <1>6 DEF Hear, Direct, DownloadTypeOK, Failed, Stages, Port, Spoken
  <2>8. Kept'
    BY <1>6 DEF Hear, Direct, DownloadTypeOK, Kept, Dropped, Stages, Port, Spoken
  <2> QED
    BY <2>1, <2>2, <2>3, <2>4, <2>5, <2>6, <2>7, <2>8
<1> QED
  BY <1>1, <1>2, <1>3, <1>4, <1>5, <1>6

(* The worker. *)
LEMMA WorkerTakes ==
  ASSUME DownloadInv, WorkerInit \/ WorkerChunk \/ WorkerClose \/ WorkerAbort
  PROVE  DownloadInv'
<1> USE Sizes DEF DownloadInv, pageVars, workerVars, Chunk
<1>1. CASE WorkerInit
  <2>1. DownloadTypeOK'
    BY <1>1 DEF WorkerInit, Said, DownloadTypeOK, Ordered, Stages, Port
  <2>2. Ordered'
    BY <1>1 DEF WorkerInit, Said, DownloadTypeOK, Ordered, Stages
  <2>3. Windowed'
    BY <1>1 DEF WorkerInit, Said, DownloadTypeOK, Windowed, Stages, Chunk
  <2>4. Stages'
    BY <1>1 DEF WorkerInit, Said, DownloadTypeOK, Stages, Port, Ordered
  <2>5. Port'
    BY <1>1 DEF WorkerInit, Said, DownloadTypeOK, Port, Stages, Ordered
  <2>6. Spoken'
    BY <1>1 DEF WorkerInit, Said, DownloadTypeOK, Spoken, Port, Stages
  <2>7. Failed'
    BY <1>1 DEF WorkerInit, Said, DownloadTypeOK, Failed, Stages, Port, Spoken
  <2>8. Kept'
    BY <1>1 DEF WorkerInit, Said, DownloadTypeOK, Kept, Dropped, Stages, Port, Spoken
  <2> QED
    BY <2>1, <2>2, <2>3, <2>4, <2>5, <2>6, <2>7, <2>8
<1>2. CASE WorkerChunk
  <2>1. DownloadTypeOK'
    BY <1>2 DEF WorkerChunk, Receives, DownloadTypeOK, Ordered, Stages, Port
  <2>2. Ordered'
    BY <1>2 DEF WorkerChunk, Receives, DownloadTypeOK, Ordered, Stages
  <2>3. Windowed'
    BY <1>2 DEF WorkerChunk, Receives, DownloadTypeOK, Windowed, Stages, Chunk
  <2>4. Stages'
    BY <1>2 DEF WorkerChunk, Receives, DownloadTypeOK, Stages, Port, Ordered
  <2>5. Port'
    BY <1>2 DEF WorkerChunk, Receives, DownloadTypeOK, Port, Stages, Ordered
  <2>6. Spoken'
    BY <1>2 DEF WorkerChunk, Receives, DownloadTypeOK, Spoken, Port, Stages, Ordered
  <2>7. Failed'
    BY <1>2 DEF WorkerChunk, Receives, DownloadTypeOK, Failed, Stages, Port, Spoken
  <2>8. Kept'
    BY <1>2, SameDropped DEF WorkerChunk, Receives, DownloadTypeOK, Kept, Dropped, Stages, Port, Ordered
  <2> QED
    BY <2>1, <2>2, <2>3, <2>4, <2>5, <2>6, <2>7, <2>8
<1>3. CASE WorkerClose
  <2>1. DownloadTypeOK'
    BY <1>3 DEF WorkerClose, Receives, Said, DownloadTypeOK, Ordered, Stages, Port
  <2>2. Ordered'
    BY <1>3 DEF WorkerClose, Receives, Said, DownloadTypeOK, Ordered, Stages
  <2>3. Windowed'
    BY <1>3 DEF WorkerClose, Receives, Said, DownloadTypeOK, Windowed, Stages, Chunk
  <2>4. Stages'
    BY <1>3 DEF WorkerClose, Receives, Said, DownloadTypeOK, Stages, Port, Ordered
  <2>5. Port'
    BY <1>3 DEF WorkerClose, Receives, Said, DownloadTypeOK, Port, Stages, Ordered
  <2>6. Spoken'
    <3>1. /\ alive /\ ending = "close" /\ taken' = Last + 1 /\ ending' = ending
          /\ alive' = alive /\ dest' = dest /\ said' = Append(said, "drained")
          /\ stream' = IF stream = "open" THEN "closed" ELSE stream
          /\ stream = "open" => dest = Last
          /\ stream \in {"open", "cancelled"}
      BY <1>3 DEF WorkerClose, Receives, Said, DownloadTypeOK, Stages, Port, Ordered, Spoken
    <3>2. /\ Len(said') = Len(said) + 1 /\ said'[Len(said) + 1] = "drained"
          /\ \A k \in 1..Len(said) : said'[k] = said[k]
          /\ Len(said) \in Nat
      BY <3>1 DEF DownloadTypeOK
    <3>3. stream' = "cancelled" => \E k \in 1..Len(said) : said'[k] = "cancelled"
      BY <3>1, <3>2 DEF Spoken
    <3>4. \A k \in 1..Len(said) : said[k] = "cancelled" => stream = "cancelled"
      BY <3>1 DEF Spoken
    <3>5. \A k \in 1..Len(said) : said[k] # "drained"
      BY <1>3 DEF Spoken, WorkerClose, Receives, Ordered, Stages, DownloadTypeOK
    <3> QED
      BY <3>1, <3>2, <3>3, <3>4, <3>5 DEF Spoken
  <2>7. Failed'
    BY <1>3 DEF WorkerClose, Receives, Said, DownloadTypeOK, Failed, Stages, Port, Spoken
  <2>8. Kept'
    <3>1. Dropped' = Dropped
      BY <1>3, SaysNoCancel DEF WorkerClose, Receives, Said
    <3>2. ~Dropped => stream = "open" /\ dest = Last
      BY <1>3 DEF WorkerClose, Receives, DownloadTypeOK, Dropped, Spoken, Stages, Port, Ordered
    <3> QED
      BY <1>3, <3>1, <3>2 DEF WorkerClose, Receives, DownloadTypeOK, Kept, Stages, Port, Ordered
  <2> QED
    BY <2>1, <2>2, <2>3, <2>4, <2>5, <2>6, <2>7, <2>8
<1>4. CASE WorkerAbort
  <2>1. DownloadTypeOK'
    BY <1>4 DEF WorkerAbort, Receives, DownloadTypeOK, Ordered, Stages, Port
  <2>2. Ordered'
    BY <1>4 DEF WorkerAbort, Receives, DownloadTypeOK, Ordered, Stages
  <2>3. Windowed'
    BY <1>4 DEF WorkerAbort, Receives, DownloadTypeOK, Windowed, Stages, Chunk
  <2>4. Stages'
    BY <1>4 DEF WorkerAbort, Receives, DownloadTypeOK, Stages, Port, Ordered
  <2>5. Port'
    BY <1>4 DEF WorkerAbort, Receives, DownloadTypeOK, Port, Stages, Ordered
  <2>6. Spoken'
    BY <1>4 DEF WorkerAbort, Receives, DownloadTypeOK, Spoken, Port, Stages
  <2>7. Failed'
    BY <1>4 DEF WorkerAbort, Receives, DownloadTypeOK, Failed, Stages, Port, Spoken
  <2>8. Kept'
    BY <1>4 DEF WorkerAbort, Receives, DownloadTypeOK, Kept, Dropped, Stages, Port, Spoken
  <2> QED
    BY <2>1, <2>2, <2>3, <2>4, <2>5, <2>6, <2>7, <2>8
<1> QED
  BY <1>1, <1>2, <1>3, <1>4

(* The browser. *)
LEMMA BrowserActs ==
  ASSUME DownloadInv, BrowserCancels \/ BrowserSaves \/ Evict
  PROVE  DownloadInv'
<1> USE Sizes DEF DownloadInv, pageVars, workerVars, Chunk
<1>1. CASE BrowserCancels
  <2>1. DownloadTypeOK'
    BY <1>1 DEF BrowserCancels, Said, DownloadTypeOK, Ordered, Stages, Port
  <2>2. Ordered'
    BY <1>1 DEF BrowserCancels, Said, DownloadTypeOK, Ordered, Stages
  <2>3. Windowed'
    BY <1>1 DEF BrowserCancels, Said, DownloadTypeOK, Windowed, Stages, Chunk
  <2>4. Stages'
    BY <1>1 DEF BrowserCancels, Said, DownloadTypeOK, Stages, Port, Ordered
  <2>5. Port'
    BY <1>1 DEF BrowserCancels, Said, DownloadTypeOK, Port, Stages, Ordered
  <2>6. Spoken'
    BY <1>1 DEF BrowserCancels, Said, DownloadTypeOK, Spoken, Port, Stages
  <2>7. Failed'
    BY <1>1 DEF BrowserCancels, Said, DownloadTypeOK, Failed, Stages, Port, Spoken
  <2>8. Kept'
    BY <1>1 DEF BrowserCancels, Said, DownloadTypeOK, Kept, Dropped, Stages, Port, Spoken
  <2> QED
    BY <2>1, <2>2, <2>3, <2>4, <2>5, <2>6, <2>7, <2>8
<1>2. CASE BrowserSaves
  <2>1. DownloadTypeOK'
    BY <1>2 DEF BrowserSaves, DownloadTypeOK, Ordered, Stages, Port
  <2>2. Ordered'
    BY <1>2 DEF BrowserSaves, DownloadTypeOK, Ordered, Stages
  <2>3. Windowed'
    BY <1>2 DEF BrowserSaves, DownloadTypeOK, Windowed, Stages, Chunk
  <2>4. Stages'
    BY <1>2 DEF BrowserSaves, DownloadTypeOK, Stages, Port, Ordered
  <2>5. Port'
    BY <1>2 DEF BrowserSaves, DownloadTypeOK, Port, Stages, Ordered
  <2>6. Spoken'
    BY <1>2 DEF BrowserSaves, DownloadTypeOK, Spoken, Port, Stages
  <2>7. Failed'
    BY <1>2 DEF BrowserSaves, DownloadTypeOK, Failed, Stages, Port, Spoken
  <2>8. Kept'
    BY <1>2 DEF BrowserSaves, DownloadTypeOK, Kept, Dropped, Stages, Port, Spoken
  <2> QED
    BY <2>1, <2>2, <2>3, <2>4, <2>5, <2>6, <2>7, <2>8
<1>3. CASE Evict
  <2>1. DownloadTypeOK'
    <3>1. UNCHANGED <<pc, i, fetch, sink, written, ending, taken, said, heard, saved>>
      BY <1>3 DEF Evict
    <3>2. /\ alive' \in BOOLEAN
          /\ stream' \in {"none", "open", "closed", "errored", "cancelled", "late"}
          /\ dest' \in 0..Last
      <4>1. alive' = FALSE
        BY <1>3 DEF Evict
      <4>2. \/ stream' = "errored" /\ dest' = 0
            \/ stream' = stream /\ dest' = dest
        BY <1>3 DEF Evict
      <4>3. dest' \in 0..Last
        BY <4>2 DEF DownloadTypeOK
      <4>4. stream' \in {"none", "open", "closed", "errored", "cancelled", "late"}
        BY <4>2, Zenon DEF DownloadTypeOK
      <4> QED
        BY <4>1, <4>3, <4>4
    <3> QED
      BY <3>1, <3>2 DEF DownloadTypeOK
  <2>2. Ordered'
    BY <1>3 DEF Evict, DownloadTypeOK, Ordered, Stages
  <2>3. Windowed'
    BY <1>3 DEF Evict, DownloadTypeOK, Windowed, Stages, Chunk
  <2>4. Stages'
    BY <1>3 DEF Evict, DownloadTypeOK, Stages, Port, Ordered
  <2>5. Port'
    BY <1>3 DEF Evict, DownloadTypeOK, Port, Stages, Ordered
  <2>6. Spoken'
    BY <1>3 DEF Evict, DownloadTypeOK, Spoken, Port, Stages
  <2>7. Failed'
    BY <1>3 DEF Evict, DownloadTypeOK, Failed, Stages, Port, Spoken
  <2>8. Kept'
    BY <1>3 DEF Evict, DownloadTypeOK, Kept, Dropped, Stages, Port, Spoken
  <2> QED
    BY <2>1, <2>2, <2>3, <2>4, <2>5, <2>6, <2>7, <2>8
<1> QED
  BY <1>1, <1>2, <1>3

(* A fetch ends. *)
LEMMA FetchEndsKeeps ==
  ASSUME DownloadInv, NEW c \in Chunk, FetchEnds(c)
  PROVE  DownloadInv'
<1>1. fetch' \in [Chunk -> {"none", "fetch", "ok", "bad"}]
  BY DEF FetchEnds, DownloadInv, DownloadTypeOK
<1>2. \A d \in Chunk : fetch'[d] # "none" => fetch[d] # "none"
  BY DEF FetchEnds, DownloadInv, DownloadTypeOK
<1>3. UNCHANGED <<pc, i, sink, written, ending, heard, workerVars>>
  BY DEF FetchEnds
<1> USE DEF workerVars, DownloadInv
<1>4. DownloadTypeOK' /\ Windowed'
  BY <1>1, <1>2, <1>3 DEF DownloadTypeOK, Windowed
<1>5. Ordered' /\ Stages' /\ Port'
  BY <1>3 DEF Ordered, Stages, Port
<1>6. Spoken' /\ Failed' /\ Kept'
  BY <1>3 DEF Spoken, Failed, Kept, Dropped
<1> QED
  BY <1>4, <1>5, <1>6

-----------------------------------------------------------------------------
(* Every step.                                                             *)

LEMMA InvNext == DownloadInv /\ [DownloadNext]_downloadVars => DownloadInv'
<1> SUFFICES ASSUME DownloadInv, [DownloadNext]_downloadVars PROVE DownloadInv'
  OBVIOUS
<1>1. CASE \E c \in Chunk : FetchEnds(c)
  BY <1>1, FetchEndsKeeps
<1>2. CASE StartDownload \/ Answer \/ OpenDirect \/ OpenFails \/ OpenWorker \/ InitAck \/ AckTimeout
  BY <1>2, PageOpens
<1>3. CASE Write \/ WriteThrows \/ PullThrows
  BY <1>3, PagePulls
<1>4. CASE CloseDirect \/ CloseThrows \/ CloseWorker \/ Drained \/ DrainTimeout \/ Hear
  BY <1>4, PageCloses
<1>5. CASE DownloadWorker
  BY <1>5, WorkerTakes DEF DownloadWorker
<1>6. CASE BrowserCancels \/ BrowserSaves \/ Evict
  BY <1>6, BrowserActs
<1>7. CASE UNCHANGED downloadVars
  <2> USE <1>7 DEF downloadVars, DownloadInv
  <2>1. DownloadTypeOK' /\ Windowed' /\ Ordered'
    BY DEF DownloadTypeOK, Windowed, Ordered
  <2>2. Stages' /\ Port' /\ Spoken' /\ Failed' /\ Kept'
    BY DEF Stages, Port, Spoken, Failed, Kept, Dropped
  <2> QED
    BY <2>1, <2>2
<1> QED
  BY <1>1, <1>2, <1>3, <1>4, <1>5, <1>6, <1>7 DEF DownloadNext, DownloadGoesOn, DownloadPage

LEMMA DownloadInvHolds == DownloadSafety => []DownloadInv
BY InvInit, InvNext, PTL DEF DownloadSafety

-----------------------------------------------------------------------------
(* The theorems.                                                           *)

\* Every variable of a download keeps its type, however page, worker and browser
\* interleave.
THEOREM DownloadTypeCorrect == DownloadSafety => []DownloadTypeOK
<1>1. DownloadInv => DownloadTypeOK
  BY DEF DownloadInv
<1> QED
  BY <1>1, DownloadInvHolds, PTL

\* The chunks downloadFile holds in memory are at most Window, in a row from the
\* one it drains next.
THEOREM DownloadStaysInWindow == DownloadSafety => []DownloadInWindow
<1>1. DownloadInv => DownloadInWindow
  <2> SUFFICES ASSUME DownloadInv PROVE DownloadInWindow
    OBVIOUS
  <2> DEFINE held == {c \in Chunk : fetch[c] # "none"}
             span == i..(i + Window - 1)
  <2>1. i \in Int /\ i + Window - 1 \in Int
    BY Sizes DEF DownloadInv, DownloadTypeOK
  <2>2. IsFiniteSet(span) /\ Cardinality(span) = Window
    BY <2>1, FS_Interval, Sizes
  <2>3. held \subseteq span
    BY <2>1, Sizes DEF DownloadInv, Windowed, Chunk
  <2>4. IsFiniteSet(held) /\ Cardinality(held) <= Cardinality(span)
    BY <2>2, <2>3, FS_Subset
  <2> QED
    BY <2>2, <2>4 DEF DownloadInWindow
<1> QED
  BY <1>1, DownloadInvHolds, PTL

\* A download that ends in an error or was dismissed shows no finished file,
\* whichever worker is killed whenever.
THEOREM DownloadFailedIsNotSaved == DownloadSafety => []FailedIsNotSaved
<1>1. DownloadInv => FailedIsNotSaved
  BY DEF DownloadInv, Failed, FailedIsNotSaved
<1> QED
  BY <1>1, DownloadInvHolds, PTL

LEMMA InOrderHolds == DownloadInv => InOrder
<1> SUFFICES ASSUME DownloadInv PROVE InOrder
  OBVIOUS
<1>1. written \in Seq(Chunk) /\ \A k \in 1..Len(written) : written[k] = k
  BY DEF DownloadInv, DownloadTypeOK, Ordered
<1>2. written = [k \in 1..Len(written) |-> written[k]]
  BY <1>1
<1> QED
  BY <1>1, <1>2 DEF InOrder

LEMMA WholeHolds == ASSUME DownloadInv PROVE DoneIsWhole
<1> SUFFICES ASSUME pc = "done" PROVE InOrder /\ Len(written) = Last /\ (dest = Last \/ Dropped)
  BY DEF DoneIsWhole
<1>1. dest = Last \/ Dropped
  BY DEF DownloadInv, Kept
<1>2. Len(written) = Last
  BY Sizes DEF DownloadInv, Stages, Ordered
<1> QED
  BY <1>1, <1>2, InOrderHolds

\* A download reported done has given every chunk to its sink, in order, and the
\* destination has them all, unless the browser has cancelled the stream or killed
\* the worker in the middle of it.
THEOREM DownloadDoneIsWhole == DownloadSafety => []DoneIsWhole
<1>1. DownloadInv => DoneIsWhole
  BY WholeHolds
<1> QED
  BY <1>1, DownloadInvHolds, PTL

-----------------------------------------------------------------------------
(* downloadFile implements Transfer, but for its liveness.                 *)

\* A sink in order holds the first d chunks.
LEMMA FirstPieces ==
  ASSUME NEW w, NEW n \in Int, NEW d \in Int, d <= n, \A k \in 1..n : w[k] = k
  PROVE  {w[k] : k \in 1..d} = 1..d
OBVIOUS

\* What a step does to the verdict and to what the destination holds.
RecordStep ==
  LET is   == DownloadRecord
      next == DownloadRecord'
  IN \/ next = is /\ dest' = dest /\ Dropped' = Dropped
     \/ is = "idle" /\ next = "running" /\ dest' = dest /\ Dropped' = Dropped
     \/ next = is /\ is # "done" /\ dest' = dest + 1 /\ Dropped' = Dropped
     \/ next = is /\ is = "error" /\ dest' = 0 /\ Dropped' = Dropped
     \/ next = is /\ is # "idle" /\ dest' \in {dest, 0} /\ Dropped'
     \/ is = "running" /\ next = "error" /\ dest' \in {dest, 0} /\ Dropped' = Dropped
     \/ is = "running" /\ next = "done" /\ dest' = dest /\ Dropped' = Dropped

LEMMA RecordSteps ==
  ASSUME DownloadInv, [DownloadNext]_downloadVars
  PROVE  RecordStep
<1> USE SameDropped DEF RecordStep, DownloadRecord, DownloadInv
<1>1. CASE StartDownload
  BY <1>1 DEF StartDownload, workerVars
<1>2. CASE Answer \/ OpenFails
  BY <1>2 DEF Answer, OpenFails, workerVars
<1>3. CASE OpenDirect \/ OpenWorker \/ InitAck \/ AckTimeout
  BY <1>3 DEF OpenDirect, OpenWorker, InitAck, AckTimeout, Open, workerVars
<1>4. CASE \E c \in Chunk : FetchEnds(c)
  BY <1>4 DEF FetchEnds, workerVars
<1>5. CASE Write \/ WriteThrows \/ PullThrows
  BY <1>5 DEF Write, WriteThrows, PullThrows, Abort
<1>6. CASE CloseDirect \/ CloseThrows \/ CloseWorker \/ Hear
  BY <1>6 DEF CloseDirect, CloseThrows, CloseWorker, Hear, workerVars
<1>7. CASE Drained \/ DrainTimeout
  BY <1>7 DEF Drained, DrainTimeout, Closed, workerVars
<1>8. CASE WorkerInit \/ WorkerClose
  <2>1. Dropped' = Dropped
    BY <1>8, SaysNoCancel DEF WorkerInit, WorkerClose, Receives, Said
  <2> QED
    BY <1>8, <2>1 DEF WorkerInit, WorkerClose
<1>14. CASE BrowserSaves
  BY <1>14 DEF BrowserSaves
<1>9. CASE WorkerChunk
  <2>1. stream = "open" => pc # "done"
    <3>1. SUFFICES ASSUME stream = "open", pc = "done" PROVE FALSE
      OBVIOUS
    <3>2. ~Dropped
      BY <1>9, <3>1 DEF Dropped, Spoken, WorkerChunk, Receives
    <3> QED
      BY <1>9, <3>1, <3>2, Sizes DEF WorkerChunk, Receives, Ordered, Stages, Kept, DownloadTypeOK
  <2> QED
    BY <1>9, <2>1 DEF WorkerChunk
<1>10. CASE WorkerAbort
  <2>1. pc \in {"error", "dropped"} /\ Dropped' = Dropped
    BY <1>10 DEF WorkerAbort, Receives, Stages, Dropped, DownloadTypeOK
  <2> QED
    BY <1>10, <2>1 DEF WorkerAbort
<1>11. CASE BrowserCancels
  <2>1. pc # "idle"
    BY <1>11 DEF BrowserCancels, Stages
  <2>2. Dropped'
    <3>1. Len(said') = Len(said) + 1 /\ said'[Len(said) + 1] = "cancelled"
      BY <1>11 DEF BrowserCancels, Said, DownloadTypeOK
    <3> QED
      BY <3>1 DEF Dropped, DownloadTypeOK
  <2> QED
    BY <1>11, <2>1, <2>2 DEF BrowserCancels
<1>12. CASE Evict
  <2>1. pc # "idle" /\ pc' = pc
    BY <1>12 DEF Evict, Stages
  <2>2. CASE stream' = "errored" /\ dest' = 0
    BY <1>12, <2>1, <2>2 DEF Evict, Dropped
  <2>3. CASE UNCHANGED <<stream, dest>>
    <3>1. Dropped' = Dropped \/ Dropped'
      BY <1>12, <2>3 DEF Evict, Dropped
    <3> QED
      BY <2>1, <2>3, <3>1
  <2> QED
    BY <1>12, <2>2, <2>3 DEF Evict
<1>13. CASE UNCHANGED downloadVars
  BY <1>13 DEF downloadVars
<1> QED
  BY <1>1, <1>2, <1>3, <1>4, <1>5, <1>6, <1>7, <1>8, <1>9, <1>10, <1>11, <1>12, <1>13, <1>14
  DEF DownloadNext, DownloadGoesOn, DownloadPage, DownloadWorker

Arrived == {written[k] : k \in 1..dest}

ArrivedInv == Arrived = 1..dest /\ dest \in 0..Last

LEMMA ArrivedHolds == DownloadSafety => []ArrivedInv
<1>1. DownloadInv => ArrivedInv
  <2> SUFFICES ASSUME DownloadInv PROVE ArrivedInv
    OBVIOUS
  <2>1. dest \in 0..Last /\ i \in 1..(Last + 1) /\ dest <= i - 1
    BY DEF DownloadInv, DownloadTypeOK, Port
  <2>2. \A k \in 1..(i - 1) : written[k] = k
    BY DEF DownloadInv, Ordered
  <2> QED
    BY <2>1, <2>2, FirstPieces, Sizes DEF ArrivedInv, Arrived
<1> QED
  BY <1>1, DownloadInvHolds, PTL

LEMMA DownloadMaps ==
  ASSUME DownloadInv', ArrivedInv, ArrivedInv', RecordStep
  PROVE  [DT!Next]_DT!transferVars
<1>1. Arrived = 1..dest /\ dest \in 0..Last
  BY DEF ArrivedInv
<1>2. Arrived' = 1..dest' /\ dest' \in 0..Last
  BY DEF ArrivedInv
<1>3. DownloadRecord' = "done" => dest' = Last \/ Dropped'
  BY DEF DownloadInv, Kept, DownloadRecord
<1>4. CASE DownloadRecord' = DownloadRecord /\ dest' = dest /\ Dropped' = Dropped
  BY <1>1, <1>2, <1>4 DEF DT!transferVars, Arrived
<1>5. CASE DownloadRecord = "idle" /\ DownloadRecord' = "running" /\ dest' = dest
           /\ Dropped' = Dropped
  BY <1>1, <1>2, <1>5 DEF DT!Begin, DT!Next, Arrived
<1>6. CASE /\ DownloadRecord' = DownloadRecord /\ DownloadRecord # "done" /\ dest' = dest + 1
           /\ Dropped' = Dropped
  <2>1. PICK c \in Chunk : c = dest + 1
    BY <1>1, <1>2, <1>6 DEF Chunk
  <2>2. Arrived' = Arrived \cup {c}
    BY <1>1, <1>2, <1>6, <2>1
  <2>3. DT!Land(c)
    BY <1>6, <2>2 DEF DT!Land, Arrived
  <2> QED
    BY <2>3 DEF DT!Next
<1>7. CASE /\ DownloadRecord' = DownloadRecord /\ DownloadRecord = "error" /\ dest' = 0
           /\ Dropped' = Dropped
  <2>1. Arrived' = {}
    BY <1>2, <1>7
  <2>2. DT!Clear
    BY <1>7, <2>1 DEF DT!Clear, Arrived
  <2> QED
    BY <2>2 DEF DT!Next
<1>10. CASE /\ DownloadRecord' = DownloadRecord /\ DownloadRecord # "idle" /\ dest' \in {dest, 0}
            /\ Dropped'
  <2>1. Arrived' \subseteq Arrived
    BY <1>1, <1>2, <1>10
  <2>2. DT!Drop
    BY <1>10, <2>1 DEF DT!Drop, Arrived, Dropped
  <2> QED
    BY <2>2 DEF DT!Next
<1>8. CASE /\ DownloadRecord = "running" /\ DownloadRecord' = "error" /\ dest' \in {dest, 0}
           /\ Dropped' = Dropped
  <2>1. Arrived' \subseteq Arrived
    BY <1>1, <1>2, <1>8
  <2>2. DT!Fail
    BY <1>8, <2>1 DEF DT!Fail, Arrived
  <2> QED
    BY <2>2 DEF DT!Next
<1>9. CASE /\ DownloadRecord = "running" /\ DownloadRecord' = "done" /\ dest' = dest
           /\ Dropped' = Dropped
  <2>1. (Arrived = Chunk \/ Dropped) /\ Arrived' = Arrived
    BY <1>1, <1>2, <1>3, <1>9 DEF Chunk
  <2>2. DT!Finish
    BY <1>9, <2>1 DEF DT!Finish, Arrived
  <2> QED
    BY <2>2 DEF DT!Next
<1> QED
  BY <1>4, <1>5, <1>6, <1>7, <1>8, <1>9, <1>10 DEF RecordStep

\* Every behaviour of a download is one of a transfer: its verdict is final, and done
\* only when all has Arrived or the browser has discarded the file; the worker may
\* be killed and the stream cancelled at any time.
THEOREM DownloadImplementsTransfer == DownloadSafety => DT!Safety
<1>1. DownloadInit => DT!Init
  BY DEF DownloadInit, DT!Init, DownloadRecord, Dropped
<1>2. DownloadInv /\ DownloadInv' /\ ArrivedInv /\ ArrivedInv' /\ [DownloadNext]_downloadVars
        => [DT!Next]_DT!transferVars
  BY RecordSteps, DownloadMaps
<1> QED
  BY <1>1, <1>2, DownloadInvHolds, ArrivedHolds, PTL DEF DownloadSafety, DT!Safety
=============================================================================
