------------------------------ MODULE Download ------------------------------
(***************************************************************************)
(* downloadFile and the sink it writes to. The page keeps a window of      *)
(* fetches in flight, drains them in order into a sink, and closes it. The *)
(* sink is either direct (a file the user picked, or a blob) or streams    *)
(* through a service worker: page and worker exchange messages over a      *)
(* port, the browser reads the worker's stream and writes the file, may    *)
(* cancel it at any time, and may kill the worker.                         *)
(*                                                                         *)
(* Each direction of the port is first in, first out. What the page has    *)
(* posted is written, then ending; the worker has taken the first `taken`  *)
(* messages of it. What the worker has posted is said; the page has heard  *)
(* the first `heard` messages of it.                                       *)
(*                                                                         *)
(* Simplifications.                                                        *)
(*  - A worker that is alive answers the close within the 10 s the page    *)
(*    waits; the 5 s for the first ack may run out before a late ack.      *)
(*  - A stream whose iframe was never injected is nobody's: after a late   *)
(*    ack the model forgets it.                                            *)
(*  - Fetches nobody waits for any more are forgotten too.                 *)
(***************************************************************************)
EXTENDS Chunked

VARIABLES
  pc,       \* where downloadFile is
  i,        \* the chunk it drains next
  fetch,    \* fetch[c]: the promise of chunk c
  sink,     \* the kind of sink
  written,  \* the chunks given to the sink, in order
  ending,   \* what the page posted after them
  taken,    \* page messages the worker has taken
  said,     \* what the worker posted
  heard,    \* worker messages the page has taken
  stream,   \* the worker's ReadableStream
  dest,     \* how many of the chunks the destination has accepted and kept
  alive,    \* the worker
  saved     \* the browser shows a finished file

downloadVars == <<pc, i, fetch, sink, written, ending, taken, said, heard,
                  stream, dest, alive, saved>>

pageVars   == <<i, fetch, sink, written, ending>>
workerVars == <<taken, said, stream, dest, alive, saved>>

-----------------------------------------------------------------------------
(* Helpers.                                                                *)

DownloadInit ==
  /\ pc = "idle" /\ i = 1 /\ fetch = [c \in Chunk |-> "none"]
  /\ sink = "none" /\ written = <<>> /\ ending = "none"
  /\ taken = 0 /\ said = <<>> /\ heard = 0
  /\ stream = "none" /\ dest = 0 /\ alive = TRUE /\ saved = FALSE

Said(m)  == said' = Append(said, m)
Heard(m) == \E k \in 1..heard : said[k] = m

\* browserCancelled; drainWait resolves with it too.
BrowserCancelled == Heard("cancelled")
DrainWait        == Heard("drained") \/ Heard("cancelled")

Direct == sink = "direct"

-----------------------------------------------------------------------------
(* The page: opening.                                                      *)

StartDownload ==
  /\ pc = "idle" /\ row = "complete"
  /\ pc' = "ask" /\ UNCHANGED <<pageVars, workerVars, heard>>

\* chunk-download answers with the chunks' URLs, or refuses.
Answer ==
  /\ pc = "ask"
  /\ pc' \in {"open", "error"}
  /\ UNCHANGED <<pageVars, workerVars, heard>>

\* The sink is there: the first window of fetches starts.
Open(kind) ==
  /\ pc' = "pull" /\ sink' = kind
  /\ fetch' = [c \in Chunk |-> IF c <= Window THEN "fetch" ELSE "none"]
  /\ UNCHANGED <<i, written, ending>>

\* A picked file; or a blob, when no worker controls the page.
OpenDirect ==
  /\ pc = "open"
  /\ Open("direct") /\ UNCHANGED <<workerVars, heard>>

\* The picker is dismissed, or the file is too large for a blob.
OpenFails ==
  /\ pc = "open"
  /\ pc' \in {"dropped", "error"} /\ UNCHANGED <<pageVars, workerVars, heard>>

\* makeSwSink posts download-init and waits for the ack.
OpenWorker ==
  /\ pc = "open"
  /\ pc' = "ack" /\ sink' = "worker"
  /\ UNCHANGED <<i, fetch, written, ending, workerVars, heard>>

InitAck ==
  /\ pc = "ack" /\ heard < Len(said)
  /\ heard' = heard + 1
  /\ Open("worker") /\ UNCHANGED workerVars

\* Mutant: the page waits for the ack for ever.
AckTimeoutNever == FALSE

\* After 5 s: the blob, or no download of a file this large.
AckTimeout ==
  /\ pc = "ack"
  /\ \/ Open("direct")
     \/ pc' = "error" /\ UNCHANGED pageVars
  /\ UNCHANGED <<workerVars, heard>>

-----------------------------------------------------------------------------
(* The page: the pipeline.                                                 *)

\* Fetch and decrypt. Without the object, or with other bytes than the key
\* opens, decrypt rejects; and the network may fail.
FetchEnds(c) ==
  /\ fetch[c] = "fetch"
  /\ \/ stored[c] = "live" /\ fetch' = [fetch EXCEPT ![c] = "ok"]
     \/ fetch' = [fetch EXCEPT ![c] = "bad"]
  /\ UNCHANGED <<pc, i, sink, written, ending, heard, workerVars>>

\* The chunk leaves the window and the next one enters it.
Slide ==
  fetch' = [c \in Chunk |-> IF c = i THEN "none"
                            ELSE IF c = i + Window THEN "fetch" ELSE fetch[c]]

Write ==
  /\ pc = "pull" /\ i \in Chunk /\ fetch[i] = "ok"
  /\ ~BrowserCancelled
  /\ written' = Append(written, i)
  /\ dest' = IF Direct THEN dest + 1 ELSE dest
  /\ i' = i + 1 /\ Slide
  /\ UNCHANGED <<pc, sink, ending, heard, taken, said, stream, alive, saved>>

\* Mutant: the sink is closed on the way out instead of aborted.
AbortCloses ==
  /\ pc' = "error" /\ ending' = "close"
  /\ dest' = IF Direct THEN 0 ELSE dest
  /\ fetch' = [c \in Chunk |-> "none"]
  /\ UNCHANGED <<i, sink, written, heard, taken, said, stream, alive, saved>>

\* sink.abort: the direct sink discards what it has, the worker is told.
Abort ==
  /\ pc' = "error" /\ ending' = "abort"
  /\ dest' = IF Direct THEN 0 ELSE dest
  /\ fetch' = [c \in Chunk |-> "none"]
  /\ UNCHANGED <<i, sink, written, heard, taken, said, stream, alive, saved>>

\* The disk is full, or the browser has cancelled the stream.
WriteThrows ==
  /\ pc = "pull" /\ i \in Chunk /\ fetch[i] = "ok"
  /\ Direct \/ BrowserCancelled
  /\ Abort

PullThrows ==
  /\ pc = "pull" /\ i \in Chunk /\ fetch[i] = "bad"
  /\ Abort

CloseDirect ==
  /\ pc = "pull" /\ i \notin Chunk /\ Direct
  /\ pc' = "done" /\ saved' = TRUE
  /\ UNCHANGED <<pageVars, heard, taken, said, stream, dest, alive>>

\* The picked file cannot be committed; the sink counts as closed already.
CloseThrows ==
  /\ pc = "pull" /\ i \notin Chunk /\ Direct
  /\ pc' = "error" /\ dest' = 0
  /\ UNCHANGED <<pageVars, heard, taken, said, stream, alive, saved>>

CloseWorker ==
  /\ pc = "pull" /\ i \notin Chunk /\ ~Direct
  /\ pc' = "wait" /\ ending' = "close"
  /\ UNCHANGED <<i, fetch, sink, written, heard, workerVars>>

\* close resolves, and looks once more whether the stream was cancelled.
Closed ==
  /\ pc' = IF BrowserCancelled THEN "error" ELSE "done"
  /\ UNCHANGED <<pageVars, heard, workerVars>>

Drained == pc = "wait" /\ DrainWait /\ Closed

\* After 10 s, when nobody answers any more.
DrainTimeout == pc = "wait" /\ ~alive /\ Closed

Hear ==
  /\ pc \in {"pull", "wait"} /\ ~Direct /\ heard < Len(said)
  /\ heard' = heard + 1
  /\ UNCHANGED <<pc, pageVars, workerVars>>

-----------------------------------------------------------------------------
(* The worker (public/download-sw.js).                                     *)

WorkerInit ==
  /\ alive /\ sink = "worker" /\ stream = "none"
  /\ stream' = "open" /\ Said("ack")
  /\ UNCHANGED <<pc, pageVars, heard, taken, dest, alive, saved>>

Receives == alive /\ sink = "worker" /\ stream # "none"

\* enqueue throws on a stream that is not open; the chunk is dropped.
WorkerChunk ==
  /\ Receives /\ taken < Len(written)
  /\ taken' = taken + 1
  /\ dest' = IF stream = "open" THEN dest + 1 ELSE dest
  /\ UNCHANGED <<pc, pageVars, heard, said, stream, alive, saved>>

WorkerClose ==
  /\ Receives /\ taken = Len(written) /\ ending = "close"
  /\ taken' = taken + 1
  /\ stream' = IF stream = "open" THEN "closed" ELSE stream
  /\ Said("drained")
  /\ UNCHANGED <<pc, pageVars, heard, dest, alive, saved>>

WorkerAbort ==
  /\ Receives /\ taken = Len(written) /\ ending = "abort"
  /\ taken' = taken + 1
  /\ IF stream = "open" THEN stream' = "errored" /\ dest' = 0
     ELSE UNCHANGED <<stream, dest>>
  /\ UNCHANGED <<pc, pageVars, heard, said, alive, saved>>

-----------------------------------------------------------------------------
(* The browser.                                                            *)

\* Cancel, disk full, the tab's download removed: while the stream is read,
\* also after the worker has closed it (late). What was written is discarded.
BrowserCancels ==
  /\ pc # "ack" /\ alive /\ sink = "worker"
  /\ \/ stream = "open" /\ stream' = "cancelled"
     \/ stream = "closed" /\ ~saved /\ stream' = "late"
  /\ dest' = 0
  /\ Said("cancelled")
  /\ UNCHANGED <<pc, pageVars, heard, taken, alive, saved>>

BrowserSaves ==
  /\ stream = "closed" /\ ~saved
  /\ saved' = TRUE
  /\ UNCHANGED <<pc, pageVars, heard, taken, said, stream, dest, alive>>

\* The worker is killed: before it has answered, in mid-stream, or afterwards.
Evict ==
  /\ alive /\ sink = "worker"
  /\ alive' = FALSE
  /\ IF stream \in {"open", "closed"} /\ ~saved
     THEN stream' = "errored" /\ dest' = 0
     ELSE UNCHANGED <<stream, dest>>
  /\ UNCHANGED <<pc, pageVars, heard, taken, said, saved>>

-----------------------------------------------------------------------------
DownloadPage ==
  \/ Answer \/ OpenDirect \/ OpenFails \/ OpenWorker \/ InitAck \/ AckTimeout
  \/ \E c \in Chunk : FetchEnds(c)
  \/ Write \/ WriteThrows \/ PullThrows
  \/ CloseDirect \/ CloseThrows \/ CloseWorker \/ Drained \/ DrainTimeout \/ Hear

DownloadWorker == WorkerInit \/ WorkerChunk \/ WorkerClose \/ WorkerAbort

\* The page's and the worker's event loops run what is ready, and requests end.
DownloadGoesOn == DownloadPage \/ DownloadWorker

DownloadNext ==
  StartDownload \/ DownloadGoesOn \/ BrowserCancels \/ BrowserSaves \/ Evict

DownloadSafety == DownloadInit /\ [][DownloadNext]_downloadVars

-----------------------------------------------------------------------------
(* Properties.                                                             *)

DownloadTypeOK ==
  /\ pc \in {"idle", "ask", "open", "ack", "pull", "wait", "done", "error", "dropped"}
  /\ i \in 1..(Last + 1)
  /\ fetch \in [Chunk -> {"none", "fetch", "ok", "bad"}]
  /\ sink \in {"none", "direct", "worker"}
  /\ written \in Seq(Chunk)
  /\ ending \in {"none", "close", "abort"}
  /\ taken \in 0..(Last + 1)
  /\ said \in Seq({"ack", "drained", "cancelled"})
  /\ heard \in 0..Len(said)
  /\ stream \in {"none", "open", "closed", "errored", "cancelled", "late"}
  /\ dest \in 0..Last
  /\ alive \in BOOLEAN /\ saved \in BOOLEAN

\* What the destination holds is a prefix of the file, in order.
InOrder == written = [k \in 1..Len(written) |-> k]

\* Fetched and decrypted chunks that wait for their turn count too: this is what
\* bounds the memory of a download of 25 GB.
DownloadInWindow == Cardinality({c \in Chunk : fetch[c] # "none"}) <= Window

\* The browser has discarded the file: the stream was cancelled, or the worker
\* killed while it streamed.
Dropped ==
  \/ \E k \in 1..Len(said) : said[k] = "cancelled"
  \/ ~alive /\ stream = "errored"

\* Done means that every chunk was given to the sink, in order, and that the
\* destination has all of them, unless the browser has discarded the file.
DoneIsWhole == pc = "done" => InOrder /\ Len(written) = Last /\ (dest = Last \/ Dropped)

\* A download that failed never leaves a file the browser shows as finished.
FailedIsNotSaved == pc \in {"error", "dropped"} => ~saved

DownloadRecord ==
  CASE pc = "idle" -> "idle"
    [] pc = "done" -> "done"
    [] pc \in {"error", "dropped"} -> "error"
    [] OTHER -> "running"

\* downloadFile is a transfer of the chunks to the user's disk: it is done only when
\* all of them are there or the browser has discarded the file, its verdict stays,
\* and there is one, whatever the worker and the browser do.
DT == INSTANCE Transfer WITH
        Piece <- Chunk, record <- DownloadRecord,
        landed <- {written[k] : k \in 1..dest}, dropped <- Dropped

DownloadIsTransfer == DT!Spec
=============================================================================
