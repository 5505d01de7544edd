------------------------------ MODULE Transfer ------------------------------
(***************************************************************************)
(* What one transfer, an upload or a download, is to the panel that lists  *)
(* it: it is done only when every chunk has landed, unless the other side  *)
(* has dropped the file (the server rejected it, the browser discarded it) *)
(* and the transfer does not know; it never changes its verdict; and once  *)
(* begun it comes to one, unless it is turned away without one.            *)
(*                                                                         *)
(* Chunks may land in any order, and land after a failure. What has landed *)
(* stays until the transfer fails or the other side drops the file.        *)
(***************************************************************************)
CONSTANT Piece      \* the chunks of the file
VARIABLES record,   \* what became of the transfer
          landed,   \* the chunks that are where the transfer brings them
          dropped   \* the other side has dropped the file

transferVars == <<record, landed, dropped>>

Init == record = "idle" /\ landed = {} /\ dropped = FALSE

Begin == record = "idle" /\ record' = "running" /\ UNCHANGED <<landed, dropped>>

Land(c) == record # "done" /\ landed' = landed \cup {c} /\ UNCHANGED <<record, dropped>>

\* The other side drops the file, also after the transfer was done.
Drop ==
  /\ record # "idle" /\ dropped' = TRUE
  /\ landed' \in SUBSET landed /\ record' = record

\* What has landed of a transfer that failed is cleared away.
Clear == record = "error" /\ landed' \in SUBSET landed /\ UNCHANGED <<record, dropped>>

Finish ==
  /\ record = "running" /\ (landed = Piece \/ dropped)
  /\ record' = "done" /\ UNCHANGED <<landed, dropped>>

\* A failure may take along what has landed, and the file.
Fail ==
  /\ record = "running" /\ record' = "error"
  /\ landed' \in SUBSET landed /\ dropped' \in {dropped, TRUE}

\* The transfer is turned away, and the panel goes on saying that it runs.
Ignore == record = "running" /\ record' = "ignored" /\ UNCHANGED <<landed, dropped>>

Next == Begin \/ (\E c \in Piece : Land(c)) \/ Drop \/ Clear \/ Finish \/ Fail \/ Ignore

Safety == Init /\ [][Next]_transferVars

Spec == Safety /\ WF_transferVars(Finish \/ Fail \/ Ignore)
=============================================================================
