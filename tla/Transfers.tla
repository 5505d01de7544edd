----------------------------- MODULE Transfers -----------------------------
(***************************************************************************)
(* One file uploaded by one tab and downloaded by another: Upload and      *)
(* Download composed over the object store and the files row they share.   *)
(***************************************************************************)
EXTENDS Upload, Download

vars == <<uploadVars, downloadVars>>

Init == UploadInit /\ DownloadInit

UploadStep(A)   == A /\ UNCHANGED downloadVars
DownloadStep(A) == A /\ UNCHANGED uploadVars

Next == UploadStep(UploadNext) \/ DownloadStep(DownloadNext)

Spec == Init /\ [][Next]_vars

\* Nobody owes an upload, a download, a cancel or a sweep.
FairSpec ==
  /\ Spec
  /\ WF_vars(UploadStep(UploadGoesOn))
  /\ WF_vars(DownloadStep(DownloadGoesOn))

TypeOK == UploadTypeOK /\ DownloadTypeOK

InWindow == UploadInWindow /\ DownloadInWindow
=============================================================================
