--------------------------- MODULE IntakeUploads ---------------------------
(***************************************************************************)
(* Documents an administrator uploads: acceptSourceUpload of               *)
(* src/domain/intake.ts, from the stream of a request to the source it     *)
(* becomes.                                                                *)
(*                                                                         *)
(* A document is streamed to a staging file, renamed to its place among    *)
(* the artifacts, and then one transaction writes its job, source,         *)
(* artifact, run and conversion task.  What fails takes its files away.    *)
(* The process may stop at any point, and the answer to a COMMIT may be    *)
(* lost although it took place.                                            *)
(***************************************************************************)
EXTENDS Naturals, FiniteSets

CONSTANTS
    Uploads,        \* requests, each with a reference of its own
    Documents,      \* records [kind, size, fits]: what a request sends
    Limit,          \* Limit[kind]: the largest size of that kind
    MaxLost,        \* bound on lost answers to a COMMIT
    MaxStops        \* bound on stops of the process

LimitAssumption == \A d \in Documents : d.kind \in DOMAIN Limit
UploadsBounds == MaxLost \in Nat /\ MaxStops \in Nat

VARIABLES
    upload,     \* upload[u]: [step, document, answer]
    staged,     \* the uploads that have a staging file
    stored,     \* those that have a file among the artifacts
    raw,        \* those whose file still holds a field log as it was sent
    rows,       \* those whose source, artifact, run and task are committed
    lost, stops \* how many of MaxLost and MaxStops have happened

uploadVars == <<upload, staged, stored, raw, rows, lost, stops>>

Steps == {"new", "streamed", "checked", "renamed", "ended"}
Answers == {"none", "accepted", "refused"}

UploadsInit ==
    /\ upload \in [Uploads -> {[step |-> "new", document |-> d, answer |-> "none"] :
                                 d \in Documents}]
    /\ staged = {} /\ stored = {} /\ raw = {} /\ rows = {}
    /\ lost = 0 /\ stops = 0

At(u, step) == upload[u].step = step
Moved(u, step) == upload' = [upload EXCEPT ![u].step = step]
Answered(u, answer) ==
    upload' = [upload EXCEPT ![u].step = "ended", ![u].answer = answer]
IsLog(u) == upload[u].document.kind = "field_log"

-----------------------------------------------------------------------------
(* The file.                                                                *)

\* Mutant: only the staging file is taken away.
RefuseStaged(u) ==
    /\ staged' = staged \ {u} /\ raw' = raw \ {u}
    /\ UNCHANGED stored
    /\ Answered(u, "refused")

\* What failed is unlinked, wherever it was by then; an error of unlink is
\* ignored.
Refuse(u) ==
    /\ staged' = staged \ {u} /\ stored' = stored \ {u} /\ raw' = raw \ {u}
    /\ Answered(u, "refused")

\* The file is opened as a new one and written up to the limit.
WriteStreamToFile(u) ==
    LET d == upload[u].document
    IN /\ At(u, "new")
       /\ IF d.size \in 1..Limit[d.kind]
          THEN /\ staged' = staged \cup {u}
               /\ raw' = IF IsLog(u) THEN raw \cup {u} ELSE raw
               /\ Moved(u, "streamed")
               /\ UNCHANGED stored
          ELSE Refuse(u)
       /\ UNCHANGED <<rows, lost, stops>>

\* The media type must fit the name and the first bytes; a field log is
\* written again without what identifies people and devices.
CheckMedia(u) ==
    /\ At(u, "streamed")
    /\ IF upload[u].document.fits
       THEN raw' = raw \ {u} /\ Moved(u, "checked") /\ UNCHANGED <<staged, stored>>
       ELSE Refuse(u)
    /\ UNCHANGED <<rows, lost, stops>>

RenameArtifact(u) ==
    /\ At(u, "checked")
    /\ staged' = staged \ {u} /\ stored' = stored \cup {u}
    /\ Moved(u, "renamed")
    /\ UNCHANGED <<raw, rows, lost, stops>>

-----------------------------------------------------------------------------
(* The transaction.                                                         *)

\* A job of its own for each document, whose first counter is one file.
InsertUpload(u) ==
    /\ At(u, "renamed")
    /\ rows' = rows \cup {u}
    /\ Answered(u, "accepted")
    /\ UNCHANGED <<staged, stored, raw, lost, stops>>

\* A statement fails, and with it the transaction.  (The one that adds to a
\* job that exists always does: it groups rows and locks them.)
InsertFails(u) ==
    /\ At(u, "renamed")
    /\ Refuse(u)
    /\ UNCHANGED <<rows, lost, stops>>

\* The COMMIT took place, its answer is lost, and the document is taken away.
CommitAnswerLost(u) ==
    /\ At(u, "renamed") /\ lost < MaxLost
    /\ rows' = rows \cup {u}
    /\ Refuse(u)
    /\ lost' = lost + 1
    /\ UNCHANGED stops

\* Requests end without an answer and without their error handling.
StopProcess ==
    /\ stops < MaxStops
    /\ \E u \in Uploads : upload[u].step \notin {"new", "ended"}
    /\ upload' = [u \in Uploads |->
          IF upload[u].step = "new" THEN upload[u] ELSE [upload[u] EXCEPT !.step = "ended"]]
    /\ stops' = stops + 1
    /\ UNCHANGED <<staged, stored, raw, rows, lost>>

UploadsNext ==
    \/ \E u \in Uploads :
          \/ WriteStreamToFile(u) \/ CheckMedia(u) \/ RenameArtifact(u)
          \/ InsertUpload(u) \/ InsertFails(u) \/ CommitAnswerLost(u)
    \/ StopProcess

UploadsSpec == UploadsInit /\ [][UploadsNext]_uploadVars
-----------------------------------------------------------------------------
(* Properties.                                                              *)

UploadsTypeOK ==
    /\ upload \in [Uploads -> [step : Steps, document : Documents, answer : Answers]]
    /\ staged \subseteq Uploads /\ stored \subseteq Uploads
    /\ raw \subseteq Uploads /\ rows \subseteq Uploads
    /\ lost \in 0..MaxLost /\ stops \in 0..MaxStops

\* A committed source has its document, unless its request was told that it
\* failed; no document among the artifacts is a field log as it was sent; and
\* only a process that stopped leaves a document that no source refers to.
AcceptedHasItsDocument ==
    /\ \A u \in rows : upload[u].answer # "refused" => u \in stored
    /\ stored \cap raw = {}
    /\ stops = 0 => \A u \in staged \cup stored :
                       upload[u].step # "ended" \/ u \in rows
=============================================================================
