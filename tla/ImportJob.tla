------------------------------ MODULE ImportJob ------------------------------
(***************************************************************************)
(* The bulk import of recommendations from PDF files                       *)
(* (bulk_import_service.py).  A job collects files, each file has a row    *)
(* that may need a review, and the confirmation of the job makes an        *)
(* observation of every row that was not discarded.                        *)
(*                                                                         *)
(* Every request is one database session.  Nothing is locked when a        *)
(* request reads, and a column is written only if the request has changed  *)
(* what it read; row locks are held from a flush to the commit.            *)
(***************************************************************************)
EXTENDS Naturals, FiniteSets

CONSTANTS
    Clients,    \* requests under way at the same time
    Jobs,
    Contents,   \* contents of files, as told apart by their hash
    Files,      \* bound: ids of files and rows, from 1
    Outcomes    \* of the parser and the search for the named instruments:
                \* some of "FAILED", "UNRESOLVED", "VALID"

ImportAssumption ==
    Jobs # {} /\ Contents # {} /\ 0 \notin Files /\ IsFiniteSet(Files) /\ IsFiniteSet(Clients)

VARIABLES
    job,        \* job -> its status, "none" before it is created
    file,       \* id -> the file: job, content, status and the row of its batch
    row,        \* id -> the row: validation, disposition, observations made of it
    imported,   \* content -> observations made of it
    request     \* client -> its request

importVars == <<job, file, row, imported, request>>

None == 0
JobStatuses == {"none", "OPEN", "REVIEW_REQUIRED", "READY", "COMPLETED"}
FileStatuses == {"none", "PARSED", "REVIEW_REQUIRED", "DUPLICATE", "FAILED", "COMPLETED"}
Requests ==
    [at : {"idle", "upload", "found", "read", "flushed"},
     does : {"nothing", "upload", "duplicate", "resolve", "discard", "confirm"},
     job : Jobs,
     seen : JobStatuses,        \* the job's status as the session knows it
     content : Contents,
     files : SUBSET Files,      \* files the request writes, as it found them
     rows : SUBSET Files,       \* and their rows
     seenFile : FileStatuses,   \* the file's status, as it was read
     next : JobStatuses]        \* what _refresh_job_status has found

NoRequest ==
    [at |-> "idle", does |-> "nothing", job |-> CHOOSE j \in Jobs : TRUE, seen |-> "none",
     content |-> CHOOSE x \in Contents : TRUE, files |-> {}, rows |-> {},
     seenFile |-> "none", next |-> "none"]
NoFile == [job |-> CHOOSE j \in Jobs : TRUE, content |-> CHOOSE x \in Contents : TRUE,
           status |-> "none", row |-> None]
NoRow == [valid |-> FALSE, disposition |-> "none", versions |-> 0]

TypeOK ==
    /\ job \in [Jobs -> JobStatuses]
    /\ file \in [Files -> [job : Jobs, content : Contents, status : FileStatuses,
                           row : Files \cup {None}]]
    /\ row \in [Files -> [valid : BOOLEAN, versions : Nat,
                          disposition : {"none", "PENDING", "ACCEPTED", "DISCARDED"}]]
    /\ imported \in [Contents -> Nat]
    /\ request \in [Clients -> Requests]

Init ==
    /\ job = [j \in Jobs |-> "none"]
    /\ file = [f \in Files |-> NoFile]
    /\ row = [r \in Files |-> NoRow]
    /\ imported = [x \in Contents |-> 0]
    /\ request = [c \in Clients |-> NoRequest]

-----------------------------------------------------------------------------

FilesOf(fs, j) == {f \in Files : fs[f].status # "none" /\ fs[f].job = j}

\* _refresh_job_status.  A file is QUEUED, and its job PROCESSING, only inside
\* the transaction that parses it.
FailedIsAStatus(statuses) == IF "FAILED" \in statuses THEN "FAILED" ELSE "READY"
Summary(statuses) ==
    CASE statuses = {} -> "OPEN"
      [] statuses \cap {"REVIEW_REQUIRED", "FAILED"} # {} -> "REVIEW_REQUIRED"
      [] OTHER -> "READY"
StatusOf(fs, j) == Summary({fs[f].status : f \in FilesOf(fs, j)})

\* The session writes a column only if its value differs from what was read.
Merged(stored, read, value) == IF value = read THEN stored ELSE value

\* The first unused id.
Fresh(id, used) == id \in Files \ used /\ \A k \in Files : k < id => k \in used
FreshFile(f) == Fresh(f, {g \in Files : file[g].status # "none"})
FreshRow(r) == Fresh(r, {g \in Files : row[g].disposition # "none"})

\* Another request has flushed its change of a file or a row.
Locked(c, fs, rs) ==
    \E d \in Clients \ {c} :
        /\ request[d].at = "flushed"
        /\ request[d].files \cap fs # {} \/ request[d].rows \cap rs # {}

Sends(c, q) == request' = [request EXCEPT ![c] = q]

-----------------------------------------------------------------------------
(* Uploading *)

\* upload_hebeltrader_files: a new job.
CreateJob(c, j) ==
    /\ request[c].at = "idle"
    /\ job[j] = "none"
    /\ job' = [job EXCEPT ![j] = "OPEN"]
    /\ Sends(c, [NoRequest EXCEPT !.at = "upload", !.does = "upload", !.job = j, !.seen = "OPEN"])
    /\ UNCHANGED <<file, row, imported>>

\* add_or_retry_hebeltrader_files: more files for a job that is not completed.
AddFiles(c, j) ==
    /\ request[c].at = "idle"
    /\ job[j] \notin {"none", "COMPLETED"}
    /\ Sends(c, [NoRequest EXCEPT !.at = "upload", !.does = "upload", !.job = j, !.seen = job[j]])
    /\ UNCHANGED <<job, file, row, imported>>

\* The next file of the upload: one that failed in this job before is tried
\* again, else a file of the same content makes it a duplicate.  The session
\* keeps the job it has read, so its status is not read again.
AnyCopy(x) == {f \in Files : file[f].content = x /\ file[f].status \notin {"none", "FAILED"}}
FailedBefore(j, x) == {f \in FilesOf(file, j) : file[f].content = x /\ file[f].status = "FAILED"}
FindContent(c, x) ==
    LET j == request[c].job
        retry == FailedBefore(j, x) IN
    /\ request[c].at = "upload"
    /\ request[c].seen # "COMPLETED"
    /\ \/ \E f \in retry : Sends(c, [request[c] EXCEPT !.at = "found", !.content = x, !.files = {f}])
       \/ /\ retry = {}
          /\ Sends(c, [request[c] EXCEPT !.at = "found", !.content = x, !.files = {},
                           !.does = IF AnyCopy(x) = {} THEN "upload" ELSE "duplicate"])
    /\ UNCHANGED <<job, file, row, imported>>

\* The file is parsed and its row staged.  The first flush locks the job, which
\* every other request writes before it commits, until this one commits.
ParseFile(c, outcome) ==
    LET q == request[c] IN
    /\ q.at = "found"
    /\ q.does = "upload"
    /\ \E f \in Files :
        /\ IF q.files = {} THEN FreshFile(f) ELSE f \in q.files
        /\ ~Locked(c, {f}, {})
        /\ \/ /\ outcome = "FAILED"
              /\ file' = [file EXCEPT ![f] = [job |-> q.job, content |-> q.content,
                                              status |-> "FAILED", row |-> @.row]]
              /\ UNCHANGED row
           \/ /\ outcome # "FAILED"
              /\ \E r \in Files :
                  /\ FreshRow(r)
                  /\ row' = [row EXCEPT ![r] = [valid |-> outcome = "VALID",
                                                disposition |-> "PENDING", versions |-> 0]]
                  /\ file' = [file EXCEPT ![f] =
                        [job |-> q.job, content |-> q.content, row |-> r,
                         status |-> IF outcome = "VALID" THEN "PARSED" ELSE "REVIEW_REQUIRED"]]
    /\ job' = [job EXCEPT ![q.job] = StatusOf(file', q.job)]
    /\ Sends(c, [q EXCEPT !.at = "upload", !.files = {}, !.seen = StatusOf(file', q.job)])
    /\ UNCHANGED imported

\* _record_duplicate: the statuses are read after the flush of the new file,
\* and the job is written with the commit.
FlushDuplicate(c) ==
    LET q == request[c] IN
    /\ q.at = "found"
    /\ q.does = "duplicate"
    /\ Sends(c, [q EXCEPT !.at = "flushed",
                     !.next = Summary({file[f].status : f \in FilesOf(file, q.job)} \cup {"DUPLICATE"})])
    /\ UNCHANGED <<job, file, row, imported>>
CommitDuplicate(c) ==
    LET q == request[c] IN
    /\ q.at = "flushed"
    /\ q.does = "duplicate"
    /\ \E f \in Files :
        /\ FreshFile(f)
        /\ file' = [file EXCEPT ![f] = [job |-> q.job, content |-> q.content,
                                        status |-> "DUPLICATE", row |-> None]]
    /\ job' = [job EXCEPT ![q.job] = Merged(@, q.seen, q.next)]
    /\ Sends(c, [q EXCEPT !.at = "upload", !.does = "upload", !.seen = q.next])
    /\ UNCHANGED <<row, imported>>

-----------------------------------------------------------------------------
(* Reviewing *)

\* resolve_review_row, discard_review_row: a pending row of the job.
ReadRow(c, f, what) ==
    LET j == file[f].job IN
    /\ request[c].at = "idle"
    /\ what \in {"resolve", "discard"}
    /\ file[f].row # None
    /\ job[j] # "COMPLETED"
    /\ row[file[f].row].disposition = "PENDING"
    /\ Sends(c, [NoRequest EXCEPT !.at = "read", !.does = what, !.job = j, !.seen = job[j],
                     !.files = {f}, !.rows = {file[f].row}, !.seenFile = file[f].status])
    /\ UNCHANGED <<job, file, row, imported>>

FileAfter(q, f) == Merged(file[f].status, q.seenFile, IF q.does = "resolve" THEN "PARSED" ELSE "COMPLETED")

\* An accepted row keeps its observation: ck_..._rows_lifecycle_consistent.
LifecycleKept(q) ==
    q.does = "discard" => \A r \in q.rows : row[r].disposition # "ACCEPTED"

\* The flush of row and file, then _refresh_job_status.
FlushRow(c) ==
    LET q == request[c] IN
    /\ q.at = "read"
    /\ q.does \in {"resolve", "discard"}
    /\ ~Locked(c, q.files, q.rows)
    /\ LifecycleKept(q)
    /\ Sends(c, [q EXCEPT !.at = "flushed",
                     !.next = Summary({IF f \in q.files THEN FileAfter(q, f) ELSE file[f].status :
                                            f \in FilesOf(file, q.job)})])
    /\ UNCHANGED <<job, file, row, imported>>

JobAfter(q) == Merged(job[q.job], q.seen, q.next)
CommitRow(c) ==
    LET q == request[c] IN
    /\ q.at = "flushed"
    /\ q.does \in {"resolve", "discard"}
    /\ row' = [r \in Files |->
            CASE r \in q.rows /\ q.does = "resolve" -> [row[r] EXCEPT !.valid = TRUE]
              [] r \in q.rows /\ q.does = "discard" -> [row[r] EXCEPT !.disposition = "DISCARDED"]
              [] r \notin q.rows -> row[r]]
    /\ file' = [f \in Files |->
            IF f \in q.files THEN [file[f] EXCEPT !.status = FileAfter(q, f)] ELSE file[f]]
    /\ job' = [job EXCEPT ![q.job] = JobAfter(q)]
    /\ Sends(c, NoRequest)
    /\ UNCHANGED imported

-----------------------------------------------------------------------------
(* Confirming *)

PendingFiles(j) ==
    {f \in FilesOf(file, j) : file[f].row # None /\ row[file[f].row].disposition = "PENDING"}

\* What confirm_job finds: nothing has failed, nothing waits for a review.
ReadConfirm(c, j) ==
    /\ request[c].at = "idle"
    /\ job[j] \notin {"none", "COMPLETED"}
    /\ \A f \in FilesOf(file, j) : file[f].status # "FAILED"
    /\ \A f \in PendingFiles(j) : row[file[f].row].valid
    /\ Sends(c, [NoRequest EXCEPT !.at = "read", !.does = "confirm", !.job = j, !.seen = job[j],
                     !.files = PendingFiles(j), !.rows = {file[f].row : f \in PendingFiles(j)}])
    /\ UNCHANGED <<job, file, row, imported>>

\* uq_external_observation_versions_import_row.
ObservedTwice(rs) == TRUE
NotYetObserved(rs) == \A r \in rs : row[r].versions = 0

\* Every observation, row and file is written with the commit, or none.
CommitConfirm(c) ==
    LET q == request[c] IN
    /\ q.at = "read"
    /\ q.does = "confirm"
    /\ ~Locked(c, q.files, q.rows)
    /\ NotYetObserved(q.rows)
    /\ row' = [r \in Files |->
            IF r \in q.rows THEN [row[r] EXCEPT !.disposition = "ACCEPTED", !.versions = @ + 1]
            ELSE row[r]]
    /\ file' = [f \in Files |->
            IF f \in q.files THEN [file[f] EXCEPT !.status = "COMPLETED"] ELSE file[f]]
    /\ imported' = [x \in Contents |->
            imported[x] + Cardinality({f \in q.files : file[f].content = x})]
    /\ job' = [job EXCEPT ![q.job] = "COMPLETED"]
    /\ Sends(c, NoRequest)

\* The upload is over, or the request fails and is rolled back: a refusal, a
\* constraint, a deadlock of the database, a client that is gone.
Leave(c) ==
    /\ request[c].at # "idle"
    /\ Sends(c, NoRequest)
    /\ UNCHANGED <<job, file, row, imported>>

Next ==
    \E c \in Clients :
        \/ \E j \in Jobs : CreateJob(c, j) \/ AddFiles(c, j) \/ ReadConfirm(c, j)
        \/ \E x \in Contents : FindContent(c, x)
        \/ \E outcome \in Outcomes : ParseFile(c, outcome)
        \/ FlushDuplicate(c) \/ CommitDuplicate(c)
        \/ \E f \in Files, what \in {"resolve", "discard"} : ReadRow(c, f, what)
        \/ FlushRow(c) \/ CommitRow(c)
        \/ CommitConfirm(c)
        \/ Leave(c)

Spec == Init /\ [][Next]_importVars

-----------------------------------------------------------------------------
(* Properties *)

\* A row is accepted exactly if one observation was made of it, also when
\* requests confirm, discard and resolve at the same time (the two constraints
\* of the database; the service itself locks nothing).
AcceptedOnce ==
    \A r \in Files : row[r].versions = IF row[r].disposition = "ACCEPTED" THEN 1 ELSE 0

\* With one request at a time, the status of a job tells what its files need:
\* in a completed job nothing is left to do, and no row is lost to a file that
\* was tried again (_refresh_job_status, confirm_job, ingest_pdf).
OneClient == Cardinality(Clients) = 1
JobTellsItsFiles ==
    OneClient =>
        /\ \A j \in Jobs :
            /\ job[j] = "COMPLETED" =>
                /\ PendingFiles(j) = {}
                /\ \A f \in FilesOf(file, j) : file[f].status \in {"DUPLICATE", "COMPLETED"}
            /\ job[j] \notin {"none", "COMPLETED"} => job[j] = StatusOf(file, j)
        /\ \A r \in Files : row[r].disposition = "PENDING" => \E f \in Files : file[f].row = r

\* EXTERNAL_HISTORICAL_OBSERVATIONS.md:12: files already imported with the same
\* content hash "are not duplicated silently".
ContentImportedOnce == \A x \in Contents : imported[x] <= 1
=============================================================================
