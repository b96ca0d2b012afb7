------------------------------- MODULE JobFiles -------------------------------
(* The files of a job: the upload that create_job saves, the log a worker   *)
(* appends to, the event stream that reads it, and the removal of both with *)
(* the account.  Files are named after the job's id, which SQLite gives out *)
(* again when the last job is deleted.                                      *)
EXTENDS Naturals, FiniteSets, Sequences

CONSTANTS
    User, Worker,
    Deleter,       \* requests that delete an account
    Viewer,        \* event streams
    MaxId,         \* bounds of the runs: ids, jobs, runs, lines of a run
    MaxJobs,
    MaxRuns,
    MaxLines

VARIABLES
    row,        \* the jobs table
    users,      \* the accounts that exist
    upload,     \* uploads/job-<id>: whose program is in it, 0 if there is none
    folder,     \* outputs/job-<id> exists
    log,        \* its session.log: the run that wrote each line
    making,     \* the create_job that holds the write lock
    deleter,    \* per request: where it is, and what it has read
    worker,     \* per worker: where it is, and what it holds
    stream,     \* per viewer: its job_events generator
    created,    \* history: jobs created; the number of a job
    runs,       \* history: the job of each run
    raced,      \* history: jobs whose id a deletion still had in its hands
    orphaned    \* history: ids whose files were left when their job was deleted

vars == <<row, users, upload, folder, log, making, deleter, worker, stream,
          created, runs, raced, orphaned>>
files   == <<upload, folder, log>>
history == <<created, runs, raced, orphaned>>

JobId == 1 .. MaxId
Over  == {"completed", "failed", "canceled"}

NoRow   == [status |-> "absent", job |-> 0, user |-> "nobody", begun |-> FALSE,
            path |-> FALSE, saver |-> 0, saved |-> 0]
NoMake  == [phase |-> "none", id |-> 0, user |-> "nobody"]
NoDel   == [phase |-> "idle", user |-> "nobody", ids |-> {}, named |-> {}, todo |-> {}]
NoWork  == [phase |-> "idle", id |-> 0, job |-> 0, run |-> 0, linked |-> FALSE,
            wrote |-> 0, result |-> "completed"]
NoView  == [phase |-> "idle", id |-> 0, status |-> "absent", path |-> FALSE, job |-> 0,
            saver |-> 0, saved |-> 0, position |-> 0, sent |-> << >>, pieces |-> 0]

Present == {j \in JobId : row[j].status # "absent"}

Init == /\ row = [j \in JobId |-> NoRow]
        /\ users = User
        /\ upload = [j \in JobId |-> 0]
        /\ folder = [j \in JobId |-> FALSE]
        /\ log = [j \in JobId |-> << >>]
        /\ making = NoMake
        /\ deleter = [d \in Deleter |-> NoDel]
        /\ worker = [w \in Worker |-> NoWork]
        /\ stream = [v \in Viewer |-> NoView]
        /\ created = 0 /\ runs = << >> /\ raced = {} /\ orphaned = {}

\* Who writes waits for the transaction of create_job.
Unlocked == making.phase = "none"

-----------------------------------------------------------------------------
(* create_job from its flush on: the row has an id that nobody sees yet, the *)
(* file is saved under it, and the commit follows.                          *)

Pending(j) == \E d \in Deleter : j \in deleter[d].ids

Flush(u, j) ==
    /\ Unlocked
    /\ u \in users
    /\ created < MaxJobs
    /\ \A i \in Present : i < j
    /\ j = 1 \/ j - 1 \in Present
    /\ making' = [phase |-> "flushed", id |-> j, user |-> u]
    /\ created' = created + 1
    /\ raced' = IF Pending(j) THEN raced \cup {created + 1} ELSE raced
    /\ UNCHANGED <<row, users, files, deleter, worker, stream, runs, orphaned>>

\* The folder may be there already.
SaveFile == /\ making.phase = "flushed"
            /\ upload' = [upload EXCEPT ![making.id] = created]
            /\ making' = [making EXCEPT !.phase = "saved"]
            /\ UNCHANGED <<row, users, folder, log, deleter, worker, stream, history>>

CommitJob ==
    /\ making.phase = "saved"
    /\ row' = [row EXCEPT ![making.id] =
                  [NoRow EXCEPT !.status = "queued", !.job = created, !.user = making.user]]
    /\ making' = NoMake
    /\ UNCHANGED <<users, files, deleter, worker, stream, history>>

\* The disk is full: the row is rolled back, what was saved stays.
FailJob == /\ making.phase \in {"flushed", "saved"}
           /\ making' = NoMake
           /\ UNCHANGED <<row, users, files, deleter, worker, stream, history>>

-----------------------------------------------------------------------------
(* delete_user, delete_account.                                            *)

\* Mutant: outputs are forgotten.
FilesOf_UploadsOnly(ids) == {<<j, "upload">> : j \in ids}

\* The folders a deletion will remove, as far as its rows name them.
FilesOf(ids) == {<<j, "upload">> : j \in ids} \cup
                {<<j, "output">> : j \in {i \in ids : row[i].path}}

\* It reads the rows of the account; named is history, those that name a log.
ListJobs(d, u) ==
    LET ids == {j \in JobId : row[j].user = u}
    IN  /\ deleter[d].phase = "idle" /\ u \in users
        /\ deleter' = [deleter EXCEPT ![d] =
                          [phase |-> "listed", user |-> u, ids |-> ids,
                           named |-> {j \in ids : row[j].path}, todo |-> FilesOf(ids)]]
        /\ UNCHANGED <<row, users, files, making, worker, stream, history>>

\* A job that leaves its log behind: it ran, and the deletion had not read where
\* it wrote, or a worker still has it.
LeavesFiles(d, j) ==
    \/ row[j].begun /\ j \notin deleter[d].named
    \/ \E w \in Worker : worker[w].phase # "idle" /\ worker[w].id = j

\* The rows it read are deleted by id; a newer job of the account makes the
\* foreign key fail.
CommitDelete(d) ==
    LET ids == deleter[d].ids
    IN  /\ deleter[d].phase = "listed" /\ Unlocked
        /\ IF \E j \in JobId \ ids : row[j].user = deleter[d].user
           THEN /\ deleter' = [deleter EXCEPT ![d] = NoDel]
                /\ UNCHANGED <<row, users, orphaned>>
           ELSE /\ row' = [j \in JobId |-> IF j \in ids THEN NoRow ELSE row[j]]
                /\ users' = users \ {deleter[d].user}
                /\ orphaned' = orphaned \cup {j \in ids : LeavesFiles(d, j)}
                /\ deleter' = [deleter EXCEPT ![d].phase = "removing"]
        /\ UNCHANGED <<files, making, worker, stream, created, runs, raced>>

\* Mutant: the files go before the commit, which may fail.
Removing_BeforeCommit(d) == deleter[d].phase \in {"listed", "removing"}

Removing(d) == deleter[d].phase = "removing"

\* _delete_user_directories, one folder after the other; a worker that has the
\* log open goes on writing to what nobody can read any more.
RemoveFolder(d, f) ==
    /\ Removing(d)
    /\ f \in deleter[d].todo
    /\ IF f[2] = "upload"
       THEN /\ upload' = [upload EXCEPT ![f[1]] = 0]
            /\ UNCHANGED <<folder, log, worker>>
       ELSE /\ folder' = [folder EXCEPT ![f[1]] = FALSE]
            /\ log' = [log EXCEPT ![f[1]] = << >>]
            /\ worker' = [w \in Worker |->
                             IF worker[w].id = f[1] THEN [worker[w] EXCEPT !.linked = FALSE]
                             ELSE worker[w]]
            /\ UNCHANGED upload
    /\ deleter' = [deleter EXCEPT ![d].todo = @ \ {f}]
    /\ UNCHANGED <<row, users, making, stream, history>>

Removed(d) == /\ deleter[d].phase = "removing" /\ deleter[d].todo = {}
              /\ deleter' = [deleter EXCEPT ![d] = NoDel]
              /\ UNCHANGED <<row, users, files, making, worker, stream, history>>

-----------------------------------------------------------------------------
(* The worker's run.                                                       *)

Claim(w, j) ==
    /\ worker[w].phase = "idle" /\ Unlocked
    /\ row[j].status = "queued" /\ Len(runs) < MaxRuns
    /\ row' = [row EXCEPT ![j].status = "running", ![j].begun = TRUE]
    /\ runs' = Append(runs, row[j].job)
    /\ worker' = [worker EXCEPT ![w] =
                     [NoWork EXCEPT !.phase = "begin", !.id = j, !.job = row[j].job,
                                    !.run = Len(runs) + 1]]
    /\ UNCHANGED <<users, files, making, deleter, stream, created, raced, orphaned>>

\* The lease of a run expires, or a request cancels what nobody runs.
Requeue(j) == /\ row[j].status = "running" /\ Unlocked
              /\ row' = [row EXCEPT ![j].status = "queued"]
              /\ UNCHANGED <<users, files, making, deleter, worker, stream, history>>

CancelQueued(j) == /\ row[j].status = "queued" /\ Unlocked
                   /\ row' = [row EXCEPT ![j].status = "canceled"]
                   /\ UNCHANGED <<users, files, making, deleter, worker, stream, history>>

Goes(w, phase, result) ==
    worker' = [worker EXCEPT ![w].phase = phase, ![w].result = result]

\* Mutant: output_path is committed at once.
Begin_CommitsPath(w) ==
    LET j == worker[w].id
    IN  /\ worker[w].phase = "begin"
        /\ folder' = [folder EXCEPT ![j] = TRUE]
        /\ row' = [row EXCEPT ![j].path = (row[j].status # "absent")]
        /\ IF upload[j] = 0 THEN Goes(w, "save", "failed") ELSE Goes(w, "open", "completed")
        /\ UNCHANGED <<users, upload, log, making, deleter, stream, history>>

\* The folder is made; output_path is set on the object only, for Save to write.
Begin(w) ==
    LET j == worker[w].id
    IN  /\ worker[w].phase = "begin"
        /\ folder' = [folder EXCEPT ![j] = TRUE]
        /\ IF upload[j] = 0 THEN Goes(w, "save", "failed") ELSE Goes(w, "open", "completed")
        /\ UNCHANGED <<row, users, upload, log, making, deleter, stream, history>>

\* The log is opened to append; without its folder that fails.
OpenLog(w) ==
    LET j == worker[w].id
    IN  /\ worker[w].phase = "open"
        /\ worker' = [worker EXCEPT ![w].phase = IF folder[j] THEN "run" ELSE "save",
                                    ![w].linked = folder[j],
                                    ![w].result = IF folder[j] THEN @ ELSE "failed"]
        /\ UNCHANGED <<row, users, files, making, deleter, stream, history>>

\* _log_line writes and flushes.
Write(w) ==
    LET j == worker[w].id
    IN  /\ worker[w].phase = "run" /\ worker[w].wrote < MaxLines
        /\ log' = IF worker[w].linked THEN [log EXCEPT ![j] = Append(@, worker[w].run)] ELSE log
        /\ worker' = [worker EXCEPT ![w].wrote = @ + 1]
        /\ UNCHANGED <<row, users, upload, folder, making, deleter, stream, history>>

Finish(w) == /\ worker[w].phase = "run" /\ worker[w].wrote > 0
             /\ \E result \in Over : Goes(w, "save", result)
             /\ UNCHANGED <<row, users, files, making, deleter, stream, history>>

\* The result and the path are committed by id, whoever has that row by now.
Save(w) ==
    LET j == worker[w].id
    IN  /\ worker[w].phase = "save" /\ Unlocked
        /\ row' = IF row[j].status = "absent" THEN row
                  ELSE [row EXCEPT ![j].status = worker[w].result, ![j].path = TRUE,
                                   ![j].saver = worker[w].run, ![j].saved = worker[w].wrote]
        /\ worker' = [worker EXCEPT ![w] = NoWork]
        /\ UNCHANGED <<users, files, making, deleter, stream, history>>

\* The worker dies; its row waits for the lease.
Crash(w) == /\ worker[w].phase # "idle"
            /\ worker' = [worker EXCEPT ![w] = NoWork]
            /\ UNCHANGED <<row, users, files, making, deleter, stream, history>>

-----------------------------------------------------------------------------
(* job_events.                                                             *)

Watch(v, j) == /\ stream[v].phase = "idle"
               /\ row[j].status # "absent"
               /\ stream' = [stream EXCEPT ![v] = [NoView EXCEPT !.phase = "poll", !.id = j]]
               /\ UNCHANGED <<row, users, files, making, deleter, worker, history>>

\* The row is refreshed; without it the generator fails.
Refresh(v) ==
    LET r == row[stream[v].id]
    IN  /\ stream[v].phase = "poll"
        /\ stream' = [stream EXCEPT ![v] =
               IF r.status = "absent" THEN [@ EXCEPT !.phase = "broken"]
               ELSE [@ EXCEPT !.phase = "read", !.status = r.status, !.path = r.path,
                              !.job = r.job, !.saver = r.saver, !.saved = r.saved]]
        /\ UNCHANGED <<row, users, files, making, deleter, worker, history>>

\* Mutant: the stream stops reading when the job is over.
HasOutput_WhileRunning(v) ==
    /\ stream[v].path /\ Len(log[stream[v].id]) > stream[v].position
    /\ stream[v].status \notin Over

\* It reads what lies behind its position if the row names a log, and ends when
\* the status says so or its lifetime is over.
HasOutput(v) == stream[v].path /\ Len(log[stream[v].id]) > stream[v].position

Read(v) ==
    LET text == log[stream[v].id]
        next == IF stream[v].status \in Over THEN {"over"} ELSE {"poll", "expired"}
    IN  /\ stream[v].phase = "read"
        /\ \E phase \in next :
              stream' =
                  IF HasOutput(v)
                  THEN [stream EXCEPT
                          ![v].phase = phase, ![v].position = Len(text), ![v].pieces = @ + 1,
                          ![v].sent = @ \o SubSeq(text, stream[v].position + 1, Len(text))]
                  ELSE [stream EXCEPT ![v].phase = phase]
        /\ UNCHANGED <<row, users, files, making, deleter, worker, history>>

Next ==
    \/ SaveFile \/ CommitJob \/ FailJob
    \/ \E j \in JobId : \/ Requeue(j) \/ CancelQueued(j)
                        \/ \E u \in User : Flush(u, j)
                        \/ \E w \in Worker : Claim(w, j)
                        \/ \E v \in Viewer : Watch(v, j)
    \/ \E d \in Deleter : \/ CommitDelete(d) \/ Removed(d)
                          \/ \E u \in User : ListJobs(d, u)
                          \/ \E f \in deleter[d].todo : RemoveFolder(d, f)
    \/ \E w \in Worker : Begin(w) \/ OpenLog(w) \/ Write(w) \/ Finish(w) \/ Save(w) \/ Crash(w)
    \/ \E v \in Viewer : Refresh(v) \/ Read(v)

Spec == Init /\ [][Next]_vars

-----------------------------------------------------------------------------
(* Properties.                                                             *)

\* A job that waits or runs has its own program on the disk, also after failed
\* submissions and failed deletions, unless its id was given to it while a
\* deletion still had that id in its hands (create_job, jobs/utils.py:237-257;
\* delete_user, api/routes.py:333-345).
UploadIntact ==
    \A j \in JobId : row[j].status \in {"queued", "running"} /\ row[j].job \notin raced =>
        upload[j] = row[j].job

\* What a finished job shows as its output was written by its own runs, however
\* often its id was used before, unless an earlier job of that id was deleted
\* while it ran, or a deletion was about (worker.py:400-447, api/routes.py:348-366).
OwnOutput ==
    \A j \in JobId : row[j].path /\ j \notin orphaned /\ row[j].job \notin raced =>
        \A i \in DOMAIN log[j] : runs[log[j][i]] = row[j].job

\* When the stream says that a job is done it has sent every line of the run
\* that saved the status it reports (generate, api/routes.py:397-429).
EndsComplete ==
    \A v \in Viewer :
        LET s == stream[v]
        IN  /\ s.phase = "read" /\ stream'[v].phase = "over" /\ s.saver # 0
            /\ row[s.id].job = s.job /\ s.id \notin orphaned /\ s.job \notin raced
            => Cardinality({i \in DOMAIN stream'[v].sent : stream'[v].sent[i] = s.saver})
                 = s.saved

DoneIsComplete == [][EndsComplete]_vars

\* A stream reads the log in one piece: so far it advances a position in bytes
\* by characters nothing can go wrong, because a row names its log only when it
\* is over (api/routes.py:415-429, worker.py:405, 690).
ReadInOnePiece == \A v \in Viewer : stream[v].pieces <= 1
=============================================================================
