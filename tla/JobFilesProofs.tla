---------------------------- MODULE JobFilesProofs ----------------------------
(* Theorems about JobFiles, for any number of accounts, workers, deletions,  *)
(* streams, ids, jobs and runs, and about OutputTail, for any log, any       *)
(* number of lines asked for and any size of a block.                        *)
EXTENDS Web, FiniteSetTheorems, SequenceTheorems, WellFoundedInduction, TLAPS

-----------------------------------------------------------------------------
(* Types.                                                                  *)

Statuses == {"absent", "queued", "running"} \cup Jobs!Over
Names    == User \cup {"nobody"}
Kinds    == {"upload", "output"}

Makings  == [phase : {"none", "flushed", "saved"}, id : Jobs!JobId \cup {0}, user : Names]
Dels     == [phase : {"idle", "listed", "removing"}, user : Names, ids : SUBSET Jobs!JobId,
             named : SUBSET Jobs!JobId, todo : SUBSET (Jobs!JobId \X Kinds)]

\* Of the larger records only the fields, and what the argument needs of them.
IsRow(r)  == /\ DOMAIN r = {"status", "job", "user", "begun", "path", "saver", "saved"}
             /\ r.status \in Statuses
             /\ r.job \in Nat
IsWork(r) == /\ DOMAIN r = {"phase", "id", "job", "run", "linked", "wrote", "result"}
             /\ r.result \in Jobs!Over
             /\ r.phase # "idle" => r.id \in Jobs!JobId
IsView(r) == /\ DOMAIN r = {"phase", "id", "status", "path", "job", "saver", "saved",
                             "position", "sent", "pieces"}
             /\ r.phase # "idle" => r.id \in Jobs!JobId

TypeOK ==
    /\ DOMAIN jobRow = Jobs!JobId /\ \A j \in Jobs!JobId : IsRow(jobRow[j])
    /\ upload \in [Jobs!JobId -> Nat]
    /\ folder \in [Jobs!JobId -> BOOLEAN]
    /\ logFile \in [Jobs!JobId -> Seq(Nat)]
    /\ making \in Makings
    /\ making.phase # "none" => making.id \in Jobs!JobId
    /\ deleter \in [Deleter -> Dels]
    /\ DOMAIN worker = Worker /\ \A w \in Worker : IsWork(worker[w])
    /\ DOMAIN stream = Viewer /\ \A v \in Viewer : IsView(stream[v])
    /\ created \in Nat
    /\ runs \in Seq(Nat)

-----------------------------------------------------------------------------
(* The inductive invariant.  A job with files of another's id would need a   *)
(* deletion that is still to remove them, or a worker that still writes, when *)
(* the id is given out: the first makes the job raced, the second the id     *)
(* orphaned.                                                                *)

\* Uploads and statuses agree with the rows.
RowsFit ==
    \A j \in Jobs!JobId :
       /\ jobRow[j].status \in {"queued", "running"} /\ jobRow[j].job \notin racedJobs =>
                upload[j] = jobRow[j].job
       /\ jobRow[j].path => jobRow[j].status \in Jobs!Over

\* The id that create_job holds is nobody's, and clean.
MakingFit ==
    making.phase # "none" =>
       /\ jobRow[making.id].status = "absent"
       /\ created \notin racedJobs =>
             \A d \in Deleter : deleter[d].phase = "removing" => making.id \notin deleter[d].ids
       /\ making.phase = "saved" /\ created \notin racedJobs => upload[making.id] = created
       /\ created \notin racedJobs /\ making.id \notin orphaned => logFile[making.id] = << >>

\* A deletion removes files of ids whose rows are gone, or were given out while
\* it was about; and all the logs that the rows it read have named.
DeletersFit ==
    \A d \in Deleter :
       /\ \A f \in deleter[d].todo : f[1] \in deleter[d].ids
       /\ deleter[d].phase = "listed" =>
             \A j \in deleter[d].named : <<j, "output">> \in deleter[d].todo
       /\ deleter[d].phase = "removing" =>
             \A j \in deleter[d].ids : jobRow[j].status = "absent" \/ jobRow[j].job \in racedJobs

\* A deletion is about to remove the output of that id.
Cleaning(j) ==
    \E d \in Deleter : deleter[d].phase = "removing" /\ <<j, "output">> \in deleter[d].todo

\* What is in a log was written by the runs of its job.
LogsFit ==
    \A j \in Jobs!JobId :
       /\ \A i \in DOMAIN logFile[j] : logFile[j][i] \in DOMAIN runs
       /\ j \notin orphaned =>
             /\ jobRow[j].status = "absent" \/ ~jobRow[j].begun => logFile[j] = << >> \/ Cleaning(j)
             /\ jobRow[j].status # "absent" /\ jobRow[j].job \notin racedJobs =>
                      /\ \A i \in DOMAIN logFile[j] : runs[logFile[j][i]] = jobRow[j].job
                      /\ ~jobRow[j].begun => logFile[j] = << >>

\* A worker has the job whose row it claimed, unless that was deleted meanwhile.
WorkersFit ==
    \A w \in Worker : worker[w].phase # "idle" =>
       /\ worker[w].run \in DOMAIN runs
       /\ runs[worker[w].run] = worker[w].job
       /\ worker[w].id \notin orphaned =>
             /\ jobRow[worker[w].id].status # "absent"
             /\ jobRow[worker[w].id].begun
             /\ jobRow[worker[w].id].job = worker[w].job

\* A stream has read nothing before it sees that the job is over.
StreamsFit ==
    \A v \in Viewer :
       /\ stream[v].phase = "read" /\ stream[v].path => stream[v].status \in Jobs!Over
       /\ stream[v].phase \in {"idle", "poll", "read"} => stream[v].pieces = 0
       /\ stream[v].pieces \in {0, 1}

Fits == RowsFit /\ MakingFit /\ DeletersFit /\ LogsFit /\ WorkersFit /\ StreamsFit
IInv == TypeOK /\ Fits

LEMMA Blank ==
    /\ IsRow(Jobs!NoRow) /\ Jobs!NoRow.status = "absent" /\ ~Jobs!NoRow.path
    /\ Jobs!NoMake \in Makings /\ Jobs!NoMake.phase = "none"
    /\ Jobs!NoDel \in Dels /\ Jobs!NoDel.phase = "idle" /\ Jobs!NoDel.todo = {} /\ Jobs!NoDel.ids = {}
    /\ IsWork(Jobs!NoWork) /\ Jobs!NoWork.phase = "idle"
    /\ IsView(Jobs!NoView) /\ Jobs!NoView.phase = "idle" /\ Jobs!NoView.pieces = 0
<1>1. IsRow(Jobs!NoRow) /\ Jobs!NoRow.status = "absent" /\ ~Jobs!NoRow.path
  BY DEF Jobs!NoRow, IsRow, Statuses, Names
<1>2. Jobs!NoMake \in Makings /\ Jobs!NoMake.phase = "none"
  BY DEF Jobs!NoMake, Makings, Names
<1>3. Jobs!NoDel \in Dels /\ Jobs!NoDel.phase = "idle" /\ Jobs!NoDel.todo = {} /\ Jobs!NoDel.ids = {}
  BY DEF Jobs!NoDel, Dels, Names
<1>4. IsWork(Jobs!NoWork) /\ Jobs!NoWork.phase = "idle"
  BY DEF Jobs!NoWork, IsWork, Jobs!Over
<1>5. IsView(Jobs!NoView) /\ Jobs!NoView.phase = "idle" /\ Jobs!NoView.pieces = 0
  BY DEF Jobs!NoView, IsView, Statuses
<1> QED
  BY <1>1, <1>2, <1>3, <1>4, <1>5

\* A step that leaves every row there that was there, with its job, disturbs no
\* worker.
LEMMA RowsWorkers ==
    ASSUME IInv, UNCHANGED <<worker, runs, orphaned>>,
           \A j \in Jobs!JobId : jobRow[j].status # "absent" =>
              /\ jobRow'[j].status # "absent" /\ jobRow'[j].job = jobRow[j].job
              /\ jobRow[j].begun => jobRow'[j].begun
    PROVE  WorkersFit'
<1> SUFFICES ASSUME NEW w \in Worker, worker[w].phase # "idle"
             PROVE  /\ worker[w].run \in DOMAIN runs
                    /\ runs[worker[w].run] = worker[w].job
                    /\ worker[w].id \notin orphaned =>
                          /\ jobRow'[worker[w].id].status # "absent"
                          /\ jobRow'[worker[w].id].begun
                          /\ jobRow'[worker[w].id].job = worker[w].job
  BY DEF WorkersFit
<1>1. worker[w].id \in Jobs!JobId
  BY DEF IInv, TypeOK, IsWork
<1> QED
  BY <1>1 DEF IInv, Fits, WorkersFit

-----------------------------------------------------------------------------
(* create_job.                                                             *)

LEMMA FlushStep ==
    ASSUME IInv, NEW u \in User, NEW j \in Jobs!JobId, Jobs!Flush(u, j)
    PROVE  IInv'
<1> USE DEF IInv, Fits
<1>1. /\ making' = [phase |-> "flushed", id |-> j, user |-> u]
      /\ created' = created + 1 /\ created \in Nat
      /\ racedJobs \subseteq racedJobs' /\ (Jobs!Pending(j) => created' \in racedJobs')
      /\ UNCHANGED <<jobRow, users, upload, folder, logFile, deleter, worker, stream, runs, orphaned>>
  BY DEF Jobs!Flush, Jobs!files, TypeOK
<1>2. jobRow[j].status = "absent"
  BY DEF Jobs!Flush, Jobs!Present, Jobs!JobId
<1>3. /\ making'.phase = "flushed" /\ making'.id = j
      /\ making' \in Makings
  BY <1>1 DEF Makings, Names
<1>4. TypeOK'
  BY <1>1, <1>3 DEF TypeOK
<1>5. RowsFit'
  BY <1>1 DEF RowsFit
<1>6. created' \notin racedJobs' => \A d \in Deleter : j \notin deleter[d].ids
  BY <1>1 DEF Jobs!Pending
<1>7. created' \notin racedJobs' /\ j \notin orphaned => logFile[j] = << >>
  <2>1. SUFFICES ASSUME created' \notin racedJobs', j \notin orphaned
                 PROVE  logFile[j] = << >>
    OBVIOUS
  <2>2. logFile[j] = << >> \/ Cleaning(j)
    BY <1>2, <2>1 DEF LogsFit
  <2>3. ASSUME NEW d \in Deleter, <<j, "output">> \in deleter[d].todo
        PROVE  j \in deleter[d].ids
    BY <2>3 DEF DeletersFit
  <2> QED
    BY <1>6, <2>1, <2>2, <2>3 DEF Cleaning
<1>8. MakingFit'
  BY <1>1, <1>2, <1>3, <1>6, <1>7 DEF MakingFit
<1>9. DeletersFit'
  BY <1>1 DEF DeletersFit
<1>10. LogsFit'
  BY <1>1 DEF LogsFit, Cleaning
<1>11. WorkersFit' /\ StreamsFit'
  BY <1>1 DEF WorkersFit, StreamsFit
<1> QED
  BY <1>4, <1>5, <1>8, <1>9, <1>10, <1>11

LEMMA SaveFileStep ==
    ASSUME IInv, Jobs!SaveFile
    PROVE  IInv'
<1> USE DEF IInv, Fits
<1>1. /\ making.phase = "flushed" /\ making.id \in Jobs!JobId /\ created \in Nat
      /\ upload' = [upload EXCEPT ![making.id] = created]
      /\ making' = [making EXCEPT !.phase = "saved"]
      /\ UNCHANGED <<jobRow, users, folder, logFile, deleter, worker, stream, created, runs,
                     racedJobs, orphaned>>
  BY DEF Jobs!SaveFile, Jobs!history, TypeOK
<1>2. /\ making' \in Makings /\ making'.phase = "saved" /\ making'.id = making.id
  BY <1>1 DEF TypeOK, Makings
<1>3. /\ upload' \in [Jobs!JobId -> Nat] /\ upload'[making.id] = created
      /\ \A j \in Jobs!JobId \ {making.id} : upload'[j] = upload[j]
  BY <1>1 DEF TypeOK
<1>4. TypeOK'
  BY <1>1, <1>2, <1>3 DEF TypeOK
<1>5. jobRow[making.id].status = "absent"
  BY <1>1 DEF MakingFit
<1>6. RowsFit'
  BY <1>1, <1>3, <1>5 DEF RowsFit
<1>7. MakingFit'
  BY <1>1, <1>2, <1>3 DEF MakingFit
<1>8. DeletersFit' /\ LogsFit' /\ WorkersFit' /\ StreamsFit'
  BY <1>1 DEF DeletersFit, LogsFit, Cleaning, WorkersFit, StreamsFit
<1> QED
  BY <1>4, <1>6, <1>7, <1>8

LEMMA CommitJobStep ==
    ASSUME IInv, Jobs!CommitJob
    PROVE  IInv'
<1> USE DEF IInv, Fits
<1> DEFINE new == [Jobs!NoRow EXCEPT !.status = "queued", !.job = created, !.user = making.user]
<1>1. /\ making.phase = "saved" /\ making.id \in Jobs!JobId /\ created \in Nat
      /\ jobRow' = [jobRow EXCEPT ![making.id] = new]
      /\ making' = Jobs!NoMake
      /\ UNCHANGED <<users, upload, folder, logFile, deleter, worker, stream, created, runs,
                     racedJobs, orphaned>>
  BY DEF Jobs!CommitJob, Jobs!history, Jobs!files, TypeOK
<1>2. /\ IsRow(new) /\ new.status = "queued" /\ new.job = created
      /\ ~new.begun /\ ~new.path
  BY <1>1 DEF Jobs!NoRow, IsRow, Statuses, Names, TypeOK, Makings
<1> HIDE DEF new
<1>3. PICK k \in Jobs!JobId : k = making.id
  BY <1>1
<1>4. /\ DOMAIN jobRow' = Jobs!JobId /\ (\A i \in Jobs!JobId : IsRow(jobRow'[i])) /\ jobRow'[k] = new
      /\ \A j \in Jobs!JobId \ {k} : jobRow'[j] = jobRow[j]
  BY <1>1, <1>2, <1>3 DEF TypeOK
<1>5. /\ jobRow[k].status = "absent"
      /\ created \notin racedJobs =>
            \A d \in Deleter : deleter[d].phase = "removing" => k \notin deleter[d].ids
      /\ created \notin racedJobs => upload[k] = created
      /\ created \notin racedJobs /\ k \notin orphaned => logFile[k] = << >>
  BY <1>1, <1>3 DEF MakingFit
<1>6. TypeOK'
  BY <1>1, <1>4, Blank DEF TypeOK
<1>7. RowsFit'
  BY <1>1, <1>2, <1>4, <1>5 DEF RowsFit
<1>8. MakingFit'
  BY <1>1, Blank DEF MakingFit
<1>9. DeletersFit'
  BY <1>1, <1>2, <1>4, <1>5 DEF DeletersFit, TypeOK, Dels
<1>10. LogsFit'
  <2> SUFFICES ASSUME NEW j \in Jobs!JobId
               PROVE  /\ \A i \in DOMAIN logFile[j] : logFile[j][i] \in DOMAIN runs
                      /\ j \notin orphaned =>
                         /\ jobRow'[j].status = "absent" \/ ~jobRow'[j].begun =>
                                  logFile[j] = << >> \/ Cleaning(j)
                         /\ jobRow'[j].status # "absent" /\ jobRow'[j].job \notin racedJobs =>
                                  /\ \A i \in DOMAIN logFile[j] : runs[logFile[j][i]] = jobRow'[j].job
                                  /\ ~jobRow'[j].begun => logFile[j] = << >>
    BY <1>1 DEF LogsFit, Cleaning
  <2>1. CASE j = k
    BY <1>2, <1>4, <1>5, <2>1 DEF LogsFit
  <2>2. CASE j # k
    BY <1>4, <2>2 DEF LogsFit
  <2> QED
    BY <2>1, <2>2
<1>11. WorkersFit'
  BY <1>1, <1>4, <1>5, RowsWorkers DEF TypeOK
<1>12. StreamsFit'
  BY <1>1 DEF StreamsFit
<1> QED
  BY <1>6, <1>7, <1>8, <1>9, <1>10, <1>11, <1>12

LEMMA FailJobStep ==
    ASSUME IInv, Jobs!FailJob
    PROVE  IInv'
<1> USE DEF IInv, Fits
<1>1. /\ making' = Jobs!NoMake
      /\ UNCHANGED <<jobRow, users, upload, folder, logFile, deleter, worker, stream, created, runs,
                     racedJobs, orphaned>>
  BY DEF Jobs!FailJob, Jobs!history, Jobs!files
<1>2. TypeOK' /\ MakingFit'
  BY <1>1, Blank DEF TypeOK, MakingFit
<1>3. RowsFit' /\ DeletersFit' /\ LogsFit' /\ WorkersFit' /\ StreamsFit'
  BY <1>1 DEF RowsFit, DeletersFit, LogsFit, Cleaning, WorkersFit, StreamsFit
<1> QED
  BY <1>2, <1>3

-----------------------------------------------------------------------------
(* The removal of an account.                                              *)

LEMMA ListJobsStep ==
    ASSUME IInv, NEW d \in Deleter, NEW u \in User, Jobs!ListJobs(d, u)
    PROVE  IInv'
<1> USE DEF IInv, Fits
<1> DEFINE ids == {j \in Jobs!JobId : jobRow[j].user = u}
<1> DEFINE new == [phase |-> "listed", user |-> u, ids |-> ids,
                   named |-> {j \in ids : jobRow[j].path}, todo |-> Jobs!FilesOf(ids)]
<1>1. /\ deleter[d].phase = "idle"
      /\ deleter' = [deleter EXCEPT ![d] = new]
      /\ UNCHANGED <<jobRow, users, upload, folder, logFile, making, worker, stream, created, runs,
                     racedJobs, orphaned>>
  BY DEF Jobs!ListJobs, Jobs!history, Jobs!files
<1>2. /\ new \in Dels /\ new.phase = "listed"
      /\ \A f \in new.todo : f[1] \in new.ids
      /\ \A j \in new.named : <<j, "output">> \in new.todo
  BY DEF Dels, Names, Jobs!FilesOf, Kinds
<1> HIDE DEF new
<1>3. /\ deleter' \in [Deleter -> Dels] /\ deleter'[d] = new
      /\ \A e \in Deleter \ {d} : deleter'[e] = deleter[e]
  BY <1>1, <1>2 DEF TypeOK
<1>4. TypeOK'
  BY <1>1, <1>3 DEF TypeOK
<1>5. RowsFit' /\ WorkersFit' /\ StreamsFit'
  BY <1>1 DEF RowsFit, WorkersFit, StreamsFit
<1>6. MakingFit'
  BY <1>1, <1>2, <1>3 DEF MakingFit
<1>7. DeletersFit'
  BY <1>1, <1>2, <1>3 DEF DeletersFit
<1>8. \A j \in Jobs!JobId : Cleaning(j) => Cleaning(j)'
  BY <1>1, <1>3 DEF Cleaning
<1>9. LogsFit'
  BY <1>1, <1>8 DEF LogsFit
<1> QED
  BY <1>4, <1>5, <1>6, <1>7, <1>9

LEMMA CommitDeleteStep ==
    ASSUME IInv, NEW d \in Deleter, Jobs!CommitDelete(d)
    PROVE  IInv'
<1> USE DEF IInv, Fits
<1>1. /\ deleter[d].phase = "listed" /\ making.phase = "none"
      /\ UNCHANGED <<upload, folder, logFile, making, worker, stream, created, runs, racedJobs>>
  BY DEF Jobs!CommitDelete, Jobs!files, Jobs!Unlocked
<1>2. CASE \E j \in Jobs!JobId \ deleter[d].ids : jobRow[j].user = deleter[d].user
  <2>1. deleter' = [deleter EXCEPT ![d] = Jobs!NoDel] /\ UNCHANGED <<jobRow, users, orphaned>>
    BY <1>2 DEF Jobs!CommitDelete
  <2>2. /\ deleter' \in [Deleter -> Dels] /\ deleter'[d] = Jobs!NoDel
        /\ \A e \in Deleter \ {d} : deleter'[e] = deleter[e]
    BY <2>1, Blank DEF TypeOK
  <2>3. TypeOK'
    BY <1>1, <2>1, <2>2 DEF TypeOK
  <2>4. RowsFit' /\ WorkersFit' /\ StreamsFit' /\ MakingFit'
    BY <1>1, <2>1 DEF RowsFit, WorkersFit, StreamsFit, MakingFit
  <2>5. DeletersFit'
    BY <1>1, <2>1, <2>2, Blank DEF DeletersFit
  <2>6. \A j \in Jobs!JobId : Cleaning(j) => Cleaning(j)'
    BY <1>1, <2>2 DEF Cleaning
  <2>7. LogsFit'
    BY <1>1, <2>1, <2>6 DEF LogsFit
  <2> QED
    BY <2>3, <2>4, <2>5, <2>7
<1>3. CASE ~ \E j \in Jobs!JobId \ deleter[d].ids : jobRow[j].user = deleter[d].user
  <2>1. PICK ids : ids = deleter[d].ids
    OBVIOUS
  <2>2. /\ jobRow' = [j \in Jobs!JobId |-> IF j \in ids THEN Jobs!NoRow ELSE jobRow[j]]
        /\ orphaned' = orphaned \cup {j \in ids : Jobs!LeavesFiles(d, j)}
        /\ deleter' = [deleter EXCEPT ![d].phase = "removing"]
    BY <1>3, <2>1 DEF Jobs!CommitDelete
  <2>3. ids \subseteq Jobs!JobId
    BY <2>1 DEF TypeOK, Dels
  <2>4. /\ DOMAIN jobRow' = Jobs!JobId /\ (\A i \in Jobs!JobId : IsRow(jobRow'[i]))
        /\ \A j \in ids : jobRow'[j] = Jobs!NoRow
        /\ \A j \in Jobs!JobId \ ids : jobRow'[j] = jobRow[j]
    BY <2>2, <2>3, Blank DEF TypeOK
  <2>5. /\ deleter' \in [Deleter -> Dels] /\ deleter'[d].phase = "removing"
        /\ deleter'[d].ids = ids /\ deleter'[d].named = deleter[d].named
        /\ deleter'[d].todo = deleter[d].todo
        /\ \A e \in Deleter \ {d} : deleter'[e] = deleter[e]
    BY <2>1, <2>2 DEF TypeOK, Dels
  <2>6. TypeOK'
    BY <1>1, <2>4, <2>5 DEF TypeOK
  <2>7. RowsFit'
    BY <1>1, <2>4, Blank DEF RowsFit
  <2>8. MakingFit' /\ StreamsFit'
    BY <1>1 DEF MakingFit, StreamsFit
  <2>9. DeletersFit'
    <3> SUFFICES ASSUME NEW e \in Deleter
                 PROVE  /\ \A f \in deleter'[e].todo : f[1] \in deleter'[e].ids
                        /\ deleter'[e].phase = "listed" =>
                              \A j \in deleter'[e].named : <<j, "output">> \in deleter'[e].todo
                        /\ deleter'[e].phase = "removing" =>
                              \A j \in deleter'[e].ids :
                                 jobRow'[j].status = "absent" \/ jobRow'[j].job \in racedJobs'
      BY DEF DeletersFit
    <3>1. CASE e = d
      BY <2>1, <2>4, <2>5, <3>1, Blank DEF DeletersFit
    <3>2. CASE e # d
      <4>1. deleter'[e] = deleter[e] /\ deleter[e].ids \subseteq Jobs!JobId
        BY <2>5, <3>2 DEF TypeOK, Dels
      <4> QED
        BY <1>1, <2>4, <4>1, Blank DEF DeletersFit
    <3> QED
      BY <3>1, <3>2
  <2>10. \A j \in Jobs!JobId : Cleaning(j) => Cleaning(j)'
    BY <1>1, <2>5 DEF Cleaning
  <2>11. ASSUME NEW j \in ids, j \notin orphaned'
         PROVE  logFile[j] = << >> \/ Cleaning(j)'
    <3>1. /\ j \notin orphaned
          /\ ~jobRow[j].begun \/ j \in deleter[d].named
      BY <2>2, <2>11 DEF Jobs!LeavesFiles
    <3>2. CASE j \in deleter[d].named
      BY <1>1, <2>5, <3>2 DEF DeletersFit, Cleaning
    <3>3. CASE ~jobRow[j].begun
      BY <2>3, <2>10, <3>1, <3>3 DEF LogsFit
    <3> QED
      BY <3>1, <3>2, <3>3
  <2>12. LogsFit'
    <3> SUFFICES ASSUME NEW j \in Jobs!JobId
                 PROVE  /\ \A i \in DOMAIN logFile[j] : logFile[j][i] \in DOMAIN runs
                        /\ j \notin orphaned' =>
                           /\ jobRow'[j].status = "absent" \/ ~jobRow'[j].begun =>
                                    logFile[j] = << >> \/ Cleaning(j)'
                           /\ jobRow'[j].status # "absent" /\ jobRow'[j].job \notin racedJobs =>
                                    /\ \A i \in DOMAIN logFile[j] : runs[logFile[j][i]] = jobRow'[j].job
                                    /\ ~jobRow'[j].begun => logFile[j] = << >>
      BY <1>1 DEF LogsFit
    <3>1. CASE j \in ids
      BY <2>4, <2>11, <3>1, Blank DEF LogsFit
    <3>2. CASE j \notin ids
      BY <2>2, <2>4, <2>10, <3>2 DEF LogsFit
    <3> QED
      BY <3>1, <3>2
  <2>13. WorkersFit'
    <3> SUFFICES ASSUME NEW w \in Worker, worker[w].phase # "idle"
                 PROVE  /\ worker[w].run \in DOMAIN runs
                        /\ runs[worker[w].run] = worker[w].job
                        /\ worker[w].id \notin orphaned' =>
                              /\ jobRow'[worker[w].id].status # "absent"
                              /\ jobRow'[worker[w].id].begun
                              /\ jobRow'[worker[w].id].job = worker[w].job
      BY <1>1 DEF WorkersFit
    <3>1. worker[w].id \in Jobs!JobId
      BY DEF TypeOK, IsWork
    <3>2. worker[w].id \notin orphaned' => worker[w].id \notin ids /\ worker[w].id \notin orphaned
      BY <2>2 DEF Jobs!LeavesFiles
    <3> QED
      BY <2>4, <3>1, <3>2 DEF WorkersFit
  <2> QED
    BY <2>6, <2>7, <2>8, <2>9, <2>12, <2>13
<1> QED
  BY <1>2, <1>3

LEMMA RemoveFolderStep ==
    ASSUME IInv, NEW d \in Deleter, NEW f \in deleter[d].todo, Jobs!RemoveFolder(d, f)
    PROVE  IInv'
<1> USE DEF IInv, Fits
<1>1. /\ deleter[d].phase = "removing"
      /\ deleter' = [deleter EXCEPT ![d].todo = @ \ {f}]
      /\ UNCHANGED <<jobRow, users, making, stream, created, runs, racedJobs, orphaned>>
  BY DEF Jobs!RemoveFolder, Jobs!Removing, Jobs!history
<1>2. PICK k \in Jobs!JobId, kind \in Kinds : f = <<k, kind>>
  BY DEF TypeOK, Dels
<1>3. k \in deleter[d].ids /\ (jobRow[k].status = "absent" \/ jobRow[k].job \in racedJobs)
  BY <1>1, <1>2 DEF DeletersFit
<1>4. /\ deleter' \in [Deleter -> Dels]
      /\ \A e \in Deleter : /\ deleter'[e].phase = deleter[e].phase
                            /\ deleter'[e].ids = deleter[e].ids
                            /\ deleter'[e].named = deleter[e].named
                            /\ deleter'[e].todo \subseteq deleter[e].todo
      /\ \A e \in Deleter \ {d} : deleter'[e] = deleter[e]
      /\ deleter'[d].todo = deleter[d].todo \ {f}
  <2>1. /\ deleter'[d].phase = deleter[d].phase /\ deleter'[d].ids = deleter[d].ids
        /\ deleter'[d].named = deleter[d].named
        /\ deleter'[d].todo = deleter[d].todo \ {f}
        /\ deleter'[d] \in Dels
    BY <1>1 DEF TypeOK, Dels
  <2>2. \A e \in Deleter \ {d} : deleter'[e] = deleter[e]
    BY <1>1 DEF TypeOK
  <2>3. deleter' \in [Deleter -> Dels]
    BY <1>1, <2>1 DEF TypeOK
  <2> QED
    BY <2>1, <2>2, <2>3
<1>5. DeletersFit'
  <2> SUFFICES ASSUME NEW e \in Deleter
               PROVE  /\ \A g \in deleter'[e].todo : g[1] \in deleter'[e].ids
                      /\ deleter'[e].phase = "listed" =>
                            \A j \in deleter'[e].named : <<j, "output">> \in deleter'[e].todo
                      /\ deleter'[e].phase = "removing" =>
                            \A j \in deleter'[e].ids :
                               jobRow'[j].status = "absent" \/ jobRow'[j].job \in racedJobs'
    BY DEF DeletersFit
  <2>1. CASE e = d
    BY <1>1, <1>4, <2>1 DEF DeletersFit
  <2>2. CASE e # d
    BY <1>1, <1>4, <2>2 DEF DeletersFit
  <2> QED
    BY <2>1, <2>2
<1>6. StreamsFit'
  BY <1>1 DEF StreamsFit
<1>7. making.phase # "none" /\ making.id = k => created \in racedJobs
  BY <1>1, <1>3 DEF MakingFit
<1>8. CASE kind = "upload"
  <2>1. upload' = [upload EXCEPT ![k] = 0] /\ UNCHANGED <<folder, logFile, worker>>
    BY <1>2, <1>8 DEF Jobs!RemoveFolder
  <2>2. upload' \in [Jobs!JobId -> Nat] /\ \A j \in Jobs!JobId \ {k} : upload'[j] = upload[j]
    BY <2>1 DEF TypeOK
  <2>3. TypeOK'
    BY <1>1, <1>4, <2>1, <2>2 DEF TypeOK
  <2>4. RowsFit'
    BY <1>1, <1>3, <2>2 DEF RowsFit
  <2>5. MakingFit'
    BY <1>1, <1>4, <1>7, <2>1, <2>2 DEF MakingFit, TypeOK
  <2>6. \A j \in Jobs!JobId : Cleaning(j) => Cleaning(j)'
    BY <1>2, <1>4, <1>8 DEF Cleaning
  <2>7. LogsFit' /\ WorkersFit'
    BY <1>1, <2>1, <2>6 DEF LogsFit, WorkersFit
  <2> QED
    BY <1>5, <1>6, <2>3, <2>4, <2>5, <2>7
<1>9. CASE kind = "output"
  <2>1. /\ folder' = [folder EXCEPT ![k] = FALSE]
        /\ logFile' = [logFile EXCEPT ![k] = << >>]
        /\ worker' = [w \in Worker |->
                         IF worker[w].id = k THEN [worker[w] EXCEPT !.linked = FALSE]
                         ELSE worker[w]]
        /\ upload' = upload
    BY <1>2, <1>9 DEF Jobs!RemoveFolder
  <2>2. /\ logFile' \in [Jobs!JobId -> Seq(Nat)] /\ folder' \in [Jobs!JobId -> BOOLEAN]
        /\ logFile'[k] = << >> /\ \A j \in Jobs!JobId \ {k} : logFile'[j] = logFile[j]
    BY <2>1 DEF TypeOK
  <2>3. /\ DOMAIN worker' = Worker /\ (\A x \in Worker : IsWork(worker'[x]))
        /\ \A w \in Worker : /\ worker'[w].phase = worker[w].phase
                             /\ worker'[w].id = worker[w].id
                             /\ worker'[w].run = worker[w].run
                             /\ worker'[w].job = worker[w].job
    BY <2>1 DEF TypeOK, IsWork
  <2>4. TypeOK'
    BY <1>1, <1>4, <2>1, <2>2, <2>3 DEF TypeOK
  <2>5. RowsFit'
    BY <1>1, <2>1 DEF RowsFit
  <2>6. MakingFit'
    BY <1>1, <1>4, <2>1, <2>2 DEF MakingFit, TypeOK
  <2>7. \A j \in Jobs!JobId \ {k} : Cleaning(j) => Cleaning(j)'
    BY <1>2, <1>4 DEF Cleaning
  <2>8. LogsFit'
    <3> SUFFICES ASSUME NEW j \in Jobs!JobId
                 PROVE  /\ \A i \in DOMAIN logFile'[j] : logFile'[j][i] \in DOMAIN runs
                        /\ j \notin orphaned =>
                           /\ jobRow[j].status = "absent" \/ ~jobRow[j].begun =>
                                    logFile'[j] = << >> \/ Cleaning(j)'
                           /\ jobRow[j].status # "absent" /\ jobRow[j].job \notin racedJobs =>
                                    /\ \A i \in DOMAIN logFile'[j] : runs[logFile'[j][i]] = jobRow[j].job
                                    /\ ~jobRow[j].begun => logFile'[j] = << >>
      BY <1>1 DEF LogsFit
    <3>1. CASE j = k
      BY <2>2, <3>1
    <3>2. CASE j # k
      BY <2>2, <2>7, <3>2 DEF LogsFit
    <3> QED
      BY <3>1, <3>2
  <2>9. WorkersFit'
    BY <1>1, <2>3 DEF WorkersFit
  <2> QED
    BY <1>5, <1>6, <2>4, <2>5, <2>6, <2>8, <2>9
<1> QED
  BY <1>8, <1>9 DEF Kinds

LEMMA RemovedStep ==
    ASSUME IInv, NEW d \in Deleter, Jobs!Removed(d)
    PROVE  IInv'
<1> USE DEF IInv, Fits
<1>1. /\ deleter[d].todo = {} /\ deleter' = [deleter EXCEPT ![d] = Jobs!NoDel]
      /\ UNCHANGED <<jobRow, users, upload, folder, logFile, making, worker, stream, created, runs,
                     racedJobs, orphaned>>
  BY DEF Jobs!Removed, Jobs!history, Jobs!files
<1>2. /\ deleter' \in [Deleter -> Dels] /\ deleter'[d] = Jobs!NoDel
      /\ \A e \in Deleter \ {d} : deleter'[e] = deleter[e]
  BY <1>1, Blank DEF TypeOK
<1>3. TypeOK'
  BY <1>1, <1>2 DEF TypeOK
<1>4. RowsFit' /\ WorkersFit' /\ StreamsFit'
  BY <1>1 DEF RowsFit, WorkersFit, StreamsFit
<1>5. MakingFit'
  BY <1>1, <1>2, Blank DEF MakingFit
<1>6. DeletersFit'
  BY <1>1, <1>2, Blank DEF DeletersFit
<1>7. \A j \in Jobs!JobId : Cleaning(j) => Cleaning(j)'
  BY <1>1, <1>2 DEF Cleaning
<1>8. LogsFit'
  BY <1>1, <1>7 DEF LogsFit
<1> QED
  BY <1>3, <1>4, <1>5, <1>6, <1>8

-----------------------------------------------------------------------------
(* Steps that change one row, and neither its job nor its files.            *)

LEMMA RowStep ==
    ASSUME IInv, NEW j \in Jobs!JobId,
           DOMAIN jobRow' = Jobs!JobId /\ (\A i \in Jobs!JobId : IsRow(jobRow'[i])),
           \A i \in Jobs!JobId \ {j} : jobRow'[i] = jobRow[i],
           jobRow[j].status # "absent", jobRow'[j].status # "absent",
           jobRow'[j].job = jobRow[j].job,
           jobRow'[j].begun = jobRow[j].begun,
           jobRow'[j].status \in {"queued", "running"} => jobRow[j].status \in {"queued", "running"},
           jobRow'[j].path => jobRow'[j].status \in Jobs!Over,
           UNCHANGED <<upload, logFile, making, deleter, created, runs, racedJobs, orphaned>>
    PROVE  RowsFit' /\ MakingFit' /\ DeletersFit' /\ LogsFit'
<1> USE DEF IInv, Fits
<1>1. \A i \in Jobs!JobId : /\ jobRow'[i].job = jobRow[i].job /\ jobRow'[i].begun = jobRow[i].begun
                            /\ jobRow'[i].status = "absent" <=> jobRow[i].status = "absent"
  OBVIOUS
<1>2. RowsFit'
  BY DEF RowsFit
<1>3. MakingFit'
  BY <1>1 DEF MakingFit, TypeOK
<1>4. DeletersFit'
  BY <1>1 DEF DeletersFit, TypeOK, Dels
<1>5. LogsFit'
  BY <1>1 DEF LogsFit, Cleaning
<1> QED
  BY <1>2, <1>3, <1>4, <1>5

LEMMA RequeueStep ==
    ASSUME IInv, NEW j \in Jobs!JobId, Jobs!Requeue(j) \/ Jobs!CancelQueued(j)
    PROVE  IInv'
<1> USE DEF IInv, Fits
<1>1. /\ jobRow[j].status \in {"running", "queued"}
      /\ \E status \in {"queued", "canceled"} : jobRow' = [jobRow EXCEPT ![j].status = status]
      /\ UNCHANGED <<users, upload, folder, logFile, making, deleter, worker, stream, created,
                     runs, racedJobs, orphaned>>
  BY DEF Jobs!Requeue, Jobs!CancelQueued, Jobs!history, Jobs!files
<1>2. PICK status \in {"queued", "canceled"} : jobRow' = [jobRow EXCEPT ![j].status = status]
  BY <1>1
<1>3. ~jobRow[j].path
  BY <1>1 DEF RowsFit, Jobs!Over
<1>4. /\ DOMAIN jobRow' = Jobs!JobId /\ (\A i \in Jobs!JobId : IsRow(jobRow'[i]))
      /\ jobRow'[j].status = status /\ jobRow'[j].job = jobRow[j].job
      /\ jobRow'[j].begun = jobRow[j].begun /\ jobRow'[j].path = jobRow[j].path
      /\ \A i \in Jobs!JobId \ {j} : jobRow'[i] = jobRow[i]
  BY <1>2 DEF TypeOK, IsRow, Statuses, Jobs!Over
<1>5. RowsFit' /\ MakingFit' /\ DeletersFit' /\ LogsFit'
  BY <1>1, <1>3, <1>4, RowStep
<1>6. TypeOK'
  BY <1>1, <1>4 DEF TypeOK
<1>7. WorkersFit'
  BY <1>1, <1>4, RowsWorkers
<1>8. StreamsFit'
  BY <1>1 DEF StreamsFit
<1> QED
  BY <1>5, <1>6, <1>7, <1>8

-----------------------------------------------------------------------------
(* The worker.                                                             *)

LEMMA ClaimStep ==
    ASSUME IInv, NEW w \in Worker, NEW j \in Jobs!JobId, Jobs!Claim(w, j)
    PROVE  IInv'
<1> USE DEF IInv, Fits
<1> DEFINE new == [Jobs!NoWork EXCEPT !.phase = "begin", !.id = j, !.job = jobRow[j].job,
                                      !.run = Len(runs) + 1]
<1>1. /\ jobRow[j].status = "queued"
      /\ jobRow' = [jobRow EXCEPT ![j].status = "running", ![j].begun = TRUE]
      /\ runs' = Append(runs, jobRow[j].job)
      /\ worker' = [worker EXCEPT ![w] = new]
      /\ making.phase = "none"
      /\ UNCHANGED <<users, upload, folder, logFile, making, deleter, stream, created, racedJobs,
                     orphaned>>
  BY DEF Jobs!Claim, Jobs!files, Jobs!Unlocked
<1>2. /\ DOMAIN jobRow' = Jobs!JobId /\ (\A i \in Jobs!JobId : IsRow(jobRow'[i]))
      /\ jobRow'[j].status = "running" /\ jobRow'[j].job = jobRow[j].job
      /\ jobRow'[j].begun /\ jobRow'[j].path = jobRow[j].path
      /\ \A i \in Jobs!JobId \ {j} : jobRow'[i] = jobRow[i]
  BY <1>1 DEF TypeOK, IsRow, Statuses
<1>3. jobRow[j].job \in Nat /\ Len(runs) \in Nat
  BY DEF TypeOK, IsRow
<1>4. /\ IsWork(new) /\ new.phase = "begin" /\ new.id = j
      /\ new.job = jobRow[j].job /\ new.run = Len(runs) + 1
  BY <1>3 DEF Jobs!NoWork, IsWork, Jobs!Over
<1> HIDE DEF new
<1>5. /\ runs' \in Seq(Nat) /\ Len(runs') = Len(runs) + 1
      /\ runs'[Len(runs) + 1] = jobRow[j].job
      /\ \A n \in DOMAIN runs : n \in DOMAIN runs' /\ runs'[n] = runs[n]
      /\ Len(runs) + 1 \in DOMAIN runs'
  BY <1>1, <1>3 DEF TypeOK
<1>6. /\ DOMAIN worker' = Worker /\ (\A x \in Worker : IsWork(worker'[x])) /\ worker'[w] = new
      /\ \A x \in Worker \ {w} : worker'[x] = worker[x]
  BY <1>1, <1>4 DEF TypeOK
<1>7. TypeOK'
  BY <1>1, <1>2, <1>4, <1>5, <1>6 DEF TypeOK
<1>8. RowsFit'
  BY <1>1, <1>2 DEF RowsFit, Jobs!Over
<1>9. MakingFit' /\ StreamsFit'
  BY <1>1 DEF MakingFit, StreamsFit
<1>10. DeletersFit'
  <2>1. \A i \in Jobs!JobId : /\ jobRow'[i].job = jobRow[i].job
                              /\ jobRow[i].status = "absent" => jobRow'[i].status = "absent"
    BY <1>1, <1>2
  <2> QED
    BY <1>1, <2>1 DEF DeletersFit, TypeOK, Dels
<1>11. LogsFit'
  <2> SUFFICES ASSUME NEW k \in Jobs!JobId
               PROVE  /\ \A i \in DOMAIN logFile[k] : logFile[k][i] \in DOMAIN runs'
                      /\ k \notin orphaned =>
                         /\ jobRow'[k].status = "absent" \/ ~jobRow'[k].begun =>
                                  logFile[k] = << >> \/ Cleaning(k)
                         /\ jobRow'[k].status # "absent" /\ jobRow'[k].job \notin racedJobs =>
                                  /\ \A i \in DOMAIN logFile[k] : runs'[logFile[k][i]] = jobRow'[k].job
                                  /\ ~jobRow'[k].begun => logFile[k] = << >>
    BY <1>1 DEF LogsFit, Cleaning
  <2>1. \A i \in DOMAIN logFile[k] : /\ logFile[k][i] \in DOMAIN runs /\ logFile[k][i] \in DOMAIN runs'
                                     /\ runs'[logFile[k][i]] = runs[logFile[k][i]]
    BY <1>5 DEF LogsFit
  <2>2. CASE k = j
    BY <1>1, <1>2, <2>1, <2>2 DEF LogsFit
  <2>3. CASE k # j
    BY <1>2, <2>1, <2>3 DEF LogsFit
  <2> QED
    BY <2>2, <2>3
<1>12. WorkersFit'
  <2> SUFFICES ASSUME NEW x \in Worker, worker'[x].phase # "idle"
               PROVE  /\ worker'[x].run \in DOMAIN runs'
                      /\ runs'[worker'[x].run] = worker'[x].job
                      /\ worker'[x].id \notin orphaned =>
                            /\ jobRow'[worker'[x].id].status # "absent"
                            /\ jobRow'[worker'[x].id].begun
                            /\ jobRow'[worker'[x].id].job = worker'[x].job
    BY <1>1 DEF WorkersFit
  <2>1. CASE x = w
    BY <1>2, <1>4, <1>5, <1>6, <2>1
  <2>2. CASE x # w
    <3>1. worker'[x] = worker[x] /\ worker[x].id \in Jobs!JobId
      BY <1>6, <2>2 DEF TypeOK, IsWork
    <3> QED
      BY <1>1, <1>2, <1>5, <3>1 DEF WorkersFit
  <2> QED
    BY <2>1, <2>2
<1> QED
  BY <1>7, <1>8, <1>9, <1>10, <1>11, <1>12

\* A worker goes on, or stops, and touches neither rows nor logs.
LEMMA WorkerStep ==
    ASSUME IInv, NEW w \in Worker,
           DOMAIN worker' = Worker /\ (\A x \in Worker : IsWork(worker'[x])),
           \A x \in Worker \ {w} : worker'[x] = worker[x],
           worker'[w].phase # "idle" =>
              /\ worker[w].phase # "idle" /\ worker'[w].id = worker[w].id
              /\ worker'[w].run = worker[w].run /\ worker'[w].job = worker[w].job,
           folder' \in [Jobs!JobId -> BOOLEAN],
           UNCHANGED <<jobRow, upload, logFile, making, deleter, stream, created, runs, racedJobs,
                       orphaned>>
    PROVE  IInv'
<1> USE DEF IInv, Fits
<1>1. TypeOK'
  BY DEF TypeOK
<1>2. RowsFit' /\ MakingFit' /\ DeletersFit' /\ LogsFit' /\ StreamsFit'
  BY DEF RowsFit, MakingFit, DeletersFit, LogsFit, Cleaning, StreamsFit
<1>3. WorkersFit'
  BY DEF WorkersFit
<1> QED
  BY <1>1, <1>2, <1>3

LEMMA BeginStep ==
    ASSUME IInv, NEW w \in Worker, Jobs!Begin(w)
    PROVE  IInv'
<1> USE DEF IInv
<1>1. /\ worker[w].phase = "begin" /\ worker[w].id \in Jobs!JobId
      /\ folder' = [folder EXCEPT ![worker[w].id] = TRUE]
      /\ \E phase \in {"save", "open"}, result \in {"failed", "completed"} :
            worker' = [worker EXCEPT ![w].phase = phase, ![w].result = result]
      /\ UNCHANGED <<jobRow, users, upload, logFile, making, deleter, stream, created, runs, racedJobs,
                     orphaned>>
  BY DEF Jobs!Begin, Jobs!Goes, Jobs!history, TypeOK, IsWork
<1>2. PICK phase \in {"save", "open"}, result \in {"failed", "completed"} :
         worker' = [worker EXCEPT ![w].phase = phase, ![w].result = result]
  BY <1>1
<1>3. /\ DOMAIN worker' = Worker /\ (\A x \in Worker : IsWork(worker'[x]))
      /\ worker'[w].id = worker[w].id
      /\ worker'[w].run = worker[w].run /\ worker'[w].job = worker[w].job
      /\ \A x \in Worker \ {w} : worker'[x] = worker[x]
  BY <1>1, <1>2 DEF TypeOK, IsWork, Jobs!Over
<1>4. folder' \in [Jobs!JobId -> BOOLEAN]
  BY <1>1 DEF TypeOK
<1> QED
  BY <1>1, <1>3, <1>4, WorkerStep

LEMMA OpenLogStep ==
    ASSUME IInv, NEW w \in Worker, Jobs!OpenLog(w)
    PROVE  IInv'
<1> USE DEF IInv
<1>1. /\ worker[w].phase = "open" /\ worker[w].id \in Jobs!JobId
      /\ \E phase \in {"run", "save"}, linked \in BOOLEAN, result \in Jobs!Over :
            worker' = [worker EXCEPT ![w].phase = phase, ![w].linked = linked,
                                     ![w].result = result]
      /\ UNCHANGED <<jobRow, users, upload, folder, logFile, making, deleter, stream, created, runs,
                     racedJobs, orphaned>>
  <2>1. worker[w].phase = "open" /\ worker[w].id \in Jobs!JobId
    BY DEF Jobs!OpenLog, TypeOK, IsWork
  <2>2. worker[w].result \in Jobs!Over /\ folder[worker[w].id] \in BOOLEAN
    BY <2>1 DEF TypeOK, IsWork
  <2>3. CASE folder[worker[w].id]
    <3>1. worker' = [worker EXCEPT ![w].phase = "run", ![w].linked = TRUE,
                                   ![w].result = worker[w].result]
      BY <2>2, <2>3 DEF Jobs!OpenLog, TypeOK
    <3> QED
      BY <2>1, <2>2, <3>1 DEF Jobs!OpenLog, Jobs!files, Jobs!history
  <2>4. CASE ~folder[worker[w].id]
    <3>1. worker' = [worker EXCEPT ![w].phase = "save", ![w].linked = FALSE,
                                   ![w].result = "failed"]
      BY <2>2, <2>4 DEF Jobs!OpenLog, TypeOK
    <3> QED
      BY <2>1, <2>2, <3>1 DEF Jobs!OpenLog, Jobs!files, Jobs!history, Jobs!Over
  <2> QED
    BY <2>3, <2>4
<1>2. PICK phase \in {"run", "save"}, linked \in BOOLEAN, result \in Jobs!Over :
         worker' = [worker EXCEPT ![w].phase = phase, ![w].linked = linked,
                                  ![w].result = result]
  BY <1>1
<1>3. /\ DOMAIN worker' = Worker /\ (\A x \in Worker : IsWork(worker'[x]))
      /\ worker'[w].id = worker[w].id
      /\ worker'[w].run = worker[w].run /\ worker'[w].job = worker[w].job
      /\ \A x \in Worker \ {w} : worker'[x] = worker[x]
  BY <1>1, <1>2 DEF TypeOK, IsWork
<1>4. folder' \in [Jobs!JobId -> BOOLEAN]
  BY <1>1 DEF TypeOK
<1> QED
  BY <1>1, <1>3, <1>4, WorkerStep

LEMMA FinishStep ==
    ASSUME IInv, NEW w \in Worker, Jobs!Finish(w)
    PROVE  IInv'
<1> USE DEF IInv
<1>1. /\ worker[w].phase = "run"
      /\ UNCHANGED <<jobRow, users, upload, folder, logFile, making, deleter, stream, created, runs,
                     racedJobs, orphaned>>
  BY DEF Jobs!Finish, Jobs!files, Jobs!history
<1>2. PICK result \in Jobs!Over :
         worker' = [worker EXCEPT ![w].phase = "save", ![w].result = result]
  BY DEF Jobs!Finish, Jobs!Goes
<1>3. /\ DOMAIN worker' = Worker /\ (\A x \in Worker : IsWork(worker'[x]))
      /\ worker'[w].id = worker[w].id
      /\ worker'[w].run = worker[w].run /\ worker'[w].job = worker[w].job
      /\ \A x \in Worker \ {w} : worker'[x] = worker[x]
  BY <1>1, <1>2 DEF TypeOK, IsWork
<1>4. folder' \in [Jobs!JobId -> BOOLEAN]
  BY <1>1 DEF TypeOK
<1> QED
  BY <1>1, <1>3, <1>4, WorkerStep

LEMMA CrashStep ==
    ASSUME IInv, NEW w \in Worker, Jobs!Crash(w)
    PROVE  IInv'
<1> USE DEF IInv
<1>1. /\ worker' = [worker EXCEPT ![w] = Jobs!NoWork]
      /\ UNCHANGED <<jobRow, users, upload, folder, logFile, making, deleter, stream, created, runs,
                     racedJobs, orphaned>>
  BY DEF Jobs!Crash, Jobs!files, Jobs!history
<1>2. /\ DOMAIN worker' = Worker /\ (\A x \in Worker : IsWork(worker'[x]))
      /\ worker'[w].phase = "idle"
      /\ \A x \in Worker \ {w} : worker'[x] = worker[x]
  BY <1>1, Blank DEF TypeOK
<1>3. folder' \in [Jobs!JobId -> BOOLEAN]
  BY <1>1 DEF TypeOK
<1> QED
  BY <1>1, <1>2, <1>3, WorkerStep

LEMMA WriteStep ==
    ASSUME IInv, NEW w \in Worker, Jobs!Write(w)
    PROVE  IInv'
<1> USE DEF IInv, Fits
<1>1. /\ worker[w].phase = "run" /\ worker[w].id \in Jobs!JobId
      /\ worker' = [worker EXCEPT ![w].wrote = @ + 1]
      /\ UNCHANGED <<jobRow, users, upload, folder, making, deleter, stream, created, runs, racedJobs,
                     orphaned>>
  BY DEF Jobs!Write, Jobs!history, TypeOK, IsWork
<1>2. PICK k \in Jobs!JobId : k = worker[w].id
  BY <1>1
<1>3. /\ DOMAIN worker' = Worker /\ (\A x \in Worker : IsWork(worker'[x]))
      /\ \A x \in Worker : /\ worker'[x].phase = worker[x].phase
                           /\ worker'[x].id = worker[x].id
                           /\ worker'[x].run = worker[x].run
                           /\ worker'[x].job = worker[x].job
  BY <1>1 DEF TypeOK, IsWork
<1>4. /\ worker[w].run \in DOMAIN runs /\ worker[w].run \in Nat
      /\ runs[worker[w].run] = worker[w].job
      /\ k \notin orphaned => /\ jobRow[k].status # "absent" /\ jobRow[k].begun
                              /\ jobRow[k].job = worker[w].job
  BY <1>1, <1>2 DEF WorkersFit, TypeOK, IsWork
<1>5. /\ logFile' \in [Jobs!JobId -> Seq(Nat)]
      /\ \A j \in Jobs!JobId \ {k} : logFile'[j] = logFile[j]
      /\ \A i \in DOMAIN logFile'[k] :
            (i \in DOMAIN logFile[k] /\ logFile'[k][i] = logFile[k][i]) \/ logFile'[k][i] = worker[w].run
  <2>1. CASE worker[w].linked
    <3>1. logFile' = [logFile EXCEPT ![k] = Append(logFile[k], worker[w].run)]
      BY <1>2, <2>1 DEF Jobs!Write
    <3>2. logFile[k] \in Seq(Nat)
      BY DEF TypeOK
    <3>3. /\ Append(logFile[k], worker[w].run) \in Seq(Nat)
          /\ \A i \in DOMAIN Append(logFile[k], worker[w].run) :
                \/ i \in DOMAIN logFile[k] /\ Append(logFile[k], worker[w].run)[i] = logFile[k][i]
                \/ Append(logFile[k], worker[w].run)[i] = worker[w].run
      BY <1>4, <3>2
    <3>4. /\ logFile'[k] = Append(logFile[k], worker[w].run)
          /\ \A j \in Jobs!JobId \ {k} : logFile'[j] = logFile[j]
          /\ logFile' \in [Jobs!JobId -> Seq(Nat)]
      BY <3>1, <3>3 DEF TypeOK
    <3> QED
      BY <3>3, <3>4
  <2>2. CASE ~worker[w].linked
    BY <2>2 DEF Jobs!Write, TypeOK
  <2> QED
    BY <2>1, <2>2
<1>6. TypeOK'
  BY <1>1, <1>3, <1>5 DEF TypeOK
<1>7. RowsFit' /\ DeletersFit' /\ StreamsFit'
  BY <1>1 DEF RowsFit, DeletersFit, StreamsFit
<1>8. WorkersFit'
  BY <1>1, <1>3 DEF WorkersFit
<1>9. MakingFit'
  <2>1. making.phase # "none" /\ making.id = k => k \in orphaned
    BY <1>4 DEF MakingFit
  <2> QED
    BY <1>1, <1>5, <2>1 DEF MakingFit, TypeOK
<1>10. LogsFit'
  <2> SUFFICES ASSUME NEW j \in Jobs!JobId
               PROVE  /\ \A i \in DOMAIN logFile'[j] : logFile'[j][i] \in DOMAIN runs
                      /\ j \notin orphaned =>
                         /\ jobRow[j].status = "absent" \/ ~jobRow[j].begun =>
                                  logFile'[j] = << >> \/ Cleaning(j)
                         /\ jobRow[j].status # "absent" /\ jobRow[j].job \notin racedJobs =>
                                  /\ \A i \in DOMAIN logFile'[j] : runs[logFile'[j][i]] = jobRow[j].job
                                  /\ ~jobRow[j].begun => logFile'[j] = << >>
    BY <1>1 DEF LogsFit, Cleaning
  <2>1. CASE j = k
    <3>1. \A i \in DOMAIN logFile'[k] : logFile'[k][i] \in DOMAIN runs
      BY <1>4, <1>5 DEF LogsFit
    <3>2. ASSUME k \notin orphaned, jobRow[k].job \notin racedJobs
          PROVE  \A i \in DOMAIN logFile'[k] : runs[logFile'[k][i]] = jobRow[k].job
      BY <1>4, <1>5, <3>2 DEF LogsFit
    <3> QED
      BY <1>4, <2>1, <3>1, <3>2
  <2>2. CASE j # k
    BY <1>5, <2>2 DEF LogsFit
  <2> QED
    BY <2>1, <2>2
<1> QED
  BY <1>6, <1>7, <1>8, <1>9, <1>10

LEMMA SaveStep ==
    ASSUME IInv, NEW w \in Worker, Jobs!Save(w)
    PROVE  IInv'
<1> USE DEF IInv, Fits
<1>1. /\ worker[w].phase = "save" /\ worker[w].id \in Jobs!JobId
      /\ worker' = [worker EXCEPT ![w] = Jobs!NoWork]
      /\ UNCHANGED <<users, upload, folder, logFile, making, deleter, stream, created, runs, racedJobs,
                     orphaned>>
  BY DEF Jobs!Save, Jobs!files, Jobs!history, TypeOK, IsWork
<1>2. PICK k \in Jobs!JobId : k = worker[w].id
  BY <1>1
<1>3. /\ DOMAIN worker' = Worker /\ (\A x \in Worker : IsWork(worker'[x]))
      /\ worker'[w].phase = "idle"
      /\ \A x \in Worker \ {w} : worker'[x] = worker[x]
  BY <1>1, Blank DEF TypeOK
<1>4. CASE jobRow[k].status = "absent"
  <2>1. jobRow' = jobRow
    BY <1>2, <1>4 DEF Jobs!Save
  <2>2. folder' \in [Jobs!JobId -> BOOLEAN]
    BY <1>1 DEF TypeOK
  <2> QED
    BY <1>1, <1>3, <2>1, <2>2, WorkerStep
<1>5. CASE jobRow[k].status # "absent"
  <2>1. PICK result, saver, saved :
           /\ result \in Jobs!Over
           /\ jobRow' = [jobRow EXCEPT ![k].status = result, ![k].path = TRUE,
                                       ![k].saver = saver, ![k].saved = saved]
    <3>1. worker[w].result \in Jobs!Over
      BY DEF TypeOK, IsWork
    <3> QED
      BY <1>2, <1>5, <3>1 DEF Jobs!Save
  <2>2. /\ DOMAIN jobRow' = Jobs!JobId /\ (\A i \in Jobs!JobId : IsRow(jobRow'[i]))
        /\ jobRow'[k].status = result /\ jobRow'[k].job = jobRow[k].job
        /\ jobRow'[k].begun = jobRow[k].begun
        /\ \A j \in Jobs!JobId \ {k} : jobRow'[j] = jobRow[j]
    BY <2>1 DEF TypeOK, IsRow, Statuses
  <2>3. result \in Jobs!Over /\ result \notin {"absent", "queued", "running"}
    BY <2>1 DEF Jobs!Over
  <2>4. RowsFit' /\ MakingFit' /\ DeletersFit' /\ LogsFit'
    BY <1>1, <1>5, <2>2, <2>3, RowStep
  <2>5. TypeOK'
    BY <1>1, <1>3, <2>2 DEF TypeOK
  <2>6. WorkersFit'
    <3>1. \A j \in Jobs!JobId : /\ jobRow'[j].job = jobRow[j].job /\ jobRow'[j].begun = jobRow[j].begun
                                /\ jobRow[j].status # "absent" => jobRow'[j].status # "absent"
      BY <2>2, <2>3
    <3> SUFFICES ASSUME NEW x \in Worker, worker'[x].phase # "idle"
                 PROVE  /\ worker'[x].run \in DOMAIN runs
                        /\ runs[worker'[x].run] = worker'[x].job
                        /\ worker'[x].id \notin orphaned =>
                              /\ jobRow'[worker'[x].id].status # "absent"
                              /\ jobRow'[worker'[x].id].begun
                              /\ jobRow'[worker'[x].id].job = worker'[x].job
      BY <1>1 DEF WorkersFit
    <3>2. worker'[x] = worker[x] /\ worker[x].id \in Jobs!JobId
      BY <1>3 DEF TypeOK, IsWork
    <3> QED
      BY <3>1, <3>2 DEF WorkersFit
  <2>7. StreamsFit'
    BY <1>1 DEF StreamsFit
  <2> QED
    BY <2>4, <2>5, <2>6, <2>7
<1> QED
  BY <1>4, <1>5

-----------------------------------------------------------------------------
(* The event stream.                                                       *)

LEMMA StreamStep ==
    ASSUME IInv, NEW v \in Viewer,
           DOMAIN stream' = Viewer, IsView(stream'[v]),
           \A x \in Viewer \ {v} : stream'[x] = stream[x],
           stream'[v].phase = "read" /\ stream'[v].path => stream'[v].status \in Jobs!Over,
           stream'[v].phase \in {"idle", "poll", "read"} => stream'[v].pieces = 0,
           stream'[v].pieces \in {0, 1},
           UNCHANGED <<jobRow, upload, folder, logFile, making, deleter, worker, created, runs, racedJobs,
                       orphaned>>
    PROVE  IInv'
<1> USE DEF IInv, Fits
<1>1. \A x \in Viewer : IsView(stream'[x])
  BY DEF TypeOK
<1>2. TypeOK'
  BY <1>1 DEF TypeOK
<1>3. RowsFit' /\ MakingFit' /\ DeletersFit' /\ LogsFit' /\ WorkersFit'
  BY DEF RowsFit, MakingFit, DeletersFit, LogsFit, Cleaning, WorkersFit
<1>4. StreamsFit'
  BY <1>1 DEF StreamsFit
<1> QED
  BY <1>2, <1>3, <1>4

LEMMA WatchStep ==
    ASSUME IInv, NEW v \in Viewer, NEW j \in Jobs!JobId, Jobs!Watch(v, j)
    PROVE  IInv'
<1> DEFINE new == [Jobs!NoView EXCEPT !.phase = "poll", !.id = j]
<1>1. IsView(new) /\ new.phase = "poll" /\ new.id = j /\ new.pieces = 0
  BY DEF Jobs!NoView, IsView, Statuses
<1>2. /\ DOMAIN stream' = Viewer /\ stream'[v] = new
      /\ \A x \in Viewer \ {v} : stream'[x] = stream[x]
      /\ UNCHANGED <<jobRow, upload, folder, logFile, making, deleter, worker, created, runs, racedJobs,
                     orphaned>>
  BY DEF Jobs!Watch, Jobs!files, Jobs!history, IInv, TypeOK
<1> HIDE DEF new
<1> QED
  BY <1>1, <1>2, StreamStep

LEMMA RefreshStep ==
    ASSUME IInv, NEW v \in Viewer, Jobs!Refresh(v)
    PROVE  IInv'
<1> USE DEF IInv, Fits
<1>1. /\ stream[v].phase = "poll" /\ IsView(stream[v]) /\ stream[v].id \in Jobs!JobId
      /\ stream[v].pieces = 0
      /\ UNCHANGED <<jobRow, upload, folder, logFile, making, deleter, worker, created, runs, racedJobs,
                     orphaned>>
  BY DEF Jobs!Refresh, Jobs!files, Jobs!history, TypeOK, StreamsFit, IsView
<1>2. PICK r : r = jobRow[stream[v].id] /\ IsRow(r) /\ (r.path => r.status \in Jobs!Over)
  BY <1>1 DEF TypeOK, RowsFit
<1>3. CASE r.status = "absent"
  <2> DEFINE new == [stream[v] EXCEPT !.phase = "broken"]
  <2>1. /\ DOMAIN stream' = Viewer /\ stream'[v] = new
        /\ \A x \in Viewer \ {v} : stream'[x] = stream[x]
    BY <1>2, <1>3 DEF Jobs!Refresh, TypeOK
  <2>2. IsView(new) /\ new.phase = "broken" /\ new.id = stream[v].id /\ new.pieces = 0
    BY <1>1 DEF IsView
  <2> HIDE DEF new
  <2> QED
    BY <1>1, <2>1, <2>2, StreamStep
<1>4. CASE r.status # "absent"
  <2> DEFINE new == [stream[v] EXCEPT !.phase = "read", !.status = r.status, !.path = r.path,
                                      !.job = r.job, !.saver = r.saver, !.saved = r.saved]
  <2>1. /\ DOMAIN stream' = Viewer /\ stream'[v] = new
        /\ \A x \in Viewer \ {v} : stream'[x] = stream[x]
    BY <1>2, <1>4 DEF Jobs!Refresh, TypeOK
  <2>2. /\ IsView(new) /\ new.phase = "read" /\ new.id = stream[v].id /\ new.pieces = 0
        /\ new.status = r.status /\ new.path = r.path
    BY <1>1 DEF IsView, IsRow
  <2> HIDE DEF new
  <2> QED
    BY <1>1, <1>2, <2>1, <2>2, StreamStep
<1> QED
  BY <1>3, <1>4

LEMMA ReadStep ==
    ASSUME IInv, NEW v \in Viewer, Jobs!Read(v)
    PROVE  IInv'
<1> USE DEF IInv, Fits
<1>1. /\ stream[v].phase = "read" /\ IsView(stream[v]) /\ stream[v].id \in Jobs!JobId
      /\ stream[v].pieces = 0 /\ (stream[v].path => stream[v].status \in Jobs!Over)
      /\ UNCHANGED <<jobRow, upload, folder, logFile, making, deleter, worker, created, runs, racedJobs,
                     orphaned>>
  BY DEF Jobs!Read, Jobs!files, Jobs!history, TypeOK, StreamsFit, IsView
<1>2. CASE ~Jobs!HasOutput(v)
  <2>1. PICK phase \in {"over", "poll", "expired"} :
           stream' = [stream EXCEPT ![v].phase = phase]
           /\ (stream[v].status \in Jobs!Over => phase = "over")
    BY <1>2 DEF Jobs!Read
  <2>2. /\ DOMAIN stream' = Viewer /\ \A x \in Viewer \ {v} : stream'[x] = stream[x]
        /\ IsView(stream'[v]) /\ stream'[v].phase = phase /\ stream'[v].pieces = 0
    BY <1>1, <2>1 DEF TypeOK, IsView
  <2> QED
    BY <1>1, <2>1, <2>2, StreamStep
<1>3. CASE Jobs!HasOutput(v)
  <2>1. PICK position, sent :
           stream' = [stream EXCEPT ![v].phase = "over", ![v].position = position,
                                    ![v].pieces = @ + 1, ![v].sent = sent]
    <3>1. stream[v].status \in Jobs!Over
      BY <1>1, <1>3 DEF Jobs!HasOutput
    <3> QED
      BY <1>3, <3>1 DEF Jobs!Read
  <2>2. /\ DOMAIN stream' = Viewer /\ \A x \in Viewer \ {v} : stream'[x] = stream[x]
        /\ IsView(stream'[v]) /\ stream'[v].phase = "over" /\ stream'[v].pieces = 1
    BY <1>1, <2>1 DEF TypeOK, IsView
  <2> QED
    BY <1>1, <2>2, StreamStep
<1> QED
  BY <1>2, <1>3

-----------------------------------------------------------------------------
(* The theorems.                                                           *)

LEMMA InitIInv == Jobs!Init => IInv
<1> SUFFICES ASSUME Jobs!Init
             PROVE  IInv
  OBVIOUS
<1>1. TypeOK
  BY Blank DEF Jobs!Init, TypeOK
<1>2. /\ \A j \in Jobs!JobId : jobRow[j].status = "absent" /\ ~jobRow[j].path /\ logFile[j] = << >>
      /\ making.phase = "none"
      /\ \A d \in Deleter : deleter[d].phase = "idle" /\ deleter[d].todo = {}
      /\ \A w \in Worker : worker[w].phase = "idle"
      /\ \A v \in Viewer : stream[v].phase = "idle" /\ stream[v].pieces = 0
  BY Blank DEF Jobs!Init
<1>3. RowsFit /\ MakingFit /\ DeletersFit /\ WorkersFit /\ StreamsFit
  BY <1>2 DEF RowsFit, MakingFit, DeletersFit, WorkersFit, StreamsFit
<1>4. LogsFit
  BY <1>2 DEF LogsFit
<1> QED
  BY <1>1, <1>3, <1>4 DEF IInv, Fits

LEMMA StepIInv ==
    ASSUME IInv, [Jobs!Next]_Jobs!vars
    PROVE  IInv'
<1>1. CASE UNCHANGED Jobs!vars
  BY <1>1 DEF Jobs!vars, IInv, Fits, TypeOK, RowsFit, MakingFit, DeletersFit, LogsFit,
     Cleaning, WorkersFit, StreamsFit
<1>2. CASE Jobs!SaveFile \/ Jobs!CommitJob \/ Jobs!FailJob
  BY <1>2, SaveFileStep, CommitJobStep, FailJobStep
<1>3. ASSUME NEW j \in Jobs!JobId,
             \/ Jobs!Requeue(j) \/ Jobs!CancelQueued(j)
             \/ \E u \in User : Jobs!Flush(u, j)
             \/ \E w \in Worker : Jobs!Claim(w, j)
             \/ \E v \in Viewer : Jobs!Watch(v, j)
      PROVE  IInv'
  BY <1>3, RequeueStep, FlushStep, ClaimStep, WatchStep
<1>4. ASSUME NEW d \in Deleter,
             \/ Jobs!CommitDelete(d) \/ Jobs!Removed(d)
             \/ \E u \in User : Jobs!ListJobs(d, u)
             \/ \E f \in deleter[d].todo : Jobs!RemoveFolder(d, f)
      PROVE  IInv'
  BY <1>4, CommitDeleteStep, RemovedStep, ListJobsStep, RemoveFolderStep
<1>5. ASSUME NEW w \in Worker,
             \/ Jobs!Begin(w) \/ Jobs!OpenLog(w) \/ Jobs!Write(w)
             \/ Jobs!Finish(w) \/ Jobs!Save(w) \/ Jobs!Crash(w)
      PROVE  IInv'
  BY <1>5, BeginStep, OpenLogStep, WriteStep, FinishStep, SaveStep, CrashStep
<1>6. ASSUME NEW v \in Viewer, Jobs!Refresh(v) \/ Jobs!Read(v)
      PROVE  IInv'
  BY <1>6, RefreshStep, ReadStep
<1> QED
  BY <1>1, <1>2, <1>3, <1>4, <1>5, <1>6 DEF Jobs!Next

\* The part of Web that JobFiles is.
LEMMA JobsStart == Init /\ part = "jobs" => Jobs!Init
  BY DEF Init

LEMMA JobsStep ==
    ASSUME [Next]_allVars, part = "jobs"
    PROVE  part' = "jobs" /\ [Jobs!Next]_Jobs!vars
  BY DEF Next, allVars, jobVars, Jobs!vars

\* The inductive invariant, and with it the types, holds in every behaviour.
THEOREM FilesInvariant == Spec => [](part = "jobs" => IInv)
<1> DEFINE Inv == part = "jobs" => IInv
<1>1. Init => Inv
  BY InitIInv, JobsStart
<1>2. Inv /\ [Next]_allVars => Inv'
  <2>1. [Next]_allVars => part' = part
    BY DEF Next, allVars
  <2> QED
    BY <2>1, StepIInv, JobsStep
<1> QED
  BY <1>1, <1>2, PTL DEF Spec

\* A job that waits or runs has its own program on the disk (create_job,
\* delete_user).
THEOREM UploadIntactHolds == Spec => []UploadIntact
<1>1. (part = "jobs" => IInv) => UploadIntact
  BY DEF IInv, Fits, RowsFit, UploadIntact, Jobs!UploadIntact
<1> QED
  BY <1>1, FilesInvariant, PTL

\* What a finished job shows was written by its own runs (worker.py:400-447).
THEOREM OwnOutputHolds == Spec => []OwnOutput
<1>1. (part = "jobs" => IInv) => OwnOutput
  <2> SUFFICES ASSUME IInv, NEW j \in Jobs!JobId, jobRow[j].path, j \notin orphaned,
                      jobRow[j].job \notin racedJobs
               PROVE  \A i \in DOMAIN logFile[j] : runs[logFile[j][i]] = jobRow[j].job
    BY DEF OwnOutput, Jobs!OwnOutput
  <2>1. jobRow[j].status # "absent"
    BY DEF IInv, Fits, RowsFit, Jobs!Over
  <2> QED
    BY <2>1 DEF IInv, Fits, LogsFit
<1> QED
  BY <1>1, FilesInvariant, PTL

\* The event stream reads a log in one piece (generate, api/routes.py:397-429).
THEOREM ReadInOnePieceHolds == Spec => []ReadInOnePiece
<1>1. (part = "jobs" => IInv) => ReadInOnePiece
  BY DEF IInv, Fits, StreamsFit, ReadInOnePiece, Jobs!ReadInOnePiece
<1> QED
  BY <1>1, FilesInvariant, PTL

-----------------------------------------------------------------------------
(* The end of a stream.  The lines that a run has in its log are those that  *)
(* its worker counts while it runs, those that the row names once the worker *)
(* has saved it, and those that a stream has read there; every run has its   *)
(* own number, so nobody else adds to them.                                 *)

Count(text, n) == Cardinality({i \in DOMAIN text : text[i] = n})

Busy(w)    == worker[w].phase # "idle"
Reading(v) == stream[v].phase = "read"

\* The files of the id are those of the job.
Known(j, job) == j \notin orphaned /\ job \notin racedJobs

Numbered ==
    /\ making.phase # "none" => created > 0
    /\ \A j \in Jobs!JobId :
          /\ jobRow[j].job <= created
          /\ making.phase # "none" => jobRow[j].job # created
          /\ jobRow[j].job = 0 <=> jobRow[j].status = "absent"
          /\ jobRow[j].saver \in 0 .. Len(runs)
          /\ jobRow[j].saver # 0 => jobRow[j].path /\ jobRow[j].status # "absent"
    /\ \A v \in Viewer : Reading(v) =>
          /\ stream[v].job \in 1 .. created
          /\ making.phase # "none" => stream[v].job # created
          /\ stream[v].saver \in 0 .. Len(runs)
          /\ stream[v].saver # 0 => stream[v].path

RunsApart ==
    \A w \in Worker : Busy(w) =>
       /\ \A x \in Worker : Busy(x) /\ worker[x].run = worker[w].run => x = w
       /\ \A j \in Jobs!JobId : jobRow[j].saver # worker[w].run
       /\ \A v \in Viewer : Reading(v) => stream[v].saver # worker[w].run

WorkersCount ==
    \A w \in Worker : Busy(w) /\ Known(worker[w].id, worker[w].job) =>
       /\ Count(logFile[worker[w].id], worker[w].run) = worker[w].wrote
       /\ worker[w].phase = "run" => worker[w].linked

RowsCount ==
    \A j \in Jobs!JobId : jobRow[j].saver # 0 /\ Known(j, jobRow[j].job) =>
       Count(logFile[j], jobRow[j].saver) = jobRow[j].saved

StreamsCount ==
    \A v \in Viewer :
       /\ Reading(v) /\ stream[v].saver # 0
       /\ jobRow[stream[v].id].job = stream[v].job
       /\ Known(stream[v].id, stream[v].job)
       => Count(logFile[stream[v].id], stream[v].saver) = stream[v].saved

Unread == \A v \in Viewer : stream[v].phase \in {"poll", "read"} =>
             stream[v].position = 0 /\ stream[v].sent = << >>

Counted == Numbered /\ RunsApart /\ WorkersCount /\ RowsCount /\ StreamsCount /\ Unread

-----------------------------------------------------------------------------
(* Counting the lines of a run.                                            *)

LEMMA CountType ==
    ASSUME NEW text \in Seq(Nat), NEW n
    PROVE  /\ Count(text, n) \in Nat
           /\ IsFiniteSet({i \in DOMAIN text : text[i] = n})
           /\ (\A i \in DOMAIN text : text[i] # n) => Count(text, n) = 0
<1>1. IsFiniteSet(1 .. Len(text))
  BY FS_Interval
<1>2. {i \in DOMAIN text : text[i] = n} \subseteq 1 .. Len(text)
  OBVIOUS
<1>3. IsFiniteSet({i \in DOMAIN text : text[i] = n})
  BY <1>1, <1>2, FS_Subset
<1>4. ASSUME \A i \in DOMAIN text : text[i] # n
      PROVE  Count(text, n) = 0
  <2>1. {i \in DOMAIN text : text[i] = n} = {}
    BY <1>4
  <2> QED
    BY <2>1, FS_EmptySet DEF Count
<1> QED
  BY <1>3, <1>4, FS_CardinalityType DEF Count

LEMMA CountAppend ==
    ASSUME NEW text \in Seq(Nat), NEW r \in Nat, NEW n
    PROVE  Count(Append(text, r), n) = IF n = r THEN Count(text, n) + 1 ELSE Count(text, n)
<1>1. PICK new : new = Append(text, r)
  OBVIOUS
<1>2. /\ DOMAIN new = DOMAIN text \cup {Len(text) + 1} /\ Len(text) + 1 \notin DOMAIN text
      /\ new[Len(text) + 1] = r /\ \A i \in DOMAIN text : new[i] = text[i]
  BY <1>1
<1>3. PICK old : old = {i \in DOMAIN text : text[i] = n}
  OBVIOUS
<1>4. IsFiniteSet(old) /\ Count(text, n) = Cardinality(old) /\ Len(text) + 1 \notin old
  BY <1>2, <1>3, CountType DEF Count
<1>5. {i \in DOMAIN new : new[i] = n} = IF n = r THEN old \cup {Len(text) + 1} ELSE old
  BY <1>2, <1>3
<1>6. Cardinality(old \cup {Len(text) + 1}) = Cardinality(old) + 1
  BY <1>4, FS_AddElement
<1> QED
  BY <1>1, <1>4, <1>5, <1>6 DEF Count

-----------------------------------------------------------------------------
(* Steps that write no line, save no result and read nothing.              *)

LEMMA SameCounts ==
    ASSUME IInv, Counted,
           created' \in Nat, created <= created',
           making'.phase # "none" =>
              created < created' \/ (making.phase # "none" /\ created' = created),
           racedJobs \subseteq racedJobs', orphaned \subseteq orphaned',
           \A j \in Jobs!JobId :
              \/ /\ jobRow'[j].job = jobRow[j].job /\ jobRow'[j].saver = jobRow[j].saver
                 /\ jobRow'[j].saved = jobRow[j].saved
                 /\ jobRow[j].path => jobRow'[j].path
                 /\ jobRow'[j].status = "absent" <=> jobRow[j].status = "absent"
              \/ jobRow'[j].job = 0 /\ jobRow'[j].saver = 0 /\ jobRow'[j].status = "absent",
           \A w \in Worker : worker'[w].phase # "idle" =>
              /\ worker[w].phase # "idle" /\ worker'[w].id = worker[w].id
              /\ worker'[w].run = worker[w].run /\ worker'[w].job = worker[w].job
              /\ worker'[w].wrote = worker[w].wrote
              /\ worker'[w].phase = "run" =>
                    worker'[w].linked \/ (worker[w].phase = "run" /\ worker'[w].linked = worker[w].linked),
           UNCHANGED <<logFile, stream, runs>>
    PROVE  Counted'
<1> USE DEF Counted
<1>1. \A v \in Viewer : Reading(v)' <=> Reading(v)
  BY DEF Reading
<1>2. \A w \in Worker : Busy(w)' => Busy(w)
  BY DEF Busy
<1>3. \A j, job : Known(j, job)' => Known(j, job)
  BY DEF Known
<1>4. created \in Nat /\ \A j \in Jobs!JobId : jobRow[j].job \in Nat
  BY DEF IInv, TypeOK, IsRow
<1>5. Numbered'
  <2>1. making'.phase # "none" => created' > 0
    BY <1>4 DEF Numbered
  <2>2. ASSUME NEW j \in Jobs!JobId
        PROVE  /\ jobRow'[j].job <= created'
               /\ making'.phase # "none" => jobRow'[j].job # created'
               /\ jobRow'[j].job = 0 <=> jobRow'[j].status = "absent"
               /\ jobRow'[j].saver \in 0 .. Len(runs')
               /\ jobRow'[j].saver # 0 => jobRow'[j].path /\ jobRow'[j].status # "absent"
    <3>1. /\ jobRow[j].job <= created /\ jobRow[j].job \in Nat
          /\ making.phase # "none" => jobRow[j].job # created
          /\ jobRow[j].job = 0 <=> jobRow[j].status = "absent"
          /\ jobRow[j].saver \in 0 .. Len(runs)
          /\ jobRow[j].saver # 0 => jobRow[j].path /\ jobRow[j].status # "absent"
      BY <1>4 DEF Numbered
    <3>2. 0 \in 0 .. Len(runs)
      BY DEF IInv, TypeOK
    <3> QED
      BY <1>4, <2>1, <3>1, <3>2
  <2>3. ASSUME NEW v \in Viewer, Reading(v)
        PROVE  /\ stream[v].job \in 1 .. created'
               /\ making'.phase # "none" => stream[v].job # created'
               /\ stream[v].saver \in 0 .. Len(runs)
               /\ stream[v].saver # 0 => stream[v].path
    BY <1>4, <2>3 DEF Numbered
  <2> QED
    BY <1>1, <2>1, <2>2, <2>3 DEF Numbered
<1>6. RunsApart'
  <2> SUFFICES ASSUME NEW w \in Worker, Busy(w)'
               PROVE  /\ \A x \in Worker : Busy(x)' /\ worker'[x].run = worker'[w].run => x = w
                      /\ \A j \in Jobs!JobId : jobRow'[j].saver # worker'[w].run
                      /\ \A v \in Viewer : Reading(v)' => stream'[v].saver # worker'[w].run
    BY DEF RunsApart
  <2>1. Busy(w) /\ worker'[w].run = worker[w].run /\ worker[w].run \in DOMAIN runs
    BY <1>2 DEF Busy, IInv, Fits, WorkersFit
  <2>2. worker[w].run # 0
    BY <2>1 DEF IInv, TypeOK
  <2>3. \A x \in Worker : Busy(x)' /\ worker'[x].run = worker'[w].run => x = w
    BY <1>2, <2>1 DEF Busy, RunsApart
  <2>4. \A j \in Jobs!JobId : jobRow'[j].saver # worker'[w].run
    BY <2>1, <2>2 DEF RunsApart
  <2> QED
    BY <1>1, <2>1, <2>3, <2>4 DEF RunsApart
<1>7. WorkersCount'
  <2> SUFFICES ASSUME NEW w \in Worker, Busy(w)', Known(worker[w].id, worker[w].job)'
               PROVE  /\ Count(logFile[worker'[w].id], worker'[w].run) = worker'[w].wrote
                      /\ worker'[w].phase = "run" => worker'[w].linked
    BY DEF WorkersCount
  <2>1. /\ Busy(w) /\ worker'[w].id = worker[w].id /\ worker'[w].run = worker[w].run
        /\ worker'[w].job = worker[w].job /\ worker'[w].wrote = worker[w].wrote
    BY <1>2 DEF Busy
  <2>2. Known(worker[w].id, worker[w].job)
    BY <2>1 DEF Known
  <2> QED
    BY <2>1, <2>2 DEF WorkersCount, Busy
<1>8. RowsCount'
  BY <1>3 DEF RowsCount
<1>9. StreamsCount'
  <2> SUFFICES ASSUME NEW v \in Viewer, Reading(v), stream[v].saver # 0,
                      jobRow'[stream[v].id].job = stream[v].job,
                      Known(stream[v].id, stream[v].job)'
               PROVE  Count(logFile[stream[v].id], stream[v].saver) = stream[v].saved
    BY <1>1 DEF StreamsCount
  <2>1. stream[v].job # 0 /\ stream[v].id \in Jobs!JobId
    BY DEF Numbered, Reading, IInv, TypeOK, IsView
  <2>2. jobRow[stream[v].id].job = stream[v].job
    BY <2>1
  <2> QED
    BY <1>3, <2>2 DEF StreamsCount
<1>10. Unread'
  BY DEF Unread
<1> QED
  BY <1>5, <1>6, <1>7, <1>8, <1>9, <1>10

LEMMA FlushCounts ==
    ASSUME IInv, Counted, NEW u \in User, NEW j \in Jobs!JobId, Jobs!Flush(u, j)
    PROVE  Counted'
<1>1. /\ created' = created + 1 /\ created \in Nat /\ racedJobs \subseteq racedJobs'
      /\ UNCHANGED <<jobRow, logFile, worker, stream, runs, orphaned>>
  BY DEF Jobs!Flush, Jobs!files, IInv, TypeOK
<1>2. created' \in Nat /\ created <= created' /\ created < created'
  BY <1>1
<1> QED
  BY <1>1, <1>2, SameCounts

LEMMA RowCounts ==
    ASSUME IInv, Counted, NEW j \in Jobs!JobId,
           Jobs!Requeue(j) \/ Jobs!CancelQueued(j)
    PROVE  Counted'
<1>1. /\ UNCHANGED <<logFile, making, worker, stream, created, runs, racedJobs, orphaned>>
      /\ created \in Nat
  BY DEF Jobs!Requeue, Jobs!CancelQueued, Jobs!files, Jobs!history, IInv, TypeOK
<1>2. ASSUME NEW i \in Jobs!JobId
      PROVE  /\ jobRow'[i].job = jobRow[i].job /\ jobRow'[i].saver = jobRow[i].saver
             /\ jobRow'[i].saved = jobRow[i].saved /\ jobRow'[i].path = jobRow[i].path
             /\ jobRow'[i].status = "absent" <=> jobRow[i].status = "absent"
  <2>1. PICK status \in {"queued", "canceled"} :
           jobRow[j].status # "absent" /\ jobRow' = [jobRow EXCEPT ![j].status = status]
    BY DEF Jobs!Requeue, Jobs!CancelQueued
  <2> QED
    BY <2>1 DEF IInv, TypeOK, IsRow
<1> QED
  BY <1>1, <1>2, SameCounts

LEMMA DeleterCounts ==
    ASSUME IInv, Counted, NEW d \in Deleter,
           \/ Jobs!CommitDelete(d) \/ Jobs!Removed(d)
           \/ \E u \in User : Jobs!ListJobs(d, u)
    PROVE  Counted'
<1>1. /\ UNCHANGED <<logFile, making, worker, stream, created, runs, racedJobs>>
      /\ orphaned \subseteq orphaned'
      /\ created \in Nat
  BY DEF Jobs!CommitDelete, Jobs!Removed, Jobs!ListJobs, Jobs!files, Jobs!history, IInv, TypeOK
<1>2. \/ jobRow' = jobRow
      \/ \E ids \in SUBSET Jobs!JobId :
            jobRow' = [j \in Jobs!JobId |-> IF j \in ids THEN Jobs!NoRow ELSE jobRow[j]]
  <2>1. deleter[d].ids \in SUBSET Jobs!JobId
    BY DEF IInv, TypeOK, Dels
  <2> QED
    BY <2>1 DEF Jobs!CommitDelete, Jobs!Removed, Jobs!ListJobs
<1>3. Jobs!NoRow.job = 0 /\ Jobs!NoRow.saver = 0 /\ Jobs!NoRow.status = "absent"
  BY DEF Jobs!NoRow
<1> QED
  BY <1>1, <1>2, <1>3, SameCounts

LEMMA WorkerCounts ==
    ASSUME IInv, Counted, NEW w \in Worker,
           Jobs!Begin(w) \/ Jobs!OpenLog(w) \/ Jobs!Finish(w) \/ Jobs!Crash(w)
    PROVE  Counted'
<1>1. /\ UNCHANGED <<jobRow, logFile, making, stream, created, runs, racedJobs, orphaned>>
      /\ created \in Nat
  BY DEF Jobs!Begin, Jobs!OpenLog, Jobs!Finish, Jobs!Crash, Jobs!files, Jobs!history, IInv, TypeOK
<1>2. PICK old : old = worker[w] /\ IsWork(old)
  BY DEF IInv, TypeOK
<1>3. /\ \A x \in Worker \ {w} : worker'[x] = worker[x]
      /\ worker'[w].phase # "idle" =>
            /\ old.phase # "idle" /\ worker'[w].id = old.id
            /\ worker'[w].run = old.run /\ worker'[w].job = old.job
            /\ worker'[w].wrote = old.wrote
            /\ worker'[w].phase = "run" =>
                  worker'[w].linked \/ (old.phase = "run" /\ worker'[w].linked = old.linked)
  <2>1. CASE Jobs!Begin(w) \/ Jobs!Finish(w)
    <3>1. PICK phase \in {"save", "open"}, result \in Jobs!Over :
             worker' = [worker EXCEPT ![w].phase = phase, ![w].result = result]
      BY <2>1 DEF Jobs!Begin, Jobs!Finish, Jobs!Goes, Jobs!Over
    <3>2. old.phase # "idle"
      BY <1>2, <2>1 DEF Jobs!Begin, Jobs!Finish
    <3>3. PICK mid : mid = [old EXCEPT !.phase = phase]
      OBVIOUS
    <3>4. DOMAIN mid = DOMAIN old /\ mid.id = old.id /\ mid.run = old.run /\ mid.job = old.job
          /\ mid.wrote = old.wrote /\ mid.phase = phase
      BY <1>2, <3>3 DEF IsWork
    <3>5. worker'[w] = [mid EXCEPT !.result = result]
          /\ \A x \in Worker \ {w} : worker'[x] = worker[x]
      BY <1>2, <3>1, <3>3 DEF IInv, TypeOK
    <3>6. worker'[w].id = old.id /\ worker'[w].run = old.run /\ worker'[w].job = old.job
          /\ worker'[w].wrote = old.wrote /\ worker'[w].phase = phase
      BY <1>2, <3>4, <3>5 DEF IsWork
    <3> QED
      BY <3>2, <3>5, <3>6
  <2>2. CASE Jobs!OpenLog(w)
    <3>1. old.phase = "open" /\ worker[w].id \in Jobs!JobId
      BY <1>2, <2>2 DEF Jobs!OpenLog, IInv, TypeOK, IsWork
    <3>2. PICK is : is = folder[worker[w].id] /\ is \in BOOLEAN
      BY <3>1 DEF IInv, TypeOK
    <3>3. PICK phase, result : /\ phase = IF is THEN "run" ELSE "save"
                               /\ worker' = [worker EXCEPT ![w].phase = phase, ![w].linked = is,
                                                           ![w].result = result]
      <4>1. CASE is
        BY <2>2, <3>2, <4>1 DEF Jobs!OpenLog
      <4>2. CASE ~is
        BY <2>2, <3>2, <4>2 DEF Jobs!OpenLog
      <4> QED
        BY <4>1, <4>2
    <3>4. PICK mid : mid = [old EXCEPT !.phase = phase]
      OBVIOUS
    <3>5. DOMAIN mid = DOMAIN old /\ mid.id = old.id /\ mid.run = old.run /\ mid.job = old.job
          /\ mid.wrote = old.wrote /\ mid.phase = phase
      BY <1>2, <3>4 DEF IsWork
    <3>6. PICK late : late = [mid EXCEPT !.linked = is]
      OBVIOUS
    <3>7. DOMAIN late = DOMAIN old /\ late.id = old.id /\ late.run = old.run /\ late.job = old.job
          /\ late.wrote = old.wrote /\ late.phase = phase /\ late.linked = is
      BY <1>2, <3>5, <3>6 DEF IsWork
    <3>8. worker'[w] = [late EXCEPT !.result = result]
          /\ \A x \in Worker \ {w} : worker'[x] = worker[x]
      BY <1>2, <3>3, <3>4, <3>6 DEF IInv, TypeOK
    <3>9. worker'[w].id = old.id /\ worker'[w].run = old.run /\ worker'[w].job = old.job
          /\ worker'[w].wrote = old.wrote /\ worker'[w].phase = phase /\ worker'[w].linked = is
      BY <1>2, <3>7, <3>8 DEF IsWork
    <3>10. phase = "run" => is
      BY <3>3
    <3>11. worker'[w].phase = "run" => worker'[w].linked
      BY <3>9, <3>10, Zenon
    <3>12. old.phase # "idle"
      BY <3>1
    <3> QED
      BY <3>8, <3>9, <3>11, <3>12, Zenon
  <2>3. CASE Jobs!Crash(w)
    BY <2>3, Blank DEF Jobs!Crash, IInv, TypeOK
  <2> QED
    BY <2>1, <2>2, <2>3
<1> QED
  BY <1>1, <1>2, <1>3, SameCounts

-----------------------------------------------------------------------------
(* Steps that change what is counted.                                      *)

\* The lines of other runs stay, in the logs that anybody still counts.
LEMMA CommitJobCounts ==
    ASSUME IInv, Counted, Jobs!CommitJob
    PROVE  Counted'
<1> DEFINE new == [Jobs!NoRow EXCEPT !.status = "queued", !.job = created, !.user = making.user]
<1>1. /\ making.phase = "saved" /\ making.id \in Jobs!JobId /\ created \in Nat /\ created > 0
      /\ jobRow' = [jobRow EXCEPT ![making.id] = new]
      /\ making' = Jobs!NoMake
      /\ UNCHANGED <<logFile, worker, stream, created, runs, racedJobs, orphaned>>
  BY DEF Jobs!CommitJob, Jobs!history, Jobs!files, IInv, TypeOK, Counted, Numbered
<1>2. new.status = "queued" /\ new.job = created /\ new.saver = 0
  BY DEF Jobs!NoRow
<1> HIDE DEF new
<1>3. PICK k \in Jobs!JobId : k = making.id
  BY <1>1
<1>4. jobRow'[k] = new /\ \A j \in Jobs!JobId \ {k} : jobRow'[j] = jobRow[j]
  BY <1>1, <1>3 DEF IInv, TypeOK
<1>5. /\ making'.phase = "none" /\ Len(runs) \in Nat
      /\ \A v : Reading(v)' <=> Reading(v)
      /\ \A w : Busy(w)' <=> Busy(w)
      /\ \A j, job : Known(j, job)' <=> Known(j, job)
  BY <1>1, Blank DEF IInv, TypeOK, Reading, Busy, Known
<1>6. Numbered'
  <2>1. ASSUME NEW j \in Jobs!JobId
        PROVE  /\ jobRow'[j].job <= created
               /\ jobRow'[j].job = 0 <=> jobRow'[j].status = "absent"
               /\ jobRow'[j].saver \in 0 .. Len(runs)
               /\ jobRow'[j].saver # 0 => jobRow'[j].path /\ jobRow'[j].status # "absent"
    <3>1. CASE j = k
      BY <1>1, <1>2, <1>4, <1>5, <3>1
    <3>2. CASE j # k
      BY <1>4, <3>2 DEF Counted, Numbered
    <3> QED
      BY <3>1, <3>2
  <2>2. ASSUME NEW v \in Viewer, Reading(v)
        PROVE  /\ stream[v].job \in 1 .. created
               /\ stream[v].saver \in 0 .. Len(runs)
               /\ stream[v].saver # 0 => stream[v].path
    BY <2>2 DEF Counted, Numbered
  <2> QED
    BY <1>1, <1>5, <2>1, <2>2 DEF Numbered
<1>7. RunsApart'
  <2>1. \A w \in Worker : Busy(w) => worker[w].run # 0
    BY DEF Busy, IInv, TypeOK, Fits, WorkersFit
  <2> QED
    BY <1>1, <1>2, <1>4, <1>5, <2>1 DEF Counted, RunsApart
<1>8. WorkersCount' /\ Unread'
  BY <1>1, <1>5 DEF Counted, WorkersCount, Unread
<1>9. RowsCount'
  BY <1>1, <1>2, <1>4, <1>5 DEF Counted, RowsCount
<1>10. StreamsCount'
  <2> SUFFICES ASSUME NEW v \in Viewer, Reading(v), stream[v].saver # 0,
                      jobRow'[stream[v].id].job = stream[v].job,
                      Known(stream[v].id, stream[v].job)
               PROVE  Count(logFile[stream[v].id], stream[v].saver) = stream[v].saved
    BY <1>1, <1>5 DEF StreamsCount
  <2>1. stream[v].job # created /\ stream[v].id \in Jobs!JobId
    BY <1>1 DEF Counted, Numbered, Reading, IInv, TypeOK, IsView
  <2>2. jobRow[stream[v].id].job = stream[v].job
    BY <1>2, <1>4, <2>1
  <2> QED
    BY <2>2 DEF Counted, StreamsCount
<1> QED
  BY <1>6, <1>7, <1>8, <1>9, <1>10 DEF Counted

LEMMA RemoveFolderCounts ==
    ASSUME IInv, Counted, NEW d \in Deleter, NEW f \in deleter[d].todo, Jobs!RemoveFolder(d, f)
    PROVE  Counted'
<1>1. /\ deleter[d].phase = "removing"
      /\ UNCHANGED <<jobRow, making, stream, created, runs, racedJobs, orphaned>>
      /\ created \in Nat
  BY DEF Jobs!RemoveFolder, Jobs!Removing, Jobs!history, IInv, TypeOK
<1>2. PICK k \in Jobs!JobId, kind \in Kinds : f = <<k, kind>>
  BY DEF IInv, TypeOK, Dels
<1>3. jobRow[k].status = "absent" \/ jobRow[k].job \in racedJobs
  BY <1>1, <1>2 DEF IInv, Fits, DeletersFit
<1>4. CASE kind = "upload"
  <2>1. UNCHANGED <<logFile, worker>>
    BY <1>2, <1>4 DEF Jobs!RemoveFolder
  <2> QED
    BY <1>1, <2>1, SameCounts
<1>5. CASE kind = "output"
  <2>1. /\ logFile' = [logFile EXCEPT ![k] = << >>]
        /\ worker' = [w \in Worker |->
                         IF worker[w].id = k THEN [worker[w] EXCEPT !.linked = FALSE]
                         ELSE worker[w]]
    BY <1>2, <1>5 DEF Jobs!RemoveFolder
  <2>2. /\ \A j \in Jobs!JobId \ {k} : logFile'[j] = logFile[j]
        /\ \A w \in Worker : /\ worker'[w].phase = worker[w].phase
                             /\ worker'[w].id = worker[w].id
                             /\ worker'[w].run = worker[w].run
                             /\ worker'[w].job = worker[w].job
                             /\ worker'[w].wrote = worker[w].wrote
                             /\ worker[w].id # k => worker'[w].linked = worker[w].linked
    BY <2>1 DEF IInv, TypeOK, IsWork
  <2>3. jobRow[k].job # 0 => ~Known(k, jobRow[k].job)
    BY <1>3 DEF Counted, Numbered, Known
  <2>4. /\ \A v : Reading(v)' <=> Reading(v)
        /\ \A w \in Worker : Busy(w)' <=> Busy(w)
        /\ \A j, job : Known(j, job)' <=> Known(j, job)
    BY <1>1, <2>2 DEF Reading, Busy, Known
  <2>5. Numbered' /\ Unread'
    BY <1>1, <2>4 DEF Counted, Numbered, Unread
  <2>6. RunsApart'
    BY <1>1, <2>2, <2>4 DEF Counted, RunsApart
  <2>7. WorkersCount'
    <3> SUFFICES ASSUME NEW w \in Worker, Busy(w), Known(worker[w].id, worker[w].job)
                 PROVE  /\ Count(logFile'[worker[w].id], worker[w].run) = worker[w].wrote
                        /\ worker[w].phase = "run" => worker'[w].linked
      BY <2>2, <2>4 DEF WorkersCount
    <3>1. worker[w].id \in Jobs!JobId
      BY DEF Busy, IInv, TypeOK, IsWork
    <3>2. /\ jobRow[worker[w].id].status # "absent"
          /\ jobRow[worker[w].id].job = worker[w].job
      BY DEF Busy, Known, IInv, Fits, WorkersFit
    <3>3. worker[w].id # k
      BY <1>3, <3>2 DEF Known
    <3> QED
      BY <2>2, <3>1, <3>3 DEF Counted, WorkersCount
  <2>8. RowsCount'
    <3> SUFFICES ASSUME NEW j \in Jobs!JobId, jobRow[j].saver # 0, Known(j, jobRow[j].job)
                 PROVE  Count(logFile'[j], jobRow[j].saver) = jobRow[j].saved
      BY <1>1, <2>4 DEF RowsCount
    <3>1. jobRow[j].job # 0
      BY DEF Counted, Numbered
    <3>2. j # k
      BY <2>3, <3>1
    <3> QED
      BY <2>2, <3>2 DEF Counted, RowsCount
  <2>9. StreamsCount'
    <3> SUFFICES ASSUME NEW v \in Viewer, Reading(v), stream[v].saver # 0,
                        jobRow[stream[v].id].job = stream[v].job,
                        Known(stream[v].id, stream[v].job)
                 PROVE  Count(logFile'[stream[v].id], stream[v].saver) = stream[v].saved
      BY <1>1, <2>4 DEF StreamsCount
    <3>1. stream[v].job # 0 /\ stream[v].id \in Jobs!JobId
      BY <1>1 DEF Counted, Numbered, Reading, IInv, TypeOK, IsView
    <3>2. stream[v].id # k
      BY <2>3, <3>1
    <3> QED
      BY <2>2, <3>1, <3>2 DEF Counted, StreamsCount
  <2> QED
    BY <2>5, <2>6, <2>7, <2>8, <2>9 DEF Counted
<1> QED
  BY <1>4, <1>5 DEF Kinds

\* A run has a number that no log holds yet.
LEMMA ClaimCounts ==
    ASSUME IInv, Counted, NEW w \in Worker, NEW j \in Jobs!JobId, Jobs!Claim(w, j)
    PROVE  Counted'
<1> DEFINE new == [Jobs!NoWork EXCEPT !.phase = "begin", !.id = j, !.job = jobRow[j].job,
                                      !.run = Len(runs) + 1]
<1>1. /\ jobRow[j].status = "queued"
      /\ jobRow' = [jobRow EXCEPT ![j].status = "running", ![j].begun = TRUE]
      /\ runs' = Append(runs, jobRow[j].job)
      /\ worker' = [worker EXCEPT ![w] = new]
      /\ making.phase = "none"
      /\ UNCHANGED <<logFile, making, stream, created, racedJobs, orphaned>>
  BY DEF Jobs!Claim, Jobs!files, Jobs!Unlocked
<1>2. PICK next : next = Len(runs) + 1
  OBVIOUS
<1>3. Len(runs) \in Nat /\ next \in Nat /\ Len(runs') = next /\ next > Len(runs)
      /\ next # 0
  BY <1>1, <1>2 DEF IInv, TypeOK, IsRow
<1>4. /\ new.phase = "begin" /\ new.id = j /\ new.wrote = 0
      /\ new.job = jobRow[j].job /\ new.run = next
  BY <1>2 DEF Jobs!NoWork
<1> HIDE DEF new
<1>5. worker'[w] = new /\ \A x \in Worker \ {w} : worker'[x] = worker[x]
  BY <1>1 DEF IInv, TypeOK
<1>6. \A i \in Jobs!JobId : /\ jobRow'[i].job = jobRow[i].job /\ jobRow'[i].saver = jobRow[i].saver
                            /\ jobRow'[i].saved = jobRow[i].saved /\ jobRow'[i].path = jobRow[i].path
                            /\ jobRow'[i].status = "absent" <=> jobRow[i].status = "absent"
  BY <1>1 DEF IInv, TypeOK, IsRow
<1>7. \A i \in Jobs!JobId : /\ logFile[i] \in Seq(Nat)
                            /\ \A n \in DOMAIN logFile[i] : logFile[i][n] # next
  BY <1>2, <1>3 DEF IInv, TypeOK, Fits, LogsFit
<1>8. /\ \A v : Reading(v)' <=> Reading(v)
      /\ \A x \in Worker \ {w} : Busy(x)' <=> Busy(x)
      /\ \A i, job : Known(i, job)' <=> Known(i, job)
  BY <1>1, <1>5 DEF Reading, Busy, Known
<1>9. Numbered'
  <2>1. ASSUME NEW i \in Jobs!JobId
        PROVE  /\ jobRow'[i].job <= created
               /\ jobRow'[i].job = 0 <=> jobRow'[i].status = "absent"
               /\ jobRow'[i].saver \in 0 .. Len(runs')
               /\ jobRow'[i].saver # 0 => jobRow'[i].path /\ jobRow'[i].status # "absent"
    BY <1>2, <1>3, <1>6 DEF Counted, Numbered
  <2>2. ASSUME NEW v \in Viewer, Reading(v)
        PROVE  /\ stream[v].job \in 1 .. created
               /\ stream[v].saver \in 0 .. Len(runs')
               /\ stream[v].saver # 0 => stream[v].path
    BY <1>2, <1>3, <2>2 DEF Counted, Numbered
  <2> QED
    BY <1>1, <1>8, <2>1, <2>2 DEF Numbered
<1>10. RunsApart'
  <2> SUFFICES ASSUME NEW x \in Worker, Busy(x)'
               PROVE  /\ \A y \in Worker : Busy(y)' /\ worker'[y].run = worker'[x].run => y = x
                      /\ \A i \in Jobs!JobId : jobRow'[i].saver # worker'[x].run
                      /\ \A v \in Viewer : Reading(v)' => stream'[v].saver # worker'[x].run
    BY DEF RunsApart
  <2>1. \A y \in Worker : Busy(y) => worker[y].run \in 1 .. Len(runs)
    BY DEF Busy, IInv, TypeOK, Fits, WorkersFit
  <2>2. \A y \in Worker : Busy(y) => worker[y].run # next
    BY <1>3, <2>1
  <2>3. CASE x = w
    <3>1. worker'[x].run = next
      BY <1>4, <1>5, <2>3
    <3>2. \A y \in Worker : Busy(y)' /\ worker'[y].run = worker'[x].run => y = x
      BY <1>5, <1>8, <2>2, <2>3, <3>1
    <3>3. \A i \in Jobs!JobId : jobRow'[i].saver # next
      BY <1>3, <1>6 DEF Counted, Numbered
    <3>4. \A v \in Viewer : Reading(v) => stream[v].saver # next
      BY <1>3 DEF Counted, Numbered
    <3> QED
      BY <1>1, <1>8, <3>1, <3>2, <3>3, <3>4
  <2>4. CASE x # w
    <3>1. Busy(x) /\ worker'[x] = worker[x] /\ worker'[w].run = next
      BY <1>4, <1>5, <1>8, <2>4
    <3>2. \A y \in Worker : Busy(y)' /\ worker'[y].run = worker'[x].run => y = x
      BY <1>5, <1>8, <2>2, <3>1 DEF Counted, RunsApart
    <3>3. \A i \in Jobs!JobId : jobRow'[i].saver # worker'[x].run
      BY <1>6, <3>1 DEF Counted, RunsApart
    <3>4. \A v \in Viewer : Reading(v)' => stream'[v].saver # worker'[x].run
      BY <1>1, <1>8, <3>1 DEF Counted, RunsApart
    <3> QED
      BY <3>2, <3>3, <3>4
  <2> QED
    BY <2>3, <2>4
<1>11. WorkersCount'
  <2> SUFFICES ASSUME NEW x \in Worker, Busy(x)', Known(worker'[x].id, worker'[x].job)
               PROVE  /\ Count(logFile[worker'[x].id], worker'[x].run) = worker'[x].wrote
                      /\ worker'[x].phase = "run" => worker'[x].linked
    BY <1>1 DEF WorkersCount, Known
  <2>1. CASE x = w
    <3>1. Count(logFile[j], next) = 0
      BY <1>7, CountType
    <3> QED
      BY <1>4, <1>5, <2>1, <3>1
  <2>2. CASE x # w
    <3>1. Busy(x) /\ worker'[x] = worker[x]
      BY <1>5, <1>8, <2>2
    <3> QED
      BY <3>1 DEF Counted, WorkersCount
  <2> QED
    BY <2>1, <2>2
<1>12. RowsCount' /\ StreamsCount' /\ Unread'
  <2>1. RowsCount'
    BY <1>1, <1>6, <1>8 DEF Counted, RowsCount
  <2>2. StreamsCount'
    <3> SUFFICES ASSUME NEW v \in Viewer, Reading(v), stream[v].saver # 0,
                        jobRow'[stream[v].id].job = stream[v].job,
                        Known(stream[v].id, stream[v].job)
                 PROVE  Count(logFile[stream[v].id], stream[v].saver) = stream[v].saved
      BY <1>1, <1>8 DEF StreamsCount
    <3>1. stream[v].id \in Jobs!JobId
      BY DEF Reading, IInv, TypeOK, IsView
    <3> QED
      BY <1>6, <3>1 DEF Counted, StreamsCount
  <2> QED
    BY <1>1, <2>1, <2>2 DEF Counted, Unread
<1> QED
  BY <1>9, <1>10, <1>11, <1>12 DEF Counted

\* Only its own worker adds to the lines of a run.
LEMMA WriteCounts ==
    ASSUME IInv, Counted, NEW w \in Worker, Jobs!Write(w)
    PROVE  Counted'
<1>1. /\ worker[w].phase = "run" /\ worker[w].id \in Jobs!JobId /\ Busy(w)
      /\ UNCHANGED <<jobRow, making, stream, created, runs, racedJobs, orphaned>>
      /\ Len(runs) \in Nat
  BY DEF Jobs!Write, Jobs!history, IInv, TypeOK, IsWork, Busy
<1>2. PICK k \in Jobs!JobId, r \in Nat : k = worker[w].id /\ r = worker[w].run /\ r # 0
  <2>1. runs \in Seq(Nat) /\ worker[w].run \in DOMAIN runs
    BY <1>1 DEF IInv, TypeOK, Fits, WorkersFit
  <2>2. worker[w].run \in Nat /\ worker[w].run # 0
    BY <2>1
  <2> QED
    BY <1>1, <2>2
<1>3. /\ \A x \in Worker : /\ worker'[x].phase = worker[x].phase
                           /\ worker'[x].id = worker[x].id
                           /\ worker'[x].run = worker[x].run
                           /\ worker'[x].job = worker[x].job
                           /\ worker'[x].linked = worker[x].linked
      /\ \A x \in Worker \ {w} : worker'[x].wrote = worker[x].wrote
      /\ worker'[w].wrote = worker[w].wrote + 1
  <2>1. worker' = [worker EXCEPT ![w].wrote = @ + 1]
    BY DEF Jobs!Write
  <2> QED
    BY <2>1 DEF IInv, TypeOK, IsWork
<1>4. /\ \A j \in Jobs!JobId \ {k} : logFile'[j] = logFile[j]
      /\ worker[w].linked => logFile'[k] = Append(logFile[k], r)
      /\ ~worker[w].linked => logFile'[k] = logFile[k]
  BY <1>2 DEF Jobs!Write, IInv, TypeOK
<1>5. ASSUME NEW j \in Jobs!JobId, NEW n, n # r
      PROVE  Count(logFile'[j], n) = Count(logFile[j], n)
  <2>1. CASE j = k /\ worker[w].linked
    <3>1. logFile[k] \in Seq(Nat)
      BY DEF IInv, TypeOK
    <3>2. Count(Append(logFile[k], r), n) = Count(logFile[k], n)
      BY <1>5, <3>1, CountAppend
    <3> QED
      BY <1>4, <2>1, <3>2
  <2>2. CASE ~(j = k /\ worker[w].linked)
    BY <1>4, <2>2
  <2> QED
    BY <2>1, <2>2
<1>6. /\ \A v : Reading(v)' <=> Reading(v)
      /\ \A x \in Worker : Busy(x)' <=> Busy(x)
      /\ \A j, job : Known(j, job)' <=> Known(j, job)
  BY <1>1, <1>3 DEF Reading, Busy, Known
<1>7. Numbered' /\ Unread'
  BY <1>1, <1>6 DEF Counted, Numbered, Unread
<1>8. RunsApart'
  BY <1>1, <1>3, <1>6 DEF Counted, RunsApart
<1>9. WorkersCount'
  <2> SUFFICES ASSUME NEW x \in Worker, Busy(x), Known(worker[x].id, worker[x].job)
               PROVE  /\ Count(logFile'[worker[x].id], worker[x].run) = worker'[x].wrote
                      /\ worker[x].phase = "run" => worker[x].linked
    BY <1>3, <1>6 DEF WorkersCount
  <2>1. worker[x].id \in Jobs!JobId
    BY DEF Busy, IInv, TypeOK, IsWork
  <2>2. /\ Count(logFile[worker[x].id], worker[x].run) = worker[x].wrote
        /\ worker[x].phase = "run" => worker[x].linked
    BY DEF Counted, WorkersCount
  <2>3. CASE x = w
    <3>1. logFile'[k] = Append(logFile[k], r) /\ logFile[k] \in Seq(Nat)
      BY <1>1, <1>4, <2>2, <2>3 DEF IInv, TypeOK
    <3>2. Count(Append(logFile[k], r), r) = Count(logFile[k], r) + 1
      BY <3>1, CountAppend
    <3> QED
      BY <1>2, <1>3, <2>2, <2>3, <3>1, <3>2
  <2>4. CASE x # w
    <3>1. worker[x].run # r
      BY <1>1, <1>2, <2>4 DEF Counted, RunsApart
    <3> QED
      BY <1>3, <1>5, <2>1, <2>2, <2>4, <3>1
  <2> QED
    BY <2>3, <2>4
<1>10. RowsCount'
  <2>1. \A j \in Jobs!JobId : jobRow[j].saver # r
    BY <1>1, <1>2 DEF Counted, RunsApart
  <2> QED
    BY <1>1, <1>5, <1>6, <2>1 DEF Counted, RowsCount
<1>11. StreamsCount'
  <2> SUFFICES ASSUME NEW v \in Viewer, Reading(v), stream[v].saver # 0,
                      jobRow[stream[v].id].job = stream[v].job,
                      Known(stream[v].id, stream[v].job)
               PROVE  Count(logFile'[stream[v].id], stream[v].saver) = stream[v].saved
    BY <1>1, <1>6 DEF StreamsCount
  <2>1. stream[v].id \in Jobs!JobId
    BY DEF Reading, IInv, TypeOK, IsView
  <2>2. stream[v].saver # r
    BY <1>1, <1>2 DEF Counted, RunsApart
  <2> QED
    BY <1>5, <2>1, <2>2 DEF Counted, StreamsCount
<1> QED
  BY <1>7, <1>8, <1>9, <1>10, <1>11 DEF Counted

\* The row takes over what its worker has counted.
LEMMA SaveCounts ==
    ASSUME IInv, Counted, NEW w \in Worker, Jobs!Save(w)
    PROVE  Counted'
<1>1. /\ worker[w].id \in Jobs!JobId /\ Busy(w) /\ worker[w].result \in Jobs!Over
      /\ worker' = [worker EXCEPT ![w] = Jobs!NoWork]
      /\ UNCHANGED <<logFile, making, stream, created, runs, racedJobs, orphaned>>
      /\ created \in Nat
  BY DEF Jobs!Save, Jobs!files, Jobs!history, IInv, TypeOK, IsWork, Busy
<1>2. worker'[w].phase = "idle" /\ \A x \in Worker \ {w} : worker'[x] = worker[x]
  BY <1>1, Blank DEF IInv, TypeOK
<1>3. PICK k \in Jobs!JobId, r \in 1 .. Len(runs) : k = worker[w].id /\ r = worker[w].run
  <2>1. runs \in Seq(Nat) /\ worker[w].run \in DOMAIN runs
    BY <1>1 DEF Busy, IInv, TypeOK, Fits, WorkersFit
  <2> QED
    BY <1>1, <2>1
<1>4. CASE jobRow[k].status = "absent"
  <2>1. jobRow' = jobRow
    BY <1>3, <1>4 DEF Jobs!Save
  <2> QED
    BY <1>1, <1>2, <2>1, SameCounts
<1>5. CASE jobRow[k].status # "absent"
  <2>1. PICK old : old = jobRow[k] /\ IsRow(old)
    BY DEF IInv, TypeOK
  <2>2. jobRow' = [jobRow EXCEPT ![k].status = worker[w].result, ![k].path = TRUE,
                                 ![k].saver = r, ![k].saved = worker[w].wrote]
    BY <1>3, <1>5 DEF Jobs!Save
  <2>3. /\ \A j \in Jobs!JobId \ {k} : jobRow'[j] = jobRow[j]
        /\ jobRow'[k] = [[[[old EXCEPT !.status = worker[w].result] EXCEPT !.path = TRUE]
                              EXCEPT !.saver = r] EXCEPT !.saved = worker[w].wrote]
    BY <2>1, <2>2 DEF IInv, TypeOK
  <2>4. PICK one : one = [old EXCEPT !.status = worker[w].result]
    OBVIOUS
  <2>5. DOMAIN one = DOMAIN old /\ one.status = worker[w].result /\ one.job = old.job
    BY <2>1, <2>4 DEF IsRow
  <2>6. PICK two : two = [one EXCEPT !.path = TRUE]
    OBVIOUS
  <2>7. DOMAIN two = DOMAIN old /\ two.status = worker[w].result /\ two.job = old.job /\ two.path
    BY <2>1, <2>5, <2>6 DEF IsRow
  <2>8. PICK three : three = [two EXCEPT !.saver = r]
    OBVIOUS
  <2>9. /\ DOMAIN three = DOMAIN old /\ three.status = worker[w].result /\ three.job = old.job
        /\ three.path /\ three.saver = r
    BY <2>1, <2>7, <2>8 DEF IsRow
  <2>10. jobRow'[k] = [three EXCEPT !.saved = worker[w].wrote]
    BY <2>3, <2>4, <2>6, <2>8
  <2>11. /\ jobRow'[k].status = worker[w].result /\ jobRow'[k].job = jobRow[k].job
         /\ jobRow'[k].path /\ jobRow'[k].saver = r /\ jobRow'[k].saved = worker[w].wrote
    BY <2>1, <2>9, <2>10 DEF IsRow
  <2>12. /\ \A v : Reading(v)' <=> Reading(v)
         /\ \A x \in Worker : Busy(x)' => Busy(x) /\ x # w /\ worker'[x] = worker[x]
         /\ \A j, job : Known(j, job)' <=> Known(j, job)
    BY <1>1, <1>2 DEF Reading, Busy, Known
  <2>13. Numbered'
    <3>1. ASSUME NEW j \in Jobs!JobId
          PROVE  /\ jobRow'[j].job <= created
                 /\ making.phase # "none" => jobRow'[j].job # created
                 /\ jobRow'[j].job = 0 <=> jobRow'[j].status = "absent"
                 /\ jobRow'[j].saver \in 0 .. Len(runs)
                 /\ jobRow'[j].saver # 0 => jobRow'[j].path /\ jobRow'[j].status # "absent"
      <4>1. CASE j = k
        <5>1. jobRow[k].job <= created /\ jobRow[k].job # 0
              /\ (making.phase # "none" => jobRow[k].job # created)
          BY <1>5 DEF Counted, Numbered
        <5>2. worker[w].result # "absent"
          BY <1>1 DEF Jobs!Over
        <5>3. r \in 0 .. Len(runs)
          BY <1>3 DEF IInv, TypeOK
        <5> QED
          BY <2>11, <4>1, <5>1, <5>2, <5>3
      <4>2. CASE j # k
        BY <2>3, <4>2 DEF Counted, Numbered
      <4> QED
        BY <4>1, <4>2
    <3> QED
      BY <1>1, <2>12, <3>1 DEF Counted, Numbered
  <2>14. RunsApart'
    <3>1. ASSUME NEW x \in Worker, Busy(x)', NEW j \in Jobs!JobId
          PROVE  jobRow'[j].saver # worker[x].run
      <4>1. worker[x].run # r
        BY <1>1, <1>3, <2>12, <3>1 DEF Counted, RunsApart
      <4>2. j # k => jobRow'[j].saver # worker[x].run
        BY <2>3, <2>12, <3>1 DEF Counted, RunsApart
      <4> QED
        BY <2>11, <4>1, <4>2
    <3> QED
      BY <1>1, <2>12, <3>1 DEF Counted, RunsApart
  <2>15. WorkersCount' /\ Unread'
    BY <1>1, <2>12 DEF Counted, WorkersCount, Unread
  <2>16. RowsCount'
    <3> SUFFICES ASSUME NEW j \in Jobs!JobId, jobRow'[j].saver # 0, Known(j, jobRow'[j].job)
                 PROVE  Count(logFile[j], jobRow'[j].saver) = jobRow'[j].saved
      BY <1>1 DEF RowsCount, Known
    <3>1. CASE j = k
      <4>1. jobRow[k].job = worker[w].job
        BY <1>1, <1>3, <3>1 DEF Known, Busy, IInv, Fits, WorkersFit
      <4>2. Known(worker[w].id, worker[w].job)
        BY <1>3, <2>11, <3>1, <4>1
      <4> QED
        BY <1>1, <1>3, <2>11, <3>1, <4>2 DEF Counted, WorkersCount
    <3>2. CASE j # k
      BY <2>3, <3>2 DEF Counted, RowsCount
    <3> QED
      BY <3>1, <3>2
  <2>17. StreamsCount'
    <3> SUFFICES ASSUME NEW v \in Viewer, Reading(v), stream[v].saver # 0,
                        jobRow'[stream[v].id].job = stream[v].job,
                        Known(stream[v].id, stream[v].job)
                 PROVE  Count(logFile[stream[v].id], stream[v].saver) = stream[v].saved
      BY <1>1, <2>12 DEF StreamsCount
    <3>1. stream[v].id \in Jobs!JobId
      BY DEF Reading, IInv, TypeOK, IsView
    <3>2. jobRow[stream[v].id].job = stream[v].job
      BY <2>3, <2>11, <3>1
    <3> QED
      BY <3>2 DEF Counted, StreamsCount
  <2> QED
    BY <2>13, <2>14, <2>15, <2>16, <2>17 DEF Counted
<1> QED
  BY <1>4, <1>5

-----------------------------------------------------------------------------
(* The streams.                                                            *)

LEMMA ViewCounts ==
    ASSUME IInv, Counted, NEW v \in Viewer,
           \A x \in Viewer \ {v} : stream'[x] = stream[x],
           stream'[v].phase = "read" =>
              LET r == jobRow[stream'[v].id]
              IN  /\ stream'[v].id \in Jobs!JobId /\ r.status # "absent"
                  /\ stream'[v].job = r.job /\ stream'[v].path = r.path
                  /\ stream'[v].saver = r.saver /\ stream'[v].saved = r.saved,
           stream'[v].phase \in {"poll", "read"} =>
              stream'[v].position = 0 /\ stream'[v].sent = << >>,
           UNCHANGED <<jobRow, logFile, making, worker, created, runs, racedJobs, orphaned>>
    PROVE  Counted'
<1>1. /\ \A x \in Viewer : x # v => (Reading(x)' <=> Reading(x)) /\ stream'[x] = stream[x]
      /\ \A x \in Worker : Busy(x)' <=> Busy(x)
      /\ \A j, job : Known(j, job)' <=> Known(j, job)
      /\ Len(runs') = Len(runs) /\ created \in Nat
  BY DEF Reading, Busy, Known, IInv, TypeOK
<1>2. PICK now : now = stream'[v]
  OBVIOUS
<1>3. ASSUME now.phase = "read"
      PROVE  /\ now.job \in 1 .. created
             /\ making.phase # "none" => now.job # created
             /\ now.saver \in 0 .. Len(runs)
             /\ now.saver # 0 => now.path
             /\ \A w \in Worker : Busy(w) => now.saver # worker[w].run
             /\ now.saver # 0 /\ jobRow[now.id].job = now.job /\ Known(now.id, now.job)
                   => Count(logFile[now.id], now.saver) = now.saved
  <2>1. PICK k \in Jobs!JobId : k = now.id
    BY <1>2, <1>3
  <2>2. /\ jobRow[k].status # "absent" /\ jobRow[k].job \in Nat
        /\ now.job = jobRow[k].job /\ now.path = jobRow[k].path
        /\ now.saver = jobRow[k].saver /\ now.saved = jobRow[k].saved
    BY <1>2, <1>3, <2>1 DEF IInv, TypeOK, IsRow
  <2>3. /\ jobRow[k].job <= created /\ jobRow[k].job # 0
        /\ making.phase # "none" => jobRow[k].job # created
        /\ jobRow[k].saver \in 0 .. Len(runs)
        /\ jobRow[k].saver # 0 => jobRow[k].path
    BY <2>2 DEF Counted, Numbered
  <2>4. jobRow[k].job \in 1 .. created
    BY <1>1, <2>2, <2>3
  <2>5. \A w \in Worker : Busy(w) => jobRow[k].saver # worker[w].run
    BY DEF Counted, RunsApart
  <2>6. jobRow[k].saver # 0 /\ Known(k, jobRow[k].job)
           => Count(logFile[k], jobRow[k].saver) = jobRow[k].saved
    BY DEF Counted, RowsCount
  <2> QED
    BY <2>1, <2>2, <2>3, <2>4, <2>5, <2>6
<1>4. Reading(v)' <=> now.phase = "read"
  BY <1>2 DEF Reading
<1>5. Numbered'
  BY <1>1, <1>2, <1>3, <1>4 DEF Counted, Numbered
<1>6. RunsApart'
  BY <1>1, <1>2, <1>3, <1>4 DEF Counted, RunsApart
<1>7. WorkersCount' /\ RowsCount'
  BY <1>1 DEF Counted, WorkersCount, RowsCount
<1>8. StreamsCount'
  BY <1>1, <1>2, <1>3, <1>4 DEF Counted, StreamsCount
<1>9. Unread'
  BY DEF Counted, Unread
<1> QED
  BY <1>5, <1>6, <1>7, <1>8, <1>9 DEF Counted

LEMMA StreamCounts ==
    ASSUME IInv, Counted, NEW v \in Viewer, NEW j \in Jobs!JobId,
           Jobs!Watch(v, j) \/ Jobs!Refresh(v) \/ Jobs!Read(v)
    PROVE  Counted'
<1>1. /\ UNCHANGED <<jobRow, logFile, making, worker, created, runs, racedJobs, orphaned>>
      /\ DOMAIN stream = Viewer /\ IsView(stream[v])
  BY DEF Jobs!Watch, Jobs!Refresh, Jobs!Read, Jobs!files, Jobs!history, IInv, TypeOK
<1>2. CASE Jobs!Watch(v, j)
  <2>1. PICK new : new = [Jobs!NoView EXCEPT !.phase = "poll", !.id = j]
    OBVIOUS
  <2>2. new.phase = "poll" /\ new.position = 0 /\ new.sent = << >>
    BY <2>1 DEF Jobs!NoView
  <2>3. stream'[v] = new /\ \A x \in Viewer \ {v} : stream'[x] = stream[x]
    BY <1>1, <1>2, <2>1 DEF Jobs!Watch
  <2> QED
    BY <1>1, <2>2, <2>3, ViewCounts
<1>3. CASE Jobs!Refresh(v)
  <2>1. /\ stream[v].phase = "poll" /\ stream[v].id \in Jobs!JobId
        /\ stream[v].position = 0 /\ stream[v].sent = << >>
    BY <1>1, <1>3 DEF Jobs!Refresh, IsView, Counted, Unread
  <2>2. PICK r : r = jobRow[stream[v].id] /\ IsRow(r)
    BY <2>1 DEF IInv, TypeOK
  <2>3. \A x \in Viewer \ {v} : stream'[x] = stream[x]
    BY <1>1, <1>3 DEF Jobs!Refresh
  <2>4. CASE r.status = "absent"
    <3>1. stream'[v] = [stream[v] EXCEPT !.phase = "broken"]
      BY <1>1, <1>3, <2>2, <2>4 DEF Jobs!Refresh
    <3>2. stream'[v].phase = "broken"
      BY <1>1, <3>1 DEF IsView
    <3> QED
      BY <1>1, <2>3, <3>2, ViewCounts
  <2>5. CASE r.status # "absent"
    <3>1. PICK new : new = [stream[v] EXCEPT !.phase = "read", !.status = r.status,
                                !.path = r.path, !.job = r.job, !.saver = r.saver,
                                !.saved = r.saved]
      OBVIOUS
    <3>2. stream'[v] = new
      BY <1>1, <1>3, <2>2, <2>5, <3>1 DEF Jobs!Refresh
    <3>3. /\ new.phase = "read" /\ new.id = stream[v].id /\ new.position = 0 /\ new.sent = << >>
          /\ new.path = r.path /\ new.job = r.job /\ new.saver = r.saver /\ new.saved = r.saved
      BY <1>1, <2>1, <3>1 DEF IsView
    <3> QED
      BY <1>1, <2>1, <2>2, <2>3, <2>5, <3>2, <3>3, ViewCounts
  <2> QED
    BY <2>4, <2>5
<1>4. CASE Jobs!Read(v)
  <2>1. stream[v].phase = "read" /\ stream[v].position = 0 /\ stream[v].sent = << >>
    BY <1>4 DEF Jobs!Read, Counted, Unread
  <2>2. CASE ~Jobs!HasOutput(v)
    <3>1. PICK phase \in {"over", "poll", "expired"} : stream' = [stream EXCEPT ![v].phase = phase]
      BY <1>4, <2>2 DEF Jobs!Read
    <3>2. /\ \A x \in Viewer \ {v} : stream'[x] = stream[x]
          /\ stream'[v].phase = phase /\ stream'[v].position = 0 /\ stream'[v].sent = << >>
      BY <1>1, <2>1, <3>1 DEF IsView
    <3> QED
      BY <1>1, <3>1, <3>2, ViewCounts
  <2>3. CASE Jobs!HasOutput(v)
    <3>1. stream[v].status \in Jobs!Over
      BY <2>1, <2>3 DEF Jobs!HasOutput, IInv, Fits, StreamsFit
    <3>2. PICK position, sent :
             stream' = [stream EXCEPT ![v].phase = "over", ![v].position = position,
                                      ![v].pieces = @ + 1, ![v].sent = sent]
      BY <1>4, <2>3, <3>1 DEF Jobs!Read
    <3>3. stream'[v].phase = "over" /\ \A x \in Viewer \ {v} : stream'[x] = stream[x]
      BY <1>1, <3>2 DEF IsView
    <3> QED
      BY <1>1, <3>3, ViewCounts
  <2> QED
    BY <2>2, <2>3
<1> QED
  BY <1>2, <1>3, <1>4

-----------------------------------------------------------------------------

LEMMA InitCounted == Jobs!Init => Counted
<1> SUFFICES ASSUME Jobs!Init
             PROVE  Counted
  OBVIOUS
<1>1. /\ \A j \in Jobs!JobId : jobRow[j].status = "absent" /\ jobRow[j].job = 0 /\ jobRow[j].saver = 0
      /\ making.phase = "none" /\ created = 0 /\ Len(runs) = 0
      /\ \A w \in Worker : worker[w].phase = "idle"
      /\ \A v \in Viewer : stream[v].phase = "idle"
  BY Blank DEF Jobs!Init, Jobs!NoRow
<1> QED
  BY <1>1 DEF Counted, Numbered, RunsApart, WorkersCount, RowsCount, StreamsCount, Unread,
     Busy, Reading

LEMMA StepCounted ==
    ASSUME IInv, Counted, [Jobs!Next]_Jobs!vars
    PROVE  Counted'
<1>1. CASE UNCHANGED Jobs!vars
  BY <1>1 DEF Jobs!vars, Counted, Numbered, RunsApart, WorkersCount, RowsCount, StreamsCount,
     Unread, Busy, Reading, Known
<1>2. CASE Jobs!CommitJob
  BY <1>2, CommitJobCounts
<1>3. CASE Jobs!SaveFile \/ Jobs!FailJob
  <2>1. UNCHANGED <<jobRow, logFile, worker, stream, created, runs, racedJobs, orphaned>>
        /\ created \in Nat
    BY <1>3 DEF Jobs!SaveFile, Jobs!FailJob, Jobs!files, Jobs!history, IInv, TypeOK
  <2>2. making'.phase # "none" => making.phase # "none"
    BY <1>3, Blank DEF Jobs!SaveFile, Jobs!FailJob
  <2> QED
    BY <2>1, <2>2, SameCounts
<1>4. ASSUME NEW j \in Jobs!JobId,
             \/ Jobs!Requeue(j) \/ Jobs!CancelQueued(j)
             \/ \E u \in User : Jobs!Flush(u, j)
             \/ \E w \in Worker : Jobs!Claim(w, j)
             \/ \E v \in Viewer : Jobs!Watch(v, j)
      PROVE  Counted'
  BY <1>4, RowCounts, FlushCounts, ClaimCounts, StreamCounts
<1>5. ASSUME NEW d \in Deleter,
             \/ Jobs!CommitDelete(d) \/ Jobs!Removed(d)
             \/ \E u \in User : Jobs!ListJobs(d, u)
             \/ \E f \in deleter[d].todo : Jobs!RemoveFolder(d, f)
      PROVE  Counted'
  BY <1>5, DeleterCounts, RemoveFolderCounts
<1>6. ASSUME NEW w \in Worker,
             \/ Jobs!Begin(w) \/ Jobs!OpenLog(w) \/ Jobs!Write(w)
             \/ Jobs!Finish(w) \/ Jobs!Save(w) \/ Jobs!Crash(w)
      PROVE  Counted'
  BY <1>6, WorkerCounts, WriteCounts, SaveCounts
<1>7. ASSUME NEW v \in Viewer, Jobs!Refresh(v) \/ Jobs!Read(v)
      PROVE  Counted'
  <2>1. stream[v].id \in Jobs!JobId
    BY <1>7 DEF Jobs!Refresh, Jobs!Read, IInv, TypeOK, IsView
  <2> QED
    BY <1>7, <2>1, StreamCounts
<1> QED
  BY <1>1, <1>2, <1>3, <1>4, <1>5, <1>6, <1>7 DEF Jobs!Next

LEMMA OnlyReadEnds ==
    ASSUME IInv, [Jobs!Next]_Jobs!vars, NEW v \in Viewer,
           stream[v].phase = "read", stream'[v].phase = "over"
    PROVE  Jobs!Read(v)
<1>1. DOMAIN stream = Viewer
  BY DEF IInv, TypeOK
<1>2. stream' # stream
  OBVIOUS
<1>3. PICK x \in Viewer : Jobs!Refresh(x) \/ Jobs!Read(x) \/ \E j \in Jobs!JobId : Jobs!Watch(x, j)
  BY <1>2 DEF Jobs!Next, Jobs!vars, Jobs!history, Jobs!files, Jobs!SaveFile, Jobs!CommitJob,
     Jobs!FailJob, Jobs!Requeue, Jobs!CancelQueued, Jobs!Flush, Jobs!Claim, Jobs!CommitDelete,
     Jobs!Removed, Jobs!ListJobs, Jobs!RemoveFolder, Jobs!Begin, Jobs!OpenLog, Jobs!Write,
     Jobs!Finish, Jobs!Save, Jobs!Crash
<1>4. \A y \in Viewer \ {x} : stream'[y] = stream[y]
  BY <1>1, <1>3 DEF Jobs!Refresh, Jobs!Read, Jobs!Watch
<1>5. x = v
  BY <1>2, <1>4
<1> QED
  BY <1>3, <1>5 DEF Jobs!Refresh, Jobs!Watch

LEMMA JobsCardinality == \A S : Jobs!Cardinality(S) = Cardinality(S)
BY DEF Jobs!Cardinality, Cardinality

\* What was read of the log, when the job was over, is all of it.
LEMMA ReadIsComplete ==
    ASSUME IInv, Counted, [Jobs!Next]_Jobs!vars
    PROVE  Jobs!EndsComplete
<1> SUFFICES ASSUME NEW v \in Viewer, stream[v].phase = "read", stream'[v].phase = "over",
                    stream[v].saver # 0, jobRow[stream[v].id].job = stream[v].job,
                    stream[v].id \notin orphaned, stream[v].job \notin racedJobs
             PROVE  Count(stream'[v].sent, stream[v].saver) = stream[v].saved
  BY JobsCardinality DEF Jobs!EndsComplete, Count
<1>1. PICK text \in Seq(Nat) : text = logFile[stream[v].id]
  BY DEF IInv, TypeOK, IsView
<1>2. Count(text, stream[v].saver) = stream[v].saved
  BY <1>1 DEF Counted, StreamsCount, Reading, Known
<1>3. /\ stream[v].path /\ stream[v].position = 0 /\ stream[v].sent = << >>
      /\ DOMAIN stream = Viewer /\ IsView(stream[v]) /\ stream[v].status \in Jobs!Over
  BY DEF Counted, Numbered, Unread, Reading, IInv, TypeOK, Fits, StreamsFit
<1>4. Jobs!Read(v)
  BY OnlyReadEnds
<1>5. CASE Jobs!HasOutput(v)
  <2>1. stream' = [stream EXCEPT ![v].phase = "over", ![v].position = Len(text),
                     ![v].pieces = @ + 1,
                     ![v].sent = @ \o SubSeq(text, stream[v].position + 1, Len(text))]
    BY <1>1, <1>3, <1>4, <1>5 DEF Jobs!Read
  <2>2. PICK sent : sent = stream[v].sent \o SubSeq(text, stream[v].position + 1, Len(text))
    OBVIOUS
  <2>3. stream' = [stream EXCEPT ![v].phase = "over", ![v].position = Len(text),
                     ![v].pieces = @ + 1, ![v].sent = sent]
    BY <2>1, <2>2
  <2>4. sent = << >> \o SubSeq(text, 1, Len(text))
    BY <1>3, <2>2
  <2>5. sent = text
    BY <2>4
  <2>6. stream'[v].sent = sent
    BY <1>3, <2>3 DEF IsView
  <2> QED
    BY <1>2, <2>5, <2>6
<1>6. CASE ~Jobs!HasOutput(v)
  <2>1. Len(text) = 0
    BY <1>1, <1>3, <1>6 DEF Jobs!HasOutput
  <2>2. text = << >>
    BY <2>1
  <2>3. \E phase : stream' = [stream EXCEPT ![v].phase = phase]
    BY <1>4, <1>6 DEF Jobs!Read
  <2>4. stream'[v].sent = stream[v].sent
    BY <1>3, <2>3 DEF IsView
  <2> QED
    BY <1>2, <1>3, <2>2, <2>4
<1> QED
  BY <1>5, <1>6

\* The lines of each run are counted right, in logs that are the job's own, by its
\* worker, then by the row that it has saved and by the streams that read that row.
THEOREM CountedInvariant == Spec => [](part = "jobs" => IInv /\ Counted)
<1>1. Init => (part = "jobs" => IInv /\ Counted)
  BY InitIInv, InitCounted, JobsStart
<1>2. (part = "jobs" => IInv /\ Counted) /\ [Next]_allVars => (part = "jobs" => IInv /\ Counted)'
  <2>1. [Next]_allVars => part' = part
    BY DEF Next, allVars
  <2> QED
    BY <2>1, StepIInv, StepCounted, JobsStep
<1> QED
  BY <1>1, <1>2, PTL DEF Spec

\* When the stream says that a job is done, it has sent every line of the run
\* whose result it reports (generate, api/routes.py:397-429).
THEOREM DoneIsCompleteHolds == Spec => DoneIsComplete
<1>1. /\ part = "jobs" => IInv /\ Counted
      /\ [Next]_allVars
      => [part = "jobs" => Jobs!EndsComplete]_jobVars
  BY JobsStep, ReadIsComplete
<1> QED
  BY <1>1, CountedInvariant, PTL DEF Spec, DoneIsComplete

-----------------------------------------------------------------------------
(* The end of the log, as it is shown.  The code splits a text that it has   *)
(* read backwards and cleaned of its line ends; the reference reads one byte *)
(* after the other.  Whatever the reference has read, followed by the lines  *)
(* of the rest as the code splits it, is the same page at every place, so    *)
(* the lines of the code are an end of those of the reference.               *)

LEMMA LeastOf ==
    ASSUME NEW T, T \subseteq Nat, T # {}
    PROVE  \E x \in T : \A y \in T : x <= y
<1>1. PICK R : R = OpToRel(<, Nat)
  OBVIOUS
<1>2. IsWellFoundedOn(R, Nat)
  BY <1>1, NatLessThanWellFounded
<1>3. PICK x \in T : \A y \in T : ~ (<<y, x>> \in R)
  BY <1>2, WFMin
<1>4. \A y, z \in Nat : <<y, z>> \in R <=> y < z
  BY <1>1 DEF OpToRel
<1>5. \A y \in T : ~(y < x)
  BY <1>3, <1>4
<1> QED
  BY <1>5

\* Whatever holds of 0 and, with a number less than n, of the next, holds up to n.
LEMMA Upwards ==
    ASSUME NEW n \in Nat, NEW T, 0 \in T, \A k \in 0 .. n - 1 : k \in T => k + 1 \in T
    PROVE  \A k \in 0 .. n : k \in T
<1>1. PICK Rest : Rest = {k \in 0 .. n : k \notin T}
  OBVIOUS
<1>2. Rest = {}
  <2>1. SUFFICES ASSUME Rest # {}
                 PROVE  FALSE
    OBVIOUS
  <2>2. PICK x \in Rest : \A y \in Rest : x <= y
    <3>1. Rest \subseteq Nat
      BY <1>1
    <3> QED
      BY <2>1, <3>1, LeastOf
  <2>3. x \in 0 .. n /\ x \notin T /\ x # 0
    BY <1>1, <2>2
  <2>4. x - 1 \in 0 .. n /\ x - 1 \in 0 .. n - 1 /\ (x - 1) + 1 = x /\ ~(x <= x - 1)
    BY <2>3
  <2>5. x - 1 \in T
    BY <1>1, <2>2, <2>4
  <2> QED
    BY <2>3, <2>4, <2>5
<1> QED
  BY <1>1, <1>2

\* And from n down to 0.
LEMMA Downwards ==
    ASSUME NEW n \in Nat, NEW T, n \in T, \A k \in 1 .. n : k \in T => k - 1 \in T
    PROVE  \A k \in 0 .. n : k \in T
<1>1. PICK S : S = {k \in 0 .. n : n - k \in T}
  OBVIOUS
<1>2. 0 \in S
  BY <1>1
<1>3. ASSUME NEW k \in 0 .. n - 1, k \in S
      PROVE  k + 1 \in S
  <2>1. n - k \in 1 .. n /\ (n - k) - 1 = n - (k + 1) /\ k + 1 \in 0 .. n
    OBVIOUS
  <2>2. n - k \in T
    BY <1>1, <1>3
  <2> QED
    BY <1>1, <2>1, <2>2
<1>4. \A k \in 0 .. n : k \in S
  BY <1>2, <1>3, Upwards
<1>5. ASSUME NEW k \in 0 .. n
      PROVE  k \in T
  <2>1. n - k \in 0 .. n /\ n - (n - k) = k
    OBVIOUS
  <2>2. n - k \in S
    BY <1>4, <2>1
  <2> QED
    BY <1>1, <2>1, <2>2
<1> QED
  BY <1>5

IsRecursion(h, V, n, base, before, step) ==
    h \in [0 .. n -> V] /\ h[0] = base /\ \A i \in 1 .. n : h[i] = step[i][h[before[i]]]

\* A function defined at 0, and at every number from its value at an earlier one.
LEMMA Recursion ==
    ASSUME NEW V, NEW n \in Nat, NEW base \in V, NEW before \in [1 .. n -> Nat],
           \A i \in 1 .. n : before[i] < i,
           NEW step \in [1 .. n -> [V -> V]]
    PROVE  \E h : IsRecursion(h, V, n, base, before, step)
<1>1. PICK T : T = {k \in 0 .. n : \E h \in [0 .. k -> V] :
                      h[0] = base /\ \A i \in 1 .. k : h[i] = step[i][h[before[i]]]}
  OBVIOUS
<1>2. 0 \in T
  <2>1. PICK h : h = [i \in 0 .. 0 |-> base]
    OBVIOUS
  <2>2. h \in [0 .. 0 -> V] /\ h[0] = base /\ \A i \in 1 .. 0 : h[i] = step[i][h[before[i]]]
    BY <2>1
  <2>3. \E g \in [0 .. 0 -> V] :
           g[0] = base /\ \A i \in 1 .. 0 : g[i] = step[i][g[before[i]]]
    BY <2>2
  <2>4. 0 \in 0 .. n
    OBVIOUS
  <2> QED
    BY <1>1, <2>3, <2>4
<1>3. ASSUME NEW k \in 0 .. n - 1, k \in T
      PROVE  k + 1 \in T
  <2>1. PICK h \in [0 .. k -> V] :
           h[0] = base /\ \A i \in 1 .. k : h[i] = step[i][h[before[i]]]
    BY <1>1, <1>3
  <2>2. k \in Nat /\ k + 1 \in 1 .. n /\ k + 1 \in 0 .. n /\ k + 1 # 0 /\ k + 1 \in Nat
    OBVIOUS
  <2>3. before[k + 1] \in 0 .. k
    <3>1. before[k + 1] \in Nat /\ before[k + 1] < k + 1
      BY <2>2
    <3> QED
      BY <2>2, <3>1
  <2>4. PICK v : v = step[k + 1][h[before[k + 1]]]
    OBVIOUS
  <2>5. v \in V
    <3>1. step[k + 1] \in [V -> V] /\ h[before[k + 1]] \in V
      BY <2>1, <2>2, <2>3
    <3> QED
      BY <2>4, <3>1
  <2>6. PICK g : g = [i \in 0 .. k + 1 |-> IF i = k + 1 THEN v ELSE h[i]]
    OBVIOUS
  <2>7. \A i \in 0 .. k : i \in 0 .. k + 1 /\ i # k + 1
    BY <2>2
  <2>8. \A i \in 0 .. k : g[i] = h[i]
    BY <2>6, <2>7
  <2>9. g[k + 1] = v
    <3>1. k + 1 \in 0 .. k + 1
      BY <2>2
    <3> QED
      BY <2>6, <3>1
  <2>10. g \in [0 .. k + 1 -> V]
    <3>1. \A i \in 0 .. k + 1 : i # k + 1 => i \in 0 .. k
      BY <2>2
    <3>2. \A i \in 0 .. k + 1 : (IF i = k + 1 THEN v ELSE h[i]) \in V
      BY <2>1, <2>5, <3>1
    <3> QED
      BY <2>6, <3>2
  <2>11. g[0] = base
    <3>1. 0 \in 0 .. k
      BY <2>2
    <3> QED
      BY <2>1, <2>8, <3>1
  <2>12. ASSUME NEW i \in 1 .. k + 1
         PROVE  g[i] = step[i][g[before[i]]]
    <3>1. CASE i = k + 1
      BY <2>3, <2>4, <2>8, <2>9, <3>1
    <3>2. CASE i # k + 1
      <4>1. i \in 1 .. k /\ i \in 0 .. k /\ i \in 1 .. n
        BY <2>2, <3>2
      <4>2. before[i] \in 0 .. k
        <5>1. before[i] \in Nat /\ before[i] < i
          BY <4>1
        <5> QED
          BY <2>2, <4>1, <5>1
      <4>3. h[i] = step[i][h[before[i]]]
        BY <2>1, <4>1
      <4> QED
        BY <2>8, <4>1, <4>2, <4>3
    <3> QED
      BY <3>1, <3>2
  <2>13. \E e \in [0 .. k + 1 -> V] :
           e[0] = base /\ \A i \in 1 .. k + 1 : e[i] = step[i][e[before[i]]]
    BY <2>10, <2>11, <2>12
  <2> QED
    BY <1>1, <2>2, <2>13
<1>4. n \in T
  <2>1. n \in 0 .. n
    OBVIOUS
  <2> QED
    BY <1>2, <1>3, <2>1, Upwards
<1>5. PICK h \in [0 .. n -> V] :
         h[0] = base /\ \A i \in 1 .. n : h[i] = step[i][h[before[i]]]
  BY <1>1, <1>4
<1>6. IsRecursion(h, V, n, base, before, step)
  BY <1>5 DEF IsRecursion
<1> QED
  BY <1>6

IsRecursionDown(h, V, n, base, step) ==
    h \in [1 .. n + 1 -> V] /\ h[n + 1] = base /\ \A i \in 1 .. n : h[i] = step[i][h[i + 1]]

\* The same from the end of 1 .. n + 1.
LEMMA RecursionDown ==
    ASSUME NEW V, NEW n \in Nat, NEW base \in V, NEW step \in [1 .. n -> [V -> V]]
    PROVE  \E h : IsRecursionDown(h, V, n, base, step)
<1>1. PICK up : up = [i \in 1 .. n |-> step[n + 1 - i]]
  OBVIOUS
<1>2. PICK before : before = [i \in 1 .. n |-> i - 1]
  OBVIOUS
<1>3. before \in [1 .. n -> Nat] /\ \A i \in 1 .. n : before[i] < i /\ before[i] = i - 1
  BY <1>2
<1>4. up \in [1 .. n -> [V -> V]]
  <2>1. \A i \in 1 .. n : n + 1 - i \in 1 .. n
    OBVIOUS
  <2>2. \A i \in 1 .. n : step[n + 1 - i] \in [V -> V]
    BY <2>1
  <2> QED
    BY <1>1, <2>2
<1>5. PICK g : IsRecursion(g, V, n, base, before, up)
  <2>1. before \in [1 .. n -> Nat]
    BY <1>3
  <2>2. \A i \in 1 .. n : before[i] < i
    BY <1>3
  <2> QED
    BY <1>4, <2>1, <2>2, Recursion
<1>11. /\ g \in [0 .. n -> V] /\ g[0] = base
       /\ \A i \in 1 .. n : g[i] = up[i][g[before[i]]]
  BY <1>5 DEF IsRecursion
<1>6. PICK h : h = [i \in 1 .. n + 1 |-> g[n + 1 - i]]
  OBVIOUS
<1>7. \A i \in 1 .. n + 1 : n + 1 - i \in 0 .. n
  OBVIOUS
<1>8. h \in [1 .. n + 1 -> V]
  BY <1>11, <1>6, <1>7
<1>9. h[n + 1] = base
  <2>1. n + 1 \in 1 .. n + 1 /\ n + 1 - (n + 1) = 0
    OBVIOUS
  <2> QED
    BY <1>11, <1>6, <2>1
<1>10. ASSUME NEW i \in 1 .. n
       PROVE  h[i] = step[i][h[i + 1]]
  <2>1. PICK k : k = n + 1 - i
    OBVIOUS
  <2>2. /\ k \in 1 .. n /\ n + 1 - k = i /\ n + 1 - (i + 1) = k - 1
        /\ i \in 1 .. n + 1 /\ i + 1 \in 1 .. n + 1
    BY <2>1
  <2>3. h[i] = g[k] /\ h[i + 1] = g[k - 1]
    BY <1>6, <2>1, <2>2
  <2>4. g[k] = up[k][g[before[k]]] /\ before[k] = k - 1 /\ up[k] = step[n + 1 - k]
    BY <1>1, <1>3, <1>11, <2>2
  <2> QED
    BY <2>2, <2>3, <2>4
<1>12. IsRecursionDown(h, V, n, base, step)
  BY <1>8, <1>9, <1>10 DEF IsRecursionDown
<1> QED
  BY <1>12

\* A text of the log, and the lines that it is split into.
Text == Seq(Shown!Byte)
Page == Seq(Text)
Full == {d \in Page : d # << >>}

LEMMA ByteIs ==
    "LF" \in Shown!Byte /\ "CR" \in Shown!Byte /\ "x" \in Shown!Byte
  BY DEF Shown!Byte

\* One line, and more lines.
LEMMA OneOf ==
    ASSUME NEW S, NEW e \in S
    PROVE  <<e>> \in Seq(S) /\ Len(<<e>>) = 1 /\ <<e>>[1] = e
<1>1. <<e>> \in [1 .. 1 -> S]
  OBVIOUS
<1> QED
  BY <1>1, SeqDef

LEMMA Joined ==
    ASSUME NEW S, NEW s \in Seq(S), NEW t \in Seq(S)
    PROVE  /\ s \o t \in Seq(S) /\ Len(s \o t) = Len(s) + Len(t)
           /\ Len(s) \in Nat /\ Len(t) \in Nat
           /\ \A i \in 1 .. Len(s) : (s \o t)[i] = s[i]
           /\ \A i \in 1 .. Len(t) : (s \o t)[Len(s) + i] = t[i]
<1>1. PICK m, k : m = Len(s) /\ k = Len(t) /\ m \in Nat /\ k \in Nat
  BY LenProperties
<1>2. \A i \in 1 .. m + k : (s \o t)[i] = IF i <= m THEN s[i] ELSE t[i - m]
  BY <1>1, ConcatProperties
<1>3. ASSUME NEW i \in 1 .. m
      PROVE  (s \o t)[i] = s[i]
  <2>1. i \in 1 .. m + k /\ i <= m
    BY <1>1
  <2> QED
    BY <1>2, <2>1
<1>4. ASSUME NEW i \in 1 .. k
      PROVE  (s \o t)[m + i] = t[i]
  <2>1. m + i \in 1 .. m + k /\ ~(m + i <= m) /\ (m + i) - m = i
    BY <1>1
  <2> QED
    BY <1>2, <2>1
<1>5. s \o t \in Seq(S) /\ Len(s \o t) = m + k
  BY <1>1, ConcatProperties
<1> QED
  BY <1>1, <1>3, <1>4, <1>5

LEMMA PutBefore ==
    ASSUME NEW S, NEW e \in S, NEW t \in Seq(S)
    PROVE  /\ <<e>> \o t \in Seq(S) /\ Len(<<e>> \o t) = Len(t) + 1 /\ Len(t) \in Nat
           /\ <<e>> \o t # << >>
           /\ (<<e>> \o t)[1] = e
           /\ \A i \in 1 .. Len(t) : (<<e>> \o t)[i + 1] = t[i]
<1>1. PICK s : s = <<e>> /\ s \in Seq(S) /\ Len(s) = 1 /\ s[1] = e
  BY OneOf
<1>2. PICK k : k = Len(t) /\ k \in Nat
  BY LenProperties
<1>3. /\ s \o t \in Seq(S) /\ Len(s \o t) = 1 + k
      /\ \A i \in 1 .. 1 : (s \o t)[i] = s[i]
      /\ \A i \in 1 .. k : (s \o t)[1 + i] = t[i]
  BY <1>1, <1>2, Joined
<1>4. (s \o t)[1] = e
  <2>1. 1 \in 1 .. 1
    OBVIOUS
  <2> QED
    BY <1>1, <1>3, <2>1
<1>5. ASSUME NEW i \in 1 .. k
      PROVE  (s \o t)[i + 1] = t[i]
  <2>1. i + 1 = 1 + i
    BY <1>2
  <2> QED
    BY <1>3, <2>1
<1>6. s \o t # << >>
  <2>1. 1 + k # 0
    BY <1>2
  <2>2. Len(<< >>) = 0
    BY EmptySeq
  <2> QED
    BY <1>3, <2>1, <2>2
<1>7. 1 + k = k + 1
  BY <1>2
<1> QED
  BY <1>1, <1>2, <1>3, <1>4, <1>5, <1>6, <1>7

\* A text put before the first line.
Prefixed(p, d) == [d EXCEPT ![1] = p \o @]

LEMMA Prefixing ==
    ASSUME NEW p \in Text, NEW d \in Full
    PROVE  /\ Prefixed(p, d) \in Full /\ Len(Prefixed(p, d)) = Len(d)
           /\ Len(d) \in Nat /\ 1 <= Len(d) /\ d[1] \in Text
           /\ Prefixed(p, d)[1] = p \o d[1]
           /\ \A i \in 2 .. Len(d) : Prefixed(p, d)[i] = d[i]
<1>1. PICK n : n = Len(d) /\ n \in Nat /\ 1 <= n
  <2>1. d \in Seq(Text) /\ d # << >>
    BY DEF Full, Page
  <2>2. PICK n : n = Len(d) /\ n \in Nat \ {0}
    BY <2>1, EmptySeq
  <2> QED
    BY <2>2
<1>2. 1 \in 1 .. n
  BY <1>1
<1>3. d \in Seq(Text) /\ d[1] \in Text
  BY <1>1, <1>2, ElementOfSeq DEF Full, Page
<1>4. PICK e : e = p \o d[1] /\ e \in Text
  BY <1>3, ConcatProperties DEF Text
<1>5. PICK q : q = [d EXCEPT ![1] = e]
  OBVIOUS
<1>6. Prefixed(p, d) = q
  BY <1>4, <1>5 DEF Prefixed
<1>7. /\ q \in Seq(Text) /\ Len(q) = n
      /\ \A j \in 1 .. n : q[j] = IF j = 1 THEN e ELSE d[j]
  BY <1>1, <1>2, <1>3, <1>4, <1>5, ExceptSeq
<1>8. q[1] = e
  BY <1>2, <1>7
<1>9. ASSUME NEW i \in 2 .. n
      PROVE  q[i] = d[i]
  <2>1. i \in 1 .. n /\ i # 1
    BY <1>1
  <2> QED
    BY <1>7, <2>1
<1>10. q # << >>
  <2>1. n # 0
    BY <1>1
  <2>2. Len(<< >>) = 0
    BY EmptySeq
  <2> QED
    BY <1>7, <2>1, <2>2
<1>11. q \in Full
  BY <1>7, <1>10 DEF Full, Page
<1> QED
  BY <1>1, <1>3, <1>4, <1>6, <1>7, <1>8, <1>9, <1>11

LEMMA Regrouped ==
    ASSUME NEW S, NEW s \in Seq(S), NEW t \in Seq(S), NEW u \in Seq(S)
    PROVE  (s \o t) \o u = s \o (t \o u)
  BY ConcatAssociative

LEMMA TextsRegrouped ==
    ASSUME NEW s \in Text, NEW t \in Text, NEW u \in Text
    PROVE  (s \o t) \o u = s \o (t \o u)
  BY Regrouped DEF Text

LEMMA PrefixedTwice ==
    ASSUME NEW p \in Text, NEW q \in Text, NEW d \in Full
    PROVE  Prefixed(p, Prefixed(q, d)) = Prefixed(p \o q, d)
<1>1. PICK n : n = Len(d) /\ n \in Nat /\ 1 <= n /\ d[1] \in Text
  BY Prefixing
<1>2. p \o q \in Text
  BY ConcatProperties DEF Text
<1>30. PICK u : u = Prefixed(q, d)
  OBVIOUS
<1>3. /\ u = Prefixed(q, d)
      /\ u \in Full
      /\ Len(u) = n
      /\ u[1] = q \o d[1]
      /\ \A i \in 2 .. n : u[i] = d[i]
  BY <1>30, <1>1, Prefixing
<1>40. PICK v : v = Prefixed(p, u)
  OBVIOUS
<1>4. /\ v = Prefixed(p, u)
      /\ v \in Full
      /\ Len(v) = n
      /\ v[1] = p \o u[1]
      /\ \A i \in 2 .. n : v[i] = u[i]
  BY <1>40, <1>3, Prefixing
<1>50. PICK w : w = Prefixed(p \o q, d)
  OBVIOUS
<1>5. /\ w = Prefixed(p \o q, d)
      /\ w \in Full
      /\ Len(w) = n
      /\ w[1] = (p \o q) \o d[1]
      /\ \A i \in 2 .. n : w[i] = d[i]
  BY <1>50, <1>1, <1>2, Prefixing
<1>6. v[1] = w[1]
  <2>1. (p \o q) \o d[1] = p \o (q \o d[1])
    BY <1>1, TextsRegrouped
  <2>2. v[1] = p \o (q \o d[1])
    BY <1>3, <1>4
  <2> QED
    BY <1>5, <2>1, <2>2
<1>7. ASSUME NEW i \in 1 .. n
      PROVE  v[i] = w[i]
  <2>1. i = 1 \/ i \in 2 .. n
    BY <1>1
  <2> QED
    BY <1>3, <1>4, <1>5, <1>6, <2>1
<1>8. v \in Seq(Text) /\ w \in Seq(Text)
  BY <1>4, <1>5 DEF Full, Page
<1>9. v = w
  BY <1>4, <1>5, <1>7, <1>8, SeqEqual
<1> QED
  BY <1>3, <1>4, <1>5, <1>9

LEMMA PrefixedByNothing ==
    ASSUME NEW d \in Full
    PROVE  Prefixed(<< >>, d) = d
<1>1. << >> \in Text
  BY EmptySeq DEF Text
<1>2. PICK n : n = Len(d) /\ n \in Nat /\ 1 <= n /\ d[1] \in Text
  BY <1>1, Prefixing
<1>30. PICK u : u = Prefixed(<< >>, d)
  OBVIOUS
<1>3. /\ u = Prefixed(<< >>, d)
      /\ u \in Full
      /\ Len(u) = n
      /\ u[1] = << >> \o d[1]
      /\ \A i \in 2 .. n : u[i] = d[i]
  BY <1>30, <1>1, <1>2, Prefixing
<1>4. u[1] = d[1]
  BY <1>2, <1>3, ConcatEmptySeq DEF Text
<1>5. ASSUME NEW i \in 1 .. n
      PROVE  u[i] = d[i]
  <2>1. i = 1 \/ i \in 2 .. n
    BY <1>2
  <2> QED
    BY <1>3, <1>4, <2>1
<1>6. u \in Seq(Text) /\ d \in Seq(Text)
  BY <1>3 DEF Full, Page
<1> QED
  BY <1>2, <1>3, <1>5, <1>6, SeqEqual

\* The first line is what was put before a page that begins with an empty one.
LEMMA PrefixedBreak ==
    ASSUME NEW p \in Text, NEW d \in Page
    PROVE  /\ << << >> >> \o d \in Full
           /\ Prefixed(p, << << >> >> \o d) = <<p>> \o d
<1>1. << >> \in Text
  BY EmptySeq DEF Text
<1>2. PICK k : k = Len(d) /\ k \in Nat
  BY LenProperties DEF Page
<1>30. PICK u : u = << << >> >> \o d
  OBVIOUS
<1>3. /\ u = << << >> >> \o d
      /\ u \in Page
      /\ u # << >>
      /\ Len(u) = k + 1
      /\ u[1] = << >>
      /\ \A i \in 1 .. k : u[i + 1] = d[i]
  BY <1>30, <1>1, <1>2, PutBefore DEF Page
<1>40. PICK w : w = <<p>> \o d
  OBVIOUS
<1>4. /\ w = <<p>> \o d
      /\ w \in Page
      /\ Len(w) = k + 1
      /\ w[1] = p
      /\ \A i \in 1 .. k : w[i + 1] = d[i]
  BY <1>40, <1>2, PutBefore DEF Page
<1>5. u \in Full
  BY <1>3 DEF Full
<1>60. PICK v : v = Prefixed(p, u)
  OBVIOUS
<1>6. /\ v = Prefixed(p, u)
      /\ v \in Full
      /\ Len(v) = k + 1
      /\ v[1] = p \o u[1]
      /\ \A i \in 2 .. k + 1 : v[i] = u[i]
  BY <1>60, <1>3, <1>5, Prefixing
<1>7. v[1] = p
  BY <1>3, <1>6, ConcatEmptySeq DEF Text
<1>8. ASSUME NEW i \in 1 .. k + 1
      PROVE  v[i] = w[i]
  <2>1. i = 1 \/ (i \in 2 .. k + 1 /\ i - 1 \in 1 .. k /\ (i - 1) + 1 = i)
    BY <1>2
  <2>2. CASE i = 1
    BY <1>4, <1>7, <2>2
  <2>3. CASE i \in 2 .. k + 1 /\ i - 1 \in 1 .. k /\ (i - 1) + 1 = i
    <3>1. u[(i - 1) + 1] = d[i - 1] /\ w[(i - 1) + 1] = d[i - 1]
      BY <1>3, <1>4, <2>3
    <3> QED
      BY <1>6, <2>3, <3>1
  <2> QED
    BY <2>1, <2>2, <2>3
<1>9. v \in Seq(Text) /\ w \in Seq(Text) /\ Len(v) = Len(w)
  BY <1>4, <1>6 DEF Full, Page
<1>10. v = w
  BY <1>6, <1>8, <1>9, SeqEqual
<1> QED
  BY <1>3, <1>4, <1>5, <1>6, <1>10

\* Two functions that agree at the end of 1 .. n + 1, and at a place if they do at the next.
LEMMA SameDown ==
    ASSUME NEW n \in Nat, NEW h, NEW k, h[n + 1] = k[n + 1],
           \A i \in 1 .. n : h[i + 1] = k[i + 1] => h[i] = k[i]
    PROVE  \A i \in 1 .. n + 1 : h[i] = k[i]
<1>1. PICK T : T = {i \in 0 .. n : h[i + 1] = k[i + 1]}
  OBVIOUS
<1>2. n \in T
  <2>1. n \in 0 .. n
    OBVIOUS
  <2> QED
    BY <1>1, <2>1
<1>3. ASSUME NEW i \in 1 .. n, i \in T
      PROVE  i - 1 \in T
  <2>1. i - 1 \in 0 .. n /\ (i - 1) + 1 = i
    OBVIOUS
  <2>2. h[i] = k[i]
    BY <1>1, <1>3
  <2> QED
    BY <1>1, <2>1, <2>2
<1>4. \A i \in 0 .. n : i \in T
  BY <1>2, <1>3, Downwards
<1>5. ASSUME NEW i \in 1 .. n + 1
      PROVE  h[i] = k[i]
  <2>1. i - 1 \in 0 .. n /\ (i - 1) + 1 = i
    OBVIOUS
  <2> QED
    BY <1>1, <1>4, <2>1
<1> QED
  BY <1>5

-----------------------------------------------------------------------------
(* The text with one kind of line end.                                     *)

Paired(g, i) == g[i] = "CR" /\ i < Len(g) /\ g[i + 1] = "LF"
Plain(b)     == IF b = "CR" THEN "LF" ELSE b

CleanEntry(g, h, i) ==
    IF i > Len(g) THEN << >>
    ELSE IF Paired(g, i) THEN h[i + 1]
    ELSE <<Plain(g[i])>> \o h[i + 1]

LEMMA UniversalChosen ==
    ASSUME NEW g
    PROVE  Shown!Universal(g)
             = (CHOOSE h : h = [i \in 1 .. Len(g) + 1 |-> CleanEntry(g, h, i)])[1]
  BY DEF Shown!Universal, CleanEntry, Paired, Plain

\* What becomes of the rest of a text, from each place on.
Cleans(h, g) ==
    /\ h \in [1 .. Len(g) + 1 -> Text]
    /\ h[Len(g) + 1] = << >>
    /\ \A i \in 1 .. Len(g) :
          h[i] = IF Paired(g, i) THEN h[i + 1] ELSE <<Plain(g[i])>> \o h[i + 1]

LEMMA PlainIs ==
    ASSUME NEW b \in Shown!Byte
    PROVE  Plain(b) \in Shown!Byte /\ Plain(b) # "CR" /\ (Plain(b) = "LF" <=> b # "x")
  BY DEF Plain, Shown!Byte

LEMMA Cleaned ==
    ASSUME NEW g \in Text
    PROVE  \E h : Cleans(h, g) /\ Shown!Universal(g) = h[1]
<1>1. PICK n : n = Len(g) /\ n \in Nat
  BY LenProperties DEF Text
<1>2. \A i \in 1 .. n : Plain(g[i]) \in Shown!Byte
  BY <1>1, ElementOfSeq, PlainIs DEF Text
<1>3. PICK step : step = [i \in 1 .. n |-> [v \in Text |->
                            IF Paired(g, i) THEN v ELSE <<Plain(g[i])>> \o v]]
  OBVIOUS
<1>4. step \in [1 .. n -> [Text -> Text]]
  <2>1. ASSUME NEW i \in 1 .. n, NEW v \in Text
        PROVE  (IF Paired(g, i) THEN v ELSE <<Plain(g[i])>> \o v) \in Text
    <3>1. <<Plain(g[i])>> \o v \in Text
      BY <1>2, PutBefore DEF Text
    <3> QED
      BY <3>1
  <2> QED
    BY <1>3, <2>1
<1>5. << >> \in Text
  BY EmptySeq DEF Text
<1>16. PICK h : IsRecursionDown(h, Text, n, << >>, step)
  BY <1>1, <1>4, <1>5, RecursionDown
<1>6. /\ h \in [1 .. n + 1 -> Text] /\ h[n + 1] = << >>
      /\ \A i \in 1 .. n : h[i] = step[i][h[i + 1]]
  BY <1>16 DEF IsRecursionDown
<1>7. ASSUME NEW i \in 1 .. n
      PROVE  h[i] = IF Paired(g, i) THEN h[i + 1] ELSE <<Plain(g[i])>> \o h[i + 1]
  <2>1. h[i + 1] \in Text
    <3>1. i + 1 \in 1 .. n + 1
      BY <1>1
    <3> QED
      BY <1>6, <3>1
  <2> QED
    BY <1>3, <1>6, <2>1
<1>8. Cleans(h, g)
  BY <1>1, <1>6, <1>7 DEF Cleans
<1>9. h = [i \in 1 .. n + 1 |-> CleanEntry(g, h, i)]
  <2>1. ASSUME NEW i \in 1 .. n + 1
        PROVE  h[i] = CleanEntry(g, h, i)
    <3>1. CASE i = n + 1
      <4>1. i > Len(g)
        BY <1>1, <3>1
      <4> QED
        BY <1>6, <3>1, <4>1 DEF CleanEntry
    <3>2. CASE i # n + 1
      <4>1. i \in 1 .. n /\ ~(i > Len(g))
        BY <1>1, <3>2
      <4> QED
        BY <1>7, <4>1 DEF CleanEntry
    <3> QED
      BY <3>1, <3>2
  <2> QED
    BY <1>6, <2>1
<1>10. PICK k : /\ k = CHOOSE e : e = [i \in 1 .. Len(g) + 1 |-> CleanEntry(g, e, i)]
                /\ Shown!Universal(g) = k[1]
  BY UniversalChosen
<1>11. k = [i \in 1 .. n + 1 |-> CleanEntry(g, k, i)]
  BY <1>1, <1>9, <1>10
<1>12. \A i \in 1 .. n + 1 : h[i] = k[i]
  <2>1. h[n + 1] = k[n + 1]
    <3>1. n + 1 \in 1 .. n + 1 /\ n + 1 > Len(g)
      BY <1>1
    <3>2. k[n + 1] = CleanEntry(g, k, n + 1)
      BY <1>11, <3>1
    <3> QED
      BY <1>6, <3>1, <3>2 DEF CleanEntry
  <2>2. ASSUME NEW i \in 1 .. n, h[i + 1] = k[i + 1]
        PROVE  h[i] = k[i]
    <3>1. i \in 1 .. n + 1 /\ ~(i > Len(g))
      BY <1>1
    <3>2. h[i] = CleanEntry(g, h, i) /\ k[i] = CleanEntry(g, k, i)
      BY <1>9, <1>11, <3>1
    <3> QED
      BY <2>2, <3>2 DEF CleanEntry
  <2> QED
    BY <1>1, <2>1, <2>2, SameDown
<1>13. 1 \in 1 .. n + 1
  BY <1>1
<1> QED
  BY <1>8, <1>10, <1>12, <1>13

-----------------------------------------------------------------------------
(* The text split into lines.                                              *)

EmptyLine == << << >> >>

SplitEntry(t, h, i) ==
    IF i > Len(t) THEN EmptyLine
    ELSE IF t[i] = "LF" THEN EmptyLine \o h[i + 1]
    ELSE Prefixed(<<t[i]>>, h[i + 1])

LEMMA SplitChosen ==
    ASSUME NEW t
    PROVE  Shown!SplitLines(t)
             = (CHOOSE h : h = [i \in 1 .. Len(t) + 1 |-> SplitEntry(t, h, i)])[1]
  BY DEF Shown!SplitLines, SplitEntry, Prefixed, EmptyLine

\* The page that begins with a byte, before the page d of what follows it.
Led(b, d) == IF b = "LF" THEN EmptyLine \o d ELSE Prefixed(<<b>>, d)

Splits(h, t) ==
    /\ h \in [1 .. Len(t) + 1 -> Full]
    /\ h[Len(t) + 1] = EmptyLine
    /\ \A i \in 1 .. Len(t) : h[i] = Led(t[i], h[i + 1])

LEMMA EmptyLineIs == EmptyLine \in Full /\ EmptyLine \in Page /\ Len(EmptyLine) = 1 /\ EmptyLine[1] = << >>
<1>1. << >> \in Text
  BY EmptySeq DEF Text
<1>2. EmptyLine \in Seq(Text) /\ Len(EmptyLine) = 1 /\ EmptyLine[1] = << >>
  BY <1>1, OneOf DEF EmptyLine
<1>3. Len(<< >>) = 0
  BY EmptySeq
<1> QED
  BY <1>2, <1>3 DEF Full, Page

LEMMA LedFacts ==
    ASSUME NEW b \in Shown!Byte, NEW d \in Full
    PROVE  /\ Led(b, d) \in Full
           /\ Len(d) \in Nat /\ 1 <= Len(d)
           /\ Len(Led(b, d)) = IF b = "LF" THEN Len(d) + 1 ELSE Len(d)
<1>1. <<b>> \in Text
  BY OneOf DEF Text
<1>2. Prefixed(<<b>>, d) \in Full /\ Len(Prefixed(<<b>>, d)) = Len(d)
        /\ Len(d) \in Nat /\ 1 <= Len(d)
  BY <1>1, Prefixing
<1>3. << >> \in Text /\ d \in Seq(Text)
  BY EmptySeq DEF Text, Full, Page
<1>4. /\ EmptyLine \o d \in Seq(Text) /\ Len(EmptyLine \o d) = Len(d) + 1
      /\ EmptyLine \o d # << >>
  BY <1>3, PutBefore DEF EmptyLine
<1>5. EmptyLine \o d \in Full
  BY <1>4 DEF Full, Page
<1> QED
  BY <1>2, <1>4, <1>5 DEF Led

LEMMA Split ==
    ASSUME NEW t \in Text
    PROVE  \E h : Splits(h, t) /\ Shown!SplitLines(t) = h[1]
<1>1. PICK n : n = Len(t) /\ n \in Nat
  BY LenProperties DEF Text
<1>2. \A i \in 1 .. n : t[i] \in Shown!Byte
  BY <1>1, ElementOfSeq DEF Text
<1>3. PICK step : step = [i \in 1 .. n |-> [v \in Full |-> Led(t[i], v)]]
  OBVIOUS
<1>4. step \in [1 .. n -> [Full -> Full]]
  <2>1. \A i \in 1 .. n : \A v \in Full : Led(t[i], v) \in Full
    BY <1>2, LedFacts
  <2> QED
    BY <1>3, <2>1
<1>5. EmptyLine \in Full
  BY EmptyLineIs
<1>16. PICK h : IsRecursionDown(h, Full, n, EmptyLine, step)
  BY <1>1, <1>4, <1>5, RecursionDown
<1>6. /\ h \in [1 .. n + 1 -> Full] /\ h[n + 1] = EmptyLine
      /\ \A i \in 1 .. n : h[i] = step[i][h[i + 1]]
  BY <1>16 DEF IsRecursionDown
<1>7. ASSUME NEW i \in 1 .. n
      PROVE  h[i] = Led(t[i], h[i + 1])
  <2>1. h[i + 1] \in Full
    <3>1. i + 1 \in 1 .. n + 1
      BY <1>1
    <3> QED
      BY <1>6, <3>1
  <2> QED
    BY <1>3, <1>6, <2>1
<1>8. Splits(h, t)
  BY <1>1, <1>6, <1>7 DEF Splits
<1>9. h = [i \in 1 .. n + 1 |-> SplitEntry(t, h, i)]
  <2>1. ASSUME NEW i \in 1 .. n + 1
        PROVE  h[i] = SplitEntry(t, h, i)
    <3>1. CASE i = n + 1
      <4>1. i > Len(t)
        BY <1>1, <3>1
      <4> QED
        BY <1>6, <3>1, <4>1 DEF SplitEntry
    <3>2. CASE i # n + 1
      <4>1. i \in 1 .. n /\ ~(i > Len(t))
        BY <1>1, <3>2
      <4> QED
        BY <1>7, <4>1 DEF SplitEntry, Led
    <3> QED
      BY <3>1, <3>2
  <2> QED
    BY <1>6, <2>1
<1>10. PICK k : /\ k = CHOOSE e : e = [i \in 1 .. Len(t) + 1 |-> SplitEntry(t, e, i)]
                /\ Shown!SplitLines(t) = k[1]
  BY SplitChosen
<1>11. k = [i \in 1 .. n + 1 |-> SplitEntry(t, k, i)]
  BY <1>1, <1>9, <1>10
<1>12. \A i \in 1 .. n + 1 : h[i] = k[i]
  <2>1. h[n + 1] = k[n + 1]
    <3>1. n + 1 \in 1 .. n + 1 /\ n + 1 > Len(t)
      BY <1>1
    <3>2. k[n + 1] = SplitEntry(t, k, n + 1)
      BY <1>11, <3>1
    <3> QED
      BY <1>6, <3>1, <3>2 DEF SplitEntry
  <2>2. ASSUME NEW i \in 1 .. n, h[i + 1] = k[i + 1]
        PROVE  h[i] = k[i]
    <3>1. i \in 1 .. n + 1 /\ ~(i > Len(t))
      BY <1>1
    <3>2. h[i] = SplitEntry(t, h, i) /\ k[i] = SplitEntry(t, k, i)
      BY <1>9, <1>11, <3>1
    <3> QED
      BY <2>2, <3>2 DEF SplitEntry
  <2> QED
    BY <1>1, <2>1, <2>2, SameDown
<1>13. 1 \in 1 .. n + 1
  BY <1>1
<1> QED
  BY <1>8, <1>10, <1>12, <1>13

LEMMA SplitFull ==
    ASSUME NEW t \in Text
    PROVE  Shown!SplitLines(t) \in Full
<1>1. PICK h : Splits(h, t) /\ Shown!SplitLines(t) = h[1]
  BY Split
<1>2. PICK n : n = Len(t) /\ n \in Nat
  BY LenProperties DEF Text
<1>3. 1 \in 1 .. n + 1
  BY <1>2
<1> QED
  BY <1>1, <1>2, <1>3 DEF Splits

LEMMA SplitNothing == Shown!SplitLines(<< >>) = EmptyLine
<1>1. << >> \in Text /\ Len(<< >>) = 0
  BY EmptySeq DEF Text
<1>2. PICK h : Splits(h, << >>) /\ Shown!SplitLines(<< >>) = h[1]
  BY <1>1, Split
<1> QED
  BY <1>1, <1>2 DEF Splits

\* A byte leads the page of the text that it is put before.
LEMMA SplitLed ==
    ASSUME NEW b \in Shown!Byte, NEW t \in Text
    PROVE  Shown!SplitLines(<<b>> \o t) = Led(b, Shown!SplitLines(t))
<1>1. PICK n : n = Len(t) /\ n \in Nat
  BY LenProperties DEF Text
<1>2. PICK u : u = <<b>> \o t
  OBVIOUS
<1>3. u \in Text /\ Len(u) = n + 1 /\ u[1] = b /\ \A i \in 1 .. n : u[i + 1] = t[i]
  BY <1>1, <1>2, PutBefore DEF Text
<1>4. PICK h : Splits(h, t) /\ Shown!SplitLines(t) = h[1]
  BY Split
<1>5. PICK k : Splits(k, u) /\ Shown!SplitLines(u) = k[1]
  BY <1>3, Split
<1>6. PICK e : e = [i \in 1 .. n + 1 |-> k[i + 1]]
  OBVIOUS
<1>7. e[n + 1] = h[n + 1]
  <2>1. n + 1 \in 1 .. n + 1
    BY <1>1
  <2>2. e[n + 1] = k[(n + 1) + 1]
    BY <1>6, <2>1
  <2> QED
    BY <1>1, <1>3, <1>4, <1>5, <2>2 DEF Splits
<1>8. ASSUME NEW i \in 1 .. n, e[i + 1] = h[i + 1]
      PROVE  e[i] = h[i]
  <2>1. i \in 1 .. n + 1 /\ i + 1 \in 1 .. n + 1
    BY <1>1
  <2>2. e[i] = k[i + 1] /\ e[i + 1] = k[(i + 1) + 1]
    BY <1>6, <2>1
  <2>3. k[i + 1] = Led(u[i + 1], k[(i + 1) + 1])
    BY <1>3, <1>5, <2>1 DEF Splits
  <2>4. h[i] = Led(t[i], h[i + 1])
    BY <1>1, <1>4 DEF Splits
  <2> QED
    BY <1>3, <1>8, <2>2, <2>3, <2>4
<1>13. \A i \in 1 .. n : e[i + 1] = h[i + 1] => e[i] = h[i]
  BY <1>8
<1>9. \A i \in 1 .. n + 1 : e[i] = h[i]
  BY <1>1, <1>7, <1>13, SameDown
<1>10. 1 \in 1 .. n + 1
  BY <1>1
<1>11. k[1 + 1] = h[1]
  BY <1>6, <1>9, <1>10
<1>12. k[1] = Led(u[1], k[1 + 1])
  BY <1>3, <1>5, <1>10 DEF Splits
<1> QED
  BY <1>2, <1>3, <1>4, <1>5, <1>11, <1>12

-----------------------------------------------------------------------------
(* The pages of the rest of a text, from each place on.                    *)

Pages(d, g) ==
    /\ d \in [1 .. Len(g) + 1 -> Full]
    /\ d[Len(g) + 1] = EmptyLine
    /\ \A i \in 1 .. Len(g) : d[i] = IF Paired(g, i) THEN d[i + 1] ELSE Led(Plain(g[i]), d[i + 1])

LEMMA PagesOf ==
    ASSUME NEW g \in Text
    PROVE  \E d : Pages(d, g) /\ Shown!SplitLines(Shown!Universal(g)) = d[1]
<1>1. PICK n : n = Len(g) /\ n \in Nat
  BY LenProperties DEF Text
<1>2. PICK h : Cleans(h, g) /\ Shown!Universal(g) = h[1]
  BY Cleaned
<1>3. h \in [1 .. n + 1 -> Text] /\ h[n + 1] = << >>
  BY <1>1, <1>2 DEF Cleans
<1>4. PICK d : d = [i \in 1 .. n + 1 |-> Shown!SplitLines(h[i])]
  OBVIOUS
<1>5. d \in [1 .. n + 1 -> Full]
  <2>1. \A i \in 1 .. n + 1 : Shown!SplitLines(h[i]) \in Full
    BY <1>3, SplitFull
  <2> QED
    BY <1>4, <2>1
<1>6. d[n + 1] = EmptyLine
  <2>1. n + 1 \in 1 .. n + 1
    BY <1>1
  <2> QED
    BY <1>3, <1>4, <2>1, SplitNothing
<1>7. ASSUME NEW i \in 1 .. n
      PROVE  d[i] = IF Paired(g, i) THEN d[i + 1] ELSE Led(Plain(g[i]), d[i + 1])
  <2>1. i \in 1 .. n + 1 /\ i + 1 \in 1 .. n + 1
    BY <1>1
  <2>2. d[i] = Shown!SplitLines(h[i]) /\ d[i + 1] = Shown!SplitLines(h[i + 1])
    BY <1>4, <2>1
  <2>3. h[i] = IF Paired(g, i) THEN h[i + 1] ELSE <<Plain(g[i])>> \o h[i + 1]
    BY <1>1, <1>2 DEF Cleans
  <2>4. Plain(g[i]) \in Shown!Byte /\ h[i + 1] \in Text
    BY <1>1, <1>3, <2>1, ElementOfSeq, PlainIs DEF Text
  <2>5. Shown!SplitLines(<<Plain(g[i])>> \o h[i + 1])
          = Led(Plain(g[i]), Shown!SplitLines(h[i + 1]))
    BY <2>4, SplitLed
  <2> QED
    BY <2>2, <2>3, <2>5
<1>8. Pages(d, g)
  BY <1>1, <1>5, <1>6, <1>7 DEF Pages
<1>9. 1 \in 1 .. n + 1
  BY <1>1
<1>10. Shown!SplitLines(Shown!Universal(g)) = d[1]
  BY <1>2, <1>4, <1>9
<1> QED
  BY <1>8, <1>10

-----------------------------------------------------------------------------
(* The reference: one byte after the other.                                *)

ScanState == {s \in [lines : Page, line : Text, cr : BOOLEAN] : s.cr => s.line = << >>}
Unscanned  == [lines |-> << >>, line |-> << >>, cr |-> FALSE]

ReadByte(s, b) ==
    IF b = "LF" /\ s.cr THEN [s EXCEPT !.cr = FALSE]
    ELSE IF b \in {"CR", "LF"}
         THEN [lines |-> Append(s.lines, s.line), line |-> << >>, cr |-> b = "CR"]
    ELSE [s EXCEPT !.line = Append(@, b), !.cr = FALSE]

ReadEntry(f, r, i) == IF i = 0 THEN Unscanned ELSE ReadByte(r[i - 1], f[i])

LEMMA ScannedChosen ==
    ASSUME NEW f
    PROVE  Shown!Scanned(f) = (CHOOSE r : r = [i \in 0 .. Len(f) |-> ReadEntry(f, r, i)])[Len(f)]
  BY DEF Shown!Scanned, ReadEntry, ReadByte, Unscanned

LEMMA UnscannedIs ==
    /\ Unscanned \in ScanState /\ Unscanned.lines = << >> /\ Unscanned.line = << >> /\ ~Unscanned.cr
<1>1. << >> \in Page /\ << >> \in Text
  BY EmptySeq DEF Page, Text
<1>2. Unscanned.lines = << >> /\ Unscanned.line = << >> /\ ~Unscanned.cr
  BY DEF Unscanned
<1>3. Unscanned \in [lines : Page, line : Text, cr : BOOLEAN]
  BY <1>1 DEF Unscanned
<1> QED
  BY <1>2, <1>3 DEF ScanState

LEMMA ScanStateIs ==
    ASSUME NEW s \in ScanState
    PROVE  s.lines \in Page /\ s.line \in Text /\ s.cr \in BOOLEAN /\ (s.cr => s.line = << >>)
  BY DEF ScanState

\* What a byte does, by kind.
LEMMA ReadEnd ==
    ASSUME NEW s \in ScanState, NEW b \in {"CR", "LF"}, ~(b = "LF" /\ s.cr)
    PROVE  /\ ReadByte(s, b) \in ScanState
           /\ ReadByte(s, b).lines = Append(s.lines, s.line)
           /\ ReadByte(s, b).line = << >>
           /\ ReadByte(s, b).cr <=> b = "CR"
<1>1. s.lines \in Page /\ s.line \in Text
  BY ScanStateIs
<1>2. Append(s.lines, s.line) \in Page /\ << >> \in Text
  BY <1>1, AppendProperties, EmptySeq DEF Page, Text
<1>3. PICK c \in BOOLEAN : c = (b = "CR")
  OBVIOUS
<1>4. PICK w : w = [lines |-> Append(s.lines, s.line), line |-> << >>, cr |-> c]
  OBVIOUS
<1>5. ReadByte(s, b) = w
  BY <1>3, <1>4 DEF ReadByte
<1>6. w.lines = Append(s.lines, s.line) /\ w.line = << >> /\ w.cr = c
  BY <1>4
<1>7. w \in [lines : Page, line : Text, cr : BOOLEAN]
  BY <1>2, <1>3, <1>4
<1>8. w \in ScanState
  BY <1>6, <1>7 DEF ScanState
<1> QED
  BY <1>3, <1>5, <1>6, <1>8

LEMMA ReadSecond ==
    ASSUME NEW s \in ScanState, s.cr
    PROVE  /\ ReadByte(s, "LF") \in ScanState
           /\ ReadByte(s, "LF").lines = s.lines
           /\ ReadByte(s, "LF").line = s.line
           /\ ~ReadByte(s, "LF").cr
<1>1. s.lines \in Page /\ s.line \in Text /\ s \in [lines : Page, line : Text, cr : BOOLEAN]
  BY DEF ScanState
<1>2. PICK w : w = [s EXCEPT !.cr = FALSE]
  OBVIOUS
<1>3. ReadByte(s, "LF") = w
  BY <1>2 DEF ReadByte
<1>4. w.lines = s.lines /\ w.line = s.line /\ ~w.cr
  BY <1>1, <1>2
<1>5. w \in [lines : Page, line : Text, cr : BOOLEAN]
  BY <1>1, <1>2
<1> QED
  BY <1>3, <1>4, <1>5 DEF ScanState

LEMMA ReadOther ==
    ASSUME NEW s \in ScanState, NEW b \in Shown!Byte, b \notin {"CR", "LF"}
    PROVE  /\ ReadByte(s, b) \in ScanState
           /\ ReadByte(s, b).lines = s.lines
           /\ ReadByte(s, b).line = s.line \o <<b>>
           /\ s.line \o <<b>> \in Text
           /\ ~ReadByte(s, b).cr
<1>1. s.lines \in Page /\ s.line \in Text /\ s \in [lines : Page, line : Text, cr : BOOLEAN]
  BY DEF ScanState
<1>2. Append(s.line, b) \in Text /\ Append(s.line, b) = s.line \o <<b>>
  BY <1>1, AppendProperties, AppendIsConcat DEF Text
<1>3. PICK w : w = [s EXCEPT !.line = Append(@, b), !.cr = FALSE]
  OBVIOUS
<1>4. ReadByte(s, b) = w
  BY <1>3 DEF ReadByte
<1>5. w.lines = s.lines /\ w.line = Append(s.line, b) /\ ~w.cr
  BY <1>1, <1>3
<1>6. w \in [lines : Page, line : Text, cr : BOOLEAN]
  BY <1>1, <1>2, <1>3
<1>7. w \in ScanState
  BY <1>5, <1>6 DEF ScanState
<1> QED
  BY <1>2, <1>4, <1>5, <1>7

LEMMA ReadTypes ==
    ASSUME NEW s \in ScanState, NEW b \in Shown!Byte
    PROVE  ReadByte(s, b) \in ScanState
<1>1. CASE b \in {"CR", "LF"} /\ ~(b = "LF" /\ s.cr)
  BY <1>1, ReadEnd
<1>2. CASE b = "LF" /\ s.cr
  BY <1>2, ReadSecond
<1>3. CASE b \notin {"CR", "LF"}
  BY <1>3, ReadOther
<1> QED
  BY <1>1, <1>2, <1>3

Reads(r, f) ==
    /\ r \in [0 .. Len(f) -> ScanState]
    /\ r[0] = Unscanned
    /\ \A i \in 1 .. Len(f) : r[i] = ReadByte(r[i - 1], f[i])

LEMMA Read ==
    ASSUME NEW f \in Text
    PROVE  \E r : Reads(r, f) /\ Shown!Scanned(f) = r[Len(f)]
<1>1. PICK n : n = Len(f) /\ n \in Nat
  BY LenProperties DEF Text
<1>2. \A i \in 1 .. n : f[i] \in Shown!Byte
  BY <1>1, ElementOfSeq DEF Text
<1>3. PICK step : step = [i \in 1 .. n |-> [s \in ScanState |-> ReadByte(s, f[i])]]
  OBVIOUS
<1>4. step \in [1 .. n -> [ScanState -> ScanState]]
  <2>1. \A i \in 1 .. n : \A s \in ScanState : ReadByte(s, f[i]) \in ScanState
    BY <1>2, ReadTypes
  <2> QED
    BY <1>3, <2>1
<1>5. PICK before : before = [i \in 1 .. n |-> i - 1]
  OBVIOUS
<1>6. before \in [1 .. n -> Nat]
  BY <1>1, <1>5
<1>7. \A i \in 1 .. n : before[i] < i
  BY <1>1, <1>5
<1>8. PICK r : IsRecursion(r, ScanState, n, Unscanned, before, step)
  BY <1>1, <1>4, <1>6, <1>7, UnscannedIs, Recursion
<1>9. /\ r \in [0 .. n -> ScanState] /\ r[0] = Unscanned
      /\ \A i \in 1 .. n : r[i] = step[i][r[before[i]]]
  BY <1>8 DEF IsRecursion
<1>10. ASSUME NEW i \in 1 .. n
       PROVE  r[i] = ReadByte(r[i - 1], f[i])
  <2>1. i - 1 \in 0 .. n
    BY <1>1
  <2>2. r[i - 1] \in ScanState /\ before[i] = i - 1
    BY <1>5, <1>9, <2>1
  <2> QED
    BY <1>3, <1>9, <2>2
<1>11. Reads(r, f)
  BY <1>1, <1>9, <1>10 DEF Reads
<1>12. r = [i \in 0 .. n |-> ReadEntry(f, r, i)]
  <2>1. ASSUME NEW i \in 0 .. n
        PROVE  r[i] = ReadEntry(f, r, i)
    <3>1. CASE i = 0
      BY <1>9, <3>1 DEF ReadEntry
    <3>2. CASE i # 0
      <4>1. i \in 1 .. n
        BY <1>1, <3>2
      <4> QED
        BY <1>10, <3>2, <4>1 DEF ReadEntry
    <3> QED
      BY <3>1, <3>2
  <2> QED
    BY <1>9, <2>1
<1>13. PICK k : /\ k = CHOOSE e : e = [i \in 0 .. Len(f) |-> ReadEntry(f, e, i)]
                /\ Shown!Scanned(f) = k[Len(f)]
  BY ScannedChosen
<1>14. k = [i \in 0 .. n |-> ReadEntry(f, k, i)]
  BY <1>1, <1>12, <1>13
<1>15. PICK T : T = {i \in 0 .. n : k[i] = r[i]}
  OBVIOUS
<1>16. 0 \in T
  <2>1. 0 \in 0 .. n
    BY <1>1
  <2>2. k[0] = ReadEntry(f, k, 0)
    BY <1>14, <2>1
  <2> QED
    BY <1>9, <1>15, <2>1, <2>2 DEF ReadEntry
<1>17. ASSUME NEW i \in 0 .. n - 1, i \in T
       PROVE  i + 1 \in T
  <2>1. i + 1 \in 1 .. n /\ i + 1 \in 0 .. n /\ i + 1 # 0 /\ (i + 1) - 1 = i
    BY <1>1
  <2>2. k[i] = r[i]
    BY <1>15, <1>17
  <2>3. k[i + 1] = ReadByte(k[i], f[i + 1])
    BY <1>14, <2>1 DEF ReadEntry
  <2>4. r[i + 1] = ReadByte(r[i], f[i + 1])
    BY <1>10, <2>1
  <2> QED
    BY <1>15, <2>1, <2>2, <2>3, <2>4
<1>18. n \in T
  <2>1. \A i \in 0 .. n : i \in T
    BY <1>1, <1>16, <1>17, Upwards
  <2>2. n \in 0 .. n
    BY <1>1
  <2> QED
    BY <2>1, <2>2
<1> QED
  BY <1>1, <1>11, <1>13, <1>15, <1>18

-----------------------------------------------------------------------------
(* Where the backward loop stops.                                          *)

Stopped(f, tail, pos) == pos = 0 \/ Shown!LineFeeds(f, pos) > tail

BackEntry(f, tail, block, h, pos) ==
    IF Stopped(f, tail, pos) THEN pos
    ELSE h[IF pos <= block THEN 0 ELSE pos - block]

LEMMA StartChosen ==
    ASSUME NEW f, NEW tail, NEW block
    PROVE  Shown!StartOf(f, tail, block)
             = (CHOOSE h : h = [pos \in 0 .. Len(f) |-> BackEntry(f, tail, block, h, pos)])[Len(f)]
  BY DEF Shown!StartOf, BackEntry, Stopped

LEMMA Starts ==
    ASSUME NEW f \in Text, NEW tail, NEW block \in Nat, block # 0
    PROVE  /\ Shown!StartOf(f, tail, block) \in 0 .. Len(f)
           /\ Stopped(f, tail, Shown!StartOf(f, tail, block))
<1>1. PICK n : n = Len(f) /\ n \in Nat
  BY LenProperties DEF Text
<1>2. PICK V : V = {pos \in 0 .. n : Stopped(f, tail, pos)}
  OBVIOUS
<1>3. 0 \in V
  BY <1>1, <1>2 DEF Stopped
<1>4. PICK before : before = [pos \in 1 .. n |-> IF pos <= block THEN 0 ELSE pos - block]
  OBVIOUS
<1>5. before \in [1 .. n -> Nat] /\ \A pos \in 1 .. n : before[pos] < pos
  BY <1>1, <1>4
<1>6. PICK step : step = [pos \in 1 .. n |-> [v \in V |->
                            IF Stopped(f, tail, pos) THEN pos ELSE v]]
  OBVIOUS
<1>7. step \in [1 .. n -> [V -> V]]
  <2>1. ASSUME NEW pos \in 1 .. n, NEW v \in V
        PROVE  (IF Stopped(f, tail, pos) THEN pos ELSE v) \in V
    <3>1. pos \in 0 .. n
      BY <1>1
    <3> QED
      BY <1>2, <3>1
  <2> QED
    BY <1>6, <2>1
<1>8. PICK h : IsRecursion(h, V, n, 0, before, step)
  <2>1. before \in [1 .. n -> Nat]
    BY <1>5
  <2>2. \A pos \in 1 .. n : before[pos] < pos
    BY <1>5
  <2> QED
    BY <1>1, <1>3, <1>7, <2>1, <2>2, Recursion
<1>9. /\ h \in [0 .. n -> V] /\ h[0] = 0
      /\ \A pos \in 1 .. n : h[pos] = step[pos][h[before[pos]]]
  BY <1>8 DEF IsRecursion
<1>10. ASSUME NEW pos \in 1 .. n
       PROVE  h[pos] = BackEntry(f, tail, block, h, pos)
  <2>1. before[pos] \in 0 .. n /\ before[pos] = IF pos <= block THEN 0 ELSE pos - block
    BY <1>1, <1>4, <1>5
  <2>2. h[before[pos]] \in V
    BY <1>9, <2>1
  <2>3. h[pos] = IF Stopped(f, tail, pos) THEN pos ELSE h[before[pos]]
    BY <1>6, <1>9, <2>2
  <2> QED
    BY <2>1, <2>3 DEF BackEntry
<1>11. h = [pos \in 0 .. n |-> BackEntry(f, tail, block, h, pos)]
  <2>1. ASSUME NEW pos \in 0 .. n
        PROVE  h[pos] = BackEntry(f, tail, block, h, pos)
    <3>1. CASE pos = 0
      BY <1>9, <3>1 DEF BackEntry, Stopped
    <3>2. CASE pos # 0
      <4>1. pos \in 1 .. n
        BY <1>1, <3>2
      <4> QED
        BY <1>10, <4>1
    <3> QED
      BY <3>1, <3>2
  <2> QED
    BY <1>9, <2>1
<1>12. PICK k : /\ k = CHOOSE e : e = [pos \in 0 .. Len(f) |-> BackEntry(f, tail, block, e, pos)]
                /\ Shown!StartOf(f, tail, block) = k[Len(f)]
  BY StartChosen
<1>13. k = [pos \in 0 .. n |-> BackEntry(f, tail, block, k, pos)]
  BY <1>1, <1>11, <1>12
\* Every value of that function is a place where the loop stops.
<1>14. \A pos \in 0 .. n : k[pos] \in V
  <2>1. SUFFICES ASSUME NEW x \in 0 .. n, k[x] \notin V
                 PROVE  FALSE
    OBVIOUS
  <2>2. PICK Bad : Bad = {pos \in 0 .. n : k[pos] \notin V}
    OBVIOUS
  <2>3. PICK pos \in Bad : \A y \in Bad : pos <= y
    <3>1. Bad \subseteq Nat /\ Bad # {}
      BY <1>1, <2>1, <2>2
    <3> QED
      BY <3>1, LeastOf
  <2>4. pos \in 0 .. n /\ k[pos] = BackEntry(f, tail, block, k, pos) /\ k[pos] \notin V
    BY <1>13, <2>2, <2>3
  <2>5. ~Stopped(f, tail, pos)
    BY <1>2, <2>4 DEF BackEntry
  <2>6. PICK y : y = IF pos <= block THEN 0 ELSE pos - block
    OBVIOUS
  <2>7. y \in 0 .. n /\ ~(pos <= y)
    <3>1. pos # 0
      BY <2>5 DEF Stopped
    <3> QED
      BY <1>1, <2>4, <2>6, <3>1
  <2>8. k[pos] = k[y]
    BY <2>4, <2>5, <2>6 DEF BackEntry
  <2>9. y \in Bad
    BY <2>2, <2>4, <2>7, <2>8
  <2> QED
    BY <2>3, <2>7, <2>9
<1>15. k[n] \in V
  <2>1. n \in 0 .. n
    BY <1>1
  <2> QED
    BY <1>14, <2>1
<1> QED
  BY <1>1, <1>2, <1>12, <1>15

-----------------------------------------------------------------------------
(* Pages that are cut and joined.                                          *)

LEMMA FullIs ==
    ASSUME NEW d \in Full
    PROVE  d \in Page /\ d \in Seq(Text) /\ Len(d) \in Nat /\ 1 <= Len(d)
<1>1. << >> \in Text
  BY EmptySeq DEF Text
<1>2. Len(d) \in Nat /\ 1 <= Len(d)
  BY <1>1, Prefixing
<1> QED
  BY <1>2 DEF Full, Page

LEMMA TailOfLed ==
    ASSUME NEW p \in Text, NEW d \in Page
    PROVE  Tail(<<p>> \o d) = d
<1>1. PICK k : k = Len(d) /\ k \in Nat
  BY LenProperties DEF Page
<1>2. PICK u : u = <<p>> \o d
  OBVIOUS
<1>3. u \in Seq(Text) /\ u # << >> /\ Len(u) = k + 1 /\ \A i \in 1 .. k : u[i + 1] = d[i]
  BY <1>1, <1>2, PutBefore DEF Page
<1>4. PICK e : e = Tail(u)
  OBVIOUS
<1>5. e \in Seq(Text) /\ Len(e) = Len(u) - 1 /\ \A i \in 1 .. Len(e) : e[i] = u[i + 1]
  BY <1>3, <1>4, HeadTailProperties
<1>6. Len(e) = k
  BY <1>1, <1>3, <1>5
<1>7. \A i \in 1 .. k : e[i] = d[i]
  BY <1>3, <1>5, <1>6
<1>8. d \in Seq(Text)
  BY DEF Page
<1>9. e = d
  BY <1>1, <1>5, <1>6, <1>7, <1>8, SeqEqual
<1> QED
  BY <1>2, <1>4, <1>9

LEMMA PageTail ==
    ASSUME NEW d \in Full
    PROVE  Tail(d) \in Page /\ Len(Tail(d)) = Len(d) - 1
<1>1. d \in Seq(Text) /\ d # << >>
  BY DEF Full, Page
<1> QED
  BY <1>1, HeadTailProperties DEF Page

LEMMA PrefixedTail ==
    ASSUME NEW p \in Text, NEW d \in Full
    PROVE  \E q \in Text : Prefixed(p, d) = <<q>> \o Tail(d)
<1>1. PICK n : n = Len(d) /\ n \in Nat /\ 1 <= n /\ d \in Seq(Text) /\ d # << >>
  BY FullIs DEF Full
<1>2. d[1] \in Text
  BY Prefixing
<1>3. PICK q : q = p \o d[1] /\ q \in Text
  BY <1>2, ConcatProperties DEF Text
<1>4. PICK v : v = Prefixed(p, d)
  OBVIOUS
<1>5. v \in Full /\ Len(v) = n /\ v[1] = q /\ \A i \in 2 .. n : v[i] = d[i]
  BY <1>1, <1>3, <1>4, Prefixing
<1>6. PICK e : e = Tail(d)
  OBVIOUS
<1>7. e \in Seq(Text) /\ Len(e) = Len(d) - 1 /\ \A i \in 1 .. Len(e) : e[i] = d[i + 1]
  BY <1>1, <1>6, HeadTailProperties
<1>8. PICK w : w = <<q>> \o e
  OBVIOUS
<1>9. w \in Seq(Text) /\ Len(w) = Len(e) + 1 /\ w[1] = q /\ \A i \in 1 .. Len(e) : w[i + 1] = e[i]
  BY <1>3, <1>7, <1>8, PutBefore
<1>10. Len(e) = n - 1 /\ Len(w) = n
  BY <1>1, <1>7, <1>9
<1>11. ASSUME NEW i \in 1 .. n
       PROVE  v[i] = w[i]
  <2>1. i = 1 \/ (i \in 2 .. n /\ i - 1 \in 1 .. n - 1 /\ (i - 1) + 1 = i)
    BY <1>1
  <2>2. CASE i = 1
    BY <1>5, <1>9, <2>2
  <2>3. CASE i \in 2 .. n /\ i - 1 \in 1 .. n - 1 /\ (i - 1) + 1 = i
    <3>1. e[i - 1] = d[(i - 1) + 1] /\ w[(i - 1) + 1] = e[i - 1]
      BY <1>7, <1>9, <1>10, <2>3
    <3> QED
      BY <1>5, <2>3, <3>1
  <2> QED
    BY <2>1, <2>2, <2>3
<1>12. v \in Seq(Text)
  BY <1>5, FullIs
<1>13. v = w
  BY <1>5, <1>9, <1>10, <1>11, <1>12, SeqEqual
<1> QED
  BY <1>3, <1>4, <1>6, <1>8, <1>13

LEMMA AppendJoin ==
    ASSUME NEW lines \in Page, NEW p \in Text, NEW e \in Page
    PROVE  /\ Append(lines, p) \in Page
           /\ Append(lines, p) \o e = lines \o (<<p>> \o e)
           /\ Append(lines, p) \o e = lines \o Prefixed(p, EmptyLine \o e)
<1>1. lines \in Seq(Text) /\ e \in Seq(Text) /\ <<p>> \in Seq(Text)
  BY OneOf DEF Page
<1>2. Append(lines, p) = lines \o <<p>> /\ Append(lines, p) \in Seq(Text)
  BY <1>1, AppendIsConcat, AppendProperties
<1>3. (lines \o <<p>>) \o e = lines \o (<<p>> \o e)
  BY <1>1, Regrouped
<1>4. Prefixed(p, EmptyLine \o e) = <<p>> \o e
  BY PrefixedBreak DEF EmptyLine
<1> QED
  BY <1>2, <1>3, <1>4 DEF Page

-----------------------------------------------------------------------------
(* What the reference has read, and the pages of the rest, are the lines.  *)

Joins(s, d, g, i, all) ==
    IF s.cr /\ i < Len(g) /\ g[i + 1] = "LF"
    THEN all = s.lines \o d[i + 2]
    ELSE all = s.lines \o Prefixed(s.line, d[i + 1])

LEMMA JoinStep ==
    ASSUME NEW g \in Text, NEW d, Pages(d, g), NEW i \in 0 .. Len(g) - 1,
           NEW s \in ScanState, NEW all, Joins(ReadByte(s, g[i + 1]), d, g, i + 1, all)
    PROVE  Joins(s, d, g, i, all)
<1>1. PICK m : m = Len(g) /\ m \in Nat
  BY LenProperties DEF Text
<1>2. PICK j : j = i + 1
  OBVIOUS
<1>3. /\ j \in 1 .. m /\ j + 1 = i + 2 /\ j \in 1 .. m + 1 /\ j + 1 \in 1 .. m + 1
      /\ i < m
  BY <1>1, <1>2
<1>4. PICK b : b = g[j] /\ b \in Shown!Byte
  BY <1>1, <1>3, ElementOfSeq DEF Text
<1>5. d[j] \in Full /\ d[j + 1] \in Full /\ d[j + 1] \in Page
  BY <1>1, <1>3, FullIs DEF Pages
<1>6. d[j] = IF Paired(g, j) THEN d[j + 1] ELSE Led(Plain(b), d[j + 1])
  BY <1>1, <1>3, <1>4 DEF Pages
<1>7. s.lines \in Page /\ s.line \in Text /\ (s.cr => s.line = << >>)
  BY ScanStateIs
<1>8. PICK t : t = ReadByte(s, b) /\ Joins(t, d, g, j, all)
  BY <1>2, <1>4
<1>9. CASE s.cr /\ b = "LF"
  <2>1. t.lines = s.lines /\ t.line = << >> /\ ~t.cr
    BY <1>7, <1>8, <1>9, ReadSecond
  <2>2. all = s.lines \o Prefixed(<< >>, d[j + 1])
    BY <1>8, <2>1 DEF Joins
  <2>3. all = s.lines \o d[i + 2]
    BY <1>3, <1>5, <2>2, PrefixedByNothing
  <2> QED
    BY <1>1, <1>2, <1>3, <1>4, <1>9, <2>3 DEF Joins
<1>10. CASE b \in {"CR", "LF"} /\ ~(b = "LF" /\ s.cr)
  <2>1. t.lines = Append(s.lines, s.line) /\ t.line = << >> /\ (t.cr <=> b = "CR")
    BY <1>8, <1>10, ReadEnd
  <2>2. SUFFICES all = s.lines \o Prefixed(s.line, d[j])
    BY <1>2, <1>4, <1>10 DEF Joins
  <2>3. CASE Paired(g, j)
    <3>1. b = "CR" /\ j < m /\ g[j + 1] = "LF"
      BY <1>1, <1>4, <2>3 DEF Paired
    <3>2. all = t.lines \o d[j + 2]
      BY <1>1, <1>8, <2>1, <3>1 DEF Joins
    <3>3. j + 1 \in 1 .. m /\ (j + 1) + 1 = j + 2 /\ j + 2 \in 1 .. m + 1
      BY <1>1, <1>3, <3>1
    <3>4. d[j + 1] = Led("LF", d[j + 2])
      <4>1. ~Paired(g, j + 1) /\ Plain(g[j + 1]) = "LF"
        BY <3>1 DEF Paired, Plain
      <4>2. d[j + 1] = Led(Plain(g[j + 1]), d[(j + 1) + 1])
        BY <1>1, <3>3, <4>1 DEF Pages
      <4> QED
        BY <3>3, <4>1, <4>2
    <3>5. d[j + 2] \in Full /\ d[j + 2] \in Page
      BY <1>1, <3>3, FullIs DEF Pages
    <3>6. d[j] = EmptyLine \o d[j + 2]
      BY <1>6, <2>3, <3>4 DEF Led
    <3>7. Append(s.lines, s.line) \o d[j + 2] = s.lines \o Prefixed(s.line, EmptyLine \o d[j + 2])
      BY <1>7, <3>5, AppendJoin
    <3> QED
      BY <2>1, <3>2, <3>6, <3>7
  <2>4. CASE ~Paired(g, j)
    <3>1. all = t.lines \o Prefixed(<< >>, d[j + 1])
      <4>1. ~(t.cr /\ j < Len(g) /\ g[j + 1] = "LF")
        BY <1>4, <2>1, <2>4 DEF Paired
      <4> QED
        BY <1>8, <2>1, <4>1 DEF Joins
    <3>2. all = t.lines \o d[j + 1]
      BY <1>5, <3>1, PrefixedByNothing
    <3>3. d[j] = EmptyLine \o d[j + 1]
      <4>1. Plain(b) = "LF"
        BY <1>10 DEF Plain
      <4> QED
        BY <1>6, <2>4, <4>1 DEF Led
    <3>4. Append(s.lines, s.line) \o d[j + 1] = s.lines \o Prefixed(s.line, EmptyLine \o d[j + 1])
      BY <1>5, <1>7, AppendJoin
    <3> QED
      BY <2>1, <3>2, <3>3, <3>4
  <2> QED
    BY <2>3, <2>4
<1>11. CASE b \notin {"CR", "LF"}
  <2>1. t.lines = s.lines /\ t.line = s.line \o <<b>> /\ ~t.cr
    BY <1>4, <1>8, <1>11, ReadOther
  <2>2. all = s.lines \o Prefixed(s.line \o <<b>>, d[j + 1])
    BY <1>8, <2>1 DEF Joins
  <2>3. d[j] = Prefixed(<<b>>, d[j + 1])
    <3>1. ~Paired(g, j) /\ Plain(b) = b /\ b # "LF"
      BY <1>4, <1>11 DEF Paired, Plain
    <3> QED
      BY <1>6, <3>1 DEF Led
  <2>4. <<b>> \in Text
    BY <1>4, OneOf DEF Text
  <2>5. all = s.lines \o Prefixed(s.line, d[j])
    <3>1. Prefixed(s.line, Prefixed(<<b>>, d[j + 1])) = Prefixed(s.line \o <<b>>, d[j + 1])
      BY <1>5, <1>7, <2>4, PrefixedTwice
    <3> QED
      BY <2>2, <2>3, <3>1
  <2> QED
    BY <1>2, <1>4, <1>11, <2>5 DEF Joins
<1> QED
  BY <1>4, <1>9, <1>10, <1>11

\* The rest of a text from a position on.
Rest(f, pos) == SubSeq(f, pos + 1, Len(f))

LEMMA RestIs ==
    ASSUME NEW f \in Text, NEW pos \in 0 .. Len(f)
    PROVE  /\ Rest(f, pos) \in Text /\ Len(Rest(f, pos)) = Len(f) - pos
           /\ Len(f) \in Nat
           /\ \A i \in 1 .. Len(f) - pos : Rest(f, pos)[i] = f[pos + i]
<1>1. PICK n : n = Len(f) /\ n \in Nat
  BY LenProperties DEF Text
<1>2. PICK a : a = pos + 1 /\ a \in Int /\ a >= 1
  BY <1>1
<1>3. \A i \in a .. n : f[i] \in Shown!Byte
  <2>1. \A i \in a .. n : i \in 1 .. n
    BY <1>1, <1>2
  <2> QED
    BY <1>1, <2>1, ElementOfSeq DEF Text
<1>4. PICK g : g = SubSeq(f, a, n)
  OBVIOUS
<1>5. /\ g \in Seq(Shown!Byte)
      /\ Len(g) = IF a <= n THEN n - a + 1 ELSE 0
      /\ \A i \in 1 .. n - a + 1 : g[i] = f[a + i - 1]
  <2>1. n \in Int
    BY <1>1
  <2> QED
    BY <1>2, <1>3, <1>4, <2>1, SubSeqProperties
<1>6. Len(g) = n - pos
  BY <1>1, <1>2, <1>5
<1>7. ASSUME NEW i \in 1 .. n - pos
      PROVE  g[i] = f[pos + i]
  <2>1. i \in 1 .. n - a + 1 /\ a + i - 1 = pos + i
    BY <1>1, <1>2
  <2> QED
    BY <1>5, <2>1
<1> QED
  BY <1>1, <1>2, <1>4, <1>5, <1>6, <1>7 DEF Rest, Text

LEMMA JoinedAt ==
    ASSUME NEW f \in Text, NEW pos \in 0 .. Len(f), NEW r, Reads(r, f),
           NEW d, Pages(d, Rest(f, pos)),
           NEW all, all = Append(r[Len(f)].lines, r[Len(f)].line)
    PROVE  Joins(r[pos], d, Rest(f, pos), 0, all)
<1>20. PICK n : n = Len(f) /\ n \in Nat
  BY RestIs
<1>21. PICK m : m = n - pos
  OBVIOUS
<1>1. n = Len(f) /\ n \in Nat /\ m = n - pos /\ m \in Nat /\ pos + m = n /\ pos \in Nat
  BY <1>20, <1>21
<1>2. PICK g : g = Rest(f, pos)
  OBVIOUS
<1>3. g \in Text /\ Len(g) = m /\ \A i \in 1 .. m : g[i] = f[pos + i]
  BY <1>1, <1>2, RestIs
<1>4. \A i \in 0 .. n : r[i] \in ScanState
  BY <1>1 DEF Reads
<1>5. PICK T : T = {i \in 0 .. m : Joins(r[pos + i], d, g, i, all)}
  OBVIOUS
<1>6. m \in T
  <2>1. pos + m = n /\ m \in 0 .. m /\ ~(m < m) /\ n \in 0 .. n
    BY <1>1
  <2>2. d[m + 1] = EmptyLine
    BY <1>2, <1>3 DEF Pages
  <2>3. PICK s : s = r[n] /\ s.lines \in Page /\ s.line \in Text
    BY <1>4, <2>1, ScanStateIs
  <2>4. Append(s.lines, s.line) = s.lines \o Prefixed(s.line, EmptyLine)
    <3>1. << >> \in Page /\ << >> \in Seq(Text)
      BY EmptySeq DEF Page
    <3>2. Append(s.lines, s.line) \o << >> = s.lines \o Prefixed(s.line, EmptyLine \o << >>)
      BY <2>3, <3>1, AppendJoin
    <3>3. Append(s.lines, s.line) \in Seq(Text)
      BY <2>3, AppendJoin DEF Page
    <3>4. Append(s.lines, s.line) \o << >> = Append(s.lines, s.line)
      BY <3>3, ConcatEmptySeq
    <3>5. EmptyLine \o << >> = EmptyLine
      BY EmptyLineIs, ConcatEmptySeq DEF Page
    <3> QED
      BY <3>2, <3>4, <3>5
  <2>5. all = s.lines \o Prefixed(s.line, d[m + 1])
    BY <1>1, <2>2, <2>3, <2>4
  <2>6. Joins(s, d, g, m, all)
    BY <1>3, <2>1, <2>5 DEF Joins
  <2> QED
    BY <1>5, <2>1, <2>3, <2>6
<1>7. ASSUME NEW i \in 1 .. m, i \in T
      PROVE  i - 1 \in T
  <2>1. PICK k : k = i - 1
    OBVIOUS
  <2>2. /\ k \in 0 .. m /\ k \in 0 .. m - 1 /\ k + 1 = i
        /\ pos + i \in 1 .. n /\ (pos + i) - 1 = pos + k /\ pos + k \in 0 .. n
    BY <1>1, <2>1
  <2>3. r[pos + i] = ReadByte(r[pos + k], f[pos + i])
    BY <1>1, <2>2 DEF Reads
  <2>4. g[k + 1] = f[pos + i]
    BY <1>3, <2>2
  <2>5. Joins(ReadByte(r[pos + k], g[k + 1]), d, g, k + 1, all)
    BY <1>5, <1>7, <2>2, <2>3, <2>4
  <2>6. r[pos + k] \in ScanState
    BY <1>4, <2>2
  <2>7. Joins(r[pos + k], d, g, k, all)
    BY <1>2, <1>3, <2>2, <2>5, <2>6, JoinStep
  <2> QED
    BY <1>5, <2>1, <2>2, <2>7
<1>8. 0 \in T
  <2>1. \A i \in 0 .. m : i \in T
    BY <1>1, <1>6, <1>7, Downwards
  <2>2. 0 \in 0 .. m
    BY <1>1
  <2> QED
    BY <2>1, <2>2
<1>9. pos + 0 = pos
  BY <1>1
<1> QED
  BY <1>2, <1>5, <1>8, <1>9

EndsWith(all, p, pos, d) ==
    all = p \o (IF pos > 0 THEN Tail(d[1]) ELSE d[1]) /\ (pos = 0 => p = << >>)

\* The pages of the rest but for a first line that is partial are the last lines of
\* the log, and all of them if it was read from the beginning.
LEMMA LastLines ==
    ASSUME NEW f \in Text, NEW pos \in 0 .. Len(f), pos < Len(f), NEW r, Reads(r, f),
           NEW d, Pages(d, Rest(f, pos)),
           NEW all, all = Append(r[Len(f)].lines, r[Len(f)].line)
    PROVE  \E p \in Page : EndsWith(all, p, pos, d)
<1>20. PICK n : n = Len(f) /\ n \in Nat
  BY RestIs
<1>21. PICK m : m = n - pos
  OBVIOUS
<1>1. /\ n = Len(f) /\ n \in Nat /\ m = n - pos /\ m \in Nat /\ pos \in Nat
      /\ 1 \in 1 .. m /\ 1 \in 1 .. m + 1 /\ 2 \in 1 .. m + 1 /\ 0 < m
      /\ pos \in 0 .. n
  BY <1>20, <1>21
<1>2. PICK g : g = Rest(f, pos)
  OBVIOUS
<1>3. g \in Text /\ Len(g) = m
  BY <1>1, <1>2, RestIs
<1>4. d[1] \in Full /\ d[2] \in Full /\ d[1] \in Page /\ d[2] \in Page
  <2>1. d[1] \in Full /\ d[2] \in Full
    BY <1>1, <1>2, <1>3 DEF Pages
  <2> QED
    BY <2>1, FullIs
<1>5. PICK s : s = r[pos] /\ Joins(s, d, g, 0, all)
  BY <1>2, JoinedAt
<1>6. s \in ScanState /\ s.lines \in Page /\ s.line \in Text
  <2>1. s \in ScanState
    BY <1>1, <1>5 DEF Reads
  <2> QED
    BY <2>1, ScanStateIs
<1>7. 0 + 1 = 1 /\ 0 + 2 = 2
  OBVIOUS
<1>8. CASE pos = 0
  <2>1. s.lines = << >> /\ s.line = << >> /\ ~s.cr
    BY <1>5, <1>8, UnscannedIs DEF Reads
  <2>2. all = << >> \o Prefixed(<< >>, d[1])
    BY <1>5, <1>7, <2>1 DEF Joins
  <2>3. PICK p \in Page : p = << >>
    BY EmptySeq DEF Page
  <2>4. all = p \o d[1]
    BY <1>4, <2>2, <2>3, PrefixedByNothing
  <2>5. ~(pos > 0)
    BY <1>8
  <2> QED
    BY <2>3, <2>4, <2>5 DEF EndsWith
<1>9. CASE pos > 0 /\ s.cr /\ g[1] = "LF"
  <2>1. all = s.lines \o d[2]
    BY <1>1, <1>3, <1>5, <1>7, <1>9 DEF Joins
  <2>2. d[1] = EmptyLine \o d[2]
    <3>1. ~Paired(g, 1) /\ Plain(g[1]) = "LF"
      BY <1>9 DEF Paired, Plain
    <3>2. d[1] = Led(Plain(g[1]), d[1 + 1])
      BY <1>1, <1>2, <1>3, <3>1 DEF Pages
    <3>3. 1 + 1 = 2
      OBVIOUS
    <3> QED
      BY <3>1, <3>2, <3>3 DEF Led
  <2>3. << >> \in Text
    BY EmptySeq DEF Text
  <2>4. Tail(EmptyLine \o d[2]) = d[2]
    BY <1>4, <2>3, TailOfLed DEF EmptyLine
  <2>5. all = s.lines \o Tail(d[1])
    BY <2>1, <2>2, <2>4
  <2>6. pos # 0
    BY <1>9
  <2> QED
    BY <1>6, <1>9, <2>5, <2>6 DEF EndsWith
<1>10. CASE pos > 0 /\ ~(s.cr /\ g[1] = "LF")
  <2>1. all = s.lines \o Prefixed(s.line, d[1])
    BY <1>5, <1>7, <1>10 DEF Joins
  <2>2. PICK q \in Text : Prefixed(s.line, d[1]) = <<q>> \o Tail(d[1])
    BY <1>4, <1>6, PrefixedTail
  <2>3. PICK e : e = Tail(d[1]) /\ e \in Page
    BY <1>4, PageTail
  <2>4. PICK p : p = Append(s.lines, q)
    OBVIOUS
  <2>5. p \in Page /\ p \o e = s.lines \o (<<q>> \o e)
    BY <1>6, <2>2, <2>3, <2>4, AppendJoin
  <2>6. all = p \o Tail(d[1])
    BY <2>1, <2>2, <2>3, <2>5
  <2>7. pos # 0
    BY <1>10
  <2> QED
    BY <1>10, <2>5, <2>6, <2>7 DEF EndsWith
<1>11. pos = 0 \/ pos > 0
  BY <1>1
<1> QED
  BY <1>8, <1>9, <1>10, <1>11

-----------------------------------------------------------------------------
(* As many lines as line feeds.                                            *)

Feeds(f, pos) == {i \in pos + 1 .. Len(f) : f[i] = "LF"}

LEMMA ShownCardinality == \A S : Shown!Cardinality(S) = Cardinality(S)
  BY DEF Shown!Cardinality, Cardinality

LEMMA FeedsAre ==
    ASSUME NEW f \in Text, NEW pos \in 0 .. Len(f)
    PROVE  /\ Shown!LineFeeds(f, pos) = Cardinality(Feeds(f, pos))
           /\ IsFiniteSet(Feeds(f, pos)) /\ Cardinality(Feeds(f, pos)) \in Nat
<1>1. PICK n : n = Len(f) /\ n \in Nat
  BY LenProperties DEF Text
<1>2. PICK I : I = pos + 1 .. n
  OBVIOUS
<1>3. IsFiniteSet(I)
  <2>1. pos + 1 \in Int /\ n \in Int
    BY <1>1
  <2> QED
    BY <1>2, <2>1, FS_Interval
<1>4. Feeds(f, pos) \subseteq I
  BY <1>1, <1>2 DEF Feeds
<1>5. IsFiniteSet(Feeds(f, pos))
  BY <1>3, <1>4, FS_Subset
<1> QED
  BY <1>5, FS_CardinalityType, ShownCardinality DEF Shown!LineFeeds, Feeds

LEMMA FeedsStep ==
    ASSUME NEW f \in Text, NEW pos \in 0 .. Len(f), pos < Len(f)
    PROVE  Shown!LineFeeds(f, pos)
             <= IF f[pos + 1] = "LF" THEN Shown!LineFeeds(f, pos + 1) + 1
                ELSE Shown!LineFeeds(f, pos + 1)
<1>20. PICK n : n = Len(f) /\ n \in Nat
  BY RestIs
<1>21. PICK j : j = pos + 1
  OBVIOUS
<1>1. n = Len(f) /\ n \in Nat /\ j = pos + 1 /\ j \in 0 .. n /\ j \in 1 .. n
  BY <1>20, <1>21
<1>2. PICK A, B : A = Feeds(f, pos) /\ B = Feeds(f, j)
  OBVIOUS
<1>3. IsFiniteSet(A) /\ IsFiniteSet(B) /\ Cardinality(A) \in Nat /\ Cardinality(B) \in Nat
  BY <1>1, <1>2, FeedsAre
<1>4. \A i \in A : i \in B \/ i = j
  BY <1>1, <1>2 DEF Feeds
<1>5. Shown!LineFeeds(f, pos) = Cardinality(A) /\ Shown!LineFeeds(f, j) = Cardinality(B)
  BY <1>1, <1>2, FeedsAre
<1>6. CASE f[j] = "LF"
  <2>1. PICK C : C = B \cup {j}
    OBVIOUS
  <2>2. IsFiniteSet(C) /\ (Cardinality(C) = Cardinality(B) \/ Cardinality(C) = Cardinality(B) + 1)
    BY <1>3, <2>1, FS_AddElement
  <2>3. A \subseteq C
    BY <1>4, <2>1
  <2>4. Cardinality(A) <= Cardinality(C)
    BY <2>2, <2>3, FS_Subset
  <2>5. Cardinality(A) <= Cardinality(B) + 1
    BY <1>3, <2>2, <2>4
  <2> QED
    BY <1>1, <1>5, <1>6, <2>5
<1>7. CASE f[j] # "LF"
  <2>1. A \subseteq B
    BY <1>2, <1>4, <1>7 DEF Feeds
  <2>2. Cardinality(A) <= Cardinality(B)
    BY <1>3, <2>1, FS_Subset
  <2> QED
    BY <1>1, <1>5, <1>7, <2>2
<1> QED
  BY <1>6, <1>7

LEMMA EnoughLines ==
    ASSUME NEW f \in Text, NEW pos \in 0 .. Len(f), NEW d, Pages(d, Rest(f, pos))
    PROVE  Shown!LineFeeds(f, pos) + 1 <= Len(d[1])
<1>20. PICK n : n = Len(f) /\ n \in Nat
  BY RestIs
<1>21. PICK m : m = n - pos
  OBVIOUS
<1>1. n = Len(f) /\ n \in Nat /\ m = n - pos /\ m \in Nat /\ pos \in Nat /\ pos + m = n
  BY <1>20, <1>21
<1>2. PICK g : g = Rest(f, pos)
  OBVIOUS
<1>3. g \in Text /\ Len(g) = m /\ \A i \in 1 .. m : g[i] = f[pos + i]
  BY <1>1, <1>2, RestIs
<1>4. PICK T : T = {i \in 0 .. m : Shown!LineFeeds(f, pos + i) + 1 <= Len(d[i + 1])}
  OBVIOUS
<1>5. \A i \in 0 .. n : Shown!LineFeeds(f, i) \in Nat
  BY <1>1, FeedsAre
<1>6. m \in T
  <2>1. d[m + 1] = EmptyLine
    BY <1>2, <1>3 DEF Pages
  <2>2. Shown!LineFeeds(f, n) = 0
    <3>1. n \in 0 .. Len(f) /\ Feeds(f, n) = {}
      BY <1>1 DEF Feeds
    <3> QED
      BY <3>1, FeedsAre, FS_EmptySet
  <2>3. m \in 0 .. m /\ 0 + 1 <= 1
    BY <1>1
  <2>4. Shown!LineFeeds(f, pos + m) + 1 <= Len(d[m + 1])
    BY <1>1, <2>1, <2>2, <2>3, EmptyLineIs
  <2> QED
    BY <1>4, <2>3, <2>4
<1>7. ASSUME NEW i \in 1 .. m, i \in T
      PROVE  i - 1 \in T
  <2>1. PICK k : k = i - 1
    OBVIOUS
  <2>2. /\ k \in 0 .. m /\ k + 1 = i /\ pos + k \in 0 .. n /\ pos + k < n
        /\ (pos + k) + 1 = pos + i /\ pos + i \in 0 .. n /\ i \in 1 .. m + 1 /\ i + 1 \in 1 .. m + 1
    BY <1>1, <2>1
  <2>3. PICK a, b : /\ a = Shown!LineFeeds(f, pos + k) /\ b = Shown!LineFeeds(f, pos + i)
                    /\ a \in Nat /\ b \in Nat
    BY <1>5, <2>2
  <2>4. a <= IF f[pos + i] = "LF" THEN b + 1 ELSE b
    BY <1>1, <2>2, <2>3, FeedsStep
  <2>5. b + 1 <= Len(d[i + 1])
    BY <1>4, <1>7, <2>3
  <2>6. d[i] = IF Paired(g, i) THEN d[i + 1] ELSE Led(Plain(g[i]), d[i + 1])
    BY <1>2, <1>3 DEF Pages
  <2>7. d[i + 1] \in Full /\ Len(d[i + 1]) \in Nat
    <3>1. d[i + 1] \in Full
      BY <1>2, <1>3, <2>2 DEF Pages
    <3> QED
      BY <3>1, FullIs
  <2>8. g[i] = f[pos + i] /\ g[i] \in Shown!Byte
    BY <1>3, ElementOfSeq DEF Text
  <2>9. CASE f[pos + i] = "LF"
    <3>1. ~Paired(g, i) /\ Plain(g[i]) = "LF"
      BY <2>8, <2>9 DEF Paired, Plain
    <3>2. Len(d[i]) = Len(d[i + 1]) + 1
      <4>1. Len(Led("LF", d[i + 1])) = Len(d[i + 1]) + 1
        BY <2>7, ByteIs, LedFacts
      <4> QED
        BY <2>6, <3>1, <4>1
    <3>3. a + 1 <= Len(d[i])
      BY <2>3, <2>4, <2>5, <2>7, <2>9, <3>2
    <3> QED
      BY <1>4, <2>1, <2>2, <2>3, <3>3
  <2>10. CASE f[pos + i] # "LF"
    <3>1. Len(Led(Plain(g[i]), d[i + 1])) \in {Len(d[i + 1]), Len(d[i + 1]) + 1}
      <4>1. Plain(g[i]) \in Shown!Byte
        BY <2>8, PlainIs
      <4> QED
        BY <2>7, <4>1, LedFacts
    <3>2. Len(d[i]) \in {Len(d[i + 1]), Len(d[i + 1]) + 1}
      BY <2>6, <3>1
    <3>3. a + 1 <= Len(d[i])
      BY <2>3, <2>4, <2>5, <2>7, <2>10, <3>2
    <3> QED
      BY <1>4, <2>1, <2>2, <2>3, <3>3
  <2> QED
    BY <2>9, <2>10
<1>8. 0 \in T
  <2>1. \A i \in 0 .. m : i \in T
    BY <1>1, <1>6, <1>7, Downwards
  <2>2. 0 \in 0 .. m
    BY <1>1
  <2> QED
    BY <2>1, <2>2
<1>9. pos + 0 = pos /\ 0 + 1 = 1
  BY <1>1
<1> QED
  BY <1>4, <1>8, <1>9

-----------------------------------------------------------------------------
(* The end of a text.                                                      *)

LEMMA LastByte ==
    ASSUME NEW g \in Text, NEW m \in Nat, m = Len(g), m # 0,
           NEW u, u = Shown!Universal(g)
    PROVE  u[Len(u)] = Plain(g[m])
<1>1. PICK h : Cleans(h, g) /\ u = h[1]
  BY Cleaned
<1>2. h \in [1 .. m + 1 -> Text] /\ h[m + 1] = << >>
  BY <1>1 DEF Cleans
<1>3. PICK T : T = {i \in 0 .. m - 1 : /\ 1 <= Len(h[i + 1])
                                       /\ h[i + 1][Len(h[i + 1])] = Plain(g[m])}
  OBVIOUS
<1>4. m - 1 \in Nat /\ m - 1 \in 0 .. m - 1 /\ (m - 1) + 1 = m /\ m \in 1 .. m
  OBVIOUS
<1>5. m - 1 \in T
  <2>1. ~Paired(g, m)
    BY DEF Paired
  <2>2. h[m] = <<Plain(g[m])>> \o h[m + 1]
    BY <1>1, <1>4, <2>1 DEF Cleans
  <2>3. PICK b \in Shown!Byte : b = Plain(g[m])
    BY <1>4, ElementOfSeq, PlainIs DEF Text
  <2>4. << >> \in Seq(Shown!Byte) /\ Len(<< >>) = 0
    BY EmptySeq
  <2>5. PICK v : v = <<b>> \o << >>
    OBVIOUS
  <2>6. Len(v) = 0 + 1 /\ v[1] = b
    BY <2>3, <2>4, <2>5, PutBefore
  <2>7. h[m] = v
    BY <1>2, <2>2, <2>3, <2>5
  <2>8. Len(h[m]) = 1 /\ h[m][1] = Plain(g[m])
    BY <2>3, <2>6, <2>7
  <2>9. 1 <= Len(h[m]) /\ h[m][Len(h[m])] = Plain(g[m])
    BY <2>8
  <2> QED
    BY <1>3, <1>4, <2>9
<1>6. ASSUME NEW i \in 1 .. m - 1, i \in T
      PROVE  i - 1 \in T
  <2>1. i \in 1 .. m /\ i + 1 \in 1 .. m + 1 /\ i - 1 \in 0 .. m - 1 /\ (i - 1) + 1 = i
    OBVIOUS
  <2>2. PICK t : t = h[i + 1] /\ t \in Text
    BY <1>2, <2>1
  <2>3. 1 <= Len(t) /\ t[Len(t)] = Plain(g[m])
    BY <1>3, <1>6, <2>2
  <2>4. h[i] = IF Paired(g, i) THEN t ELSE <<Plain(g[i])>> \o t
    BY <1>1, <2>1, <2>2 DEF Cleans
  <2>5. CASE Paired(g, i)
    BY <1>3, <2>1, <2>3, <2>4, <2>5
  <2>6. CASE ~Paired(g, i)
    <3>1. PICK b \in Shown!Byte : b = Plain(g[i])
      BY <2>1, ElementOfSeq, PlainIs DEF Text
    <3>2. PICK v : v = <<b>> \o t
      OBVIOUS
    <3>3. Len(v) = Len(t) + 1 /\ Len(t) \in Nat /\ \A j \in 1 .. Len(t) : v[j + 1] = t[j]
      BY <2>2, <3>1, <3>2, PutBefore DEF Text
    <3>4. PICK k : k = Len(t) /\ k \in Nat /\ k \in 1 .. k
      BY <2>3, <3>3
    <3>5. v[k + 1] = Plain(g[m]) /\ Len(v) = k + 1 /\ 1 <= k + 1
      BY <2>3, <3>3, <3>4
    <3>6. h[i] = v
      BY <2>4, <2>6, <3>1, <3>2
    <3> QED
      BY <1>3, <2>1, <3>5, <3>6
  <2> QED
    BY <2>5, <2>6
<1>7. 0 \in T
  <2>1. \A i \in 0 .. m - 1 : i \in T
    BY <1>4, <1>5, <1>6, Downwards
  <2>2. 0 \in 0 .. m - 1
    OBVIOUS
  <2> QED
    BY <2>1, <2>2
<1>8. 0 + 1 = 1
  OBVIOUS
<1> QED
  BY <1>1, <1>3, <1>7, <1>8

\* Nothing has been read of a line only after a line end.
LEMMA LineEnded ==
    ASSUME NEW f \in Text, NEW n \in Nat, n = Len(f), n # 0, NEW r, Reads(r, f),
           r[n].line = << >>
    PROVE  Plain(f[n]) = "LF"
<1>1. n \in 1 .. n /\ n - 1 \in 0 .. n
  OBVIOUS
<1>2. PICK s : s = r[n - 1] /\ s \in ScanState
  BY <1>1 DEF Reads
<1>3. PICK b : b = f[n] /\ b \in Shown!Byte
  BY <1>1, ElementOfSeq DEF Text
<1>4. r[n] = ReadByte(s, b)
  BY <1>1, <1>2, <1>3 DEF Reads
<1>5. b \in {"CR", "LF"}
  <2>1. SUFFICES ASSUME b \notin {"CR", "LF"}
                 PROVE  FALSE
    OBVIOUS
  <2>6. ReadByte(s, b).line = s.line \o <<b>>
    BY <1>2, <1>3, <2>1, ReadOther
  <2>2. s.line \o <<b>> = << >>
    BY <1>4, <2>6
  <2>3. s.line \in Seq(Shown!Byte) /\ <<b>> \in Seq(Shown!Byte) /\ Len(<<b>>) = 1
    BY <1>2, <1>3, ScanStateIs, OneOf DEF Text
  <2>4. Len(s.line \o <<b>>) = Len(s.line) + Len(<<b>>) /\ Len(s.line) \in Nat
    BY <2>3, Joined
  <2>5. Len(<< >>) = 0
    BY EmptySeq
  <2> QED
    BY <2>2, <2>3, <2>4, <2>5
<1> QED
  BY <1>3, <1>5 DEF Plain

LEMMA EndsIn ==
    ASSUME NEW s \in Full
    PROVE  /\ Shown!Front(s) \in Page /\ Shown!Last(s) \in Text
           /\ s = Append(Shown!Front(s), Shown!Last(s))
           /\ Len(Shown!Front(s)) = Len(s) - 1
<1>1. PICK n : n = Len(s) /\ n \in Nat /\ 1 <= n /\ s \in Seq(Text)
  BY FullIs
<1>2. \A i \in 1 .. n - 1 : s[i] \in Text
  <2>1. \A i \in 1 .. n - 1 : i \in 1 .. n
    BY <1>1
  <2> QED
    BY <1>1, <2>1, ElementOfSeq
<1>3. PICK e : e = SubSeq(s, 1, n - 1)
  OBVIOUS
<1>4. e \in Seq(Text) /\ Len(e) = n - 1
  <2>1. n - 1 \in Int /\ 1 \in Int
    BY <1>1
  <2>2. e \in Seq(Text) /\ Len(e) = IF 1 <= n - 1 THEN (n - 1) - 1 + 1 ELSE 0
    BY <1>2, <1>3, <2>1, SubSeqProperties
  <2> QED
    BY <1>1, <2>2
<1>5. 1 \in 1 .. Len(s) /\ n \in 1 .. Len(s)
  BY <1>1
<1>6. s[n] \in Text
  BY <1>1, <1>5, ElementOfSeq
<1>7. SubSeq(s, 1, n) = SubSeq(s, 1, n - 1) \o <<s[n]>>
  BY <1>1, <1>5, SubSeqRecursiveSecond
<1>8. s = e \o <<s[n]>>
  BY <1>1, <1>3, <1>7, SubSeqFull
<1>9. s = Append(e, s[n])
  BY <1>4, <1>6, <1>8, AppendIsConcat
<1>10. Shown!Front(s) = e /\ Shown!Last(s) = s[n]
  BY <1>1, <1>3 DEF Shown!Front, Shown!Last
<1> QED
  BY <1>1, <1>4, <1>6, <1>9, <1>10 DEF Page

\* The last lines of a page that has others before it.
LastOf(s, tail) == IF Len(s) > tail THEN SubSeq(s, Len(s) - tail + 1, Len(s)) ELSE s

\* The place of the first line shown, of n.
First(n, tail) == IF n > tail THEN n - tail + 1 ELSE 1

LEMMA FirstIs ==
    ASSUME NEW n \in Nat, NEW tail \in Nat
    PROVE  /\ n > tail => First(n, tail) = n - tail + 1
           /\ ~(n > tail) => First(n, tail) = 1
  BY DEF First

LEMMA LastOfBoth ==
    ASSUME NEW p \in Page, NEW s \in Page, NEW tail \in Nat, tail # 0,
           tail <= Len(s) \/ p = << >>
    PROVE  LastOf(s, tail) = SubSeq(p \o s, First(Len(p \o s), tail), Len(p \o s))
<1>2. PICK k, l : k = Len(p) /\ l = Len(s) /\ k \in Nat /\ l \in Nat
  BY LenProperties DEF Page
<1>3. Len(p \o s) = k + l /\ p \in Seq(Text) /\ s \in Seq(Text)
  BY <1>2, Joined DEF Page
<1>1. PICK n \in Nat : n = k + l
  BY <1>2
<1>4. PICK a : a = First(n, tail)
  OBVIOUS
<1>5. (k + l > tail => a = k + l - tail + 1) /\ (~(k + l > tail) => a = 1)
  <2>1. (n > tail => a = n - tail + 1) /\ (~(n > tail) => a = 1)
    BY <1>4, FirstIs
  <2> QED
    BY <1>1, <1>2, <2>1
<1>6. p = << >> => k = 0
  BY <1>2, EmptySeq
<1>11. LastOf(s, tail) = SubSeq(p \o s, a, k + l)
  <2>7. CASE l > tail
    <3>1. /\ a = k + (l - tail + 1) /\ a \in k + 1 .. k + l /\ k + l \in k + 1 .. k + l
          /\ a - k = l - tail + 1 /\ (k + l) - k = l
      BY <1>2, <1>5, <2>7
    <3>2. SubSeq(p \o s, a, k + l) = SubSeq(s, a - k, (k + l) - k)
      BY <1>2, <1>3, <3>1, SubSeqOfConcat2
    <3> QED
      BY <1>2, <2>7, <3>1, <3>2 DEF LastOf
  <2>8. CASE ~(l > tail) /\ l # 0
    <3>1. a = k + 1
      BY <1>2, <1>5, <1>6, <2>8
    <3>2. /\ a \in k + 1 .. k + l /\ k + l \in k + 1 .. k + l
          /\ a - k = 1 /\ (k + l) - k = l
      BY <1>2, <2>8, <3>1
    <3>3. SubSeq(p \o s, a, k + l) = SubSeq(s, a - k, (k + l) - k)
      BY <1>2, <1>3, <3>2, SubSeqOfConcat2
    <3>4. SubSeq(s, 1, l) = s
      BY <1>2, <1>3, SubSeqFull
    <3> QED
      BY <1>2, <2>8, <3>2, <3>3, <3>4 DEF LastOf
  <2>9. CASE l = 0
    <3>1. k = 0 /\ a = 1 /\ k + l = 0
      BY <1>2, <1>5, <1>6, <2>9
    <3>2. s = << >>
      BY <1>2, <1>3, <2>9, EmptySeq
    <3>3. SubSeq(p \o s, 1, 0) = << >>
      <4>1. 1 \in Int /\ 0 \in Int /\ 0 < 1
        OBVIOUS
      <4> QED
        BY <4>1, SubSeqEmpty
    <3> QED
      BY <1>2, <2>9, <3>1, <3>2, <3>3 DEF LastOf
  <2> QED
    BY <1>2, <2>7, <2>8, <2>9
<1> QED
  BY <1>1, <1>3, <1>4, <1>11

-----------------------------------------------------------------------------
(* The endpoint shows the last lines of the log.                           *)

\* What the reader makes of the pages of the end of a log.
Trimmed(s, text) ==
    IF s # << >> /\ Shown!Last(s) = << >> /\ Shown!Last(text) = "LF" THEN Shown!Front(s) ELSE s

LEMMA LinesAre ==
    ASSUME NEW f, f # << >>, NEW tail, NEW block
    PROVE  \E pos, text, s :
              /\ pos = Shown!StartOf(f, tail, block)
              /\ text = Shown!Universal(Rest(f, pos))
              /\ s = IF pos > 0 THEN Tail(Shown!SplitLines(text)) ELSE Shown!SplitLines(text)
              /\ Shown!Lines(f, tail, block) = LastOf(Trimmed(s, text), tail)
<1>1. PICK pos : pos = Shown!StartOf(f, tail, block)
  OBVIOUS
<1>2. PICK text : text = Shown!Universal(Rest(f, pos))
  OBVIOUS
<1>3. PICK s : s = IF pos > 0 THEN Tail(Shown!SplitLines(text)) ELSE Shown!SplitLines(text)
  OBVIOUS
<1>4. PICK t : t = Trimmed(s, text)
  OBVIOUS
<1>5. Shown!Lines(f, tail, block)
        = IF Len(t) > tail THEN SubSeq(t, Len(t) - tail + 1, Len(t)) ELSE t
  BY <1>1, <1>2, <1>3, <1>4 DEF Shown!Lines, Rest, Trimmed
<1>6. Shown!Lines(f, tail, block) = LastOf(t, tail)
  BY <1>5 DEF LastOf
<1> QED
  BY <1>1, <1>2, <1>3, <1>4, <1>6

LEMMA ShownLast ==
    ASSUME NEW f \in Text, f # << >>, NEW tail \in Nat, tail # 0, NEW block \in Nat, block # 0
    PROVE  \E p \in Page, s \in Page :
              /\ Shown!AllLines(f) = p \o s
              /\ Shown!Lines(f, tail, block) = LastOf(s, tail)
              /\ tail <= Len(s) \/ p = << >>
<1>1. PICK n : n = Len(f) /\ n \in Nat /\ n # 0
  <2>1. PICK n : n = Len(f) /\ n \in Nat \ {0}
    BY EmptySeq DEF Text
  <2> QED
    BY <2>1
<1>2. PICK pos, text, s :
         /\ pos = Shown!StartOf(f, tail, block)
         /\ text = Shown!Universal(Rest(f, pos))
         /\ s = IF pos > 0 THEN Tail(Shown!SplitLines(text)) ELSE Shown!SplitLines(text)
         /\ Shown!Lines(f, tail, block) = LastOf(Trimmed(s, text), tail)
  BY LinesAre
<1>3. pos \in 0 .. n /\ Stopped(f, tail, pos) /\ pos \in Nat
  <2>1. pos \in 0 .. Len(f) /\ Stopped(f, tail, pos)
    BY <1>2, Starts
  <2> QED
    BY <1>1, <2>1
<1>4. PICK feeds : feeds = Shown!LineFeeds(f, pos) /\ feeds \in Nat
  BY <1>1, <1>3, FeedsAre
<1>5. pos = 0 \/ (pos > 0 /\ feeds > tail)
  BY <1>3, <1>4 DEF Stopped
<1>6. pos < n
  <2>1. CASE pos = n
    <3>1. Feeds(f, n) = {} /\ n \in 0 .. Len(f)
      BY <1>1 DEF Feeds
    <3>2. feeds = 0
      BY <1>4, <2>1, <3>1, FeedsAre, FS_EmptySet
    <3> QED
      BY <1>1, <1>5, <2>1, <3>2
  <2> QED
    BY <1>1, <1>3, <2>1
<1>7. PICK g : g = Rest(f, pos)
  OBVIOUS
<1>8. PICK m : m = n - pos
  OBVIOUS
<1>9. g \in Text /\ Len(g) = m /\ \A i \in 1 .. m : g[i] = f[pos + i]
  BY <1>1, <1>3, <1>7, <1>8, RestIs
<1>10. m \in Nat /\ m # 0 /\ m \in 1 .. m /\ pos + m = n
  BY <1>1, <1>3, <1>6, <1>8
<1>11. PICK d : Pages(d, g) /\ Shown!SplitLines(text) = d[1]
  BY <1>2, <1>7, <1>9, PagesOf
<1>12. PICK r : Reads(r, f) /\ Shown!Scanned(f) = r[n]
  BY <1>1, Read
<1>13. PICK lines, last : lines = r[n].lines /\ last = r[n].line
  OBVIOUS
<1>14. lines \in Page /\ last \in Text
  <2>1. n \in 0 .. n
    BY <1>1
  <2>2. r[n] \in ScanState
    BY <1>1, <1>12, <2>1 DEF Reads
  <2> QED
    BY <1>13, <2>2, ScanStateIs
<1>15. PICK all : all = Append(lines, last)
  OBVIOUS
<1>16. PICK p \in Page : all = p \o s /\ (pos = 0 => p = << >>)
  <2>1. s = IF pos > 0 THEN Tail(d[1]) ELSE d[1]
    BY <1>2, <1>11
  <2>2. all = Append(r[Len(f)].lines, r[Len(f)].line)
    BY <1>1, <1>13, <1>15
  <2>3. pos \in 0 .. Len(f) /\ pos < Len(f) /\ Pages(d, Rest(f, pos))
    BY <1>1, <1>3, <1>6, <1>7, <1>11
  <2>4. PICK p \in Page : EndsWith(all, p, pos, d)
    BY <1>12, <2>2, <2>3, LastLines
  <2> QED
    BY <2>1, <2>4 DEF EndsWith
<1>17. d[1] \in Full /\ Len(d[1]) \in Nat /\ 1 <= Len(d[1])
  <2>1. 1 \in 1 .. m + 1
    BY <1>10
  <2>2. d[1] \in Full
    BY <1>9, <1>11, <2>1 DEF Pages
  <2> QED
    BY <2>2, FullIs
<1>18. feeds + 1 <= Len(d[1])
  <2>1. pos \in 0 .. Len(f) /\ Pages(d, Rest(f, pos))
    BY <1>1, <1>3, <1>7, <1>11
  <2> QED
    BY <1>4, <2>1, EnoughLines
<1>19. /\ s \in Full /\ s \in Page /\ Len(s) \in Nat /\ 1 <= Len(s)
       /\ pos > 0 => tail + 1 <= Len(s)
  <2>1. CASE pos = 0
    <3>1. s = d[1] /\ ~(pos > 0)
      BY <1>2, <1>11, <2>1
    <3> QED
      BY <1>17, <3>1, FullIs
  <2>2. CASE pos > 0 /\ feeds > tail
    <3>1. s = Tail(d[1])
      BY <1>2, <1>11, <2>2
    <3>2. s \in Page /\ Len(s) = Len(d[1]) - 1
      BY <1>17, <3>1, PageTail
    <3>3. tail + 1 <= Len(s) /\ 1 <= Len(s) /\ Len(s) \in Nat
      BY <1>4, <1>17, <1>18, <2>2, <3>2
    <3>4. s # << >>
      <4>1. Len(<< >>) = 0
        BY EmptySeq
      <4> QED
        BY <3>3, <4>1
    <3> QED
      BY <3>2, <3>3, <3>4 DEF Full
  <2> QED
    BY <1>5, <2>1, <2>2
<1>20. PICK e, x : e = Shown!Front(s) /\ x = Shown!Last(s)
  OBVIOUS
<1>21. e \in Page /\ x \in Text /\ s = Append(e, x) /\ Len(e) = Len(s) - 1 /\ s # << >>
  BY <1>19, <1>20, EndsIn DEF Full
<1>22. lines = p \o e /\ last = x /\ p \o e \in Page
  <2>1. p \in Seq(Text) /\ e \in Seq(Text) /\ lines \in Seq(Text) /\ <<x>> \in Seq(Text)
    BY <1>14, <1>21, OneOf DEF Page
  <2>2. p \o e \in Seq(Text)
    BY <2>1, ConcatProperties
  <2>3. s = e \o <<x>>
    BY <1>21, <2>1, AppendIsConcat
  <2>4. (p \o e) \o <<x>> = p \o (e \o <<x>>)
    BY <2>1, Regrouped
  <2>5. Append(p \o e, x) = (p \o e) \o <<x>>
    BY <1>21, <2>2, AppendIsConcat
  <2>6. Append(lines, last) = Append(p \o e, x)
    BY <1>15, <1>16, <2>3, <2>4, <2>5
  <2>7. lines = p \o e /\ last = x
    <3>1. PICK q \in Seq(Text) : q = p \o e
      BY <2>2
    <3>2. Append(lines, last) = Append(q, x) <=> lines = q /\ last = x
      BY <1>14, <1>21, <2>1, AppendInjective
    <3> QED
      BY <2>6, <3>1, <3>2
  <2> QED
    BY <2>2, <2>7 DEF Page
<1>23. Shown!AllLines(f) = IF last = << >> THEN lines ELSE all
  BY <1>12, <1>13, <1>15 DEF Shown!AllLines
<1>24. CASE last = << >>
  <2>1. Shown!Last(text) = "LF"
    <3>1. Plain(f[n]) = "LF"
      BY <1>1, <1>12, <1>13, <1>24, LineEnded
    <3>2. text[Len(text)] = Plain(g[m])
      BY <1>2, <1>7, <1>9, <1>10, LastByte
    <3>3. g[m] = f[n]
      BY <1>9, <1>10
    <3> QED
      BY <3>1, <3>2, <3>3 DEF Shown!Last
  <2>2. Trimmed(s, text) = e
    BY <1>20, <1>21, <1>22, <1>24, <2>1 DEF Trimmed
  <2>3. Shown!AllLines(f) = p \o e
    BY <1>22, <1>23, <1>24
  <2>4. tail <= Len(e) \/ p = << >>
    BY <1>5, <1>16, <1>19, <1>21
  <2> QED
    BY <1>2, <1>21, <2>2, <2>3, <2>4
<1>25. CASE last # << >>
  <2>1. Trimmed(s, text) = s
    BY <1>20, <1>22, <1>25 DEF Trimmed
  <2>2. Shown!AllLines(f) = p \o s
    BY <1>16, <1>23, <1>25
  <2>3. tail <= Len(s) \/ p = << >>
    BY <1>5, <1>16, <1>19
  <2> QED
    BY <1>2, <1>19, <2>1, <2>2, <2>3
<1> QED
  BY <1>24, <1>25

\* The operator is right for every text, however it is cut into blocks.
LEMMA OutputExact ==
    ASSUME NEW f \in Text, NEW asked, NEW block \in Blocks
    PROVE  LET all == Shown!AllLines(f)
               n   == IF asked \in 1 .. MaxTail THEN asked ELSE MaxTail
           IN  Shown!Output(f, asked, block)
                 = SubSeq(all, IF Len(all) > n THEN Len(all) - n + 1 ELSE 1, Len(all))
<1>1. PICK tail : tail = IF asked \in 1 .. MaxTail THEN asked ELSE MaxTail
  OBVIOUS
<1>2. tail \in Nat /\ tail # 0
  BY <1>1, TailAssumption
<1>3. block \in Nat /\ block # 0
  BY TailAssumption
<1>4. PICK all : all = Shown!AllLines(f)
  OBVIOUS
<1>5. Shown!Output(f, asked, block) = Shown!Lines(f, tail, block)
  BY <1>1 DEF Shown!Output, Shown!TailOf
<1>6. PICK a : a = First(Len(all), tail)
  OBVIOUS
<1>7. Shown!Lines(f, tail, block) = SubSeq(all, a, Len(all))
  <2>1. CASE f = << >>
    <3>1. Shown!Lines(f, tail, block) = << >>
      BY <2>1 DEF Shown!Lines
    <3>2. Len(f) = 0
      BY <2>1, EmptySeq
    <3>3. PICK r : Reads(r, f) /\ Shown!Scanned(f) = r[Len(f)]
      BY Read
    <3>4. r[Len(f)] = Unscanned
      BY <3>2, <3>3 DEF Reads
    <3>5. all = << >>
      BY <1>4, <3>3, <3>4, UnscannedIs DEF Shown!AllLines
    <3>6. Len(all) = 0
      BY <3>5, EmptySeq
    <3>7. a = 1
      BY <1>2, <1>6, <3>6, FirstIs
    <3>8. SubSeq(all, 1, 0) = << >>
      <4>1. 1 \in Int /\ 0 \in Int /\ 0 < 1
        OBVIOUS
      <4> QED
        BY <4>1, SubSeqEmpty
    <3> QED
      BY <3>1, <3>6, <3>7, <3>8
  <2>2. CASE f # << >>
    <3>1. PICK p \in Page, s \in Page :
             /\ all = p \o s
             /\ Shown!Lines(f, tail, block) = LastOf(s, tail)
             /\ tail <= Len(s) \/ p = << >>
      BY <1>2, <1>3, <1>4, <2>2, ShownLast
    <3>2. LastOf(s, tail) = SubSeq(p \o s, First(Len(p \o s), tail), Len(p \o s))
      BY <1>2, <3>1, LastOfBoth
    <3> QED
      BY <1>6, <3>1, <3>2
  <2> QED
    BY <2>1, <2>2
<1> QED
  BY <1>1, <1>4, <1>5, <1>6, <1>7 DEF First

\* The log is a text, and so whatever is asked of its end, of whichever blocks it is
\* read, and however it grows, the lines shown are the last ones that it has
\* (read_output_tail, jobs/utils.py:306-352; job_output, api/routes.py:85-88).
THEOREM TailExactHolds == Spec => []TailExact
<1> DEFINE Inv == part = "tail" => bytes \in Text
<1>1. Init => Inv
  BY EmptySeq DEF Init, Shown!Init, Text
<1>2. Inv /\ [Next]_allVars => Inv'
  <2> SUFFICES ASSUME Inv, [Next]_allVars, part' = "tail"
               PROVE  bytes' \in Text
    OBVIOUS
  <2>1. part = "tail" /\ (Shown!Next \/ UNCHANGED bytes)
    BY DEF Next, allVars
  <2>2. CASE Shown!Next
    <3>1. PICK b \in Shown!Byte : bytes' = Append(bytes, b)
      BY <2>2 DEF Shown!Next, Shown!WriteByte
    <3> QED
      BY <2>1, <3>1, AppendProperties DEF Text
  <2>3. CASE UNCHANGED bytes
    BY <2>1, <2>3
  <2> QED
    BY <2>1, <2>2, <2>3
<1>3. Inv => TailExact
  <2> SUFFICES ASSUME part = "tail", bytes \in Text
               PROVE  Shown!TailExact
    BY DEF TailExact
  <2> QED
    BY OutputExact DEF Shown!TailExact
<1> QED
  BY <1>1, <1>2, <1>3, PTL DEF Spec
=============================================================================
