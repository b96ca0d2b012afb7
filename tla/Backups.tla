------------------------------- MODULE Backups -------------------------------
(* Backups of the database (backup.py, deploy/backup.py, cli.py).  The cron *)
(* job and an administrator's command write and prune the same directory,   *)
(* without a lock and without a sign on a file that is not finished.        *)
EXTENDS Integers, Sequences, FiniteSets, FiniteSetsExt

CONSTANTS
    Process,          \* processes that run a backup or a restore
    RetentionDays,    \* 0: no limit
    RetentionCount,   \* 0: no limit
    MaxRuns,          \* bounds of the runs: backups, restores and deaths, days
    MaxEvents,
    MaxDay

VARIABLES
    files,     \* files of the directory that BACKUP_FILENAME_PATTERN matches
    run,       \* per process: where it is, and its local variables
    db,        \* the live database: the number of its state, 0 when empty or damaged
    today,     \* the day; a modification time is a day and a place in order
    restores,  \* history: restores begun
    begun,     \* history: backups begun, which number their names
    crashes,   \* history: processes that died
    made,      \* history: the states of which a copy was finished
    alone,     \* history: processes that ran without another since they began
    tidy       \* history: the last thing that happened was such a run to its end

vars == <<files, run, db, today, restores, begun, crashes, made, alone, tidy>>

\* A file: the backup it belongs to, compressed or raw, whether it is open, whole
\* or an empty database, the state of the database in it, when it was modified.
Idle == [phase |-> "idle", stem |-> 0, compress |-> FALSE, listed |-> {}, victims |-> << >>,
         content |-> "open", state |-> 0]

Init == /\ files = {}
        /\ run = [p \in Process |-> Idle]
        /\ db = 1
        /\ today = 0
        /\ restores = 0
        /\ begun = 0
        /\ crashes = 0
        /\ made = {}
        /\ alone = {}
        /\ tidy = FALSE

At(p, phase) == run[p].phase = phase
Go(p, phase) == run' = [run EXCEPT ![p].phase = phase]
Exit(p)      == run' = [run EXCEPT ![p] = Idle]

Named(p, gz) == {f \in files : f.stem = run[p].stem /\ f.gz = gz}
Busy(p)      == \E q \in Process \ {p} : run[q].phase # "idle"

Latest == Max({f.order : f \in files} \cup {0})

\* The process (re)writes one of the two files of its backup.
Put(p, gz, content, state) ==
    files' = (files \ Named(p, gz)) \cup
                  {[stem |-> run[p].stem, gz |-> gz, content |-> content, state |-> state,
                    day |-> today, order |-> Latest + 1]}

Whole(f) == f.content = "whole"

-----------------------------------------------------------------------------
(* backup_database.                                                        *)

Begin(p, compress) ==
    /\ At(p, "idle")
    /\ begun < MaxRuns
    /\ begun' = begun + 1
    /\ run' = [run EXCEPT ![p] = [Idle EXCEPT !.phase = "open", !.stem = begun + 1,
                                              !.compress = compress]]
    /\ alone' = IF Busy(p) THEN {} ELSE {p}
    /\ UNCHANGED <<files, db, today, restores, crashes, made>>

\* The copy is opened, and is whole when the last page is committed.  If it was
\* removed meanwhile the pages go nowhere, even if a restore created it again.
OpenRaw(p) == /\ At(p, "open")
              /\ Put(p, FALSE, "open", 0)
              /\ Go(p, "copy")
              /\ UNCHANGED <<db, today, restores, begun, crashes, made, alone>>

CopyRaw(p) ==
    /\ At(p, "copy")
    /\ IF \E f \in Named(p, FALSE) : f.content = "open"
       THEN Put(p, FALSE, "whole", db) /\ made' = made \cup {db}
       ELSE UNCHANGED <<files, made>>
    /\ Go(p, IF run[p].compress THEN "compress" ELSE "size")
    /\ UNCHANGED <<db, today, restores, begun, crashes, alone>>

\* Mutant: the raw copy is removed before the compressed one is finished.
OpenGz_RemovesFirst(p) ==
    /\ At(p, "compress")
    /\ Named(p, FALSE) # {}
    /\ files' = (files \ Named(p, FALSE)) \cup
                  {[f EXCEPT !.gz = TRUE, !.content = "open", !.order = Latest + 1] : f \in Named(p, FALSE)}
    /\ run' = [run EXCEPT ![p].phase = "pack", ![p].content = "whole",
                          ![p].state = (CHOOSE f \in Named(p, FALSE) : TRUE).state]
    /\ UNCHANGED <<db, today, restores, begun, crashes, made, alone>>

\* Compressing opens the copy, which may be gone: FileNotFoundError.
OpenGz(p) ==
    /\ At(p, "compress")
    /\ IF Named(p, FALSE) = {} THEN Exit(p) /\ UNCHANGED files
       ELSE LET raw == CHOOSE f \in Named(p, FALSE) : TRUE
            IN  /\ Put(p, TRUE, "open", 0)
                /\ run' = [run EXCEPT ![p] = [@ EXCEPT !.phase = "pack",
                                                       !.content = raw.content,
                                                       !.state = raw.state]]
    /\ UNCHANGED <<db, today, restores, begun, crashes, made, alone>>

CloseGz(p) ==
    /\ At(p, "pack")
    /\ IF Named(p, TRUE) = {} THEN UNCHANGED files
       ELSE Put(p, TRUE, run[p].content, run[p].state)
    /\ Go(p, "discard")
    /\ UNCHANGED <<db, today, restores, begun, crashes, made, alone>>

\* The raw copy is removed; it may be gone: FileNotFoundError.
DiscardRaw(p) ==
    /\ At(p, "discard")
    /\ files' = files \ Named(p, FALSE)
    /\ IF Named(p, FALSE) = {} THEN Exit(p) ELSE Go(p, "size")
    /\ UNCHANGED <<db, today, restores, begun, crashes, made, alone>>

\* The command asks for the size of the file it made, and fails without it.
Size(p) == /\ At(p, "size")
           /\ IF Named(p, run[p].compress) = {} THEN Exit(p) ELSE Go(p, "list")
           /\ UNCHANGED <<files, db, today, restores, begun, crashes, made, alone>>

-----------------------------------------------------------------------------
(* prune_backups.                                                          *)

List(p) == /\ At(p, "list")
           /\ run' = [run EXCEPT ![p] = [@ EXCEPT !.phase = "stat",
                          !.listed = {[stem |-> f.stem, gz |-> f.gz] : f \in files}]]
           /\ UNCHANGED <<files, db, today, restores, begun, crashes, made, alone>>

Aged(f) == RetentionDays > 0 /\ f.day < today - RetentionDays

NewestFirst(fs) ==
    [i \in 1 .. Cardinality(fs) |->
        CHOOSE f \in fs : Cardinality({g \in fs : g.order >= f.order}) = i]

\* Mutant: off by one, either way.
Surplus_KeepsOneMore(fs) ==
    LET kept == NewestFirst({f \in fs : ~Aged(f)})
    IN  SubSeq(kept, RetentionCount + 2, Len(kept))

\* Mutant, the other way.
Surplus_KeepsOneLess(fs) ==
    LET kept == NewestFirst({f \in fs : ~Aged(f)})
    IN  IF Len(kept) <= RetentionCount THEN << >> ELSE SubSeq(kept, RetentionCount, Len(kept))

\* The files beyond the count, of those that are not too old.
Surplus(fs) == LET kept == NewestFirst({f \in fs : ~Aged(f)})
               IN  IF RetentionCount > 0
                   THEN SubSeq(kept, RetentionCount + 1, Len(kept)) ELSE << >>

\* Every listed file is asked for its time; one that is gone fails the pruning.
Stat(p) ==
    LET found == {f \in files : [stem |-> f.stem, gz |-> f.gz] \in run[p].listed}
    IN  /\ At(p, "stat")
        /\ IF Cardinality(found) < Cardinality(run[p].listed) THEN Exit(p)
           ELSE run' = [run EXCEPT ![p] = [@ EXCEPT !.phase = "prune", !.listed = {},
                          !.victims = NewestFirst({f \in found : Aged(f)}) \o Surplus(found)]]
        /\ UNCHANGED <<files, db, today, restores, begun, crashes, made, alone>>

Present(v) == {f \in files : f.stem = v.stem /\ f.gz = v.gz}

\* They are removed one by one, by name.
PruneOne(p) ==
    /\ At(p, "prune")
    /\ run[p].victims # << >>
    /\ LET gone == Present(Head(run[p].victims))
       IN  /\ files' = files \ gone
           /\ IF gone = {} THEN Exit(p)
              ELSE run' = [run EXCEPT ![p].victims = Tail(@)]
    /\ UNCHANGED <<db, today, restores, begun, crashes, made, alone>>

\* The run ends.
Done(p) == /\ At(p, "prune")
           /\ run[p].victims = << >>
           /\ Go(p, "idle")
           /\ UNCHANGED <<files, db, today, restores, begun, crashes, made, alone>>

-----------------------------------------------------------------------------
(* restore_database, for which the application is stopped.                 *)

\* Mutant: a truncated archive is unpacked as far as it goes.
BeginRestore_Truncated(p, f) ==
    /\ At(p, "idle")
    /\ restores + crashes < MaxEvents
    /\ restores' = restores + 1
    /\ run' = [run EXCEPT ![p] = [Idle EXCEPT !.phase = IF f.gz THEN "unpacked" ELSE "restore",
                                               !.stem = f.stem, !.state = f.state]]
    /\ alone' = IF Busy(p) THEN {} ELSE {p}
    /\ UNCHANGED <<files, db, today, begun, crashes, made>>

\* Those who have unpacked the same backup: the temporary file is named after it.
Sharing(p, f) ==
    {q \in Process \ {p} : f.gz /\ At(q, "unpacked") /\ run[q].stem = f.stem}

\* A compressed backup is unpacked to a temporary file first, which fails if it
\* is not whole; a raw one is read in place.
BeginRestore(p, f) ==
    /\ At(p, "idle")
    /\ restores + crashes < MaxEvents
    /\ restores' = restores + 1
    /\ LET source == [Idle EXCEPT !.phase = IF f.gz THEN "unpacked" ELSE "restore",
                                  !.stem = f.stem, !.state = f.state,
                                  !.content = IF Sharing(p, f) # {} THEN "shared" ELSE "open"]
       IN  run' = [q \in Process |->
                     CASE q \in Sharing(p, f) -> [run[q] EXCEPT !.content = "shared"]
                       [] q = p /\ ~(f.gz /\ f.content = "open") -> source
                       [] OTHER -> run[q]]
    /\ alone' = IF Busy(p) THEN {} ELSE {p}
    /\ UNCHANGED <<files, db, today, begun, crashes, made>>

\* The database takes the state of the source.  A raw source that is gone by now
\* is created, empty, by sqlite3.connect.  A temporary file that two share may be
\* whole, or empty again, or half written, or gone.
Restore(p) ==
    /\ run[p].phase \in {"unpacked", "restore"}
    /\ IF At(p, "restore") /\ Named(p, FALSE) = {}
       THEN Put(p, FALSE, "empty", 0) /\ db' = 0
       ELSE /\ db' \in IF At(p, "restore") THEN {(CHOOSE f \in Named(p, FALSE) : TRUE).state}
                       ELSE IF run[p].content = "shared" THEN {run[p].state, 0, db}
                       ELSE {run[p].state}
            /\ UNCHANGED files
    /\ Exit(p)
    /\ UNCHANGED <<today, restores, begun, crashes, made, alone>>

-----------------------------------------------------------------------------
\* A process dies; what it has written stays.
Crash(p) == /\ ~At(p, "idle")
            /\ restores + crashes < MaxEvents
            /\ crashes' = crashes + 1
            /\ Exit(p)
            /\ UNCHANGED <<files, db, today, restores, begun, made, alone>>

\* Days pass between runs, not within one.
NextDay == /\ today < MaxDay
           /\ \A p \in Process : At(p, "idle")
           /\ today' = today + 1
           /\ UNCHANGED <<files, run, db, restores, begun, crashes, made, alone>>

Step == \/ \E p \in Process :
              \/ \E compress \in BOOLEAN : Begin(p, compress)
              \/ OpenRaw(p) \/ CopyRaw(p) \/ OpenGz(p) \/ CloseGz(p) \/ DiscardRaw(p)
              \/ Size(p) \/ List(p) \/ Stat(p) \/ PruneOne(p) \/ Done(p)
              \/ \E f \in files : BeginRestore(p, f)
              \/ Restore(p) \/ Crash(p)
        \/ NextDay

\* A process has just ended its run, and ran alone.
Finished == \E p \in alone : At(p, "prune") /\ run[p].victims = << >> /\ ~(At(p, "prune"))'

Next == Step /\ tidy' = (Finished /\ crashes' = crashes)

Spec == Init /\ [][Next]_vars

-----------------------------------------------------------------------------
(* Properties.                                                             *)

\* Once a backup was finished there is one, whatever other runs do and where
\* they die, if the count leaves room for what may be newer and yet no use: a file
\* for each death and each restore, and for each other run all the files that are
\* being written when it makes up its list of what to remove, and are whole by the
\* time it removes them (prune_backups, 204-227).
SomeBackupSurvives ==
    LET others == Cardinality(Process) - 1
    IN  made # {} /\ (RetentionCount = 0
                       \/ RetentionCount > crashes + restores + others * others)
        => \E f \in files : Whole(f)

\* A run that was alone ends with no more files than the count, none older than
\* the limit, and the backup it made newest and whole, although it met the
\* remains of runs that failed (backup.py:204-227).
RetentionMet ==
    tidy => /\ RetentionCount > 0 => Cardinality(files) <= RetentionCount
            /\ \A f \in files : ~Aged(f)
            /\ \E f \in files : Whole(f) /\ \A g \in files : g.order <= f.order

\* Alone, it removes a file that is not too old only while more files than the
\* count are left (222-225).
PrunedInExcess ==
    \A p \in alone : At(p, "prune") /\ run'[p] # run[p] =>
       \A f \in files \ files' : Aged(f) \/ Cardinality(files') >= RetentionCount

NeverTooFew == [][PrunedInExcess]_vars

\* Restoring a compressed backup gives a state that was backed up, even if the
\* backup is pruned meanwhile (restore_database, 119-135), unless another restore
\* was about.  A raw one that is not finished, or is pruned between the check and
\* the connection, empties the database; so does a compressed one made of the file
\* which the latter leaves, and one that shares its temporary file.
RestoredWhole ==
    \A p \in Process : At(p, "unpacked") /\ run'[p] # run[p] /\ db' # db =>
       db' \in made \/ (db' = 0 /\ restores > 1)

CompressedRestoreIsWhole == [][RestoredWhole]_vars
=============================================================================
