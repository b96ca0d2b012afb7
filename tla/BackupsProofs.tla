---------------------------- MODULE BackupsProofs ----------------------------
(* Theorems about Backups, for any number of processes, runs, restores and  *)
(* deaths, any retention and any number of days.                            *)
EXTENDS Web, FiniteSetTheorems, SequenceTheorems, TLAPS

-----------------------------------------------------------------------------
(* The inductive invariant.                                                *)

\* The local variables of a process are a record of these fields.
IsRun(r) ==
    DOMAIN r = {"phase", "stem", "compress", "listed", "victims", "content", "state"}

Typed ==
    /\ DOMAIN run = Process
    /\ \A p \in Process : IsRun(run[p]) /\ run[p].stem \in Nat
    /\ restores \in Nat
    /\ begun \in Nat
    /\ \A f \in files : f.stem \in Nat /\ f.gz \in BOOLEAN

\* What is in a file that is not being written: a state that was backed up, or
\* nothing at all, if a restore created it.
Contains(content, state) ==
    \/ content = "whole" /\ state \in made
    \/ content = "empty" /\ state = 0 /\ restores >= 1

FilesSound == \A f \in files : f.content = "open" \/ Contains(f.content, f.state)

\* The phases in which a process writes or reads its raw copy.
Copying == {"open", "copy", "compress"}

\* A process that compresses has finished its raw copy, or lost it; what it then
\* packs, and what it has unpacked for a restore, is what such a file contains.
Sound(p) ==
    /\ run[p].phase = "unpacked" =>
          /\ run[p].state \in made \/ (run[p].state = 0 /\ restores > 1)
          /\ restores >= 1
          /\ run[p].content = "shared" => restores > 1
    /\ run[p].phase = "pack" => Contains(run[p].content, run[p].state)
    /\ run[p].phase = "restore" => restores >= 1
    /\ run[p].phase = "compress" => \A f \in Copies!Named(p, FALSE) : f.content # "open"
    /\ run[p].phase \in Copying => run[p].stem <= begun

RunsSound == \A p \in Process : Sound(p)

\* Two backups under way have names of their own.
Distinct ==
    \A p \in Process : \A q \in Process \ {p} :
       run[p].phase \in Copying /\ run[q].phase \in Copying => run[p].stem # run[q].stem

IInv == Typed /\ FilesSound /\ RunsSound /\ Distinct

-----------------------------------------------------------------------------
(* Steps of a process on its own variables.                                *)

LEMMA IdleFacts ==
    IsRun(Copies!Idle) /\ Copies!Idle.phase = "idle" /\ Copies!Idle.stem = 0
  BY DEF Copies!Idle, IsRun

LEMMA GoFacts ==
    ASSUME Typed, NEW p \in Process, NEW phase, Copies!Go(p, phase)
    PROVE  /\ DOMAIN run' = Process
           /\ IsRun(run'[p]) /\ run'[p].phase = phase /\ run'[p].stem = run[p].stem
           /\ \A q \in Process \ {p} : run'[q] = run[q]
  BY DEF Copies!Go, Typed, IsRun

LEMMA ExitFacts ==
    ASSUME Typed, NEW p \in Process, Copies!Exit(p)
    PROVE  /\ DOMAIN run' = Process
           /\ IsRun(run'[p]) /\ run'[p].phase = "idle" /\ run'[p].stem = 0
           /\ \A q \in Process \ {p} : run'[q] = run[q]
  BY IdleFacts DEF Copies!Exit, Typed

-----------------------------------------------------------------------------
(* A step of one process leaves the others sound.                          *)

LEMMA OtherSound ==
    ASSUME IInv, NEW q \in Process, run'[q] = run[q],
           made \subseteq made', restores' \in Nat, restores <= restores',
           begun' \in Nat, begun <= begun',
           \A f \in files' \ files : f.gz \/ f.content # "open" \/
              (run[q].phase = "compress" => f.stem # run[q].stem)
    PROVE  Sound(q)'
<1>1. run'[q] = run[q] /\ Sound(q) /\ run[q].stem \in Nat
  BY DEF IInv, RunsSound, Typed
<1>2. restores \in Nat /\ begun \in Nat
  BY DEF IInv, Typed
<1>3. run[q].phase = "unpacked" =>
         /\ run[q].state \in made' \/ (run[q].state = 0 /\ restores' > 1)
         /\ restores' >= 1
         /\ run[q].content = "shared" => restores' > 1
  BY <1>1, <1>2 DEF Sound
<1>4. run[q].phase = "pack" =>
         \/ run[q].content = "whole" /\ run[q].state \in made'
         \/ run[q].content = "empty" /\ run[q].state = 0 /\ restores' >= 1
  BY <1>1, <1>2 DEF Sound, Contains
<1>5. run[q].phase = "restore" => restores' >= 1
  BY <1>1, <1>2 DEF Sound
<1>6. run[q].phase \in Copying => run[q].stem <= begun'
  BY <1>1, <1>2 DEF Sound
<1>7. ASSUME run[q].phase = "compress", NEW f \in files', f.stem = run[q].stem, f.gz = FALSE
      PROVE  f.content # "open"
  <2>1. CASE f \in files
    BY <1>1, <1>7, <2>1 DEF Sound, Copies!Named
  <2>2. CASE f \notin files
    BY <1>7, <2>2
  <2> QED
    BY <2>1, <2>2
<1>8. run'[q].phase = "compress" => \A f \in Copies!Named(q, FALSE)' : f.content # "open"
  BY <1>1, <1>7 DEF Copies!Named
<1>9. run'[q].phase = "pack" => Contains(run[q].content, run[q].state)'
  BY <1>1, <1>4 DEF Contains
<1> QED
  BY <1>1, <1>3, <1>5, <1>6, <1>8, <1>9 DEF Sound

LEMMA OthersSound ==
    ASSUME IInv, NEW p \in Process,
           \A q \in Process \ {p} : run'[q] = run[q],
           made \subseteq made', restores' \in Nat, restores <= restores',
           begun' \in Nat, begun <= begun',
           \A f \in files' \ files : f.gz \/ f.content # "open" \/
              \A q \in Process \ {p} : run[q].phase = "compress" => f.stem # run[q].stem
    PROVE  \A q \in Process \ {p} : Sound(q)'
  BY OtherSound

LEMMA FilesKept ==
    ASSUME IInv, made \subseteq made', restores' \in Nat, restores <= restores',
           \A f \in files' : f \in files \/ f.content = "open" \/ Contains(f.content, f.state)'
    PROVE  FilesSound'
<1> SUFFICES ASSUME NEW f \in files'
             PROVE  f.content = "open" \/ Contains(f.content, f.state)'
  BY DEF FilesSound, Contains
<1>1. restores \in Nat
  BY DEF IInv, Typed
<1>2. CASE f \in files
  <2>1. f.content = "open" \/ Contains(f.content, f.state)
    BY <1>2 DEF IInv, FilesSound
  <2> QED
    BY <1>1, <2>1 DEF Contains
<1> QED
  BY <1>2

LEMMA DistinctKept ==
    ASSUME IInv, NEW p \in Process,
           \A q \in Process \ {p} : run'[q] = run[q],
           run'[p].phase \in Copying =>
              run[p].phase \in Copying /\ run'[p].stem = run[p].stem
    PROVE  Distinct'
<1> SUFFICES ASSUME NEW x \in Process, NEW y \in Process \ {x},
                    run'[x].phase \in Copying, run'[y].phase \in Copying
             PROVE  run'[x].stem # run'[y].stem
  BY DEF Distinct
<1>1. \A z \in {x, y} : run[z].phase \in Copying /\ run'[z].stem = run[z].stem
  OBVIOUS
<1> QED
  BY <1>1 DEF IInv, Distinct

-----------------------------------------------------------------------------
(* The steps.                                                              *)

\* A process goes on, or ends, without having written.
LEMMA Quiet ==
    ASSUME IInv, NEW p \in Process,
           DOMAIN run' = Process, IsRun(run'[p]), run'[p].stem \in Nat,
           \A q \in Process \ {p} : run'[q] = run[q],
           run'[p].phase \in {"idle", "list", "size", "stat", "prune", "discard"},
           files' \subseteq files, UNCHANGED <<restores, begun, made>>
    PROVE  IInv'
<1>1. restores' \in Nat /\ begun' \in Nat /\ restores <= restores' /\ begun <= begun'
  BY DEF IInv, Typed
<1>2. FilesSound'
  BY <1>1, FilesKept
<1>3. Distinct'
  BY DistinctKept DEF Copying
<1>4. \A q \in Process \ {p} : Sound(q)'
  BY <1>1, OthersSound
<1>5. Sound(p)'
  BY DEF Sound, Copying
<1>6. Typed'
  BY <1>1 DEF IInv, Typed
<1> QED
  BY <1>2, <1>3, <1>4, <1>5, <1>6 DEF IInv, RunsSound

LEMMA BeginStep ==
    ASSUME IInv, NEW p \in Process, NEW compress \in BOOLEAN, Copies!Begin(p, compress)
    PROVE  IInv'
<1>1. begun' = begun + 1 /\ UNCHANGED <<files, restores, made>>
  BY DEF Copies!Begin
<1>3. Typed /\ begun \in Nat /\ restores \in Nat
  BY DEF IInv, Typed
<1>4. /\ DOMAIN run' = Process /\ IsRun(run'[p])
      /\ run'[p].phase = "open" /\ run'[p].stem = begun + 1
      /\ \A q \in Process \ {p} : run'[q] = run[q]
  BY <1>3, IdleFacts DEF Copies!Begin, Typed, IsRun
<1>5. Typed'
  BY <1>1, <1>3, <1>4 DEF Typed
<1>6. FilesSound'
  BY <1>1, <1>3, FilesKept
<1>7. \A q \in Process \ {p} : Sound(q)'
  BY <1>1, <1>3, <1>4, OthersSound
<1>8. Sound(p)'
  BY <1>1, <1>3, <1>4 DEF Sound, Copying
<1>9. Distinct'
  <2>1. \A q \in Process : run[q].phase \in Copying => run[q].stem <= begun /\ run[q].stem \in Nat
    BY DEF IInv, RunsSound, Sound, Typed
  <2>2. \A q \in Process \ {p} : run'[q].phase \in Copying => run'[q].stem # run'[p].stem
    BY <1>3, <1>4, <2>1
  <2>3. \A x \in Process \ {p}, y \in Process \ {p} :
           x # y /\ run'[x].phase \in Copying /\ run'[y].phase \in Copying
              => run'[x].stem # run'[y].stem
    BY <1>4 DEF IInv, Distinct
  <2> QED
    BY <2>2, <2>3 DEF Distinct
<1> QED
  BY <1>5, <1>6, <1>7, <1>8, <1>9 DEF IInv, RunsSound

LEMMA OpenRawStep ==
    ASSUME IInv, NEW p \in Process, Copies!OpenRaw(p)
    PROVE  IInv'
<1>1. /\ run[p].phase = "open" /\ Copies!Put(p, FALSE, "open", 0) /\ Copies!Go(p, "copy")
      /\ UNCHANGED <<restores, begun, made>>
  BY DEF Copies!OpenRaw, Copies!At
<1>2. Typed /\ restores \in Nat /\ begun \in Nat /\ run[p].stem \in Nat
  BY DEF IInv, Typed
<1>3. /\ DOMAIN run' = Process /\ IsRun(run'[p])
      /\ run'[p].phase = "copy" /\ run'[p].stem = run[p].stem
      /\ \A q \in Process \ {p} : run'[q] = run[q]
  BY <1>1, <1>2, GoFacts
<1>4. \A f \in files' :
         f \in files \/ (f.stem = run[p].stem /\ f.gz = FALSE /\ f.content = "open")
  BY <1>1 DEF Copies!Put, Copies!Named
<1>5. Typed'
  BY <1>1, <1>2, <1>3, <1>4 DEF Typed
<1>6. FilesSound'
  BY <1>1, <1>2, <1>4, FilesKept
<1>7. \A q \in Process \ {p} : run[q].phase = "compress" => run[q].stem # run[p].stem
  BY <1>1 DEF IInv, Distinct, Copying
<1>8. \A q \in Process \ {p} : Sound(q)'
  BY <1>1, <1>2, <1>3, <1>4, <1>7, OthersSound
<1>9. Sound(p)'
  BY <1>1, <1>2, <1>3 DEF Sound, IInv, RunsSound, Copying
<1>10. Distinct'
  BY <1>1, <1>3, DistinctKept DEF Copying
<1> QED
  BY <1>5, <1>6, <1>8, <1>9, <1>10 DEF IInv, RunsSound

LEMMA CopyRawStep ==
    ASSUME IInv, NEW p \in Process, Copies!CopyRaw(p)
    PROVE  IInv'
<1>1. /\ run[p].phase = "copy"
      /\ Copies!Go(p, IF run[p].compress THEN "compress" ELSE "size")
      /\ UNCHANGED <<restores, begun>>
  BY DEF Copies!CopyRaw, Copies!At
<1>2. Typed /\ restores \in Nat /\ begun \in Nat /\ run[p].stem \in Nat
  BY DEF IInv, Typed
<1>3. /\ DOMAIN run' = Process /\ IsRun(run'[p])
      /\ run'[p].phase \in {"compress", "size"} /\ run'[p].stem = run[p].stem
      /\ \A q \in Process \ {p} : run'[q] = run[q]
  BY <1>1, <1>2, GoFacts
<1>4. /\ made \subseteq made'
      /\ \A f \in files' :
            \/ f \in files
            \/ f.stem = run[p].stem /\ f.gz = FALSE /\ f.content = "whole" /\ f.state \in made'
      /\ \A f \in files' : f.stem = run[p].stem /\ f.gz = FALSE => f.content # "open"
  <2>1. CASE \E f \in Copies!Named(p, FALSE) : f.content = "open"
    <3>1. Copies!Put(p, FALSE, "whole", db) /\ made' = made \cup {db}
      BY <2>1 DEF Copies!CopyRaw
    <3>2. \A f \in files' :
             \/ f \in files \ Copies!Named(p, FALSE)
             \/ f.stem = run[p].stem /\ f.gz = FALSE /\ f.content = "whole" /\ f.state = db
      BY <3>1 DEF Copies!Put, Copies!Named
    <3> QED
      BY <3>1, <3>2 DEF Copies!Named
  <2>2. CASE ~ \E f \in Copies!Named(p, FALSE) : f.content = "open"
    BY <2>2 DEF Copies!CopyRaw, Copies!Named
  <2> QED
    BY <2>1, <2>2
<1>5. Typed'
  BY <1>1, <1>2, <1>3, <1>4 DEF Typed
<1>6. FilesSound'
  BY <1>1, <1>2, <1>4, FilesKept DEF Contains
<1>7. \A q \in Process \ {p} : Sound(q)'
  BY <1>1, <1>2, <1>3, <1>4, OthersSound
<1>8. Sound(p)'
  <2>1. \A f \in Copies!Named(p, FALSE)' : f.content # "open"
    BY <1>3, <1>4 DEF Copies!Named
  <2>2. run'[p].stem <= begun'
    BY <1>1, <1>3 DEF IInv, RunsSound, Sound, Copying
  <2> QED
    BY <1>3, <2>1, <2>2 DEF Sound
<1>9. Distinct'
  BY <1>1, <1>3, DistinctKept DEF Copying
<1> QED
  BY <1>5, <1>6, <1>7, <1>8, <1>9 DEF IInv, RunsSound

LEMMA OpenGzStep ==
    ASSUME IInv, NEW p \in Process, Copies!OpenGz(p)
    PROVE  IInv'
<1>1. /\ run[p].phase = "compress"
      /\ UNCHANGED <<restores, begun, made>>
  BY DEF Copies!OpenGz, Copies!At
<1>2. Typed /\ restores \in Nat /\ begun \in Nat /\ run[p].stem \in Nat
  BY DEF IInv, Typed
<1>3. CASE Copies!Named(p, FALSE) = {}
  <2>1. Copies!Exit(p) /\ files' = files
    BY <1>3 DEF Copies!OpenGz
  <2> QED
    BY <1>1, <1>2, <2>1, ExitFacts, Quiet
<1>4. CASE Copies!Named(p, FALSE) # {}
  <2>1. PICK raw : /\ raw = CHOOSE f \in Copies!Named(p, FALSE) : TRUE
                   /\ Copies!Put(p, TRUE, "open", 0)
                   /\ run' = [run EXCEPT ![p] = [@ EXCEPT !.phase = "pack",
                                                          !.content = raw.content,
                                                          !.state = raw.state]]
    BY <1>4 DEF Copies!OpenGz
  <2>2. raw \in Copies!Named(p, FALSE)
    BY <1>4, <2>1
  <2>3. Contains(raw.content, raw.state)
    BY <1>1, <2>2 DEF IInv, RunsSound, Sound, FilesSound, Copies!Named
  <2>7. /\ DOMAIN run' = Process /\ IsRun(run'[p])
        /\ run'[p].phase = "pack" /\ run'[p].stem = run[p].stem
        /\ run'[p].content = raw.content /\ run'[p].state = raw.state
        /\ \A q \in Process \ {p} : run'[q] = run[q]
    BY <1>2, <2>1 DEF Typed, IsRun
  <2>8. \A f \in files' :
           f \in files \/ (f.stem = run[p].stem /\ f.gz = TRUE /\ f.content = "open")
    BY <2>1 DEF Copies!Put, Copies!Named
  <2>9. Typed'
    BY <1>1, <1>2, <2>7, <2>8 DEF Typed
  <2>10. FilesSound'
    BY <1>1, <1>2, <2>8, FilesKept
  <2>11. \A q \in Process \ {p} : Sound(q)'
    BY <1>1, <1>2, <2>7, <2>8, OthersSound
  <2>12. Sound(p)'
    BY <1>1, <2>3, <2>7 DEF Sound, Contains, Copying
  <2>13. Distinct'
    BY <2>7, DistinctKept DEF Copying
  <2> QED
    BY <2>9, <2>10, <2>11, <2>12, <2>13 DEF IInv, RunsSound
<1> QED
  BY <1>3, <1>4

LEMMA CloseGzStep ==
    ASSUME IInv, NEW p \in Process, Copies!CloseGz(p)
    PROVE  IInv'
<1>1. /\ run[p].phase = "pack" /\ Copies!Go(p, "discard")
      /\ UNCHANGED <<restores, begun, made>>
  BY DEF Copies!CloseGz, Copies!At
<1>2. Typed /\ restores \in Nat /\ begun \in Nat /\ run[p].stem \in Nat
  BY DEF IInv, Typed
<1>3. /\ DOMAIN run' = Process /\ IsRun(run'[p])
      /\ run'[p].phase = "discard" /\ run'[p].stem = run[p].stem
      /\ \A q \in Process \ {p} : run'[q] = run[q]
  BY <1>1, <1>2, GoFacts
<1>4. Contains(run[p].content, run[p].state)
  BY <1>1 DEF IInv, RunsSound, Sound
<1>5. \A f \in files' :
         f \in files \/ (f.stem = run[p].stem /\ f.gz = TRUE /\ Contains(f.content, f.state))
  <2>1. CASE Copies!Named(p, TRUE) = {}
    BY <2>1 DEF Copies!CloseGz
  <2>2. CASE Copies!Named(p, TRUE) # {}
    <3>1. Copies!Put(p, TRUE, run[p].content, run[p].state)
      BY <2>2 DEF Copies!CloseGz
    <3>2. \A f \in files' :
             f \in files \/ (f.stem = run[p].stem /\ f.gz = TRUE /\ f.content = run[p].content
                               /\ f.state = run[p].state)
      BY <3>1 DEF Copies!Put, Copies!Named
    <3> QED
      BY <1>4, <3>2 DEF Contains
  <2> QED
    BY <2>1, <2>2
<1>6. Typed'
  BY <1>1, <1>2, <1>3, <1>5 DEF Typed
<1>7. FilesSound'
  BY <1>1, <1>2, <1>5, FilesKept DEF Contains
<1>8. \A q \in Process \ {p} : Sound(q)'
  BY <1>1, <1>2, <1>3, <1>5, OthersSound
<1>9. Sound(p)'
  BY <1>3 DEF Sound, Copying
<1>10. Distinct'
  BY <1>3, DistinctKept DEF Copying
<1> QED
  BY <1>6, <1>7, <1>8, <1>9, <1>10 DEF IInv, RunsSound

\* The steps that end a backup, and those of the retention.
LEMMA LateSteps ==
    ASSUME IInv, NEW p \in Process,
           \/ Copies!DiscardRaw(p) \/ Copies!Size(p) \/ Copies!List(p) \/ Copies!Stat(p)
           \/ Copies!PruneOne(p) \/ Copies!Done(p) \/ Copies!Crash(p)
    PROVE  IInv'
<1>1. Typed /\ run[p].stem \in Nat /\ IsRun(run[p]) /\ DOMAIN run = Process
  BY DEF IInv, Typed
<1>2. files' \subseteq files /\ UNCHANGED <<restores, begun, made>>
  BY DEF Copies!DiscardRaw, Copies!Size, Copies!List, Copies!Stat, Copies!PruneOne,
     Copies!Done, Copies!Crash
<1>3. CASE Copies!Exit(p)
  BY <1>1, <1>2, <1>3, ExitFacts, Quiet
<1>4. CASE \E phase \in {"idle", "list", "size"} : Copies!Go(p, phase)
  <2>1. PICK phase \in {"idle", "list", "size"} : Copies!Go(p, phase)
    BY <1>4
  <2> QED
    BY <1>1, <1>2, <2>1, GoFacts, Quiet
<1>6. CASE Copies!List(p)
  <2>1. PICK listed : run' = [run EXCEPT ![p] = [@ EXCEPT !.phase = "stat", !.listed = listed]]
    BY <1>6 DEF Copies!List
  <2>2. /\ DOMAIN run' = Process /\ IsRun(run'[p])
        /\ run'[p].phase = "stat" /\ run'[p].stem = run[p].stem
        /\ \A q \in Process \ {p} : run'[q] = run[q]
    BY <1>1, <2>1 DEF IsRun
  <2> QED
    BY <1>1, <1>2, <2>2, Quiet
<1>7. CASE Copies!Stat(p)
  <2>1. CASE Copies!Exit(p)
    BY <1>3, <2>1
  <2>2. CASE ~Copies!Exit(p)
    <3>1. PICK victims : run' = [run EXCEPT ![p] = [@ EXCEPT !.phase = "prune", !.listed = {},
                                                             !.victims = victims]]
      BY <1>7, <2>2 DEF Copies!Stat
    <3>2. /\ DOMAIN run' = Process /\ IsRun(run'[p])
          /\ run'[p].phase = "prune" /\ run'[p].stem = run[p].stem
          /\ \A q \in Process \ {p} : run'[q] = run[q]
      BY <1>1, <3>1 DEF IsRun
    <3> QED
      BY <1>1, <1>2, <3>2, Quiet
  <2> QED
    BY <2>1, <2>2
<1>8. CASE Copies!PruneOne(p)
  <2>1. /\ run[p].phase = "prune"
        /\ Copies!Exit(p) \/ run' = [run EXCEPT ![p].victims = Tail(@)]
    BY <1>8 DEF Copies!PruneOne, Copies!At
  <2>2. CASE run' = [run EXCEPT ![p].victims = Tail(@)]
    <3>1. /\ DOMAIN run' = Process /\ IsRun(run'[p])
          /\ run'[p].phase = "prune" /\ run'[p].stem = run[p].stem
          /\ \A q \in Process \ {p} : run'[q] = run[q]
      BY <1>1, <2>1, <2>2 DEF IsRun
    <3> QED
      BY <1>1, <1>2, <3>1, Quiet
  <2> QED
    BY <1>3, <2>1, <2>2
<1>9. CASE Copies!DiscardRaw(p)
  BY <1>3, <1>4, <1>9 DEF Copies!DiscardRaw
<1>10. CASE Copies!Size(p)
  BY <1>3, <1>4, <1>10 DEF Copies!Size
<1>11. CASE Copies!Done(p)
  BY <1>4, <1>11 DEF Copies!Done
<1>12. CASE Copies!Crash(p)
  BY <1>3, <1>12 DEF Copies!Crash
<1> QED
  BY <1>6, <1>7, <1>8, <1>9, <1>10, <1>11, <1>12

LEMMA BeginRestoreStep ==
    ASSUME IInv, NEW p \in Process, NEW f \in files, Copies!BeginRestore(p, f)
    PROVE  IInv'
<1>1. /\ restores' = restores + 1 /\ UNCHANGED <<files, begun, made>>
      /\ run[p].phase = "idle"
  BY DEF Copies!BeginRestore, Copies!At
<1>2. /\ Typed /\ restores \in Nat /\ begun \in Nat /\ run[p].stem \in Nat
      /\ IsRun(run[p]) /\ DOMAIN run = Process
      /\ f.stem \in Nat /\ f.gz \in BOOLEAN
  BY DEF IInv, Typed
<1>3. DOMAIN run' = Process
  BY DEF Copies!BeginRestore
<1>4. ASSUME NEW q \in Process
      PROVE  \/ run'[q] = run[q]
             \/ /\ run[q].phase = "unpacked" /\ q # p
                /\ run'[q] = [run[q] EXCEPT !.content = "shared"]
             \/ /\ q = p /\ ~(f.gz /\ f.content = "open")
                /\ run'[q] = [Copies!Idle EXCEPT
                      !.phase = IF f.gz THEN "unpacked" ELSE "restore",
                      !.stem = f.stem, !.state = f.state,
                      !.content = IF Copies!Sharing(p, f) # {} THEN "shared" ELSE "open"]
  BY DEF Copies!BeginRestore, Copies!Sharing, Copies!At
\* What the other processes keep.
<1>5. ASSUME NEW q \in Process
      PROVE  /\ IsRun(run'[q]) /\ run'[q].stem \in Nat
             /\ run'[q].phase \in Copying => run'[q] = run[q]
  <2>1. IsRun(run[q]) /\ run[q].stem \in Nat
    BY <1>2 DEF Typed
  <2>2. CASE run'[q] = run[q]
    BY <2>1, <2>2
  <2>3. CASE run[q].phase = "unpacked" /\ run'[q] = [run[q] EXCEPT !.content = "shared"]
    BY <2>1, <2>3 DEF IsRun, Copying
  <2>4. CASE q = p /\ run'[q] = [Copies!Idle EXCEPT
                      !.phase = IF f.gz THEN "unpacked" ELSE "restore",
                      !.stem = f.stem, !.state = f.state,
                      !.content = IF Copies!Sharing(p, f) # {} THEN "shared" ELSE "open"]
    BY <1>2, <2>4, IdleFacts DEF IsRun, Copying
  <2> QED
    BY <1>4, <2>2, <2>3, <2>4
<1>6. Typed'
  BY <1>1, <1>2, <1>3, <1>5 DEF Typed
<1>7. FilesSound'
  BY <1>1, <1>2, FilesKept
<1>8. ASSUME NEW q \in Process
      PROVE  Sound(q)'
  <2>1. CASE run'[q] = run[q]
    BY <1>1, <1>2, <2>1, OtherSound
  <2>2. CASE run[q].phase = "unpacked" /\ run'[q] = [run[q] EXCEPT !.content = "shared"]
    <3>1. /\ run'[q].phase = "unpacked" /\ run'[q].state = run[q].state
      BY <1>2, <2>2 DEF Typed, IsRun
    <3>2. /\ run[q].state \in made \/ (run[q].state = 0 /\ restores > 1)
          /\ restores >= 1
      BY <2>2 DEF IInv, RunsSound, Sound
    <3> QED
      BY <1>1, <1>2, <3>1, <3>2 DEF Sound, Copying
  <2>3. CASE /\ q = p /\ ~(f.gz /\ f.content = "open")
             /\ run'[q] = [Copies!Idle EXCEPT
                      !.phase = IF f.gz THEN "unpacked" ELSE "restore",
                      !.stem = f.stem, !.state = f.state,
                      !.content = IF Copies!Sharing(p, f) # {} THEN "shared" ELSE "open"]
    <3>1. f.gz => Contains(f.content, f.state)
      BY <2>3 DEF IInv, FilesSound
    <3>2. f.gz => f.state \in made' \/ (f.state = 0 /\ restores' > 1)
      BY <1>1, <1>2, <3>1 DEF Contains
    <3>3. Copies!Sharing(p, f) # {} => restores >= 1
      BY DEF Copies!Sharing, Copies!At, IInv, RunsSound, Sound
    <3>4. restores' >= 1 /\ (Copies!Sharing(p, f) # {} => restores' > 1)
      BY <1>1, <1>2, <3>3
    <3>5. /\ run'[q].phase = (IF f.gz THEN "unpacked" ELSE "restore")
          /\ run'[q].state = f.state
          /\ run'[q].content = "shared" => Copies!Sharing(p, f) # {}
      BY <2>3, IdleFacts DEF IsRun
    <3> QED
      BY <3>2, <3>4, <3>5 DEF Sound, Copying
  <2> QED
    BY <1>4, <2>1, <2>2, <2>3
<1>9. Distinct'
  BY <1>5 DEF IInv, Distinct
<1> QED
  BY <1>6, <1>7, <1>8, <1>9 DEF IInv, RunsSound

LEMMA RestoreStep ==
    ASSUME IInv, NEW p \in Process, Copies!Restore(p)
    PROVE  IInv'
<1>1. Copies!Exit(p) /\ UNCHANGED <<restores, begun, made>>
  BY DEF Copies!Restore
<1>2. Typed /\ restores \in Nat /\ begun \in Nat /\ run[p].stem \in Nat
  BY DEF IInv, Typed
<1>3. /\ DOMAIN run' = Process /\ IsRun(run'[p])
      /\ run'[p].phase = "idle" /\ run'[p].stem = 0
      /\ \A q \in Process \ {p} : run'[q] = run[q]
  BY <1>1, <1>2, ExitFacts
<1>4. CASE files' = files
  BY <1>1, <1>2, <1>3, <1>4, Quiet
<1>5. CASE run[p].phase = "restore" /\ Copies!Put(p, FALSE, "empty", 0)
  <2>1. restores >= 1
    BY <1>5 DEF IInv, RunsSound, Sound
  <2>2. \A f \in files' :
           \/ f \in files
           \/ f.stem = run[p].stem /\ f.gz = FALSE /\ f.content = "empty" /\ f.state = 0
    BY <1>5 DEF Copies!Put, Copies!Named
  <2>3. Typed'
    <3>1. \A f \in files' : f.stem \in Nat /\ f.gz \in BOOLEAN
      BY <1>2, <2>2 DEF Typed
    <3> QED
      BY <1>1, <1>2, <1>3, <3>1 DEF Typed
  <2>4. FilesSound'
    BY <1>1, <1>2, <2>1, <2>2, FilesKept DEF Contains
  <2>5. \A q \in Process \ {p} : Sound(q)'
    BY <1>1, <1>2, <1>3, <2>2, OthersSound
  <2>6. Sound(p)'
    BY <1>3 DEF Sound, Copying
  <2>7. Distinct'
    BY <1>3, DistinctKept DEF Copying
  <2> QED
    BY <2>3, <2>4, <2>5, <2>6, <2>7 DEF IInv, RunsSound
<1> QED
  BY <1>4, <1>5 DEF Copies!Restore, Copies!At, Copies!Named

LEMMA Frame ==
    ASSUME IInv, UNCHANGED <<files, run, restores, begun, made>>
    PROVE  IInv'
  BY DEF IInv, Typed, FilesSound, Contains, RunsSound, Sound, Copies!Named, Distinct

LEMMA StepIInv ==
    ASSUME IInv, [Copies!Next]_Copies!vars
    PROVE  IInv'
<1>1. CASE UNCHANGED Copies!vars
  BY <1>1, Frame DEF Copies!vars
<1>2. CASE Copies!NextDay
  BY <1>2, Frame DEF Copies!NextDay
<1>3. ASSUME NEW p \in Process, NEW compress \in BOOLEAN, Copies!Begin(p, compress)
      PROVE  IInv'
  BY <1>3, BeginStep
<1>4. ASSUME NEW p \in Process,
             \/ Copies!OpenRaw(p) \/ Copies!CopyRaw(p) \/ Copies!OpenGz(p) \/ Copies!CloseGz(p)
             \/ Copies!DiscardRaw(p) \/ Copies!Size(p) \/ Copies!List(p) \/ Copies!Stat(p)
             \/ Copies!PruneOne(p) \/ Copies!Done(p) \/ Copies!Restore(p) \/ Copies!Crash(p)
      PROVE  IInv'
  BY <1>4, OpenRawStep, CopyRawStep, OpenGzStep, CloseGzStep, LateSteps, RestoreStep
<1>5. ASSUME NEW p \in Process, NEW f \in files, Copies!BeginRestore(p, f)
      PROVE  IInv'
  BY <1>5, BeginRestoreStep
<1> QED
  BY <1>1, <1>2, <1>3, <1>4, <1>5 DEF Copies!Next, Copies!Step

LEMMA InitIInv == Copies!Init => IInv
<1> SUFFICES ASSUME Copies!Init
             PROVE  IInv
  OBVIOUS
<1>1. run = [p \in Process |-> Copies!Idle] /\ files = {} /\ restores = 0 /\ begun = 0
  BY DEF Copies!Init
<1>2. \A p \in Process : run[p] = Copies!Idle
  BY <1>1
<1>3. DOMAIN run = Process
  BY <1>1
<1>4. Typed
  BY <1>1, <1>2, <1>3, IdleFacts DEF Typed
<1>5. RunsSound /\ Distinct
  BY <1>1, <1>2, IdleFacts DEF RunsSound, Sound, Distinct, Copying
<1>6. FilesSound
  BY <1>1 DEF FilesSound
<1> QED
  BY <1>4, <1>5, <1>6 DEF IInv

-----------------------------------------------------------------------------
(* The theorems.                                                           *)

\* The part of Web that Backups is.
LEMMA CopiesStart == Init /\ part = "backups" => Copies!Init
  BY DEF Init

LEMMA CopiesStep ==
    ASSUME [Next]_allVars, part = "backups"
    PROVE  part' = "backups" /\ [Copies!Next]_Copies!vars
  BY DEF Next, allVars, backupVars, Copies!vars

\* The inductive invariant holds in every behaviour of backups and restores.
THEOREM BackupsInvariant == Spec => [](part = "backups" => IInv)
<1> DEFINE Inv == part = "backups" => IInv
<1>1. Init => Inv
  BY InitIInv, CopiesStart
<1>2. Inv /\ [Next]_allVars => Inv'
  <2>1. [Next]_allVars => part' = part
    BY DEF Next, allVars
  <2> QED
    BY <2>1, StepIInv, CopiesStep
<1> QED
  BY <1>1, <1>2, PTL DEF Spec

\* Restoring a compressed backup never gives the database anything but a state
\* that was backed up, unless there was another restore (restore_database).
THEOREM CompressedRestoreHolds == Spec => CompressedRestoreIsWhole
<1>1. IInv /\ [Copies!Next]_Copies!vars => UNCHANGED backupVars \/ Copies!RestoredWhole
  <2> SUFFICES ASSUME IInv, Copies!Next, NEW p \in Process,
                      Copies!At(p, "unpacked"), run'[p] # run[p], db' # db
               PROVE  db' \in made \/ (db' = 0 /\ restores > 1)
    BY DEF Copies!RestoredWhole, Copies!vars, backupVars
  <2>1. Typed /\ Sound(p) /\ run[p].phase = "unpacked"
    BY DEF IInv, RunsSound, Copies!At
  <2>2. PICK q \in Process : Copies!Restore(q)
    BY DEF Copies!Next, Copies!Step, Copies!Begin, Copies!OpenRaw, Copies!CopyRaw,
       Copies!OpenGz, Copies!CloseGz, Copies!DiscardRaw, Copies!Size, Copies!List,
       Copies!Stat, Copies!PruneOne, Copies!Done, Copies!BeginRestore, Copies!Crash,
       Copies!NextDay
  <2>3. q = p
    BY <2>1, <2>2, ExitFacts DEF Copies!Restore
  <2>4. \/ db' = run[p].state
        \/ run[p].content = "shared" /\ db' = 0
    BY <2>1, <2>2, <2>3 DEF Copies!Restore, Copies!At
  <2> QED
    BY <2>1, <2>4 DEF Sound
<1>2. (part = "backups" => IInv) /\ [Next]_allVars
        => [part = "backups" => Copies!RestoredWhole]_backupVars
  BY <1>1, CopiesStep
<1> QED
  BY <1>2, BackupsInvariant, PTL DEF Spec, CompressedRestoreIsWhole

-----------------------------------------------------------------------------
(* A process that runs alone.  Its own backup is the newest file as soon as  *)
(* it is finished, what it has listed is still there, and what it has still  *)
(* to remove is all that is too old, and the surplus.                       *)

\* Files have names of their own, and were modified one after the other.
Ledger ==
    /\ IsFiniteSet(files) /\ today \in Nat /\ crashes \in Nat
    /\ \A f \in files : f.stem <= begun /\ f.order \in Nat
    /\ \A f, g \in files : /\ f.stem = g.stem /\ f.gz = g.gz => f = g
                           /\ f.order = g.order => f = g
    /\ \A p \in Process : run[p].stem <= begun /\ run[p].compress \in BOOLEAN

\* A whole file of today that is newer than all others.
Fresh(f) == /\ f.content = "whole" /\ f.day = today
            /\ \A g \in files : g.order <= f.order

NameOf(f) == [stem |-> f.stem, gz |-> f.gz]

Own(p) == Copies!Named(p, run[p].compress)

Making(p) ==
    /\ run[p].phase = "open" => \A f \in files : f.stem # run[p].stem
    /\ run[p].phase = "copy" => \E f \in Copies!Named(p, FALSE) : f.content = "open"
    /\ run[p].phase = "compress" => run[p].compress /\ \A f \in Copies!Named(p, FALSE) : Fresh(f)
    /\ run[p].phase = "pack" => run[p].compress /\ run[p].content = "whole"
    /\ run[p].phase = "discard" => run[p].compress
    /\ run[p].phase \in {"discard", "size", "list", "stat", "prune"} => \A f \in Own(p) : Fresh(f)
    /\ run[p].phase \in {"list", "stat", "prune"} => Own(p) # {}
    /\ run[p].phase = "stat" => run[p].listed = {NameOf(f) : f \in files}

\* Files that are removed, each once, so that the rest of them will do: all that are
\* too old, and of the others those beyond the count, but none of the process's own.
WellChosen(victims, own, rest) ==
    /\ victims \in Seq(files)
    /\ \A i, j \in 1 .. Len(victims) : victims[i] = victims[j] => i = j
    /\ \A i \in 1 .. Len(victims) : victims[i] \notin own
    /\ \A f \in files : Copies!Aged(f) => \E i \in 1 .. Len(victims) : victims[i] = f
    /\ RetentionCount > 0 => rest <= RetentionCount
    /\ \A i \in 1 .. Len(victims) : Copies!Aged(victims[i]) \/ rest >= RetentionCount

Pruning(p) ==
    WellChosen(run[p].victims, Own(p), Cardinality(files) - Len(run[p].victims))

Lonely ==
    /\ alone \subseteq Process
    /\ \A p, q \in alone : p = q
    /\ \A p \in alone : /\ \A q \in Process \ {p} : run[q].phase = "idle"
                        /\ Making(p)
                        /\ run[p].phase = "prune" => Pruning(p)

AloneInv == Ledger /\ Lonely

-----------------------------------------------------------------------------
(* The order of the files.                                                 *)

LEMMA CopiesCardinality == \A S : Copies!Cardinality(S) = Cardinality(S)
BY DEF Copies!Cardinality, Cardinality

\* The place of a file among others: how many are no older.
NoOlder(fs, f) == {g \in fs : g.order >= f.order}
Rank(fs, f)    == Cardinality(NoOlder(fs, f))

Ordered(fs) == /\ IsFiniteSet(fs)
               /\ \A f \in fs : f.order \in Nat
               /\ \A f, g \in fs : f.order = g.order => f = g

\* The places of n files are the numbers from 1 to n, each once.
LEMMA Ranks ==
    ASSUME NEW fs, Ordered(fs)
    PROVE  /\ Cardinality(fs) \in Nat
           /\ \A f \in fs : Rank(fs, f) \in 1 .. Cardinality(fs)
           /\ \A f, g \in fs : Rank(fs, f) = Rank(fs, g) => f = g
           /\ \A i \in 1 .. Cardinality(fs) : \E f \in fs : Rank(fs, f) = i
           /\ \A f \in fs : Rank(fs, f) = 1 <=> \A g \in fs : g.order <= f.order
<1> USE DEF Ordered
<1>1. Cardinality(fs) \in Nat
  BY FS_CardinalityType
<1>2. ASSUME NEW f \in fs
      PROVE  /\ IsFiniteSet(NoOlder(fs, f)) /\ f \in NoOlder(fs, f)
             /\ Rank(fs, f) \in 1 .. Cardinality(fs)
  <2>1. NoOlder(fs, f) \in SUBSET fs /\ f \in NoOlder(fs, f)
    BY DEF NoOlder
  <2>2. /\ IsFiniteSet(NoOlder(fs, f)) /\ Cardinality(NoOlder(fs, f)) <= Cardinality(fs)
    BY <2>1, FS_Subset
  <2>3. Cardinality(NoOlder(fs, f)) \in Nat /\ Cardinality(NoOlder(fs, f)) # 0
    BY <2>1, <2>2, FS_CardinalityType, FS_EmptySet
  <2> QED
    BY <1>1, <2>1, <2>2, <2>3 DEF Rank
<1>3. ASSUME NEW f \in fs, NEW g \in fs, f.order < g.order
      PROVE  Rank(fs, f) # Rank(fs, g)
  <2>1. NoOlder(fs, g) \in SUBSET NoOlder(fs, f) /\ f \notin NoOlder(fs, g)
    BY <1>3 DEF NoOlder
  <2> QED
    BY <1>2, <2>1, FS_Subset DEF Rank
<1>4. \A f, g \in fs : Rank(fs, f) = Rank(fs, g) => f = g
  <2> SUFFICES ASSUME NEW f \in fs, NEW g \in fs, Rank(fs, f) = Rank(fs, g)
               PROVE  f.order = g.order
    OBVIOUS
  <2> QED
    BY <1>3
<1>5. \A i \in 1 .. Cardinality(fs) : \E f \in fs : Rank(fs, f) = i
  <2> SUFFICES ASSUME NEW i \in 1 .. Cardinality(fs), \A f \in fs : Rank(fs, f) # i
               PROVE  FALSE
    OBVIOUS
  <2>1. PICK n : n = Cardinality(fs) /\ n \in Nat
    BY <1>1
  <2>2. PICK places : places = (1 .. n) \ {i}
    OBVIOUS
  <2>3. IsFiniteSet(1 .. n) /\ Cardinality(1 .. n) = n /\ i \in 1 .. n
    BY <2>1, FS_Interval
  <2>4. IsFiniteSet(places) /\ Cardinality(places) < n
    <3>1. PICK all : all = 1 .. n
      OBVIOUS
    <3>2. IsFiniteSet(all \ {i}) /\ Cardinality(all \ {i}) = n - 1
      BY <2>3, <3>1, FS_RemoveElement
    <3> QED
      BY <2>1, <2>2, <3>1, <3>2
  <2>5. PICK place : place = [f \in fs |-> Rank(fs, f)]
    OBVIOUS
  <2>6. place \in [fs -> places]
    BY <1>2, <2>1, <2>2, <2>5
  <2>7. \E f, g \in fs : f # g /\ place[f] = place[g]
    BY <2>1, <2>4, <2>6, FS_PigeonHole
  <2> QED
    BY <1>4, <2>5, <2>7
<1>6. ASSUME NEW f \in fs
      PROVE  Rank(fs, f) = 1 <=> \A g \in fs : g.order <= f.order
  <2>1. Rank(fs, f) = 1 <=> \E x : NoOlder(fs, f) = {x}
    BY <1>2, FS_Singleton DEF Rank
  <2>2. ASSUME NEW x, NoOlder(fs, f) = {x}
        PROVE  \A g \in fs : g.order <= f.order
    <3>1. x = f
      BY <1>2, <2>2
    <3> QED
      BY <2>2, <3>1 DEF NoOlder
  <2>3. ASSUME \A g \in fs : g.order <= f.order
        PROVE  NoOlder(fs, f) = {f}
    BY <2>3 DEF NoOlder
  <2> QED
    BY <2>1, <2>2, <2>3
<1> QED
  BY <1>1, <1>2, <1>4, <1>5, <1>6

\* Sorting by time lists every file once, the newest first.
LEMMA Sorted ==
    ASSUME NEW fs, Ordered(fs), NEW sorted, sorted = Copies!NewestFirst(fs)
    PROVE  /\ Cardinality(fs) \in Nat
           /\ sorted \in Seq(fs) /\ Len(sorted) = Cardinality(fs)
           /\ \A i, j \in 1 .. Len(sorted) : sorted[i] = sorted[j] => i = j
           /\ \A f \in fs : \E i \in 1 .. Len(sorted) : sorted[i] = f
           /\ \A i \in 1 .. Len(sorted) : (\A g \in fs : g.order <= sorted[i].order) => i = 1
<1>1. Cardinality(fs) \in Nat /\ \A f \in fs : Copies!Cardinality({g \in fs : g.order >= f.order}) = Rank(fs, f)
  BY Ranks, CopiesCardinality DEF Rank, NoOlder
<1>2. /\ sorted = [i \in 1 .. Cardinality(fs) |-> sorted[i]]
      /\ \A i \in 1 .. Cardinality(fs) : sorted[i] \in fs /\ Rank(fs, sorted[i]) = i
  <2>1. sorted = [i \in 1 .. Cardinality(fs) |->
                    CHOOSE f \in fs : Copies!Cardinality({g \in fs : g.order >= f.order}) = i]
    BY CopiesCardinality DEF Copies!NewestFirst
  <2> SUFFICES ASSUME NEW i \in 1 .. Cardinality(fs)
               PROVE  sorted[i] \in fs /\ Rank(fs, sorted[i]) = i
    BY <2>1
  <2>2. \E f \in fs : Copies!Cardinality({g \in fs : g.order >= f.order}) = i
    BY <1>1, Ranks
  <2>3. /\ sorted[i] \in fs
        /\ Copies!Cardinality({g \in fs : g.order >= sorted[i].order}) = i
    BY <2>1, <2>2
  <2> QED
    BY <1>1, <2>3
<1>3. sorted \in Seq(fs) /\ Len(sorted) = Cardinality(fs)
  BY <1>1, <1>2
<1>4. \A f \in fs : \E i \in 1 .. Cardinality(fs) : sorted[i] = f
  BY <1>2, Ranks
<1>5. \A i \in 1 .. Cardinality(fs) : (\A g \in fs : g.order <= sorted[i].order) => i = 1
  BY <1>2, Ranks
<1> QED
  BY <1>1, <1>2, <1>3, <1>4, <1>5

LEMMA LatestFacts ==
    ASSUME Ledger
    PROVE  Copies!Latest \in Nat /\ \A f \in files : f.order <= Copies!Latest
<1>1. Ordered(files)
  BY DEF Ledger, Ordered
<1>2. PICK orders : orders = {f.order : f \in files} \cup {0}
  OBVIOUS
<1>3. Copies!Latest = CHOOSE x \in orders : \A y \in orders : x >= y
  BY <1>2 DEF Copies!Latest, Copies!Max
<1>4. \E x \in orders : \A y \in orders : x >= y
  <2>1. CASE files = {}
    BY <1>2, <2>1
  <2>2. CASE files # {}
    <3>1. Cardinality(files) \in Nat /\ Cardinality(files) # 0
      BY <1>1, <2>2, Ranks, FS_EmptySet DEF Ordered
    <3>2. PICK f \in files : Rank(files, f) = 1
      BY <1>1, <3>1, Ranks
    <3>3. \A g \in files : g.order <= f.order /\ f.order \in Nat /\ g.order \in Nat
      BY <1>1, <3>2, Ranks DEF Ordered
    <3> QED
      BY <1>2, <3>3
  <2> QED
    BY <2>1, <2>2
<1>5. /\ Copies!Latest \in orders
      /\ \A y \in orders : Copies!Latest >= y
  BY <1>3, <1>4
<1> QED
  BY <1>2, <1>5 DEF Ledger

-----------------------------------------------------------------------------
(* What the steps keep of the ledger.                                      *)

LEMMA LedgerKept ==
    ASSUME IInv, Ledger, files' \subseteq files, begun' \in Nat, begun <= begun',
           today' \in Nat, crashes' \in Nat,
           \A p \in Process : run'[p].stem <= begun' /\ run'[p].compress \in BOOLEAN
    PROVE  Ledger'
<1>1. IsFiniteSet(files')
  BY FS_Subset DEF Ledger
<1>2. \A f \in files' : f.stem <= begun' /\ f.order \in Nat
  BY DEF Ledger, IInv, Typed
<1> QED
  BY <1>1, <1>2 DEF Ledger

LEMMA QuietLedger ==
    ASSUME IInv, Ledger, NEW p \in Process, files' \subseteq files,
           begun' = begun, today' = today, crashes' = crashes,
           run'[p].stem = run[p].stem, run'[p].compress = run[p].compress,
           \A q \in Process \ {p} : run'[q] = run[q]
    PROVE  Ledger'
<1>1. begun \in Nat /\ today \in Nat /\ crashes \in Nat
  BY DEF IInv, Typed, Ledger
<1>2. \A q \in Process : run'[q].stem <= begun /\ run'[q].compress \in BOOLEAN
  BY DEF Ledger
<1> QED
  BY <1>1, <1>2, LedgerKept

\* A file that is written is the newest, and takes the place of one of its name.
LEMMA NewFile ==
    ASSUME IInv, Ledger, NEW new, new.stem <= begun, new.order = Copies!Latest + 1,
           \A f \in files' : f = new \/ (f \in files /\ ~(f.stem = new.stem /\ f.gz = new.gz)),
           UNCHANGED <<begun, today, crashes>>,
           \A q \in Process : run'[q].stem <= begun /\ run'[q].compress \in BOOLEAN
    PROVE  Ledger' /\ \A g \in files' : g.order <= new.order
<1>1. Copies!Latest \in Nat /\ \A f \in files : f.order <= Copies!Latest
  BY LatestFacts
<1>2. new.order \in Nat /\ \A f \in files : f.order \in Nat /\ f.order < new.order
  BY <1>1 DEF Ledger
<1>3. \A g \in files' : g.order <= new.order
  BY <1>2
<1>4. IsFiniteSet(files')
  <2>1. IsFiniteSet(files \cup {new}) /\ files' \in SUBSET (files \cup {new})
    BY FS_AddElement DEF Ledger
  <2> QED
    BY <2>1, FS_Subset
<1>5. \A f \in files' : f.stem <= begun /\ f.order \in Nat
  BY <1>2 DEF Ledger
<1>6. ASSUME NEW f \in files', NEW g \in files'
      PROVE  /\ f.stem = g.stem /\ f.gz = g.gz => f = g
             /\ f.order = g.order => f = g
  BY <1>2 DEF Ledger
<1> QED
  BY <1>3, <1>4, <1>5, <1>6 DEF Ledger

LEMMA PutRaw ==
    ASSUME IInv, Ledger, NEW p \in Process, NEW content, NEW state,
           Copies!Put(p, FALSE, content, state), UNCHANGED <<begun, today, crashes>>,
           \A q \in Process : run'[q].stem = run[q].stem /\ run'[q].compress = run[q].compress
    PROVE  /\ Ledger'
           /\ \E f \in Copies!Named(p, FALSE)' : f.content = content
           /\ \A f \in Copies!Named(p, FALSE)' :
                 /\ f.content = content /\ f.day = today
                 /\ \A g \in files' : g.order <= f.order
<1>1. PICK new : new = [stem |-> run[p].stem, gz |-> FALSE, content |-> content, state |-> state,
                        day |-> today, order |-> Copies!Latest + 1]
  OBVIOUS
<1>2. files' = (files \ Copies!Named(p, FALSE)) \cup {new}
  BY <1>1 DEF Copies!Put
<1>3. /\ new.stem = run[p].stem /\ new.gz = FALSE /\ new.day = today /\ new.content = content
      /\ new.order = Copies!Latest + 1
  BY <1>1
<1>4. \A f \in files' : f = new \/ (f \in files /\ ~(f.stem = new.stem /\ f.gz = new.gz))
  BY <1>2, <1>3 DEF Copies!Named
<1>5. Ledger' /\ \A g \in files' : g.order <= new.order
  BY <1>3, <1>4, NewFile DEF Ledger
<1>6. new \in Copies!Named(p, FALSE)' /\ \A f \in Copies!Named(p, FALSE)' : f = new
  BY <1>2, <1>3, <1>4 DEF Copies!Named
<1> QED
  BY <1>2, <1>3, <1>5, <1>6

LEMMA PutGz ==
    ASSUME IInv, Ledger, NEW p \in Process, NEW content, NEW state,
           Copies!Put(p, TRUE, content, state), UNCHANGED <<begun, today, crashes>>,
           \A q \in Process : run'[q].stem = run[q].stem /\ run'[q].compress = run[q].compress
    PROVE  /\ Ledger'
           /\ \E f \in Copies!Named(p, TRUE)' : f.content = content
           /\ \A f \in Copies!Named(p, TRUE)' :
                 /\ f.content = content /\ f.day = today
                 /\ \A g \in files' : g.order <= f.order
<1>1. PICK new : new = [stem |-> run[p].stem, gz |-> TRUE, content |-> content, state |-> state,
                        day |-> today, order |-> Copies!Latest + 1]
  OBVIOUS
<1>2. files' = (files \ Copies!Named(p, TRUE)) \cup {new}
  BY <1>1 DEF Copies!Put
<1>3. /\ new.stem = run[p].stem /\ new.gz = TRUE /\ new.day = today /\ new.content = content
      /\ new.order = Copies!Latest + 1
  BY <1>1
<1>4. \A f \in files' : f = new \/ (f \in files /\ ~(f.stem = new.stem /\ f.gz = new.gz))
  BY <1>2, <1>3 DEF Copies!Named
<1>5. Ledger' /\ \A g \in files' : g.order <= new.order
  BY <1>3, <1>4, NewFile DEF Ledger
<1>6. new \in Copies!Named(p, TRUE)' /\ \A f \in Copies!Named(p, TRUE)' : f = new
  BY <1>2, <1>3, <1>4 DEF Copies!Named
<1> QED
  BY <1>2, <1>3, <1>5, <1>6

LEMMA GoKeeps ==
    ASSUME Typed, NEW p \in Process, NEW phase, Copies!Go(p, phase)
    PROVE  /\ run'[p].phase = phase
           /\ run'[p].stem = run[p].stem /\ run'[p].compress = run[p].compress
           /\ run'[p].content = run[p].content /\ run'[p].listed = run[p].listed
           /\ run'[p].victims = run[p].victims
           /\ \A q \in Process \ {p} : run'[q] = run[q]
  BY DEF Copies!Go, Typed, IsRun

LEMMA ExitKeeps ==
    ASSUME Typed, NEW p \in Process, Copies!Exit(p)
    PROVE  /\ run'[p].phase = "idle" /\ run'[p].stem = 0 /\ run'[p].compress \in BOOLEAN
           /\ \A q \in Process \ {p} : run'[q] = run[q]
  BY DEF Copies!Exit, Copies!Idle, Typed, IsRun

\* Only a process that is not idle takes a step, so it is the one that is alone.
LEMMA AloneKept ==
    ASSUME IInv, AloneInv, NEW p \in Process, run[p].phase # "idle",
           alone' = alone, \A q \in Process \ {p} : run'[q] = run[q],
           p \in alone => Making(p)' /\ (run'[p].phase = "prune" => Pruning(p)')
    PROVE  Lonely'
<1>1. \A q \in alone : q = p
  BY DEF AloneInv, Lonely
<1> QED
  BY <1>1 DEF AloneInv, Lonely

\* A process stops, and is not about to do anything.
LEMMA StopKept ==
    ASSUME IInv, AloneInv, NEW p \in Process, run[p].phase # "idle", Copies!Exit(p),
           alone' = alone, files' \subseteq files, UNCHANGED <<begun, today>>, crashes' \in Nat
    PROVE  AloneInv'
<1>1. /\ run'[p].phase = "idle" /\ run'[p].stem = 0 /\ run'[p].compress \in BOOLEAN
      /\ \A q \in Process \ {p} : run'[q] = run[q]
  BY ExitKeeps DEF IInv
<1>2. Ledger'
  <2>1. begun \in Nat
    BY DEF IInv, Typed
  <2>2. ASSUME NEW q \in Process
        PROVE  run'[q].stem <= begun /\ run'[q].compress \in BOOLEAN
    <3>1. CASE q = p
      BY <1>1, <2>1, <3>1
    <3>2. CASE q # p
      BY <1>1, <3>2 DEF AloneInv, Ledger
    <3> QED
      BY <3>1, <3>2
  <2> QED
    BY <2>1, <2>2, LedgerKept DEF AloneInv, Ledger
<1>3. Making(p)'
  BY <1>1 DEF Making
<1> QED
  BY <1>1, <1>2, <1>3, AloneKept DEF AloneInv

-----------------------------------------------------------------------------
(* The steps of a backup.                                                  *)

LEMMA BeginAlone ==
    ASSUME IInv, AloneInv, NEW p \in Process, NEW compress \in BOOLEAN, Copies!Begin(p, compress)
    PROVE  AloneInv'
<1>1. /\ begun' = begun + 1 /\ begun \in Nat
      /\ alone' = IF Copies!Busy(p) THEN {} ELSE {p}
      /\ UNCHANGED <<files, today, crashes>>
  BY DEF Copies!Begin, IInv, Typed
<1>2. /\ run'[p].phase = "open" /\ run'[p].stem = begun + 1 /\ run'[p].compress = compress
      /\ \A q \in Process \ {p} : run'[q] = run[q]
  <2>1. PICK new : new = [Copies!Idle EXCEPT !.phase = "open", !.stem = begun + 1,
                                            !.compress = compress]
    OBVIOUS
  <2>2. new.phase = "open" /\ new.stem = begun + 1 /\ new.compress = compress
    BY <2>1 DEF Copies!Idle
  <2>3. run' = [run EXCEPT ![p] = new]
    BY <2>1 DEF Copies!Begin
  <2> QED
    BY <2>2, <2>3 DEF IInv, Typed
<1>3. Ledger'
  <2>1. \A q \in Process : run'[q].stem <= begun + 1 /\ run'[q].compress \in BOOLEAN
    BY <1>1, <1>2 DEF IInv, Typed, AloneInv, Ledger
  <2> QED
    BY <1>1, <2>1, LedgerKept DEF AloneInv, Ledger
<1>4. Making(p)'
  <2>1. \A f \in files : f.stem # begun + 1
    BY <1>1 DEF AloneInv, Ledger, IInv, Typed
  <2> QED
    BY <1>1, <1>2, <2>1 DEF Making
<1>5. Lonely'
  <2>1. ~Copies!Busy(p) => \A q \in Process \ {p} : run'[q].phase = "idle"
    BY <1>2 DEF Copies!Busy
  <2> QED
    BY <1>1, <1>2, <1>4, <2>1 DEF Lonely
<1> QED
  BY <1>3, <1>5 DEF AloneInv

LEMMA OpenRawAlone ==
    ASSUME IInv, AloneInv, NEW p \in Process, Copies!OpenRaw(p)
    PROVE  AloneInv'
<1>1. /\ run[p].phase = "open" /\ Copies!Put(p, FALSE, "open", 0) /\ Copies!Go(p, "copy")
      /\ UNCHANGED <<begun, today, crashes, alone>>
  BY DEF Copies!OpenRaw, Copies!At
<1>2. /\ run'[p].phase = "copy" /\ run'[p].stem = run[p].stem /\ run'[p].compress = run[p].compress
      /\ \A q \in Process \ {p} : run'[q] = run[q]
  BY <1>1, GoKeeps DEF IInv
<1>3. Ledger' /\ \E new \in Copies!Named(p, FALSE)' : new.content = "open"
  <2>1. \A q \in Process : run'[q].stem = run[q].stem /\ run'[q].compress = run[q].compress
    BY <1>2
  <2> QED
    BY <1>1, <2>1, PutRaw DEF AloneInv
<1>4. Making(p)'
  BY <1>2, <1>3 DEF Making
<1> QED
  BY <1>1, <1>2, <1>3, <1>4, AloneKept DEF AloneInv

LEMMA CopyRawAlone ==
    ASSUME IInv, AloneInv, NEW p \in Process, Copies!CopyRaw(p)
    PROVE  AloneInv'
<1>1. /\ run[p].phase = "copy"
      /\ Copies!Go(p, IF run[p].compress THEN "compress" ELSE "size")
      /\ UNCHANGED <<begun, today, crashes, alone>>
  BY DEF Copies!CopyRaw, Copies!At
<1>2. /\ run'[p].phase = (IF run[p].compress THEN "compress" ELSE "size")
      /\ run'[p].stem = run[p].stem /\ run'[p].compress = run[p].compress
      /\ \A q \in Process \ {p} : run'[q] = run[q]
  BY <1>1, GoKeeps DEF IInv
<1>3. CASE \E f \in Copies!Named(p, FALSE) : f.content = "open"
  <2>1. Copies!Put(p, FALSE, "whole", db)
    BY <1>3 DEF Copies!CopyRaw
  <2>2. /\ Ledger'
        /\ \A f \in Copies!Named(p, FALSE)' :
              /\ f.content = "whole" /\ f.day = today
              /\ \A g \in files' : g.order <= f.order
    <3>1. \A q \in Process : run'[q].stem = run[q].stem /\ run'[q].compress = run[q].compress
      BY <1>2
    <3>2. Ledger /\ UNCHANGED <<begun, today, crashes>>
      BY <1>1 DEF AloneInv
    <3> QED
      BY <2>1, <3>1, <3>2, PutRaw
  <2>3. \A f \in Copies!Named(p, FALSE)' : Fresh(f)'
    BY <1>1, <1>2, <2>2 DEF Fresh, Copies!Named
  <2>4. CASE run[p].compress
    <3>1. Making(p)'
      BY <1>2, <2>3, <2>4 DEF Making
    <3> QED
      BY <1>1, <1>2, <2>2, <2>4, <3>1, AloneKept DEF AloneInv
  <2>5. CASE ~run[p].compress
    <3>1. run[p].compress = FALSE
      BY <2>5 DEF AloneInv, Ledger
    <3>2. \A f \in Own(p)' : Fresh(f)'
      BY <1>2, <2>3, <3>1 DEF Own
    <3>3. Making(p)'
      BY <1>2, <2>5, <3>2 DEF Making
    <3> QED
      BY <1>1, <1>2, <2>2, <2>5, <3>3, AloneKept DEF AloneInv
  <2> QED
    BY <2>4, <2>5
<1>4. CASE ~ \E f \in Copies!Named(p, FALSE) : f.content = "open"
  <2>1. files' = files
    BY <1>4 DEF Copies!CopyRaw
  <2>2. Ledger'
    BY <1>1, <1>2, <2>1, LedgerKept DEF AloneInv, Ledger, IInv, Typed
  <2>3. p \notin alone
    BY <1>1, <1>4 DEF AloneInv, Lonely, Making
  <2> QED
    BY <1>1, <1>2, <2>2, <2>3, AloneKept DEF AloneInv
<1> QED
  BY <1>3, <1>4

LEMMA OpenGzAlone ==
    ASSUME IInv, AloneInv, NEW p \in Process, Copies!OpenGz(p)
    PROVE  AloneInv'
<1>1. /\ run[p].phase = "compress" /\ UNCHANGED <<begun, today, crashes, alone>>
      /\ crashes \in Nat
  BY DEF Copies!OpenGz, Copies!At, AloneInv, Ledger
<1>2. CASE Copies!Named(p, FALSE) = {}
  <2>1. Copies!Exit(p) /\ files' = files
    BY <1>2 DEF Copies!OpenGz
  <2> QED
    BY <1>1, <2>1, StopKept
<1>3. CASE Copies!Named(p, FALSE) # {}
  <2>1. PICK raw : /\ raw = CHOOSE f \in Copies!Named(p, FALSE) : TRUE
                   /\ Copies!Put(p, TRUE, "open", 0)
                   /\ run' = [run EXCEPT ![p] = [@ EXCEPT !.phase = "pack",
                                                          !.content = raw.content,
                                                          !.state = raw.state]]
    BY <1>3 DEF Copies!OpenGz
  <2>2. raw \in Copies!Named(p, FALSE)
    BY <1>3, <2>1
  <2>3. /\ run'[p].phase = "pack" /\ run'[p].stem = run[p].stem
        /\ run'[p].compress = run[p].compress /\ run'[p].content = raw.content
        /\ \A q \in Process \ {p} : run'[q] = run[q]
    BY <2>1 DEF IInv, Typed, IsRun
  <2>4. Ledger'
    <3>1. \A q \in Process : run'[q].stem = run[q].stem /\ run'[q].compress = run[q].compress
      BY <2>3
    <3>2. Ledger /\ UNCHANGED <<begun, today, crashes>>
      BY <1>1 DEF AloneInv
    <3> QED
      BY <2>1, <3>1, <3>2, PutGz
  <2>5. p \in alone => run[p].compress /\ raw.content = "whole"
    BY <1>1, <2>2 DEF AloneInv, Lonely, Making, Fresh
  <2>6. p \in alone => Making(p)'
    BY <2>3, <2>5 DEF Making
  <2> QED
    BY <1>1, <2>3, <2>4, <2>6, AloneKept DEF AloneInv
<1> QED
  BY <1>2, <1>3

LEMMA CloseGzAlone ==
    ASSUME IInv, AloneInv, NEW p \in Process, Copies!CloseGz(p)
    PROVE  AloneInv'
<1>1. /\ run[p].phase = "pack" /\ Copies!Go(p, "discard")
      /\ UNCHANGED <<begun, today, crashes, alone>>
  BY DEF Copies!CloseGz, Copies!At
<1>2. /\ run'[p].phase = "discard"
      /\ run'[p].stem = run[p].stem /\ run'[p].compress = run[p].compress
      /\ \A q \in Process \ {p} : run'[q] = run[q]
  BY <1>1, GoKeeps DEF IInv
<1>3. p \in alone => run[p].compress = TRUE /\ run[p].content = "whole"
  BY <1>1 DEF AloneInv, Lonely, Making, Ledger
<1>4. CASE Copies!Named(p, TRUE) = {}
  <2>1. files' = files
    BY <1>4 DEF Copies!CloseGz
  <2>2. Ledger'
    BY <1>1, <1>2, <2>1, LedgerKept DEF AloneInv, Ledger, IInv, Typed
  <2>3. p \in alone => Own(p)' = {}
    BY <1>2, <1>3, <1>4, <2>1 DEF Own, Copies!Named
  <2>4. p \in alone => Making(p)'
    BY <1>2, <1>3, <2>3 DEF Making
  <2> QED
    BY <1>1, <1>2, <2>2, <2>4, AloneKept DEF AloneInv
<1>5. CASE Copies!Named(p, TRUE) # {}
  <2>1. Copies!Put(p, TRUE, run[p].content, run[p].state)
    BY <1>5 DEF Copies!CloseGz
  <2>2. /\ Ledger'
        /\ \A f \in Copies!Named(p, TRUE)' :
              /\ f.content = run[p].content /\ f.day = today
              /\ \A g \in files' : g.order <= f.order
    <3>1. \A q \in Process : run'[q].stem = run[q].stem /\ run'[q].compress = run[q].compress
      BY <1>2
    <3>2. Ledger /\ UNCHANGED <<begun, today, crashes>>
      BY <1>1 DEF AloneInv
    <3> QED
      BY <2>1, <3>1, <3>2, PutGz
  <2>3. p \in alone => \A f \in Own(p)' : Fresh(f)'
    BY <1>1, <1>2, <1>3, <2>2 DEF Own, Fresh, Copies!Named
  <2>4. p \in alone => Making(p)'
    BY <1>2, <1>3, <2>3 DEF Making
  <2> QED
    BY <1>1, <1>2, <2>2, <2>4, AloneKept DEF AloneInv
<1> QED
  BY <1>4, <1>5

LEMMA DiscardRawAlone ==
    ASSUME IInv, AloneInv, NEW p \in Process, Copies!DiscardRaw(p)
    PROVE  AloneInv'
<1>1. /\ run[p].phase = "discard" /\ UNCHANGED <<begun, today, crashes, alone>>
      /\ crashes \in Nat /\ files' = files \ Copies!Named(p, FALSE)
  BY DEF Copies!DiscardRaw, Copies!At, AloneInv, Ledger
<1>2. CASE Copies!Named(p, FALSE) = {}
  <2>1. Copies!Exit(p)
    BY <1>2 DEF Copies!DiscardRaw
  <2> QED
    BY <1>1, <2>1, StopKept
<1>3. CASE Copies!Named(p, FALSE) # {}
  <2>1. Copies!Go(p, "size")
    BY <1>3 DEF Copies!DiscardRaw
  <2>2. /\ run'[p].phase = "size"
        /\ run'[p].stem = run[p].stem /\ run'[p].compress = run[p].compress
        /\ \A q \in Process \ {p} : run'[q] = run[q]
    BY <2>1, GoKeeps DEF IInv
  <2>3. Ledger'
    BY <1>1, <2>2, QuietLedger DEF AloneInv
  <2>4. p \in alone => \A f \in Own(p) : Fresh(f)
    BY <1>1 DEF AloneInv, Lonely, Making
  <2>5. p \in alone => \A f \in Own(p)' : Fresh(f)'
    BY <1>1, <2>2, <2>4 DEF Own, Fresh, Copies!Named
  <2>6. p \in alone => Making(p)'
    BY <2>2, <2>5 DEF Making
  <2> QED
    BY <1>1, <2>2, <2>3, <2>6, AloneKept DEF AloneInv
<1> QED
  BY <1>2, <1>3

LEMMA SizeAlone ==
    ASSUME IInv, AloneInv, NEW p \in Process, Copies!Size(p)
    PROVE  AloneInv'
<1>1. /\ run[p].phase = "size" /\ UNCHANGED <<files, begun, today, crashes, alone>>
      /\ crashes \in Nat
  BY DEF Copies!Size, Copies!At, AloneInv, Ledger
<1>2. CASE Copies!Named(p, run[p].compress) = {}
  <2>1. Copies!Exit(p)
    BY <1>2 DEF Copies!Size
  <2> QED
    BY <1>1, <2>1, StopKept
<1>3. CASE Copies!Named(p, run[p].compress) # {}
  <2>1. Copies!Go(p, "list")
    BY <1>3 DEF Copies!Size
  <2>2. /\ run'[p].phase = "list"
        /\ run'[p].stem = run[p].stem /\ run'[p].compress = run[p].compress
        /\ \A q \in Process \ {p} : run'[q] = run[q]
    BY <2>1, GoKeeps DEF IInv
  <2>3. Ledger'
    BY <1>1, <2>2, QuietLedger DEF AloneInv
  <2>4. p \in alone => \A f \in Own(p) : Fresh(f)
    BY <1>1 DEF AloneInv, Lonely, Making
  <2>5. p \in alone => Own(p)' # {} /\ \A f \in Own(p)' : Fresh(f)'
    BY <1>1, <1>3, <2>2, <2>4 DEF Own, Fresh, Copies!Named
  <2>6. p \in alone => Making(p)'
    BY <2>2, <2>5 DEF Making
  <2> QED
    BY <1>1, <2>2, <2>3, <2>6, AloneKept DEF AloneInv
<1> QED
  BY <1>2, <1>3

-----------------------------------------------------------------------------
(* The steps of a pruning.                                                 *)

LEMMA ListAlone ==
    ASSUME IInv, AloneInv, NEW p \in Process, Copies!List(p)
    PROVE  AloneInv'
<1>1. /\ run[p].phase = "list" /\ UNCHANGED <<files, begun, today, crashes, alone>>
  BY DEF Copies!List, Copies!At
<1>2. /\ run'[p].phase = "stat"
      /\ run'[p].stem = run[p].stem /\ run'[p].compress = run[p].compress
      /\ run'[p].listed = {NameOf(f) : f \in files}
      /\ \A q \in Process \ {p} : run'[q] = run[q]
  BY DEF Copies!List, NameOf, IInv, Typed, IsRun
<1>3. Ledger'
  BY <1>1, <1>2, QuietLedger DEF AloneInv
<1>4. p \in alone => Own(p) # {} /\ \A f \in Own(p) : Fresh(f)
  BY <1>1 DEF AloneInv, Lonely, Making
<1>5. p \in alone => Own(p)' # {} /\ \A f \in Own(p)' : Fresh(f)'
  BY <1>1, <1>2, <1>4 DEF Own, Fresh, Copies!Named
<1>6. run'[p].listed = {NameOf(f) : f \in files'}
  BY <1>1, <1>2
<1>7. p \in alone => Making(p)'
  BY <1>2, <1>5, <1>6 DEF Making, NameOf
<1> QED
  BY <1>1, <1>2, <1>3, <1>7, AloneKept DEF AloneInv

\* What is to be removed is all that is too old and the surplus of the rest,
\* each file once, and none of the files that are the newest.
LEMMA VictimsFacts ==
    ASSUME Ledger, NEW own, own \subseteq files, \A f \in own : Fresh(f),
           NEW victims,
           victims = Copies!NewestFirst({f \in files : Copies!Aged(f)}) \o Copies!Surplus(files)
    PROVE  WellChosen(victims, own, Cardinality(files) - Len(victims))
<1>1. PICK rest : rest = Cardinality(files) - Len(victims)
  OBVIOUS
<1>2. RetentionDays \in Int /\ RetentionCount \in Int
  BY CopiesAssumption
<1>3. PICK old, kept : /\ old = {f \in files : Copies!Aged(f)}
                       /\ kept = {f \in files : ~Copies!Aged(f)}
  OBVIOUS
<1>4. /\ Ordered(old) /\ Ordered(kept)
      /\ Cardinality(files) = Cardinality(old) + Cardinality(kept)
  <2>1. old \in SUBSET files /\ kept \in SUBSET files
    BY <1>3
  <2>2. IsFiniteSet(old) /\ IsFiniteSet(kept)
    BY <2>1, FS_Subset DEF Ledger
  <2>3. old \cup kept = files /\ old \cap kept = {}
    BY <1>3
  <2>4. Cardinality(files) = Cardinality(old) + Cardinality(kept) - Cardinality({})
    BY <2>2, <2>3, FS_Union
  <2>5. Cardinality(old) \in Nat /\ Cardinality(kept) \in Nat /\ Cardinality({}) = 0
    BY <2>2, FS_CardinalityType, FS_EmptySet
  <2> QED
    BY <2>1, <2>2, <2>4, <2>5 DEF Ordered, Ledger
<1>5. Ordered(old)
  BY <1>4
<1>6. Ordered(kept)
  BY <1>4
<1>7. PICK first :
         /\ first = Copies!NewestFirst(old)
         /\ Cardinality(old) \in Nat
         /\ first \in Seq(old) /\ Len(first) = Cardinality(old)
         /\ \A i, j \in 1 .. Len(first) : first[i] = first[j] => i = j
         /\ \A f \in old : \E i \in 1 .. Len(first) : first[i] = f
  BY <1>5, Sorted
<1>8. PICK second :
         /\ second = Copies!NewestFirst(kept)
         /\ Cardinality(kept) \in Nat
         /\ second \in Seq(kept) /\ Len(second) = Cardinality(kept)
         /\ \A i, j \in 1 .. Len(second) : second[i] = second[j] => i = j
         /\ \A i \in 1 .. Len(second) : (\A g \in kept : g.order <= second[i].order) => i = 1
  BY <1>6, Sorted
<1>9. PICK extra : /\ extra = Copies!Surplus(files)
                   /\ extra = IF RetentionCount > 0
                              THEN SubSeq(second, RetentionCount + 1, Len(second)) ELSE << >>
  BY <1>3, <1>8 DEF Copies!Surplus
<1>10. /\ extra \in Seq(kept)
       /\ Len(extra) = IF RetentionCount > 0 /\ Len(second) > RetentionCount
                       THEN Len(second) - RetentionCount ELSE 0
       /\ \A i \in 1 .. Len(extra) : /\ i + RetentionCount \in 2 .. Len(second)
                                     /\ extra[i] = second[i + RetentionCount]
  <2>1. CASE RetentionCount > 0 /\ Len(second) > RetentionCount
    <3>1. PICK m, n : m = RetentionCount + 1 /\ n = Len(second) /\ m \in Int /\ n \in Int
      BY <1>2, <1>8
    <3>2. \A i \in m .. n : second[i] \in kept
      BY <1>2, <1>8, <2>1, <3>1
    <3>3. extra = SubSeq(second, m, n)
      BY <1>9, <2>1, <3>1
    <3>4. /\ extra \in Seq(kept) /\ Len(extra) = (IF m <= n THEN n - m + 1 ELSE 0)
          /\ \A i \in 1 .. n - m + 1 : extra[i] = second[m + i - 1]
      BY <3>1, <3>2, <3>3, SubSeqProperties
    <3>5. ASSUME NEW i \in 1 .. Len(extra)
          PROVE  i + RetentionCount \in 2 .. Len(second) /\ extra[i] = second[i + RetentionCount]
      <4>1. m + i - 1 = i + RetentionCount /\ i \in 1 .. n - m + 1
        BY <1>2, <2>1, <3>1, <3>4
      <4> QED
        BY <1>2, <2>1, <3>1, <3>4, <4>1
    <3> QED
      BY <1>2, <2>1, <3>1, <3>4, <3>5
  <2>2. CASE ~(RetentionCount > 0 /\ Len(second) > RetentionCount)
    <3>1. extra = << >>
      BY <1>2, <1>8, <1>9, <2>2
    <3> QED
      BY <2>2, <3>1
  <2> QED
    BY <2>1, <2>2
<1>11. Len(first) \in Nat /\ Len(extra) \in Nat /\ Len(second) \in Nat
  BY <1>7, <1>8, <1>10
<1>12. first \in Seq(files) /\ extra \in Seq(files)
  <2>1. old \subseteq files /\ kept \subseteq files
    BY <1>3
  <2>2. first \in Seq(files)
    BY <1>7, <2>1, SeqMonotonic
  <2>3. extra \in Seq(files)
    BY <1>10, <2>1, SeqMonotonic
  <2> QED
    BY <2>2, <2>3
<1>13. /\ \A i \in 1 .. Len(first) : first[i] \in old
       /\ \A i \in 1 .. Len(extra) : extra[i] \in kept
  BY <1>7, <1>10, ElementOfSeq
<1>14. victims = first \o extra
  BY <1>3, <1>7, <1>9
<1>15. /\ victims \in Seq(files)
       /\ Len(victims) = Len(first) + Len(extra)
       /\ \A i \in 1 .. Len(first) + Len(extra) :
             victims[i] = IF i <= Len(first) THEN first[i] ELSE extra[i - Len(first)]
  BY <1>12, <1>14, ConcatProperties
<1>16. /\ Len(victims) = Len(first) + Len(extra)
       /\ \A i \in 1 .. Len(first) : i \in 1 .. Len(victims) /\ victims[i] = first[i] /\ victims[i] \in old
       /\ \A i \in Len(first) + 1 .. Len(victims) :
             /\ i - Len(first) \in 1 .. Len(extra)
             /\ victims[i] = extra[i - Len(first)] /\ victims[i] \in kept
  <2>1. ASSUME NEW i \in 1 .. Len(first)
        PROVE  i \in 1 .. Len(victims) /\ victims[i] = first[i] /\ victims[i] \in old
    <3>1. i \in 1 .. Len(first) + Len(extra) /\ i <= Len(first)
      BY <1>11
    <3> QED
      BY <1>15, <1>13, <3>1
  <2>2. ASSUME NEW i \in Len(first) + 1 .. Len(victims)
        PROVE  /\ i - Len(first) \in 1 .. Len(extra)
               /\ victims[i] = extra[i - Len(first)] /\ victims[i] \in kept
    <3>1. i - Len(first) \in 1 .. Len(extra) /\ i \in 1 .. Len(first) + Len(extra) /\ ~(i <= Len(first))
      BY <1>15, <1>11
    <3>2. extra[i - Len(first)] \in kept
      BY <1>13, <3>1
    <3>3. victims[i] = extra[i - Len(first)]
      BY <1>15, <3>1
    <3> QED
      BY <3>1, <3>2, <3>3
  <2> QED
    BY <1>15, <2>1, <2>2
<1>17. \A i, j \in 1 .. Len(extra) : extra[i] = extra[j] => i = j
  BY <1>2, <1>8, <1>10, <1>11
<1>18. ASSUME NEW i \in 1 .. Len(victims), NEW j \in 1 .. Len(victims), victims[i] = victims[j]
       PROVE  i = j
  <2>1. CASE i \in 1 .. Len(first) /\ j \in 1 .. Len(first)
    <3>1. first[i] = first[j]
      BY <1>16, <1>18, <2>1
    <3> QED
      BY <1>7, <2>1, <3>1
  <2>2. CASE i \in Len(first) + 1 .. Len(victims) /\ j \in Len(first) + 1 .. Len(victims)
    <3>1. i - Len(first) = j - Len(first)
      BY <1>16, <1>17, <1>18, <2>2
    <3> QED
      BY <1>11, <2>2, <3>1
  <2>3. old \cap kept = {}
    BY <1>3
  <2>4. ASSUME NEW k \in 1 .. Len(victims)
        PROVE  /\ k \in 1 .. Len(first) \/ k \in Len(first) + 1 .. Len(victims)
               /\ k \in 1 .. Len(first) => victims[k] \in old
               /\ k \in Len(first) + 1 .. Len(victims) => victims[k] \in kept
    BY <1>16, <1>11
  <2> QED
    BY <1>18, <2>1, <2>2, <2>3, <2>4
<1>19. ASSUME NEW i \in 1 .. Len(victims)
       PROVE  victims[i] \notin own
  <2> SUFFICES ASSUME victims[i] \in own PROVE FALSE
    OBVIOUS
  <2>1. victims[i].day = today /\ \A g \in files : g.order <= victims[i].order
    BY DEF Fresh
  <2>2. victims[i] \notin old
    BY <1>2, <1>3, <2>1 DEF Copies!Aged, Ledger
  <2>3. i \in Len(first) + 1 .. Len(victims)
    <3>1. i \notin 1 .. Len(first)
      BY <1>16, <2>2
    <3>2. Len(victims) \in Nat
      BY <1>11, <1>16
    <3> QED
      BY <1>11, <3>1, <3>2
  <2>4. PICK k \in 2 .. Len(second) : victims[i] = second[k]
    BY <1>10, <1>16, <2>3
  <2>5. k \in 1 .. Len(second) /\ k # 1
    BY <1>11, <2>4
  <2>6. \A g \in kept : g.order <= second[k].order
    BY <1>3, <2>1, <2>4
  <2> QED
    BY <1>8, <2>5, <2>6
<1>20. ASSUME NEW f \in files, Copies!Aged(f)
       PROVE  \E i \in 1 .. Len(victims) : victims[i] = f
  <2>1. PICK i \in 1 .. Len(first) : first[i] = f
    BY <1>3, <1>7, <1>20
  <2> QED
    BY <1>16, <1>11, <2>1
<1>21. rest = Cardinality(kept) - Len(extra)
  BY <1>4, <1>7, <1>8, <1>16, <1>11, <1>1
<1>22. RetentionCount > 0 => rest <= RetentionCount
  BY <1>2, <1>8, <1>10, <1>21
<1>23. ASSUME NEW i \in 1 .. Len(victims)
       PROVE  Copies!Aged(victims[i]) \/ rest >= RetentionCount
  <2>1. CASE i \in 1 .. Len(first)
    BY <1>3, <1>16, <2>1
  <2>2. CASE i \notin 1 .. Len(first)
    <3>1. Len(extra) > 0
      BY <1>16, <1>11, <2>2
    <3> QED
      BY <1>2, <1>8, <1>10, <1>21, <3>1
  <2> QED
    BY <2>1, <2>2
<1> QED
  BY <1>15, <1>18, <1>19, <1>20, <1>22, <1>23, <1>1 DEF WellChosen

LEMMA StatAlone ==
    ASSUME IInv, AloneInv, NEW p \in Process, Copies!Stat(p)
    PROVE  AloneInv'
<1>1. /\ run[p].phase = "stat" /\ UNCHANGED <<files, begun, today, crashes, alone>>
      /\ crashes \in Nat
  BY DEF Copies!Stat, Copies!At, AloneInv, Ledger
<1>2. PICK found : found = {f \in files : NameOf(f) \in run[p].listed}
  OBVIOUS
<1>3. CASE Copies!Cardinality(found) < Copies!Cardinality(run[p].listed)
  <2>1. Copies!Exit(p)
    BY <1>2, <1>3 DEF Copies!Stat, NameOf
  <2> QED
    BY <1>1, <2>1, StopKept
<1>4. CASE ~(Copies!Cardinality(found) < Copies!Cardinality(run[p].listed))
  <2>1. PICK victims : victims = Copies!NewestFirst({f \in found : Copies!Aged(f)}) \o Copies!Surplus(found)
    OBVIOUS
  <2>2. run' = [run EXCEPT ![p] = [@ EXCEPT !.phase = "prune", !.listed = {}, !.victims = victims]]
    BY <1>2, <1>4, <2>1 DEF Copies!Stat, NameOf
  <2>3. /\ run'[p].phase = "prune" /\ run'[p].victims = victims
        /\ run'[p].stem = run[p].stem /\ run'[p].compress = run[p].compress
        /\ \A q \in Process \ {p} : run'[q] = run[q]
    BY <2>2 DEF IInv, Typed, IsRun
  <2>4. Ledger'
    BY <1>1, <2>3, QuietLedger DEF AloneInv
  <2>5. ASSUME p \in alone
        PROVE  Making(p)' /\ Pruning(p)'
    <3>1. /\ Own(p) # {} /\ \A f \in Own(p) : Fresh(f)
          /\ run[p].listed = {NameOf(f) : f \in files}
      BY <1>1, <2>5 DEF AloneInv, Lonely, Making
    <3>2. Own(p)' = Own(p) /\ \A f \in Own(p)' : Fresh(f)'
      BY <1>1, <2>3, <3>1 DEF Own, Fresh, Copies!Named
    <3>3. Making(p)'
      BY <2>3, <3>1, <3>2 DEF Making
    <3>4. found = files
      BY <1>2, <3>1
    <3>5. Own(p) \in SUBSET files
      BY DEF Own, Copies!Named
    <3>6. victims = Copies!NewestFirst({f \in files : Copies!Aged(f)}) \o Copies!Surplus(files)
      BY <2>1, <3>4
    <3>7. WellChosen(victims, Own(p), Cardinality(files) - Len(victims))
      <4>1. PICK own : own = Own(p)
        OBVIOUS
      <4>2. Ledger /\ own \subseteq files /\ \A f \in own : Fresh(f)
        BY <3>1, <3>5, <4>1 DEF AloneInv
      <4>3. WellChosen(victims, own, Cardinality(files) - Len(victims))
        BY <3>6, <4>2, VictimsFacts
      <4> QED
        BY <4>1, <4>3
    <3>8. Pruning(p)'
      BY <1>1, <2>3, <3>2, <3>7 DEF Pruning, WellChosen, Copies!Aged
    <3> QED
      BY <3>3, <3>8
  <2> QED
    BY <1>1, <2>3, <2>4, <2>5, AloneKept DEF AloneInv
<1> QED
  BY <1>3, <1>4

\* Removing a victim by its name removes just that file.
LEMMA PruneOneFacts ==
    ASSUME IInv, AloneInv, NEW p \in alone, Copies!PruneOne(p)
    PROVE  /\ run[p].victims \in Seq(files) /\ run[p].victims # << >>
           /\ Head(run[p].victims) \in files
           /\ files' = files \ {Head(run[p].victims)}
           /\ Cardinality(files) \in Nat /\ Cardinality(files') = Cardinality(files) - 1
           /\ run' = [run EXCEPT ![p].victims = Tail(@)]
<1>1. /\ run[p].phase = "prune" /\ run[p].victims # << >>
      /\ files' = files \ Copies!Present(Head(run[p].victims))
  BY DEF Copies!PruneOne, Copies!At
<1>2. run[p].victims \in Seq(files)
  BY <1>1 DEF AloneInv, Lonely, Pruning, WellChosen
<1>3. Head(run[p].victims) \in files
  BY <1>1, <1>2, HeadTailProperties
<1>4. Copies!Present(Head(run[p].victims)) = {Head(run[p].victims)}
  BY <1>3 DEF Copies!Present, AloneInv, Ledger
<1>5. /\ Cardinality(files) \in Nat
      /\ Cardinality(files \ {Head(run[p].victims)}) = Cardinality(files) - 1
  <2>1. IsFiniteSet(files)
    BY DEF AloneInv, Ledger
  <2>2. PICK first : first = Head(run[p].victims) /\ first \in files
    BY <1>3
  <2>3. Cardinality(files \ {first}) = Cardinality(files) - 1
    BY <2>1, <2>2, FS_RemoveElement
  <2> QED
    BY <2>1, <2>2, <2>3, FS_CardinalityType
<1>6. run' = [run EXCEPT ![p].victims = Tail(@)]
  BY <1>4 DEF Copies!PruneOne
<1> QED
  BY <1>1, <1>2, <1>3, <1>4, <1>5, <1>6

LEMMA PruneOneAlone ==
    ASSUME IInv, AloneInv, NEW p \in Process, Copies!PruneOne(p)
    PROVE  AloneInv'
<1>1. /\ run[p].phase = "prune" /\ UNCHANGED <<begun, today, crashes, alone>>
      /\ crashes \in Nat /\ files' \subseteq files
  BY DEF Copies!PruneOne, Copies!At, AloneInv, Ledger
<1>2. CASE Copies!Exit(p)
  BY <1>1, <1>2, StopKept
<1>3. CASE run' = [run EXCEPT ![p].victims = Tail(@)]
  <2>1. /\ run'[p].phase = "prune" /\ run'[p].victims = Tail(run[p].victims)
        /\ run'[p].stem = run[p].stem /\ run'[p].compress = run[p].compress
        /\ \A q \in Process \ {p} : run'[q] = run[q]
    BY <1>1, <1>3 DEF IInv, Typed, IsRun
  <2>2. Ledger'
    BY <1>1, <2>1, QuietLedger DEF AloneInv
  <2>3. ASSUME p \in alone
        PROVE  Making(p)' /\ Pruning(p)'
    <3>1. PICK victims, first, left :
             /\ victims = run[p].victims /\ first = Head(victims) /\ left = Tail(victims)
             /\ victims \in Seq(files) /\ victims # << >> /\ first \in files
      BY <2>3, PruneOneFacts
    <3>2. /\ files' = files \ {first}
          /\ Cardinality(files) \in Nat /\ Cardinality(files') = Cardinality(files) - 1
      BY <2>3, <3>1, PruneOneFacts
    <3>3. /\ Own(p) # {} /\ \A f \in Own(p) : Fresh(f)
          /\ Pruning(p)
      BY <1>1, <2>3 DEF AloneInv, Lonely, Making
    <3>4. PICK rest : rest = Cardinality(files) - Len(victims)
      OBVIOUS
    <3>5. /\ \A i, j \in 1 .. Len(victims) : victims[i] = victims[j] => i = j
          /\ \A i \in 1 .. Len(victims) : victims[i] \notin Own(p)
          /\ \A f \in files : Copies!Aged(f) => \E i \in 1 .. Len(victims) : victims[i] = f
          /\ RetentionCount > 0 => rest <= RetentionCount
          /\ \A i \in 1 .. Len(victims) : Copies!Aged(victims[i]) \/ rest >= RetentionCount
      BY <3>1, <3>3, <3>4 DEF Pruning, WellChosen
    <3>6. /\ Len(victims) \in Nat /\ Len(victims) >= 1 /\ first = victims[1]
          /\ left \in Seq(files) /\ Len(left) = Len(victims) - 1
          /\ \A i \in 1 .. Len(left) : i + 1 \in 1 .. Len(victims) /\ left[i] = victims[i + 1]
      <4>1. Len(victims) \in Nat /\ Len(victims) >= 1 /\ first = victims[1]
        BY <3>1, EmptySeq, LenProperties
      <4>2. /\ left \in Seq(files) /\ Len(left) = Len(victims) - 1
            /\ \A i \in 1 .. Len(left) : left[i] = victims[i + 1]
        BY <3>1, HeadTailProperties
      <4> QED
        BY <4>1, <4>2
    <3>7. first \notin Own(p)
      BY <3>5, <3>6
    <3>8. Own(p)' = Own(p) /\ \A f \in Own(p)' : Fresh(f)'
      <4>1. Own(p)' = Own(p)
        BY <2>1, <3>2, <3>7 DEF Own, Copies!Named
      <4> QED
        BY <1>1, <3>2, <3>3, <4>1 DEF Fresh
    <3>9. Making(p)'
      BY <2>1, <3>3, <3>8 DEF Making
    <3>10. left \in Seq(files')
      <4>1. \A i \in 1 .. Len(left) : left[i] \in files'
        <5> SUFFICES ASSUME NEW i \in 1 .. Len(left) PROVE left[i] \in files'
          OBVIOUS
        <5>1. left[i] \in files /\ left[i] = victims[i + 1] /\ i + 1 \in 1 .. Len(victims)
          BY <3>6, ElementOfSeq
        <5>2. 1 \in 1 .. Len(victims) /\ i + 1 # 1
          BY <3>6
        <5>3. left[i] # first
          BY <3>5, <3>6, <5>1, <5>2
        <5> QED
          BY <3>2, <5>1, <5>3
      <4>2. Len(left) \in Nat /\ left = [i \in 1 .. Len(left) |-> left[i]]
        BY <3>6, LenProperties
      <4> QED
        BY <4>1, <4>2, SeqDef
    <3>11. \A i, j \in 1 .. Len(left) : left[i] = left[j] => i = j
      BY <3>5, <3>6
    <3>12. \A i \in 1 .. Len(left) : left[i] \notin Own(p)
      BY <3>5, <3>6
    <3>13. ASSUME NEW f \in files', Copies!Aged(f)
           PROVE  \E i \in 1 .. Len(left) : left[i] = f
      <4>1. PICK k \in 1 .. Len(victims) : victims[k] = f
        BY <3>2, <3>5, <3>13
      <4>2. k # 1
        BY <3>2, <3>6, <4>1
      <4>3. k - 1 \in 1 .. Len(left) /\ (k - 1) + 1 = k
        BY <3>6, <4>1, <4>2
      <4> QED
        BY <3>6, <4>1, <4>3
    <3>14. rest = Cardinality(files') - Len(left)
      BY <3>2, <3>4, <3>6
    <3>15. \A i \in 1 .. Len(left) : Copies!Aged(left[i]) \/ rest >= RetentionCount
      BY <3>5, <3>6
    <3>16. \A f : Copies!Aged(f)' = Copies!Aged(f)
      BY <1>1 DEF Copies!Aged
    <3>17. run'[p].victims = left
      BY <2>1, <3>1
    <3>18. Pruning(p)'
      <4>1. run'[p].victims \in Seq(files')
        BY <3>10, <3>17
      <4> QED
        BY <1>1, <3>5, <3>8, <3>10, <3>11, <3>12, <3>13, <3>14, <3>15, <3>17 DEF Pruning, WellChosen, Copies!Aged
    <3> QED
      BY <3>9, <3>18
  <2> QED
    BY <1>1, <2>1, <2>2, <2>3, AloneKept DEF AloneInv
<1> QED
  BY <1>2, <1>3 DEF Copies!PruneOne

LEMMA DoneAlone ==
    ASSUME IInv, AloneInv, NEW p \in Process, Copies!Done(p)
    PROVE  AloneInv'
<1>1. /\ run[p].phase = "prune" /\ UNCHANGED <<files, begun, today, crashes, alone>>
      /\ Copies!Go(p, "idle")
  BY DEF Copies!Done, Copies!At
<1>2. /\ run'[p].phase = "idle" /\ run'[p].stem = run[p].stem /\ run'[p].compress = run[p].compress
      /\ \A q \in Process \ {p} : run'[q] = run[q]
  BY <1>1, GoKeeps DEF IInv
<1>3. Ledger'
  BY <1>1, <1>2, QuietLedger DEF AloneInv
<1>4. Making(p)'
  BY <1>2 DEF Making
<1> QED
  BY <1>1, <1>2, <1>3, <1>4, AloneKept DEF AloneInv

-----------------------------------------------------------------------------
(* Restores, deaths and days.                                              *)

LEMMA RestoreAlone ==
    ASSUME IInv, AloneInv, NEW p \in Process, Copies!Restore(p)
    PROVE  AloneInv'
<1>1. /\ run[p].phase # "idle" /\ Copies!Exit(p)
      /\ UNCHANGED <<begun, today, crashes, alone>> /\ crashes \in Nat
  BY DEF Copies!Restore, AloneInv, Ledger
<1>2. /\ run'[p].phase = "idle" /\ run'[p].stem = 0 /\ run'[p].compress \in BOOLEAN
      /\ \A q \in Process \ {p} : run'[q] = run[q]
  BY <1>1, ExitKeeps DEF IInv
<1>3. CASE files' = files
  BY <1>1, <1>3, StopKept
<1>4. CASE Copies!Put(p, FALSE, "empty", 0)
  <2>1. PICK new : new = [stem |-> run[p].stem, gz |-> FALSE, content |-> "empty", state |-> 0,
                          day |-> today, order |-> Copies!Latest + 1]
    OBVIOUS
  <2>2. files' = (files \ Copies!Named(p, FALSE)) \cup {new}
    BY <1>4, <2>1 DEF Copies!Put
  <2>3. new.stem = run[p].stem /\ new.gz = FALSE /\ new.order = Copies!Latest + 1
    BY <2>1
  <2>4. \A f \in files' : f = new \/ (f \in files /\ ~(f.stem = new.stem /\ f.gz = new.gz))
    BY <2>2, <2>3 DEF Copies!Named
  <2>5. \A q \in Process : run'[q].stem <= begun /\ run'[q].compress \in BOOLEAN
    BY <1>2 DEF AloneInv, Ledger, IInv, Typed
  <2>6. new.stem <= begun
    BY <2>3 DEF AloneInv, Ledger
  <2>7. Ledger'
    BY <1>1, <2>3, <2>4, <2>5, <2>6, NewFile DEF AloneInv
  <2>8. Making(p)'
    BY <1>2 DEF Making
  <2> QED
    BY <1>1, <1>2, <2>7, <2>8, AloneKept DEF AloneInv
<1> QED
  BY <1>3, <1>4 DEF Copies!Restore

LEMMA BeginRestoreAlone ==
    ASSUME IInv, AloneInv, NEW p \in Process, NEW f \in files, Copies!BeginRestore(p, f)
    PROVE  AloneInv'
<1>1. /\ run[p].phase = "idle" /\ UNCHANGED <<files, begun, today, crashes>>
      /\ alone' = IF Copies!Busy(p) THEN {} ELSE {p}
  BY DEF Copies!BeginRestore, Copies!At
<1>2. ASSUME NEW q \in Process
      PROVE  \/ run'[q] = run[q]
             \/ /\ run[q].phase = "unpacked" /\ q # p
                /\ run'[q] = [run[q] EXCEPT !.content = "shared"]
             \/ /\ q = p
                /\ run'[q] = [Copies!Idle EXCEPT
                      !.phase = IF f.gz THEN "unpacked" ELSE "restore",
                      !.stem = f.stem, !.state = f.state,
                      !.content = IF Copies!Sharing(p, f) # {} THEN "shared" ELSE "open"]
  BY DEF Copies!BeginRestore, Copies!Sharing, Copies!At
<1>3. ASSUME NEW q \in Process
      PROVE  /\ run'[q].stem <= begun /\ run'[q].compress \in BOOLEAN
             /\ q = p => run'[q].phase \in {"unpacked", "restore", "idle"}
             /\ q # p /\ run[q].phase = "idle" => run'[q].phase = "idle"
  <2>1. run[q].stem <= begun /\ run[q].compress \in BOOLEAN /\ f.stem <= begun /\ IsRun(run[q])
    BY DEF AloneInv, Ledger, IInv, Typed
  <2>2. CASE run'[q] = run[q]
    BY <1>1, <2>1, <2>2
  <2>3. CASE /\ run[q].phase = "unpacked" /\ q # p
             /\ run'[q] = [run[q] EXCEPT !.content = "shared"]
    <3>1. run'[q].stem = run[q].stem /\ run'[q].compress = run[q].compress
      BY <2>1, <2>3 DEF IsRun
    <3> QED
      BY <2>1, <2>3, <3>1
  <2>4. CASE /\ q = p
             /\ run'[q] = [Copies!Idle EXCEPT
                      !.phase = IF f.gz THEN "unpacked" ELSE "restore",
                      !.stem = f.stem, !.state = f.state,
                      !.content = IF Copies!Sharing(p, f) # {} THEN "shared" ELSE "open"]
    <3>1. /\ run'[q].phase = (IF f.gz THEN "unpacked" ELSE "restore")
          /\ run'[q].stem = f.stem /\ run'[q].compress = FALSE
      BY <2>4 DEF Copies!Idle
    <3> QED
      BY <2>1, <2>4, <3>1
  <2> QED
    BY <1>2, <2>2, <2>3, <2>4
<1>6. Ledger'
  BY <1>1, <1>3, LedgerKept DEF AloneInv, Ledger, IInv, Typed
<1>7. run'[p].phase \in {"unpacked", "restore", "idle"}
  BY <1>3
<1>8. Making(p)'
  BY <1>7 DEF Making
<1>9. ASSUME ~Copies!Busy(p), NEW q \in Process \ {p}
      PROVE  run'[q].phase = "idle"
  BY <1>3, <1>9 DEF Copies!Busy
<1>10. Lonely'
  BY <1>1, <1>7, <1>8, <1>9 DEF Lonely
<1> QED
  BY <1>6, <1>10 DEF AloneInv

LEMMA CrashAlone ==
    ASSUME IInv, AloneInv, NEW p \in Process, Copies!Crash(p)
    PROVE  AloneInv'
<1>1. /\ run[p].phase # "idle" /\ Copies!Exit(p) /\ crashes' \in Nat
      /\ UNCHANGED <<files, begun, today, alone>>
  BY DEF Copies!Crash, Copies!At, AloneInv, Ledger
<1> QED
  BY <1>1, StopKept

LEMMA NextDayAlone ==
    ASSUME IInv, AloneInv, Copies!NextDay
    PROVE  AloneInv'
<1>1. /\ \A p \in Process : run[p].phase = "idle"
      /\ today' = today + 1 /\ UNCHANGED <<files, run, begun, crashes, alone>>
  BY DEF Copies!NextDay, Copies!At
<1>2. Ledger'
  BY <1>1, LedgerKept DEF AloneInv, Ledger, IInv, Typed
<1>3. \A p \in Process : Making(p)'
  BY <1>1 DEF Making
<1> QED
  BY <1>1, <1>2, <1>3 DEF AloneInv, Lonely

LEMMA StepAlone ==
    ASSUME IInv, AloneInv, [Copies!Next]_Copies!vars
    PROVE  AloneInv'
<1>1. CASE UNCHANGED Copies!vars
  BY <1>1 DEF Copies!vars, AloneInv, Ledger, Lonely, Making, Pruning, WellChosen, Own, Fresh, Copies!Named,
     Copies!Aged
<1>2. CASE Copies!Next
  BY <1>2, BeginAlone, OpenRawAlone, CopyRawAlone, OpenGzAlone, CloseGzAlone, DiscardRawAlone,
     SizeAlone, ListAlone, StatAlone, PruneOneAlone, DoneAlone, BeginRestoreAlone, RestoreAlone,
     CrashAlone, NextDayAlone DEF Copies!Next, Copies!Step
<1> QED
  BY <1>1, <1>2

LEMMA InitAlone == Copies!Init => AloneInv
<1> SUFFICES ASSUME Copies!Init PROVE AloneInv
  OBVIOUS
<1>1. /\ files = {} /\ today = 0 /\ crashes = 0 /\ begun = 0 /\ alone = {}
      /\ run = [p \in Process |-> Copies!Idle]
  BY DEF Copies!Init
<1>2. Copies!Idle.stem = 0 /\ Copies!Idle.compress = FALSE
  BY DEF Copies!Idle
<1>3. \A p \in Process : run[p].stem = 0 /\ run[p].compress = FALSE
  BY <1>1, <1>2
<1>4. IsFiniteSet(files)
  BY <1>1, FS_EmptySet
<1>5. /\ today \in Nat /\ crashes \in Nat
      /\ \A f \in files : f.stem <= begun /\ f.order \in Nat
      /\ \A f, g \in files : /\ f.stem = g.stem /\ f.gz = g.gz => f = g
                             /\ f.order = g.order => f = g
  BY <1>1
<1>6. ASSUME NEW p \in Process
      PROVE  run[p].stem <= begun /\ run[p].compress \in BOOLEAN
  <2>1. run[p].stem <= begun
    BY <1>1, <1>3
  <2>2. run[p].compress \in BOOLEAN
    BY <1>3, Zenon
  <2> QED
    BY <2>1, <2>2
<1>7. Ledger
  BY <1>4, <1>5, <1>6 DEF Ledger
<1> QED
  BY <1>1, <1>7 DEF AloneInv, Lonely

-----------------------------------------------------------------------------
(* The theorems about a process that runs alone.                           *)

\* What a process that runs alone knows of the directory.
THEOREM AloneInvariant == Spec => [](part = "backups" => IInv /\ AloneInv)
<1> DEFINE Inv  == part = "backups" => IInv
           More == part = "backups" => IInv /\ AloneInv
<1>1. Init => More
  BY InitIInv, InitAlone, CopiesStart
<1>2. Inv /\ Inv' /\ More /\ [Next]_allVars => More'
  <2>1. [Next]_allVars => part' = part
    BY DEF Next, allVars
  <2> QED
    BY <2>1, StepAlone, CopiesStep
<1> QED
  BY <1>1, <1>2, BackupsInvariant, PTL DEF Spec

\* Alone, a pruning removes a file that is not too old only while more files than
\* the count are left (prune_backups).
THEOREM NeverTooFewHolds == Spec => NeverTooFew
<1>1. IInv /\ AloneInv /\ [Copies!Next]_Copies!vars => UNCHANGED backupVars \/ Copies!PrunedInExcess
  <2> SUFFICES ASSUME IInv, AloneInv, Copies!Next, NEW p \in alone,
                      Copies!At(p, "prune"), run'[p] # run[p], NEW f \in files \ files'
               PROVE  Copies!Aged(f) \/ Cardinality(files') >= RetentionCount
    BY CopiesCardinality DEF Copies!PrunedInExcess, Copies!vars, backupVars
  <2>1. /\ run[p].phase = "prune" /\ p \in Process
        /\ \A q \in Process \ {p} : run[q].phase = "idle"
    BY DEF Copies!At, AloneInv, Lonely
  <2>2. PICK q \in Process : \/ Copies!OpenRaw(q) \/ Copies!CopyRaw(q) \/ Copies!OpenGz(q)
                            \/ Copies!CloseGz(q) \/ Copies!DiscardRaw(q) \/ Copies!PruneOne(q)
                            \/ Copies!Restore(q)
    BY DEF Copies!Next, Copies!Step, Copies!Begin, Copies!Size, Copies!List,
       Copies!Stat, Copies!Done, Copies!BeginRestore, Copies!Crash, Copies!NextDay
  <2>3. Copies!PruneOne(p)
    BY <2>1, <2>2 DEF Copies!At, Copies!OpenRaw, Copies!CopyRaw, Copies!OpenGz, Copies!CloseGz,
       Copies!DiscardRaw, Copies!PruneOne, Copies!Restore
  <2>4. PICK victims : /\ victims = run[p].victims
                       /\ victims \in Seq(files) /\ victims # << >>
                       /\ files' = files \ {Head(victims)}
                       /\ Cardinality(files) \in Nat
                       /\ Cardinality(files') = Cardinality(files) - 1
    BY <2>3, PruneOneFacts
  <2>5. Len(victims) \in Nat /\ Len(victims) >= 1 /\ Head(victims) = victims[1]
    BY <2>4, EmptySeq, LenProperties
  <2>6. PICK rest : rest = Cardinality(files) - Len(victims)
    OBVIOUS
  <2>7. \A i \in 1 .. Len(victims) : Copies!Aged(victims[i]) \/ rest >= RetentionCount
    BY <2>1, <2>4, <2>6 DEF AloneInv, Lonely, Pruning, WellChosen
  <2>8. Copies!Aged(victims[1]) \/ rest >= RetentionCount
    BY <2>5, <2>7
  <2>9. f = victims[1]
    BY <2>4, <2>5
  <2> QED
    BY <2>4, <2>5, <2>6, <2>8, <2>9, CopiesAssumption
<1>2. (part = "backups" => IInv /\ AloneInv) /\ [Next]_allVars
        => [part = "backups" => Copies!PrunedInExcess]_backupVars
  BY <1>1, CopiesStep
<1> QED
  BY <1>2, AloneInvariant, PTL DEF Spec, NeverTooFew

\* A run that ends by itself, alone, has nothing left to remove.
LEMMA FinishedFacts ==
    ASSUME IInv, AloneInv, Copies!Next, tidy'
    PROVE  \E p \in alone : /\ run[p].phase = "prune" /\ run[p].victims = << >>
                           /\ UNCHANGED <<files, today>>
<1>1. /\ Copies!Step /\ crashes' = crashes
      /\ \E p \in alone : /\ Copies!At(p, "prune") /\ run[p].victims = << >>
                          /\ ~(Copies!At(p, "prune"))'
  BY DEF Copies!Next, Copies!Finished
<1>2. PICK p \in alone : /\ run[p].phase = "prune" /\ run[p].victims = << >>
                         /\ run'[p].phase # "prune"
  BY <1>1 DEF Copies!At
<1>3. /\ p \in Process /\ \A q \in Process \ {p} : run[q].phase = "idle"
  BY DEF AloneInv, Lonely
<1>4. CASE Copies!NextDay
  BY <1>2, <1>4 DEF Copies!NextDay
<1>5. ASSUME NEW q \in Process, NEW compress \in BOOLEAN, Copies!Begin(q, compress)
      PROVE  FALSE
  BY <1>2, <1>5 DEF Copies!Begin, Copies!At, IInv, Typed
<1>6. ASSUME NEW q \in Process, NEW f \in files, Copies!BeginRestore(q, f)
      PROVE  FALSE
  <2>1. run[q].phase = "idle"
    BY <1>6 DEF Copies!BeginRestore, Copies!At
  <2>2. p \notin Copies!Sharing(q, f) /\ p # q
    BY <1>2, <2>1 DEF Copies!Sharing, Copies!At
  <2>3. run'[p] = run[p]
    BY <1>3, <1>6, <2>2 DEF Copies!BeginRestore
  <2> QED
    BY <1>2, <2>3
<1>7. ASSUME NEW q \in Process, Copies!Crash(q)
      PROVE  FALSE
  BY <1>1, <1>7 DEF Copies!Crash, AloneInv, Ledger
<1>8. ASSUME NEW q \in Process,
             \/ Copies!OpenRaw(q) \/ Copies!CopyRaw(q) \/ Copies!OpenGz(q) \/ Copies!CloseGz(q)
             \/ Copies!DiscardRaw(q) \/ Copies!Size(q) \/ Copies!List(q) \/ Copies!Stat(q)
             \/ Copies!PruneOne(q) \/ Copies!Restore(q)
      PROVE  FALSE
  <2>1. run[q].phase \in {"open", "copy", "compress", "pack", "discard", "size", "list", "stat",
                          "unpacked", "restore"}
        \/ Copies!PruneOne(q)
    BY <1>8 DEF Copies!At, Copies!OpenRaw, Copies!CopyRaw, Copies!OpenGz, Copies!CloseGz,
       Copies!DiscardRaw, Copies!Size, Copies!List, Copies!Stat, Copies!Restore
  <2>2. Copies!PruneOne(p)
    BY <1>2, <1>3, <2>1 DEF Copies!At, Copies!PruneOne
  <2> QED
    BY <1>2, <2>2 DEF Copies!PruneOne
<1>9. ASSUME NEW q \in Process, Copies!Done(q)
      PROVE  UNCHANGED <<files, today>>
  BY <1>9 DEF Copies!Done
<1> QED
  BY <1>1, <1>2, <1>4, <1>5, <1>6, <1>7, <1>8, <1>9 DEF Copies!Step

\* A run that was alone ends with no more files than the count, none older than the
\* limit, and its own backup newest and whole (prune_backups).
THEOREM RetentionMetHolds == Spec => []RetentionMet
<1> DEFINE Inv == part = "backups" => IInv /\ AloneInv
           Met == part = "backups" => Copies!RetentionMet
<1>1. Init => Met
  BY CopiesStart DEF Copies!Init, Copies!RetentionMet
<1>2. IInv /\ AloneInv /\ Copies!Next => Copies!RetentionMet'
  <2> SUFFICES ASSUME IInv, AloneInv, Copies!Next, tidy'
               PROVE  /\ RetentionCount > 0 => Cardinality(files') <= RetentionCount
                      /\ \A f \in files' : ~Copies!Aged(f)'
                      /\ \E f \in files' : /\ f.content = "whole"
                                           /\ \A g \in files' : g.order <= f.order
    BY CopiesCardinality DEF Copies!RetentionMet, Copies!Whole
  <2>1. PICK p \in alone : /\ run[p].phase = "prune" /\ run[p].victims = << >>
                           /\ files' = files /\ today' = today
    BY FinishedFacts
  <2>2. /\ Own(p) # {} /\ \A f \in Own(p) : Fresh(f)
        /\ Pruning(p)
    BY <2>1 DEF AloneInv, Lonely, Making
  <2>3. Len(run[p].victims) = 0 /\ Cardinality(files) \in Nat
    BY <2>1, FS_CardinalityType DEF AloneInv, Ledger
  <2>4. RetentionCount > 0 => Cardinality(files) <= RetentionCount
    BY <2>2, <2>3 DEF Pruning, WellChosen
  <2>5. \A f \in files : ~Copies!Aged(f)
    BY <2>2, <2>3 DEF Pruning, WellChosen
  <2>6. \E f \in files : f.content = "whole" /\ \A g \in files : g.order <= f.order
    BY <2>2 DEF Own, Fresh, Copies!Named
  <2> QED
    BY <2>1, <2>4, <2>5, <2>6 DEF Copies!Aged
<1>3. Inv /\ Met /\ [Next]_allVars => Met'
  <2>1. [Next]_allVars => part' = part
    BY DEF Next, allVars
  <2>2. UNCHANGED Copies!vars /\ Copies!RetentionMet => Copies!RetentionMet'
    BY DEF Copies!vars, Copies!RetentionMet, Copies!Aged, Copies!Whole
  <2> QED
    BY <1>2, <2>1, <2>2, CopiesStep
<1> QED
  BY <1>1, <1>3, AloneInvariant, PTL DEF Spec, RetentionMet
=============================================================================
