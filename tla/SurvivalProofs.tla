---------------------------- MODULE SurvivalProofs ----------------------------
(* A good backup survives: the counting argument about Backups, for any      *)
(* number of processes, runs, restores and deaths, and any retention.        *)
EXTENDS BackupsProofs

-----------------------------------------------------------------------------
(* A backup that lasts.  A file that is whole may still go: its name is on   *)
(* the list of a run that prunes, or the run that made it packs it, while    *)
(* the compressed file is gone or on such a list.                            *)

Phase(x)      == run[x].phase
Called(x, gz) == [stem |-> run[x].stem, gz |-> gz]
Targets(x)    == {run[x].victims[i] : i \in 1 .. Len(run[x].victims)}

DoomedBy(x, n) == \E v \in Targets(x) : NameOf(v) = n
Doomed(n)      == \E x \in Process : DoomedBy(x, n)
There(n)       == \E f \in files : NameOf(f) = n

\* A name that another run has met, so that a file of that name may be gone soon.
Known(n) == There(n) \/ \E x \in Process : \/ DoomedBy(x, n)
                                           \/ n \in run[x].listed
                                           \/ Phase(x) = "restore" /\ n = Called(x, FALSE)

Packs    == {"pack", "discard"}
Working  == {"open", "copy", "compress"} \cup Packs
Finishes == {"compress", "pack", "discard", "size", "list", "stat", "prune"}

\* The file that a run writes.
Writes(x, f) == /\ f.content = "open" /\ NameOf(f) = Called(x, f.gz)
                /\ IF f.gz THEN Phase(x) = "pack" ELSE Phase(x) = "copy"

GzLost(x)  == ~There(Called(x, TRUE)) \/ Doomed(Called(x, TRUE))
Widowed(f) == ~f.gz /\ \E x \in Process : /\ Phase(x) \in Packs /\ run[x].stem = f.stem
                                          /\ GzLost(x)
Good(f)    == /\ f \in files /\ f.content = "whole"
              /\ ~Doomed(NameOf(f)) /\ ~Widowed(f)
Lasting(f) == Good(f) /\ ~Copies!Aged(f)

-----------------------------------------------------------------------------
(* The invariant: what each process knows and has.                          *)

Shaped(x) == /\ run[x].victims \in Seq(Targets(x))
             /\ Phase(x) # "prune" => run[x].victims = << >>
             /\ \A v \in Targets(x) : v.stem \in Nat /\ v.stem <= begun
             /\ \A n \in run[x].listed : n.stem \in Nat /\ n.stem <= begun

\* Nobody knows the files that a run has still to create.
Unused(x) == /\ Phase(x) \in {"open", "copy", "compress"} => ~Known(Called(x, TRUE))
             /\ Phase(x) = "open" => ~Known(Called(x, FALSE))

Apart(x) == \A y \in Process : x # y /\ Phase(x) \in Working /\ Phase(y) \in Working
                                  => run[x].stem # run[y].stem

\* The two files of a backup under way.
Files(x, gz) == {f \in files : f.stem = run[x].stem /\ f.gz = gz}

OwnFiles(x) ==
    /\ Phase(x) \in Working => \A f \in files : f.stem = run[x].stem => f.day = today
    /\ Phase(x) \in {"compress"} \cup Packs => \A f \in Files(x, FALSE) : f.content # "open"
    /\ Phase(x) \in Packs =>
          /\ run[x].content \in {"whole", "empty"}
          /\ \A f \in Files(x, FALSE) : f.content = "whole" =>
                /\ run[x].content = "whole"
                /\ \A g \in Files(x, TRUE) : f.order < g.order
    /\ Phase(x) = "pack" => \A g \in Files(x, TRUE) : g.content = "open"
    /\ Phase(x) = "discard" => \A g \in Files(x, TRUE) : g.content = run[x].content

\* Who has met the compressed file has met the raw one, or it is of no use.
RawSpent(x) == \A f \in Files(x, FALSE) : f.content # "whole"
Together(x, y) ==
    Phase(x) \in Packs =>
       /\ DoomedBy(y, Called(x, TRUE)) => DoomedBy(y, Called(x, FALSE)) \/ RawSpent(x)
       /\ Called(x, TRUE) \in run[y].listed => Called(x, FALSE) \in run[y].listed \/ RawSpent(x)

\* A file that has taken the place of one that is to be removed was open then.
Replaced(x) == \A v \in Targets(x) : \A f \in files :
    NameOf(f) = NameOf(v) /\ f # v =>
        f.content # "open" /\ (f.content = "whole" => v.content = "open")

\* What a run took for old when another had not finished it.
Marked(x) == {NameOf(v) : v \in {w \in Targets(x) : w.content = "open" /\
                 \/ \E f \in files : NameOf(f) = NameOf(w) /\ f.content = "whole"
                 \/ w \in files /\ \E y \in Process : Writes(y, w)}}
FewMarked(x) == /\ IsFiniteSet(Marked(x))
                /\ Cardinality(Marked(x)) <= Cardinality(Process) - 1

\* Files that are of no use, but for those of a run that is under way, and runs
\* that will leave one.
PacksEmpty(x) == Phase(x) \in Packs /\ run[x].content = "empty"
Holds(x)      == Phase(x) = "restore" \/ PacksEmpty(x)
Excuses(x, f) == Writes(x, f) \/ (PacksEmpty(x) /\ f.stem = run[x].stem)
Charged(f)    == f.content # "whole" /\ \A x \in Process : ~Excuses(x, f)
Debts == {<<"file", NameOf(f)>> : f \in {g \in files : Charged(g)}}
         \cup {<<"run", x>> : x \in {y \in Process : Holds(y)}}
DebtsPaid == IsFiniteSet(Debts) /\ Cardinality(Debts) <= crashes + restores

\* Before the first backup is finished there are only files under way.
Beginning ==
    made = {} => /\ \A f \in files : f.content = "open"
                 /\ \A x \in Process :
                       /\ Phase(x) \in {"idle", "open", "copy", "restore"}
                       /\ Phase(x) = "copy" => \E f \in files : Writes(x, f)
                       /\ Phase(x) = "restore" => There(Called(x, FALSE))

Others == Cardinality(Process) - 1
Room == RetentionCount <= 0 \/ RetentionCount > crashes + restores + Others * Others

\* A backup that is to go although it is not too old is not the last.
Newer(x) ==
    Room => \A v \in Targets(x) : v \in files /\ v.content = "whole" /\ ~Copies!Aged(v)
                => \E g \in files : Lasting(g) /\ v.order < g.order

\* A run that is past its copying has left one that is not too old.
Late(x) == \/ Phase(x) \in Finishes
           \/ Phase(x) = "copy" /\ \A f \in files : ~Writes(x, f)
Surviving ==
    made # {} /\ Room => /\ \E f \in files : Good(f)
                         /\ (\E x \in Process : Late(x)) => \E f \in files : Lasting(f)

SurvInv == /\ \A x \in Process : /\ Shaped(x) /\ Unused(x) /\ Apart(x) /\ OwnFiles(x)
                                 /\ Replaced(x) /\ FewMarked(x) /\ Newer(x)
                                 /\ \A y \in Process : Together(x, y)
           /\ DebtsPaid /\ Beginning /\ Surviving

-----------------------------------------------------------------------------
(* Names.                                                                  *)

LEMMA NameFacts ==
    /\ \A f, g : NameOf(f) = NameOf(g) <=> f.stem = g.stem /\ f.gz = g.gz
    /\ \A x, f, gz : NameOf(f) = Called(x, gz) <=> f.stem = run[x].stem /\ f.gz = gz
    /\ \A x, y, gz1, gz2 : Called(x, gz1) = Called(y, gz2)
                             <=> run[x].stem = run[y].stem /\ gz1 = gz2
    /\ \A x, gz : Called(x, gz).stem = run[x].stem /\ Called(x, gz).gz = gz
    /\ \A f : NameOf(f).stem = f.stem /\ NameOf(f).gz = f.gz
  BY DEF NameOf, Called

LEMMA KnownBefore ==
    ASSUME IInv, AloneInv, SurvInv, NEW n, Known(n)
    PROVE  n.stem <= begun
<1>1. CASE There(n)
  BY <1>1, NameFacts DEF There, AloneInv, Ledger
<1>2. ASSUME NEW x \in Process, DoomedBy(x, n)
      PROVE  n.stem <= begun
  BY <1>2, NameFacts DEF DoomedBy, SurvInv, Shaped
<1>3. ASSUME NEW x \in Process, n \in run[x].listed
      PROVE  n.stem <= begun
  BY <1>3 DEF SurvInv, Shaped
<1>4. ASSUME NEW x \in Process, n = Called(x, FALSE)
      PROVE  n.stem <= begun
  BY <1>4 DEF Called, AloneInv, Ledger
<1> QED
  BY <1>1, <1>2, <1>3, <1>4 DEF Known

-----------------------------------------------------------------------------
(* A step of one process, as the others see it.                            *)

Aside(p) ==
    \A z \in Process \ {p} :
       /\ run'[z].phase = run[z].phase /\ run'[z].stem = run[z].stem
       /\ run'[z].victims = run[z].victims /\ run'[z].listed = run[z].listed
       /\ run[z].phase \in Packs => run'[z].content = run[z].content

\* A file that it writes: a new one of a backup, the same when it is finished, or
\* the empty one that a restore leaves.
NewFileOf(p, f) ==
    /\ f.day = today /\ f.stem = run[p].stem
    /\ \A g \in files : g.order < f.order
    /\ \/ Phase(p) \in Working
       \/ Phase(p) = "restore" /\ f.gz = FALSE /\ f.content = "empty"
    /\ f.content = "open" => ~Known(NameOf(f))
    /\ f.content = "whole" => \E u \in files : NameOf(u) = NameOf(f) /\ Writes(p, u)

Wrote(p) == \A f \in files' : f \in files \/ NewFileOf(p, f)

Removed(p) ==
    \A f \in files : \/ f \in files'
                     \/ DoomedBy(p, NameOf(f))
                     \/ Writes(p, f) /\ There(NameOf(f))'
                     \/ Phase(p) = "discard" /\ NameOf(f) = Called(p, FALSE)

Learns(p) == /\ \A n : DoomedBy(p, n)' => Known(n)
             /\ \A n \in run'[p].listed : Known(n)
             /\ Phase(p)' = "restore" => Known(Called(p, FALSE)')

Works(p) == Phase(p)' \in Working =>
               run'[p].stem > begun \/ (Phase(p) \in Working /\ run'[p].stem = run[p].stem)

Moves(p) == /\ Aside(p) /\ Wrote(p) /\ Removed(p) /\ Learns(p) /\ Works(p)
            /\ today' = today /\ begun' \in Nat /\ begun <= begun'

LEMMA SameTargets ==
    ASSUME NEW p \in Process, Aside(p), NEW z \in Process \ {p}
    PROVE  /\ Targets(z)' = Targets(z) /\ Phase(z)' = Phase(z)
           /\ \A gz : Called(z, gz)' = Called(z, gz)
           /\ \A n : DoomedBy(z, n)' <=> DoomedBy(z, n)
<1>1. run'[z].victims = run[z].victims /\ run'[z].stem = run[z].stem /\ run'[z].phase = run[z].phase
  BY DEF Aside
<1>2. Targets(z)' = Targets(z)
  BY <1>1 DEF Targets
<1> QED
  BY <1>1, <1>2 DEF Phase, Called, DoomedBy, NameOf

LEMMA KnownGrows ==
    ASSUME NEW p \in Process, Moves(p), NEW n, Known(n)'
    PROVE  Known(n) \/ (Phase(p) \in Working /\ n.stem = run[p].stem)
<1>1. ASSUME NEW f \in files', NameOf(f) = n
      PROVE  Known(n) \/ (Phase(p) \in Working /\ n.stem = run[p].stem)
  <2>1. CASE f \in files
    BY <1>1, <2>1 DEF Known, There
  <2>2. CASE NewFileOf(p, f)
    <3>1. n.stem = run[p].stem /\ (f.gz = FALSE => n = Called(p, FALSE))
      BY <1>1, <2>2 DEF NewFileOf, NameOf, Called
    <3> QED
      BY <2>2, <3>1 DEF NewFileOf, Known
  <2> QED
    BY <2>1, <2>2 DEF Moves, Wrote
<1>2. ASSUME NEW x \in Process \ {p},
             DoomedBy(x, n)' \/ n \in run'[x].listed \/ (Phase(x)' = "restore" /\ n = Called(x, FALSE)')
      PROVE  Known(n)
  <2>1. run'[x].listed = run[x].listed
    BY DEF Moves, Aside
  <2> QED
    BY <1>2, <2>1, SameTargets DEF Moves, Known
<1>3. ASSUME DoomedBy(p, n)' \/ n \in run'[p].listed \/ (Phase(p)' = "restore" /\ n = Called(p, FALSE)')
      PROVE  Known(n)
  BY <1>3 DEF Moves, Learns
<1>4. There(n)' => \E f \in files' : NameOf(f) = n
  BY DEF There, NameOf
<1> QED
  BY <1>1, <1>2, <1>3, <1>4 DEF Known

LEMMA OthersNames ==
    ASSUME IInv, AloneInv, SurvInv, NEW p \in Process, Moves(p), NEW z \in Process \ {p}
    PROVE  Shaped(z)' /\ Unused(z)' /\ Apart(z)'
<1>1. /\ Targets(z)' = Targets(z) /\ Phase(z)' = Phase(z)
      /\ \A gz : Called(z, gz)' = Called(z, gz)
      /\ run'[z].victims = run[z].victims /\ run'[z].stem = run[z].stem
      /\ run'[z].listed = run[z].listed
  BY SameTargets DEF Moves, Aside
<1>2. Shaped(z) /\ Unused(z) /\ Apart(z) /\ Apart(p)
  BY DEF SurvInv
<1>3. /\ begun \in Nat /\ begun' \in Nat /\ begun <= begun'
      /\ \A x \in Process : run[x].stem <= begun /\ run[x].stem \in Nat
  BY DEF Moves, IInv, Typed, AloneInv, Ledger
<1>4. Shaped(z)'
  <2>1. ASSUME NEW v \in Targets(z)
        PROVE  v.stem \in Nat /\ v.stem <= begun'
    BY <1>2, <1>3, <2>1 DEF Shaped
  <2>2. ASSUME NEW n \in run[z].listed
        PROVE  n.stem \in Nat /\ n.stem <= begun'
    BY <1>2, <1>3, <2>2 DEF Shaped
  <2>3. (run[z].victims \in Seq(Targets(z)))' /\ (Phase(z)' # "prune" => run'[z].victims = << >>)
    BY <1>1, <1>2 DEF Shaped
  <2> QED
    BY <1>1, <2>1, <2>2, <2>3 DEF Shaped
<1>5. Unused(z)'
  <2>1. ASSUME NEW gz \in BOOLEAN, Phase(z) \in Working, Known(Called(z, gz))'
        PROVE  Known(Called(z, gz))
    <3>1. Known(Called(z, gz)) \/ (Phase(p) \in Working /\ run[z].stem = run[p].stem)
      BY <1>1, <2>1, KnownGrows, NameFacts
    <3> QED
      BY <1>2, <2>1, <3>1 DEF Apart
  <2> QED
    BY <1>1, <1>2, <2>1 DEF Unused, Working
<1>6. Apart(z)'
  <2> SUFFICES ASSUME NEW y \in Process, z # y, Phase(z)' \in Working, Phase(y)' \in Working
               PROVE  run'[z].stem # run'[y].stem
    BY DEF Apart
  <2>1. CASE y = p
    <3>1. CASE run'[p].stem > begun
      BY <1>1, <1>3, <2>1, <3>1
    <3>2. CASE Phase(p) \in Working /\ run'[p].stem = run[p].stem
      BY <1>1, <1>2, <2>1, <3>2 DEF Apart
    <3> QED
      BY <2>1, <3>1, <3>2 DEF Moves, Works
  <2>2. CASE y # p
    BY <1>1, <1>2, <2>2, SameTargets DEF Apart, Moves, Aside
  <2> QED
    BY <2>1, <2>2
<1> QED
  BY <1>4, <1>5, <1>6

LEMMA OthersFiles ==
    ASSUME IInv, AloneInv, SurvInv, NEW p \in Process, Moves(p), NEW z \in Process \ {p}
    PROVE  OwnFiles(z)'
<1>1. /\ Phase(z)' = Phase(z) /\ run'[z].stem = run[z].stem
      /\ Phase(z) \in Packs => run'[z].content = run[z].content
      /\ today' = today
  BY DEF Moves, Aside, Phase
<1>2. ASSUME Phase(z) \in Working, NEW f \in files', f.stem = run[z].stem
      PROVE  f \in files \/ (f.gz = FALSE /\ f.content = "empty" /\ f.day = today)
  <2>1. ~(Phase(p) \in Working /\ run[p].stem = run[z].stem)
    BY <1>2 DEF SurvInv, Apart
  <2> QED
    BY <1>2, <2>1 DEF Moves, Wrote, NewFileOf
<1>3. OwnFiles(z)
  BY DEF SurvInv
<1>4. Phase(z) \in Working => \A f \in files' : f.stem = run[z].stem => f.day = today
  BY <1>2, <1>3 DEF OwnFiles
<1>5. Phase(z) \in {"compress"} \cup Packs => \A f \in Files(z, FALSE)' : f.content # "open"
  BY <1>1, <1>2, <1>3 DEF OwnFiles, Working, Packs, Files
<1>6. Phase(z) \in Packs =>
          /\ run[z].content \in {"whole", "empty"}
          /\ \A f \in Files(z, FALSE)' : f.content = "whole" =>
                /\ run[z].content = "whole"
                /\ \A g \in Files(z, TRUE)' : f.order < g.order
  BY <1>1, <1>2, <1>3 DEF OwnFiles, Working, Packs, Files
<1>7. /\ Phase(z) = "pack" => \A g \in Files(z, TRUE)' : g.content = "open"
      /\ Phase(z) = "discard" => \A g \in Files(z, TRUE)' : g.content = run[z].content
  BY <1>1, <1>2, <1>3 DEF OwnFiles, Working, Packs, Files
<1>8. Phase(z) = "discard" => Phase(z) \in Packs
  BY DEF Packs
<1> QED
  BY <1>1, <1>4, <1>5, <1>6, <1>7, <1>8 DEF OwnFiles

-----------------------------------------------------------------------------
(* Steps after which there is no more to be removed than before.            *)

\* What is to be removed gets less by what is gone, or all of it is forgotten;
\* what is listed is kept, forgotten, or all there is.
Drops(p) ==
    /\ Targets(p)' \subseteq Targets(p)
    /\ \A n : DoomedBy(p, n) => DoomedBy(p, n)' \/ ~There(n)' \/ Targets(p)' = {}
    /\ \/ run'[p].listed = run[p].listed
       \/ run'[p].listed = {}
       \/ files' = files /\ \A n : n \in run'[p].listed <=> There(n)

LEMMA TargetsShrink ==
    ASSUME NEW p \in Process, Moves(p), Targets(p)' \subseteq Targets(p), NEW x \in Process
    PROVE  /\ Targets(x)' \subseteq Targets(x)
           /\ \A n : DoomedBy(x, n)' => DoomedBy(x, n)
<1>1. Targets(x)' \subseteq Targets(x)
  BY SameTargets DEF Moves
<1> QED
  BY <1>1 DEF DoomedBy, NameOf

LEMMA DoomedShrinks ==
    ASSUME NEW p \in Process, Moves(p), Targets(p)' \subseteq Targets(p), NEW n, Doomed(n)'
    PROVE  Doomed(n)
  BY TargetsShrink DEF Doomed

LEMMA RawStaysSpent ==
    ASSUME SurvInv, NEW p \in Process, Moves(p), NEW x \in Process,
           Phase(x) \in Packs, run'[x].stem = run[x].stem, RawSpent(x)
    PROVE  RawSpent(x)'
<1> SUFFICES ASSUME NEW f \in files', f.stem = run[x].stem, f.gz = FALSE, f.content = "whole"
             PROVE  FALSE
  BY DEF RawSpent, Files
<1>1. f \notin files
  BY DEF RawSpent, Files
<1>2. NewFileOf(p, f)
  BY <1>1 DEF Moves, Wrote
<1>3. PICK u \in files : NameOf(u) = NameOf(f) /\ Writes(p, u)
  BY <1>2 DEF NewFileOf
<1>4. Phase(p) = "copy" /\ run[p].stem = run[x].stem
  BY <1>2, <1>3 DEF Writes, NameOf, NewFileOf
<1>5. x # p
  BY <1>4 DEF Packs
<1> QED
  BY <1>4, <1>5 DEF SurvInv, Apart, Working

LEMMA TogetherKept ==
    ASSUME SurvInv, NEW p \in Process, Moves(p), Drops(p), NEW x \in Process, NEW y \in Process,
           Phase(x) \in Packs, run'[x].stem = run[x].stem
    PROVE  Together(x, y)'
<1>1. /\ \A gz : Called(x, gz)' = Called(x, gz)
      /\ RawSpent(x) => RawSpent(x)'
      /\ ~There(Called(x, FALSE))' => RawSpent(x)'
  <2>1. ~There(Called(x, FALSE))' => RawSpent(x)'
    BY DEF There, RawSpent, Files, NameOf, Called
  <2> QED
    BY <2>1, RawStaysSpent DEF Called
<1>2. PICK raw, gz : raw = Called(x, FALSE) /\ gz = Called(x, TRUE)
  OBVIOUS
<1>3. ~There(raw)' => RawSpent(x)'
  BY <1>1, <1>2 DEF There, NameOf
<1>4. /\ DoomedBy(y, gz) => DoomedBy(y, raw) \/ RawSpent(x)
      /\ gz \in run[y].listed => raw \in run[y].listed \/ RawSpent(x)
  BY <1>2 DEF SurvInv, Together
<1>5. ASSUME DoomedBy(y, gz)'
      PROVE  DoomedBy(y, raw)' \/ RawSpent(x)'
  <2>1. DoomedBy(y, raw) \/ RawSpent(x)
    BY <1>4, <1>5, TargetsShrink DEF Drops
  <2>2. CASE y = p /\ DoomedBy(y, raw)
    <3>1. Targets(p)' # {}
      BY <1>5, <2>2 DEF DoomedBy
    <3> QED
      BY <1>3, <2>2, <3>1 DEF Drops
  <2>3. CASE y # p /\ DoomedBy(y, raw)
    BY <2>3, SameTargets DEF Moves
  <2> QED
    BY <1>1, <2>1, <2>2, <2>3
<1>6. ASSUME gz \in run'[y].listed
      PROVE  raw \in run'[y].listed \/ RawSpent(x)'
  <2>1. CASE run'[y].listed = run[y].listed
    BY <1>1, <1>4, <1>6, <2>1
  <2>2. CASE y = p /\ files' = files /\ \A n : n \in run'[p].listed <=> There(n)
    <3>1. There(raw)' <=> There(raw)
      BY <2>2 DEF There, NameOf
    <3> QED
      BY <1>3, <2>2, <3>1
  <2>3. y # p => run'[y].listed = run[y].listed
    BY DEF Moves, Aside
  <2> QED
    BY <1>6, <2>1, <2>2, <2>3 DEF Drops
<1>7. DoomedBy(y, Called(x, TRUE))' <=> DoomedBy(y, gz)'
  BY <1>1, <1>2 DEF DoomedBy, NameOf
<1>8. DoomedBy(y, Called(x, FALSE))' <=> DoomedBy(y, raw)'
  BY <1>1, <1>2 DEF DoomedBy, NameOf
<1> QED
  BY <1>1, <1>2, <1>5, <1>6, <1>7, <1>8 DEF Together

LEMMA ReplacedKept ==
    ASSUME SurvInv, NEW p \in Process, Moves(p), NEW x \in Process, Targets(x)' \subseteq Targets(x)
    PROVE  Replaced(x)'
<1> SUFFICES ASSUME NEW v \in Targets(x), NEW f \in files', NameOf(f) = NameOf(v), f # v
             PROVE  f.content # "open" /\ (f.content = "whole" => v.content = "open")
  BY DEF Replaced, NameOf
<1>1. Replaced(x)
  BY DEF SurvInv
<1>2. CASE f \in files
  BY <1>1, <1>2 DEF Replaced
<1>3. CASE NewFileOf(p, f)
  <2>1. Known(NameOf(f))
    BY DEF Known, DoomedBy
  <2>2. ASSUME f.content = "whole"
        PROVE  v.content = "open"
    <3>1. PICK u \in files : NameOf(u) = NameOf(f) /\ u.content = "open"
      BY <1>3, <2>2 DEF NewFileOf, Writes
    <3> QED
      BY <1>1, <3>1 DEF Replaced
  <2> QED
    BY <1>3, <2>1, <2>2 DEF NewFileOf
<1> QED
  BY <1>2, <1>3 DEF Moves, Wrote

LEMMA FewMarkedKept ==
    ASSUME SurvInv, NEW p \in Process, Moves(p), NEW x \in Process, Targets(x)' \subseteq Targets(x),
           \A f \in files : Writes(p, f)' => Writes(p, f)
    PROVE  FewMarked(x)'
<1>1. Marked(x)' \subseteq Marked(x)
  <2> SUFFICES ASSUME NEW v \in Targets(x), v.content = "open",
                      \/ \E f \in files' : NameOf(f) = NameOf(v) /\ f.content = "whole"
                      \/ v \in files' /\ \E y \in Process : Writes(y, v)'
               PROVE  \/ \E f \in files : NameOf(f) = NameOf(v) /\ f.content = "whole"
                      \/ v \in files /\ \E y \in Process : Writes(y, v)
    BY DEF Marked, NameOf
  <2>1. Replaced(x)
    BY DEF SurvInv
  <2>2. Known(NameOf(v))
    BY DEF Known, DoomedBy
  <2>3. CASE \E f \in files' : NameOf(f) = NameOf(v) /\ f.content = "whole"
    <3>1. PICK f \in files' : NameOf(f) = NameOf(v) /\ f.content = "whole"
      BY <2>3
    <3>2. CASE f \in files
      BY <3>1, <3>2
    <3>3. CASE NewFileOf(p, f)
      <4>1. PICK u \in files : NameOf(u) = NameOf(f) /\ Writes(p, u)
        BY <3>1, <3>3 DEF NewFileOf
      <4>2. u = v
        BY <2>1, <3>1, <4>1 DEF Replaced, Writes
      <4> QED
        BY <4>1, <4>2
    <3> QED
      BY <3>2, <3>3 DEF Moves, Wrote
  <2>4. CASE v \in files' /\ \E y \in Process : Writes(y, v)'
    <3>1. PICK y \in Process : Writes(y, v)'
      BY <2>4
    <3>2. v \in files
      BY <2>2, <2>4 DEF Moves, Wrote, NewFileOf
    <3>3. y # p => Writes(y, v)
      BY <3>1 DEF Moves, Aside, Writes, NameOf, Called, Phase
    <3> QED
      BY <3>1, <3>2, <3>3
  <2> QED
    BY <2>3, <2>4
<1>2. FewMarked(x) /\ IsFiniteSet(Process)
  BY CopiesAssumption DEF SurvInv
<1>3. IsFiniteSet(Marked(x)') /\ Cardinality(Marked(x)') <= Cardinality(Marked(x))
  BY <1>1, <1>2, FS_Subset DEF FewMarked
<1>4. Cardinality(Marked(x)') \in Nat /\ Cardinality(Marked(x)) \in Nat /\ Cardinality(Process) \in Nat
  BY <1>2, <1>3, FS_CardinalityType DEF FewMarked
<1>5. Cardinality(Marked(x)') <= Cardinality(Process) - 1
  BY <1>2, <1>3, <1>4 DEF FewMarked
<1> QED
  BY <1>3, <1>5 DEF FewMarked

-----------------------------------------------------------------------------
(* What is owed.                                                           *)

LEMMA SubsetCount ==
    ASSUME NEW S, IsFiniteSet(S), NEW T, T \subseteq S
    PROVE  IsFiniteSet(T) /\ Cardinality(T) <= Cardinality(S)
           /\ Cardinality(T) \in Nat /\ Cardinality(S) \in Nat
<1>1. IsFiniteSet(T) /\ Cardinality(T) <= Cardinality(S)
  BY FS_Subset
<1> QED
  BY <1>1, FS_CardinalityType

LEMMA OneMore ==
    ASSUME NEW S, IsFiniteSet(S), NEW e, NEW T, T \subseteq S \cup {e}
    PROVE  IsFiniteSet(T) /\ Cardinality(T) <= Cardinality(S) + 1
           /\ Cardinality(T) \in Nat /\ Cardinality(S) \in Nat
<1>1. /\ IsFiniteSet(S \cup {e}) /\ Cardinality(S) \in Nat
      /\ Cardinality(S \cup {e}) = Cardinality(S) \/ Cardinality(S \cup {e}) = Cardinality(S) + 1
  BY FS_AddElement, FS_CardinalityType
<1>2. IsFiniteSet(T) /\ Cardinality(T) <= Cardinality(S \cup {e}) /\ Cardinality(T) \in Nat
  BY <1>1, SubsetCount
<1> QED
  BY <1>1, <1>2

LEMMA OneForAnother ==
    ASSUME NEW S, IsFiniteSet(S), NEW d \in S, NEW e, NEW T, T \subseteq (S \ {d}) \cup {e}
    PROVE  IsFiniteSet(T) /\ Cardinality(T) <= Cardinality(S)
           /\ Cardinality(T) \in Nat /\ Cardinality(S) \in Nat
<1>1. IsFiniteSet(S \ {d}) /\ Cardinality(S \ {d}) = Cardinality(S) - 1
  BY FS_RemoveElement
<1>2. IsFiniteSet(T) /\ Cardinality(T) <= Cardinality(S \ {d}) + 1 /\ Cardinality(T) \in Nat
  BY <1>1, OneMore
<1>3. Cardinality(S) \in Nat
  BY FS_CardinalityType
<1> QED
  BY <1>1, <1>2, <1>3

RunDebt(p)  == <<"run", p>>
FileDebt(n) == <<"file", n>>

LEMMA DebtNames ==
    /\ \A p, n : RunDebt(p) # FileDebt(n)
    /\ \A n, m : FileDebt(n) = FileDebt(m) => n = m
    /\ \A p, q : RunDebt(p) = RunDebt(q) => p = q
  BY DEF RunDebt, FileDebt

LEMMA DebtsAre ==
    \A d : d \in Debts <=> \/ \E f \in files : Charged(f) /\ d = FileDebt(NameOf(f))
                           \/ \E x \in Process : Holds(x) /\ d = RunDebt(x)
  BY DEF Debts, FileDebt, RunDebt

\* The debts after a step: the files that the mover no longer answers for.
LEMMA DebtsGrow ==
    ASSUME NEW p \in Process, Moves(p), NEW names,
           \A f \in files' : \/ f.content = "whole" \/ Excuses(p, f)'
                             \/ f \in files /\ ~Excuses(p, f)
                             \/ NameOf(f) \in names,
           NEW d \in Debts'
    PROVE  \/ d \in Debts /\ d # RunDebt(p)
           \/ \E n \in names : d = FileDebt(n)
           \/ d = RunDebt(p) /\ Holds(p)'
<1>1. ASSUME NEW f \in files', Charged(f)', d = FileDebt(NameOf(f))
      PROVE  (d \in Debts /\ d # RunDebt(p)) \/ \E n \in names : d = FileDebt(n)
  <2>1. f.content # "whole" /\ \A x \in Process : ~Excuses(x, f)'
    BY <1>1 DEF Charged
  <2>2. CASE f \in files /\ ~Excuses(p, f)
    <3>1. ASSUME NEW x \in Process, Excuses(x, f)
          PROVE  FALSE
      <4>1. x # p
        BY <2>2, <3>1
      <4>2. Excuses(x, f)'
        BY <3>1, <4>1 DEF Moves, Aside, Excuses, Writes, PacksEmpty, Phase, NameOf, Called
      <4> QED
        BY <2>1, <4>2
    <3>2. Charged(f)
      BY <2>1, <3>1 DEF Charged
    <3> QED
      BY <1>1, <2>2, <3>2, DebtsAre, DebtNames
  <2> QED
    BY <1>1, <2>1, <2>2
<1>2. ASSUME NEW x \in Process, Holds(x)', d = RunDebt(x)
      PROVE  (d \in Debts /\ d # RunDebt(p)) \/ (d = RunDebt(p) /\ Holds(p)')
  <2>1. CASE x = p
    BY <1>2, <2>1
  <2>2. CASE x # p
    <3>1. Holds(x)
      BY <1>2, <2>2 DEF Moves, Aside, Holds, PacksEmpty, Phase
    <3> QED
      BY <1>2, <2>2, <3>1, DebtsAre, DebtNames
  <2> QED
    BY <2>1, <2>2
<1>3. \/ \E f \in files' : Charged(f)' /\ d = FileDebt(NameOf(f))
      \/ \E x \in Process : Holds(x)' /\ d = RunDebt(x)
  BY DEF Debts, FileDebt, RunDebt, NameOf
<1> QED
  BY <1>1, <1>2, <1>3

LEMMA DebtsStay ==
    ASSUME IInv, IInv', AloneInv, AloneInv', SurvInv, NEW p \in Process, Moves(p),
           \A f \in files' : \/ f.content = "whole" \/ Excuses(p, f)'
                             \/ f \in files /\ ~Excuses(p, f),
           Holds(p)' => Holds(p), crashes <= crashes', restores <= restores'
    PROVE  DebtsPaid'
<1>1. ASSUME NEW d \in Debts'
      PROVE  d \in Debts
  <2>1. d \in Debts \/ (d = RunDebt(p) /\ Holds(p)')
    <3>1. PICK names : names = {}
      OBVIOUS
    <3>2. \A f \in files' : \/ f.content = "whole" \/ Excuses(p, f)'
                            \/ f \in files /\ ~Excuses(p, f)
                            \/ NameOf(f) \in names
      OBVIOUS
    <3>3. \/ d \in Debts /\ d # RunDebt(p)
          \/ \E n \in names : d = FileDebt(n)
          \/ d = RunDebt(p) /\ Holds(p)'
      BY <3>2, DebtsGrow
    <3> QED
      BY <3>1, <3>3
  <2> QED
    BY <2>1, DebtsAre
<1>2. /\ crashes \in Nat /\ crashes' \in Nat /\ restores \in Nat /\ restores' \in Nat
      /\ IsFiniteSet(Debts) /\ Cardinality(Debts) <= crashes + restores
  BY DEF IInv, Typed, AloneInv, Ledger, SurvInv, DebtsPaid
<1>3. /\ IsFiniteSet(Debts') /\ Cardinality(Debts') <= Cardinality(Debts)
      /\ Cardinality(Debts') \in Nat /\ Cardinality(Debts) \in Nat
  BY <1>1, <1>2, SubsetCount
<1>4. Cardinality(Debts') <= crashes' + restores'
  BY <1>2, <1>3
<1> QED
  BY <1>3, <1>4 DEF DebtsPaid

LEMMA NoTargets ==
    ASSUME SurvInv, NEW p \in Process, Phase(p) # "prune"
    PROVE  Targets(p) = {}
<1>1. run[p].victims = << >>
  BY DEF SurvInv, Shaped
<1>2. 1 .. Len(run[p].victims) = {}
  BY <1>1
<1> QED
  BY <1>2 DEF Targets

-----------------------------------------------------------------------------
(* What lasts.                                                             *)

\* Beside one that is replaced by the compressed one, good backups stay good.
LEMMA GoodKept ==
    ASSUME SurvInv, NEW p \in Process, Moves(p), Targets(p)' \subseteq Targets(p),
           Phase(p)' \in Packs =>
              (Phase(p) \in Packs /\ run'[p].stem = run[p].stem) \/ ~GzLost(p)',
           NEW g, Good(g), ~(Phase(p) = "discard" /\ NameOf(g) = Called(p, FALSE))
    PROVE  Good(g)'
<1>1. g \in files /\ g.content = "whole" /\ ~Doomed(NameOf(g)) /\ ~Widowed(g)
  BY DEF Good
<1>2. g \in files'
  BY <1>1 DEF Moves, Removed, Writes, Doomed
<1>3. ~Doomed(NameOf(g))'
  <2>1. PICK n : n = NameOf(g)
    OBVIOUS
  <2>2. ~Doomed(n)'
    BY <1>1, <2>1, DoomedShrinks
  <2> QED
    BY <2>1, <2>2 DEF Doomed, DoomedBy, NameOf
<1>4. ASSUME ~g.gz, NEW x \in Process, Phase(x)' \in Packs, run'[x].stem = g.stem, GzLost(x)'
      PROVE  FALSE
  <2>1. Phase(x) \in Packs /\ run'[x].stem = run[x].stem
    BY <1>4 DEF Moves, Aside, Phase
  <2>2. PICK n : n = Called(x, TRUE) /\ n = Called(x, TRUE)' /\ n.gz = TRUE
    <3>1. Called(x, TRUE)' = Called(x, TRUE) /\ Called(x, TRUE).gz = TRUE
      BY <2>1 DEF Called
    <3> QED
      BY <3>1
  <2>3. There(n) /\ ~Doomed(n)
    BY <1>1, <1>4, <2>1, <2>2 DEF Widowed, GzLost
  <2>4. ~Doomed(n)'
    BY <2>3, DoomedShrinks
  <2>5. There(n)'
    <3>1. PICK f \in files : NameOf(f) = n
      BY <2>3 DEF There
    <3>2. CASE f \in files'
      BY <3>1, <3>2 DEF There, NameOf
    <3>3. CASE There(NameOf(f))'
      BY <3>1, <3>3 DEF There, NameOf
    <3>4. CASE DoomedBy(p, NameOf(f))
      BY <2>3, <3>1, <3>4 DEF Doomed
    <3>5. CASE NameOf(f) = Called(p, FALSE)
      BY <2>2, <3>1, <3>5 DEF Called
    <3> QED
      BY <3>2, <3>3, <3>4, <3>5 DEF Moves, Removed
  <2>6. GzLost(x)' <=> ~There(n)' \/ Doomed(n)'
    BY <2>2 DEF GzLost, There, Doomed, DoomedBy, NameOf
  <2> QED
    BY <1>4, <2>4, <2>5, <2>6
<1>5. ~Widowed(g)'
  BY <1>4 DEF Widowed
<1> QED
  BY <1>1, <1>2, <1>3, <1>5 DEF Good

\* For each good backup there is one after the step, no older.
GoodPasses ==
    \A g : Good(g) => \E h : /\ Good(h)' /\ g.order <= h.order
                             /\ Copies!Aged(h)' => Copies!Aged(g)

LEMMA AllGoodPass ==
    ASSUME AloneInv, SurvInv, NEW p \in Process, Moves(p), Targets(p)' \subseteq Targets(p),
           Phase(p)' \in Packs =>
              (Phase(p) \in Packs /\ run'[p].stem = run[p].stem) \/ ~GzLost(p)',
           Phase(p) # "discard"
    PROVE  GoodPasses
<1> SUFFICES ASSUME NEW g, Good(g)
             PROVE  Good(g)' /\ g.order <= g.order /\ (Copies!Aged(g)' => Copies!Aged(g))
  BY DEF GoodPasses
<1>1. g \in files /\ g.order \in Nat
  BY DEF Good, AloneInv, Ledger
<1>2. Copies!Aged(g)' => Copies!Aged(g)
  BY DEF Moves, Copies!Aged
<1>3. Good(g)'
  BY GoodKept
<1> QED
  BY <1>1, <1>2, <1>3

LEMMA Sums ==
    ASSUME NEW a \in Nat, NEW b \in Nat, NEW c \in Nat, NEW d \in Nat, NEW k \in Int,
           NEW m \in Int, a <= b, c <= d, m > b + d + k
    PROVE  m > a + c + k
  OBVIOUS

LEMMA RoomBefore ==
    ASSUME IInv, IInv', AloneInv, AloneInv', crashes <= crashes', restores <= restores', Room'
    PROVE  Room
<1>1. PICK k : k = Others * Others
  OBVIOUS
<1>2. IsFiniteSet(Process) /\ RetentionCount \in Int
  BY CopiesAssumption
<1>3. k \in Int
  <2>1. Cardinality(Process) \in Nat
    BY <1>2, FS_CardinalityType
  <2>2. PICK n : n = Cardinality(Process) - 1 /\ n \in Int
    BY <2>1
  <2>3. n * n \in Int
    BY <2>2
  <2> QED
    BY <1>1, <2>2, <2>3 DEF Others
<1>4. crashes \in Nat /\ crashes' \in Nat /\ restores \in Nat /\ restores' \in Nat
  BY DEF IInv, Typed, AloneInv, Ledger
<1>5. RetentionCount <= 0 \/ RetentionCount > crashes' + restores' + k
  BY <1>1 DEF Room, Others
<1>6. RetentionCount <= 0 \/ RetentionCount > crashes + restores + k
  <2>1. ASSUME RetentionCount > crashes' + restores' + k
        PROVE  RetentionCount > crashes + restores + k
    BY <1>2, <1>3, <1>4, <2>1, Sums
  <2> QED
    BY <1>5, <2>1
<1> QED
  BY <1>1, <1>6 DEF Room

LEMMA NewerKept ==
    ASSUME AloneInv, AloneInv', SurvInv, NEW p \in Process, Moves(p),
           Targets(p)' \subseteq Targets(p), GoodPasses, Room' => Room, NEW x \in Process
    PROVE  Newer(x)'
<1> SUFFICES ASSUME Room, NEW v \in Targets(x)', v \in files', v.content = "whole", ~Copies!Aged(v)'
             PROVE  \E h \in files' : Lasting(h)' /\ v.order < h.order
  BY DEF Newer
<1>1. v \in Targets(x) /\ ~Copies!Aged(v)
  BY TargetsShrink DEF Moves, Copies!Aged
<1>2. v \in files
  <2> SUFFICES ASSUME NewFileOf(p, v) PROVE FALSE
    BY DEF Moves, Wrote
  <2>1. PICK u \in files : NameOf(u) = NameOf(v) /\ u.content = "open"
    BY DEF NewFileOf, Writes
  <2> QED
    BY <1>1, <2>1 DEF SurvInv, Replaced
<1>3. PICK g \in files : Lasting(g) /\ v.order < g.order
  BY <1>1, <1>2 DEF SurvInv, Newer
<1>4. PICK h : Good(h)' /\ g.order <= h.order /\ (Copies!Aged(h)' => Copies!Aged(g))
  BY <1>3 DEF GoodPasses, Lasting
<1>5. h \in files' /\ Lasting(h)'
  BY <1>3, <1>4 DEF Good, Lasting
<1>6. v.order \in Nat /\ g.order \in Nat /\ h.order \in Nat
  BY <1>2, <1>3, <1>5 DEF AloneInv, Ledger
<1> QED
  BY <1>3, <1>4, <1>5, <1>6

LEMMA SurvivingKept ==
    ASSUME SurvInv, made' = made, GoodPasses, Room' => Room,
           (\E x \in Process : Late(x)') => \E x \in Process : Late(x)
    PROVE  Surviving'
<1> SUFFICES ASSUME made # {}, Room
             PROVE  /\ \E f \in files' : Good(f)'
                    /\ (\E x \in Process : Late(x)') => \E f \in files' : Lasting(f)'
  BY DEF Surviving
<1>1. \A g : Good(g)' => g \in files'
  BY DEF Good
<1>2. \E f \in files' : Good(f)'
  BY <1>1 DEF GoodPasses, SurvInv, Surviving
<1>3. ASSUME \E x \in Process : Late(x)'
      PROVE  \E f \in files' : Lasting(f)'
  <2>1. PICK g \in files : Lasting(g)
    BY <1>3 DEF SurvInv, Surviving
  <2>2. PICK h : Good(h)' /\ (Copies!Aged(h)' => Copies!Aged(g))
    BY <2>1 DEF GoodPasses, Lasting
  <2> QED
    BY <1>1, <2>1, <2>2 DEF Lasting
<1> QED
  BY <1>2, <1>3

LEMMA StillThere ==
    ASSUME SurvInv, NEW p \in Process, Moves(p), Phase(p) \notin {"prune", "discard"}, NEW n, There(n)
    PROVE  There(n)'
<1>1. PICK f \in files : NameOf(f) = n
  BY DEF There
<1>2. ~DoomedBy(p, n)
  <2>1. Targets(p) = {}
    BY NoTargets
  <2> QED
    BY <2>1 DEF DoomedBy
<1>3. f \in files' \/ There(NameOf(f))'
  BY <1>1, <1>2 DEF Moves, Removed
<1>4. There(NameOf(f))' => There(n)'
  BY <1>1 DEF There, NameOf
<1> QED
  BY <1>1, <1>3, <1>4 DEF There, NameOf

LEMMA LateKept ==
    ASSUME SurvInv, NEW p \in Process, Moves(p), Late(p)' => \E x \in Process : Late(x),
           NEW z \in Process, Late(z)'
    PROVE  \E x \in Process : Late(x)
<1> SUFFICES ASSUME z # p, \A x \in Process : ~Late(x) PROVE FALSE
  OBVIOUS
<1>1. Phase(z)' = Phase(z) /\ run'[z].stem = run[z].stem
  BY DEF Moves, Aside, Phase
<1>2. Phase(z) = "copy" /\ \A f \in files' : ~Writes(z, f)
  <2>1. \A f : Writes(z, f)' <=> Writes(z, f)
    BY <1>1 DEF Writes, NameOf, Called
  <2> QED
    BY <1>1, <2>1 DEF Late
<1>3. PICK f \in files : Writes(z, f)
  BY <1>2 DEF Late
<1>4. Phase(p) \notin {"prune", "discard"}
  BY DEF Late, Finishes
<1>5. ~DoomedBy(p, NameOf(f))
  <2>1. Targets(p) = {}
    BY <1>4, NoTargets
  <2> QED
    BY <2>1 DEF DoomedBy
<1>6. ~Writes(p, f)
  <2> SUFFICES ASSUME Writes(p, f) PROVE FALSE
    OBVIOUS
  <2>1. Phase(p) \in Working /\ Phase(z) \in Working /\ run[p].stem = run[z].stem
    BY <1>3 DEF Writes, Working, Packs, NameOf, Called
  <2> QED
    BY <2>1 DEF SurvInv, Apart
<1> QED
  BY <1>2, <1>3, <1>4, <1>5, <1>6 DEF Moves, Removed

\* Nothing is finished yet.
LEMMA StillBeginning ==
    ASSUME SurvInv, NEW p \in Process, Moves(p), made' = made,
           made = {} => /\ \A f \in files' : f \in files \/ f.content = "open"
                        /\ Phase(p)' \in {"idle", "open", "copy", "restore"}
                        /\ Phase(p)' = "copy" => \E f \in files' : Writes(p, f)'
                        /\ Phase(p)' = "restore" => There(Called(p, FALSE))'
    PROVE  Beginning'
<1> SUFFICES ASSUME made = {}
             PROVE  Beginning'
  BY DEF Beginning
<1>1. /\ \A f \in files : f.content = "open"
      /\ \A x \in Process :
            /\ Phase(x) \in {"idle", "open", "copy", "restore"}
            /\ Phase(x) = "copy" => \E f \in files : Writes(x, f)
            /\ Phase(x) = "restore" => There(Called(x, FALSE))
  BY DEF SurvInv, Beginning
<1>2. \A f \in files' : f.content = "open"
  BY <1>1
<1>3. ASSUME NEW x \in Process
      PROVE  /\ Phase(x)' \in {"idle", "open", "copy", "restore"}
             /\ Phase(x)' = "copy" => \E f \in files' : Writes(x, f)'
             /\ Phase(x)' = "restore" => There(Called(x, FALSE))'
  <2>1. CASE x = p
    BY <2>1 DEF There, NameOf, Called
  <2>2. ASSUME x # p
        PROVE  /\ Phase(x)' = Phase(x) /\ \A gz : Called(x, gz)' = Called(x, gz)
               /\ \A f : Writes(x, f)' <=> Writes(x, f)
    BY <2>2 DEF Moves, Aside, Phase, Called, Writes, NameOf
  <2>3. ASSUME x # p, Phase(x) = "copy"
        PROVE  \E f \in files' : Writes(x, f)
    <3>1. PICK f \in files : Writes(x, f)
      BY <1>1, <2>3
    <3>2. Phase(p) \notin {"prune", "discard"}
      BY <1>1
    <3>3. ~DoomedBy(p, NameOf(f))
      <4>1. Targets(p) = {}
        BY <3>2, NoTargets
      <4> QED
        BY <4>1 DEF DoomedBy
    <3>4. ~Writes(p, f)
      <4> SUFFICES ASSUME Writes(p, f) PROVE FALSE
        OBVIOUS
      <4>1. Phase(p) \in Working /\ Phase(x) \in Working /\ run[p].stem = run[x].stem
        BY <3>1 DEF Writes, Working, Packs, NameOf, Called
      <4> QED
        BY <2>3, <4>1 DEF SurvInv, Apart
    <3> QED
      BY <3>1, <3>2, <3>3, <3>4 DEF Moves, Removed
  <2>4. ASSUME x # p, Phase(x) = "restore"
        PROVE  There(Called(x, FALSE))'
    <3>1. PICK n : n = Called(x, FALSE) /\ n = Called(x, FALSE)'
      BY <2>2, <2>4
    <3>2. There(n)'
      BY <1>1, <2>4, <3>1, StillThere
    <3> QED
      BY <3>1, <3>2 DEF There, NameOf
  <2> QED
    BY <1>1, <2>1, <2>2, <2>3, <2>4
<1> QED
  BY <1>2, <1>3 DEF Beginning

-----------------------------------------------------------------------------
(* Steps that leave no more to be removed keep the invariant.               *)

LEMMA Survives ==
    ASSUME IInv, IInv', AloneInv, AloneInv', SurvInv, NEW p \in Process, Moves(p), Drops(p),
           Shaped(p)', Unused(p)', OwnFiles(p)',
           Phase(p)' \in Packs => \A y \in Process : Together(p, y)',
           \A f \in files : Writes(p, f)' => Writes(p, f),
           GoodPasses, crashes <= crashes', restores <= restores',
           DebtsPaid', Beginning', Surviving'
    PROVE  SurvInv'
<1>1. Room' => Room
  BY RoomBefore
<1>2. Targets(p)' \subseteq Targets(p)
  BY DEF Drops
<1>3. ASSUME NEW z \in Process \ {p}
      PROVE  Shaped(z)' /\ Unused(z)' /\ Apart(z)' /\ OwnFiles(z)'
  BY OthersNames, OthersFiles
<1>4. Apart(p)'
  BY <1>3 DEF Apart
<1>5. ASSUME NEW x \in Process
      PROVE  Replaced(x)' /\ FewMarked(x)' /\ Newer(x)'
  <2>1. Targets(x)' \subseteq Targets(x)
    BY <1>2, TargetsShrink
  <2> QED
    BY <1>1, <1>2, <2>1, ReplacedKept, FewMarkedKept, NewerKept
<1>6. ASSUME NEW x \in Process, NEW y \in Process
      PROVE  Together(x, y)'
  <2>1. CASE x = p
    BY <2>1 DEF Together
  <2>2. CASE x # p
    <3>1. Phase(x)' = Phase(x) /\ run'[x].stem = run[x].stem
      BY <2>2 DEF Moves, Aside, Phase
    <3>2. CASE Phase(x) \in Packs
      BY <3>1, <3>2, TogetherKept
    <3>3. CASE Phase(x) \notin Packs
      BY <3>1, <3>3 DEF Together
    <3> QED
      BY <3>2, <3>3
  <2> QED
    BY <2>1, <2>2
<1>7. ASSUME NEW x \in Process
      PROVE  Shaped(x)' /\ Unused(x)' /\ Apart(x)' /\ OwnFiles(x)'
  BY <1>3, <1>4
<1> QED
  BY <1>5, <1>6, <1>7 DEF SurvInv

LEMMA DropsLearns ==
    ASSUME NEW p \in Process, Drops(p), Phase(p)' # "restore"
    PROVE  Learns(p)
<1>1. ASSUME NEW n, DoomedBy(p, n)'
      PROVE  Known(n)
  <2>1. DoomedBy(p, n)
    BY <1>1 DEF Drops, DoomedBy, NameOf
  <2> QED
    BY <2>1 DEF Known
<1>2. ASSUME NEW n \in run'[p].listed
      PROVE  Known(n)
  BY <1>2 DEF Drops, Known
<1> QED
  BY <1>1, <1>2 DEF Learns

LEMMA DropsShaped ==
    ASSUME IInv, AloneInv, SurvInv, NEW p \in Process, Drops(p), begun' = begun,
           (run[p].victims \in Seq(Targets(p)))', Phase(p)' # "prune" => run'[p].victims = << >>
    PROVE  Shaped(p)'
<1>1. ASSUME NEW v \in Targets(p)'
      PROVE  v.stem \in Nat /\ v.stem <= begun'
  BY DEF Drops, SurvInv, Shaped
<1>2. ASSUME NEW n \in run'[p].listed
      PROVE  n.stem \in Nat /\ n.stem <= begun'
  <2>1. CASE n \in run[p].listed
    BY <2>1 DEF SurvInv, Shaped
  <2>2. CASE There(n)
    <3>1. PICK f \in files : NameOf(f) = n
      BY <2>2 DEF There
    <3>2. f.stem \in Nat /\ f.stem <= begun
      BY DEF IInv, Typed, AloneInv, Ledger
    <3> QED
      BY <3>1, <3>2 DEF NameOf
  <2> QED
    BY <2>1, <2>2 DEF Drops
<1> QED
  BY <1>1, <1>2 DEF Shaped

\* A step into a phase in which no file of a backup is made.
LEMMA QuietSurvives ==
    ASSUME IInv, IInv', AloneInv, AloneInv', SurvInv, NEW p \in Process,
           Aside(p), Wrote(p), Removed(p), Drops(p),
           (run[p].victims \in Seq(Targets(p)))', Phase(p)' # "prune" => run'[p].victims = << >>,
           Phase(p)' \notin Working, Phase(p)' # "restore",
           UNCHANGED <<begun, today, made>>, crashes <= crashes', restores <= restores',
           Phase(p) = "discard" => GoodPasses,
           Phase(p)' \in Finishes => Phase(p) \in Finishes \/ Late(p),
           made = {} => Phase(p)' = "idle" /\ \A f \in files' : f \in files \/ f.content = "open",
           DebtsPaid'
    PROVE  SurvInv'
<1>1. Learns(p)
  BY DropsLearns
<1>2. Moves(p)
  BY <1>1 DEF Moves, Works, IInv, Typed
<1>3. Shaped(p)'
  BY DropsShaped
<1>4. Phase(p)' \notin {"open", "copy", "compress", "pack", "discard"} /\ Phase(p)' \notin Packs
  BY DEF Working, Packs
<1>5. Unused(p)'
  BY <1>4 DEF Unused
<1>6. OwnFiles(p)'
  BY <1>4 DEF OwnFiles
<1>7. \A f : ~Writes(p, f)'
  BY <1>4 DEF Writes
<1>8. GoodPasses
  BY <1>2, <1>4, AllGoodPass DEF Drops
<1>9. Room' => Room
  BY RoomBefore
<1>10. Late(p)' => \E x \in Process : Late(x)
  BY <1>4 DEF Late
<1>11. (\E x \in Process : Late(x)') => \E x \in Process : Late(x)
  BY <1>2, <1>10, LateKept
<1>12. Surviving'
  BY <1>8, <1>9, <1>11, SurvivingKept
<1>13. Beginning'
  BY <1>2, <1>4, StillBeginning
<1> QED
  BY <1>2, <1>3, <1>4, <1>5, <1>6, <1>7, <1>8, <1>12, <1>13, Survives

LEMMA ExitDrops ==
    ASSUME IInv, NEW p \in Process, Copies!Exit(p)
    PROVE  /\ Aside(p) /\ Drops(p) /\ Phase(p)' = "idle" /\ run'[p].victims = << >>
           /\ (run[p].victims \in Seq(Targets(p)))'
<1>1. /\ run'[p].phase = "idle" /\ run'[p].victims = << >> /\ run'[p].listed = {}
      /\ \A q \in Process \ {p} : run'[q] = run[q]
  BY DEF Copies!Exit, Copies!Idle, IInv, Typed
<1>2. Targets(p)' = {}
  <2>1. 1 .. Len(run'[p].victims) = {}
    BY <1>1
  <2> QED
    BY <2>1 DEF Targets
<1>3. Aside(p)
  BY <1>1 DEF Aside
<1>4. Drops(p)
  BY <1>1, <1>2 DEF Drops
<1> QED
  BY <1>1, <1>3, <1>4 DEF Phase

LEMMA GoDrops ==
    ASSUME IInv, SurvInv, NEW p \in Process, NEW phase, Copies!Go(p, phase),
           run[p].victims = << >>
    PROVE  /\ Aside(p) /\ Drops(p) /\ Phase(p)' = phase /\ run'[p].victims = << >>
           /\ run'[p].stem = run[p].stem /\ run'[p].content = run[p].content
           /\ run'[p].compress = run[p].compress
           /\ (run[p].victims \in Seq(Targets(p)))'
<1>1. /\ run'[p].phase = phase /\ run'[p].victims = << >> /\ run'[p].listed = run[p].listed
      /\ run'[p].stem = run[p].stem /\ run'[p].content = run[p].content
      /\ run'[p].compress = run[p].compress
      /\ \A q \in Process \ {p} : run'[q] = run[q]
  BY GoKeeps DEF IInv
<1>2. Targets(p)' = {}
  <2>1. 1 .. Len(run'[p].victims) = {}
    BY <1>1
  <2> QED
    BY <2>1 DEF Targets
<1>3. Aside(p)
  BY <1>1 DEF Aside
<1>4. Drops(p)
  <2>1. Targets(p) = {}
    <3>1. 1 .. Len(run[p].victims) = {}
      OBVIOUS
    <3> QED
      BY <3>1 DEF Targets
  <2> QED
    BY <1>1, <1>2, <2>1 DEF Drops, DoomedBy
<1> QED
  BY <1>1, <1>3, <1>4 DEF Phase

\* Of a process that is not writing nothing is owed but what it takes for a restore.
LEMMA IdleDebts ==
    ASSUME IInv, IInv', AloneInv, AloneInv', SurvInv, NEW p \in Process, Moves(p),
           files' \subseteq files, Phase(p) \notin {"copy"} \cup Packs,
           Phase(p)' \notin Packs, Phase(p)' # "restore",
           crashes <= crashes', restores <= restores'
    PROVE  DebtsPaid'
<1>1. \A f : ~Excuses(p, f)
  BY DEF Excuses, Writes, PacksEmpty, Packs
<1>2. ~Holds(p)'
  BY DEF Holds, PacksEmpty
<1> QED
  BY <1>1, <1>2, DebtsStay

-----------------------------------------------------------------------------
(* Steps that write nothing.                                               *)

LEMMA StopGood ==
    ASSUME IInv, AloneInv, SurvInv, NEW p \in Process, Copies!Exit(p),
           UNCHANGED <<files, begun, today>>
    PROVE  GoodPasses
<1>1. Aside(p) /\ Drops(p) /\ Phase(p)' = "idle"
  BY ExitDrops
<1>2. Wrote(p) /\ Removed(p)
  BY DEF Wrote, Removed
<1>3. Moves(p)
  BY <1>1, <1>2, DropsLearns DEF Moves, Works, Working, Packs, IInv, Typed
<1> SUFFICES ASSUME NEW g, Good(g)
             PROVE  Good(g)' /\ g.order <= g.order /\ (Copies!Aged(g)' => Copies!Aged(g))
  BY DEF GoodPasses
<1>4. g \in files /\ g.order \in Nat
  BY DEF Good, AloneInv, Ledger
<1>5. Copies!Aged(g)' => Copies!Aged(g)
  BY DEF Copies!Aged
<1>6. \A n : Doomed(n)' => Doomed(n)
  BY <1>1, <1>3, DoomedShrinks DEF Drops
<1>7. ~Doomed(NameOf(g))'
  <2>1. PICK n : n = NameOf(g)
    OBVIOUS
  <2>2. ~Doomed(n)'
    BY <1>6, <2>1 DEF Good
  <2> QED
    BY <2>1, <2>2 DEF Doomed, DoomedBy, NameOf
<1>8. ASSUME ~g.gz, NEW x \in Process, Phase(x)' \in Packs, run'[x].stem = g.stem, GzLost(x)'
      PROVE  FALSE
  <2>1. x # p
    BY <1>1, <1>8 DEF Packs
  <2>2. Phase(x) \in Packs /\ run[x].stem = g.stem
    BY <1>1, <1>8, <2>1 DEF Aside, Phase
  <2>3. PICK n : n = Called(x, TRUE) /\ n = Called(x, TRUE)'
    BY <1>8, <2>2 DEF Called
  <2>4. GzLost(x)' <=> ~There(n)' \/ Doomed(n)'
    BY <2>3 DEF GzLost, There, Doomed, DoomedBy, NameOf
  <2>5. There(n)' <=> There(n)
    BY DEF There, NameOf
  <2>6. GzLost(x)
    BY <1>6, <1>8, <2>3, <2>4, <2>5 DEF GzLost
  <2> QED
    BY <1>8, <2>2, <2>6 DEF Good, Widowed
<1>9. ~Widowed(g)'
  BY <1>8 DEF Widowed
<1> QED
  BY <1>4, <1>5, <1>7, <1>9 DEF Good

LEMMA StopSurvives ==
    ASSUME IInv, IInv', AloneInv, AloneInv', SurvInv, NEW p \in Process, Copies!Exit(p),
           UNCHANGED <<files, begun, today, made>>, crashes <= crashes', restores <= restores',
           DebtsPaid'
    PROVE  SurvInv'
<1>1. /\ Aside(p) /\ Drops(p) /\ Phase(p)' = "idle" /\ run'[p].victims = << >>
      /\ (run[p].victims \in Seq(Targets(p)))'
  BY ExitDrops
<1>2. Wrote(p) /\ Removed(p)
  BY DEF Wrote, Removed
<1>3. GoodPasses
  BY StopGood
<1>4. Phase(p)' \notin Working /\ Phase(p)' # "restore" /\ Phase(p)' \notin Finishes
  BY <1>1 DEF Working, Packs, Finishes
<1> QED
  BY <1>1, <1>2, <1>3, <1>4, QuietSurvives

LEMMA StopDebts ==
    ASSUME IInv, IInv', AloneInv, AloneInv', SurvInv, NEW p \in Process, Copies!Exit(p),
           UNCHANGED <<files, begun, today, crashes, restores>>, Phase(p) \notin {"copy"} \cup Packs
    PROVE  DebtsPaid'
<1>1. Aside(p) /\ Drops(p) /\ Phase(p)' = "idle"
  BY ExitDrops
<1>2. Wrote(p) /\ Removed(p)
  BY DEF Wrote, Removed
<1>3. Moves(p)
  BY <1>1, <1>2, DropsLearns DEF Moves, Works, Working, Packs, IInv, Typed
<1>4. crashes <= crashes' /\ restores <= restores'
  BY DEF AloneInv, Ledger, IInv, Typed
<1>5. Phase(p)' \notin Packs /\ Phase(p)' # "restore"
  BY <1>1 DEF Packs
<1> QED
  BY <1>3, <1>4, <1>5, IdleDebts

\* A step that ends a run which writes nothing, and fails for want of a file.
LEMMA StopsSurvive ==
    ASSUME IInv, IInv', AloneInv, AloneInv', SurvInv, NEW p \in Process, Copies!Exit(p),
           UNCHANGED <<files, begun, today, made, crashes, restores>>,
           Phase(p) \notin {"copy"} \cup Packs
    PROVE  SurvInv'
<1>1. DebtsPaid'
  BY StopDebts
<1>2. crashes <= crashes' /\ restores <= restores'
  BY DEF AloneInv, Ledger, IInv, Typed
<1> QED
  BY <1>1, <1>2, StopSurvives

\* A step into another phase of a run that has finished its copy.
LEMMA GoSurvives ==
    ASSUME IInv, IInv', AloneInv, AloneInv', SurvInv, NEW p \in Process, NEW phase,
           Copies!Go(p, phase), UNCHANGED <<files, begun, today, made, crashes, restores>>,
           Phase(p) \notin {"copy"} \cup Packs, run[p].victims = << >>,
           phase \notin Working, phase # "restore", phase # "idle" => Phase(p) \in Finishes
    PROVE  SurvInv'
<1>1. /\ Aside(p) /\ Drops(p) /\ Phase(p)' = phase /\ run'[p].victims = << >>
      /\ (run[p].victims \in Seq(Targets(p)))'
  BY GoDrops
<1>2. Wrote(p) /\ Removed(p)
  BY DEF Wrote, Removed
<1>3. Moves(p)
  BY <1>1, <1>2, DropsLearns DEF Moves, Works, IInv, Typed
<1>4. crashes <= crashes' /\ restores <= restores'
  BY DEF AloneInv, Ledger, IInv, Typed
<1>5. phase \notin Packs
  BY DEF Working
<1>6. DebtsPaid'
  BY <1>1, <1>3, <1>4, <1>5, IdleDebts
<1>7. Phase(p) # "discard"
  BY DEF Packs
<1>8. Phase(p)' \in Finishes => Phase(p) \in Finishes
  BY <1>1 DEF Finishes
<1>9. made = {} => phase = "idle"
  BY DEF SurvInv, Beginning, Finishes
<1> QED
  BY <1>1, <1>2, <1>4, <1>6, <1>7, <1>8, <1>9, QuietSurvives

LEMMA SizeSurvives ==
    ASSUME IInv, IInv', AloneInv, AloneInv', SurvInv, NEW p \in Process, Copies!Size(p)
    PROVE  SurvInv'
<1>1. /\ Phase(p) = "size" /\ UNCHANGED <<files, begun, today, made, crashes, restores>>
      /\ Copies!Exit(p) \/ Copies!Go(p, "list")
  BY DEF Copies!Size, Copies!At, Phase
<1>2. Phase(p) \notin {"copy"} \cup Packs /\ "list" \notin Working /\ Phase(p) \in Finishes
  BY <1>1 DEF Packs, Working, Finishes
<1>3. run[p].victims = << >>
  BY <1>1 DEF SurvInv, Shaped
<1> QED
  BY <1>1, <1>2, <1>3, StopsSurvive, GoSurvives

LEMMA DoneSurvives ==
    ASSUME IInv, IInv', AloneInv, AloneInv', SurvInv, NEW p \in Process, Copies!Done(p)
    PROVE  SurvInv'
<1>1. /\ Phase(p) = "prune" /\ UNCHANGED <<files, begun, today, made, crashes, restores>>
      /\ Copies!Go(p, "idle") /\ run[p].victims = << >>
  BY DEF Copies!Done, Copies!At, Phase
<1>2. Phase(p) \notin {"copy"} \cup Packs /\ "idle" \notin Working
  BY <1>1 DEF Packs, Working
<1> QED
  BY <1>1, <1>2, GoSurvives

LEMMA ListSurvives ==
    ASSUME IInv, IInv', AloneInv, AloneInv', SurvInv, NEW p \in Process, Copies!List(p)
    PROVE  SurvInv'
<1>1. Phase(p) = "list" /\ UNCHANGED <<files, begun, today, made, crashes, restores>>
  BY DEF Copies!List, Copies!At, Phase
<1>2. /\ run'[p].phase = "stat" /\ run'[p].listed = {NameOf(f) : f \in files}
      /\ run'[p].victims = run[p].victims
      /\ \A q \in Process \ {p} : run'[q] = run[q]
  BY DEF Copies!List, NameOf, IInv, Typed, IsRun
<1>3. run[p].victims = << >> /\ Targets(p) = {}
  BY <1>1, NoTargets DEF SurvInv, Shaped
<1>4. Targets(p)' = {} /\ Phase(p)' = "stat" /\ run'[p].victims = << >>
  BY <1>2, <1>3 DEF Targets, Phase
<1>5. Aside(p) /\ Wrote(p) /\ Removed(p)
  BY <1>1, <1>2 DEF Aside, Wrote, Removed
<1>6. Drops(p)
  <2>1. \A n : n \in run'[p].listed <=> There(n)
    BY <1>2 DEF There
  <2> QED
    BY <1>1, <1>3, <1>4, <2>1 DEF Drops
<1>7. Moves(p)
  BY <1>1, <1>4, <1>5, <1>6, DropsLearns DEF Moves, Works, Working, Packs, IInv, Typed
<1>8. crashes <= crashes' /\ restores <= restores'
  BY <1>1 DEF AloneInv, Ledger, IInv, Typed
<1>9. DebtsPaid'
  BY <1>1, <1>4, <1>7, <1>8, IdleDebts DEF Packs
<1>10. (run[p].victims \in Seq(Targets(p)))'
  BY <1>4
<1>11. made # {}
  BY <1>1 DEF SurvInv, Beginning
<1>12. Phase(p)' \notin Working /\ Phase(p) \in Finishes
  BY <1>1, <1>4 DEF Working, Packs, Finishes
<1> QED
  BY <1>1, <1>4, <1>5, <1>6, <1>8, <1>9, <1>10, <1>11, <1>12, QuietSurvives

LEMMA SeqOfItsElements ==
    ASSUME NEW T, NEW s \in Seq(T), NEW S, S = {s[i] : i \in 1 .. Len(s)}
    PROVE  s \in Seq(S)
<1>1. Len(s) \in Nat /\ s \in [1 .. Len(s) -> T]
  BY LenProperties
<1>2. s \in [1 .. Len(s) -> S]
  BY <1>1
<1> QED
  BY <1>1, <1>2

LEMMA PruneOneSurvives ==
    ASSUME IInv, IInv', AloneInv, AloneInv', SurvInv, NEW p \in Process, Copies!PruneOne(p)
    PROVE  SurvInv'
<1>1. /\ Phase(p) = "prune" /\ UNCHANGED <<begun, today, made, crashes, restores>>
      /\ run[p].victims # << >> /\ files' = files \ Copies!Present(Head(run[p].victims))
  BY DEF Copies!PruneOne, Copies!At, Phase
<1>2. CASE Copies!Present(Head(run[p].victims)) = {}
  <2>1. Copies!Exit(p) /\ files' = files
    BY <1>1, <1>2 DEF Copies!PruneOne
  <2> QED
    BY <1>1, <2>1, StopsSurvive DEF Packs
<1>3. CASE Copies!Present(Head(run[p].victims)) # {}
  <2>1. /\ run'[p].phase = "prune" /\ run'[p].victims = Tail(run[p].victims)
        /\ run'[p].listed = run[p].listed
        /\ \A q \in Process \ {p} : run'[q] = run[q]
    <3>1. run' = [run EXCEPT ![p].victims = Tail(@)]
      BY <1>3 DEF Copies!PruneOne
    <3> QED
      BY <1>1, <3>1 DEF IInv, Typed, IsRun, Phase
  <2>2. PICK s : s = run[p].victims
    OBVIOUS
  <2>3. s \in Seq(Targets(p)) /\ s # << >>
    BY <1>1, <2>2 DEF SurvInv, Shaped
  <2>4. /\ Len(s) \in Nat /\ Len(s) >= 1 /\ Head(s) = s[1]
        /\ Tail(s) \in Seq(Targets(p)) /\ Len(Tail(s)) = Len(s) - 1
        /\ \A i \in 1 .. Len(Tail(s)) : Tail(s)[i] = s[i + 1]
    BY <2>3, HeadTailProperties, EmptySeq, LenProperties
  <2>5. Targets(p) = {s[i] : i \in 1 .. Len(s)}
    BY <2>2 DEF Targets
  <2>6. Targets(p)' = {Tail(s)[i] : i \in 1 .. Len(Tail(s))}
    BY <2>1, <2>2 DEF Targets
  <2>7. Targets(p)' \subseteq Targets(p) /\ s[1] \in Targets(p)
    BY <2>4, <2>5, <2>6
  <2>8. ASSUME NEW v \in Targets(p)
        PROVE  v = s[1] \/ v \in Targets(p)'
    <3>1. PICK i \in 1 .. Len(s) : v = s[i]
      BY <2>5
    <3>2. CASE i = 1
      BY <3>1, <3>2
    <3>3. CASE i # 1
      <4>1. i - 1 \in 1 .. Len(Tail(s)) /\ (i - 1) + 1 = i
        BY <2>4, <3>3
      <4>2. v = Tail(s)[i - 1]
        BY <2>4, <3>1, <4>1
      <4> QED
        BY <2>6, <4>1, <4>2
    <3> QED
      BY <3>2, <3>3
  <2>9. (run[p].victims \in Seq(Targets(p)))'
    <3>1. Tail(s) \in Seq(Targets(p)')
      BY <2>4, <2>6, SeqOfItsElements
    <3> QED
      BY <2>1, <2>2, <3>1
  <2>10. Aside(p)
    BY <2>1 DEF Aside
  <2>11. Wrote(p)
    BY <1>1 DEF Wrote
  <2>12. \A f \in files : f \in Copies!Present(s[1]) <=> NameOf(f) = NameOf(s[1])
    BY NameFacts DEF Copies!Present
  <2>13. Removed(p)
    BY <1>1, <2>2, <2>4, <2>7, <2>12 DEF Removed, DoomedBy
  <2>14. ~There(NameOf(s[1]))'
    <3>1. PICK n : n = NameOf(s[1])
      OBVIOUS
    <3>2. \A f \in files' : NameOf(f) # n
      BY <1>1, <2>2, <2>4, <2>12, <3>1
    <3> QED
      BY <2>2, <3>1, <3>2 DEF There, NameOf
  <2>15. Drops(p)
    <3>1. ASSUME NEW n, DoomedBy(p, n)
          PROVE  DoomedBy(p, n)' \/ ~There(n)'
      <4>1. PICK v \in Targets(p) : NameOf(v) = n
        BY <3>1 DEF DoomedBy
      <4>2. CASE v = s[1]
        <5>1. \A f \in files' : NameOf(f) # n
          BY <1>1, <2>2, <2>4, <2>12, <4>1, <4>2
        <5> QED
          BY <5>1 DEF There, NameOf
      <4>3. CASE v \in Targets(p)'
        BY <4>1, <4>3 DEF DoomedBy, NameOf
      <4> QED
        BY <2>8, <4>2, <4>3
    <3> QED
      BY <2>1, <2>7, <3>1 DEF Drops
  <2>16. Phase(p)' = "prune"
    BY <2>1 DEF Phase
  <2>17. Moves(p)
    BY <1>1, <2>10, <2>11, <2>13, <2>15, <2>16, DropsLearns DEF Moves, Works, Working, Packs, IInv, Typed
  <2>18. crashes <= crashes' /\ restores <= restores'
    BY <1>1 DEF AloneInv, Ledger, IInv, Typed
  <2>19. DebtsPaid'
    BY <1>1, <2>16, <2>17, <2>18, IdleDebts DEF Packs
  <2>20. made # {}
    BY <1>1 DEF SurvInv, Beginning
  <2>21. Phase(p)' \notin Working /\ Phase(p) \in Finishes
    BY <1>1, <2>16 DEF Working, Packs, Finishes
  <2> QED
    BY <1>1, <2>9, <2>10, <2>11, <2>13, <2>15, <2>16, <2>18, <2>19, <2>20, <2>21, QuietSurvives
<1> QED
  BY <1>2, <1>3

\* A process that dies may leave one file, or two that are empty.
LEMMA CrashDebts ==
    ASSUME IInv, IInv', AloneInv, AloneInv', SurvInv, NEW p \in Process, Moves(p),
           files' = files, Phase(p)' = "idle", crashes' = crashes + 1, restores' = restores
    PROVE  DebtsPaid'
<1>1. ~Holds(p)' /\ \A f : ~Excuses(p, f)'
  BY DEF Holds, Excuses, Writes, PacksEmpty, Packs
<1>2. PICK raw, gz : raw = Called(p, FALSE) /\ gz = Called(p, TRUE)
  OBVIOUS
<1>3. /\ crashes \in Nat /\ restores \in Nat /\ crashes' \in Nat /\ restores' \in Nat
      /\ IsFiniteSet(Debts) /\ Cardinality(Debts) <= crashes + restores
      /\ Cardinality(Debts) \in Nat
  BY FS_CardinalityType DEF IInv, Typed, AloneInv, Ledger, SurvInv, DebtsPaid
<1>4. ASSUME PacksEmpty(p)
      PROVE  DebtsPaid'
  <2>1. PICK names : names = {raw, gz}
    OBVIOUS
  <2>2. \A f \in files' : \/ f.content = "whole" \/ Excuses(p, f)'
                          \/ f \in files /\ ~Excuses(p, f)
                          \/ NameOf(f) \in names
    <3>1. ASSUME NEW f \in files, Excuses(p, f)
          PROVE  NameOf(f) \in names
      <4>1. f.stem = run[p].stem
        BY <3>1, NameFacts DEF Excuses, Writes
      <4>2. f.gz \in BOOLEAN
        BY DEF IInv, Typed
      <4>3. f.gz = TRUE \/ f.gz = FALSE
        BY <4>2
      <4>4. NameOf(f) = raw \/ NameOf(f) = gz
        <5>1. NameOf(f) = Called(p, f.gz)
          BY <4>1, NameFacts
        <5>2. CASE f.gz = TRUE
          BY <1>2, <5>1, <5>2
        <5>3. CASE f.gz = FALSE
          BY <1>2, <5>1, <5>3
        <5> QED
          BY <4>3, <5>2, <5>3
      <4> QED
        BY <2>1, <4>4
    <3> QED
      BY <3>1
  <2>3. ASSUME NEW d \in Debts'
        PROVE  d \in (Debts \ {RunDebt(p)}) \cup {FileDebt(raw), FileDebt(gz)}
    BY <1>1, <2>1, <2>2, DebtsGrow
  <2>4. RunDebt(p) \in Debts
    BY <1>4, DebtsAre DEF Holds
  <2>5. PICK S : S = (Debts \ {RunDebt(p)}) \cup {FileDebt(raw)}
    OBVIOUS
  <2>6. IsFiniteSet(S) /\ Cardinality(S) <= Cardinality(Debts) /\ Cardinality(S) \in Nat
    BY <1>3, <2>4, <2>5, OneForAnother
  <2>7. PICK T, e : T = Debts' /\ e = FileDebt(gz)
    OBVIOUS
  <2>8. T \subseteq S \cup {e}
    BY <2>3, <2>5, <2>7
  <2>9. IsFiniteSet(T) /\ Cardinality(T) <= Cardinality(S) + 1 /\ Cardinality(T) \in Nat
    BY <2>6, <2>8, OneMore
  <2> QED
    BY <1>3, <2>6, <2>7, <2>9 DEF DebtsPaid
<1>5. ASSUME ~PacksEmpty(p)
      PROVE  DebtsPaid'
  <2>1. PICK n : n = IF Phase(p) = "pack" THEN gz ELSE raw
    OBVIOUS
  <2>2. PICK names : names = {n}
    OBVIOUS
  <2>3. \A f \in files' : \/ f.content = "whole" \/ Excuses(p, f)'
                          \/ f \in files /\ ~Excuses(p, f)
                          \/ NameOf(f) \in names
    <3>1. ASSUME NEW f \in files, Excuses(p, f)
          PROVE  NameOf(f) \in names
      <4>1. Writes(p, f) /\ f.gz \in BOOLEAN
        BY <1>5, <3>1 DEF Excuses, IInv, Typed
      <4> QED
        BY <1>2, <2>1, <2>2, <4>1 DEF Writes
    <3> QED
      BY <3>1
  <2>4. ASSUME NEW d \in Debts'
        PROVE  d \in Debts \cup {FileDebt(n)}
    BY <1>1, <2>2, <2>3, DebtsGrow
  <2>5. PICK T, e : T = Debts' /\ e = FileDebt(n)
    OBVIOUS
  <2>6. IsFiniteSet(T) /\ Cardinality(T) <= Cardinality(Debts) + 1 /\ Cardinality(T) \in Nat
    BY <1>3, <2>4, <2>5, OneMore
  <2> QED
    BY <1>3, <2>5, <2>6 DEF DebtsPaid
<1> QED
  BY <1>4, <1>5

LEMMA CrashSurvives ==
    ASSUME IInv, IInv', AloneInv, AloneInv', SurvInv, NEW p \in Process, Copies!Crash(p)
    PROVE  SurvInv'
<1>1. /\ Copies!Exit(p) /\ UNCHANGED <<files, begun, today, made, restores>>
      /\ crashes' = crashes + 1 /\ crashes \in Nat /\ restores \in Nat
  BY DEF Copies!Crash, AloneInv, Ledger, IInv, Typed
<1>2. Aside(p) /\ Drops(p) /\ Phase(p)' = "idle"
  BY <1>1, ExitDrops
<1>3. Wrote(p) /\ Removed(p)
  BY <1>1 DEF Wrote, Removed
<1>4. Moves(p)
  BY <1>1, <1>2, <1>3, DropsLearns DEF Moves, Works, Working, Packs, IInv, Typed
<1>5. DebtsPaid'
  BY <1>1, <1>2, <1>4, CrashDebts
<1> QED
  BY <1>1, <1>5, StopSurvives

-----------------------------------------------------------------------------
(* Restores.                                                               *)

LEMMA RestoreSurvives ==
    ASSUME IInv, IInv', AloneInv, AloneInv', SurvInv, NEW p \in Process, Copies!Restore(p)
    PROVE  SurvInv'
<1>1. /\ Phase(p) \in {"unpacked", "restore"} /\ Copies!Exit(p)
      /\ UNCHANGED <<begun, today, made, crashes, restores>>
  BY DEF Copies!Restore, Phase
<1>2. CASE files' = files
  BY <1>1, <1>2, StopsSurvive DEF Packs
<1>3. CASE files' # files
  <2>1. /\ Phase(p) = "restore" /\ Copies!Named(p, FALSE) = {}
        /\ Copies!Put(p, FALSE, "empty", 0)
    BY <1>3 DEF Copies!Restore, Copies!At, Phase
  <2>2. PICK new : new = [stem |-> run[p].stem, gz |-> FALSE, content |-> "empty", state |-> 0,
                          day |-> today, order |-> Copies!Latest + 1]
    OBVIOUS
  <2>3. files' = files \cup {new}
    BY <2>1, <2>2 DEF Copies!Put
  <2>4. /\ new.stem = run[p].stem /\ new.gz = FALSE /\ new.content = "empty" /\ new.day = today
        /\ new.order = Copies!Latest + 1
    BY <2>2
  <2>5. \A g \in files : g.order < new.order
    BY <2>4, LatestFacts DEF AloneInv, Ledger
  <2>6. /\ Aside(p) /\ Drops(p) /\ Phase(p)' = "idle" /\ run'[p].victims = << >>
        /\ (run[p].victims \in Seq(Targets(p)))'
    BY <1>1, ExitDrops
  <2>7. Wrote(p)
    BY <2>1, <2>3, <2>4, <2>5 DEF Wrote, NewFileOf
  <2>8. Removed(p)
    BY <2>3 DEF Removed
  <2>9. Moves(p)
    BY <1>1, <2>6, <2>7, <2>8, DropsLearns DEF Moves, Works, Working, Packs, IInv, Typed
  <2>10. /\ crashes \in Nat /\ restores \in Nat
         /\ crashes <= crashes' /\ restores <= restores'
    BY <1>1 DEF AloneInv, Ledger, IInv, Typed
  <2>11. DebtsPaid'
    <3>1. PICK names : names = {NameOf(new)}
      OBVIOUS
    <3>2. \A f : ~Excuses(p, f) /\ ~Excuses(p, f)'
      BY <2>1, <2>6 DEF Excuses, Writes, PacksEmpty, Packs
    <3>3. ~Holds(p)' /\ Holds(p)
      BY <2>1, <2>6 DEF Holds, PacksEmpty, Packs
    <3>4. \A f \in files' : \/ f.content = "whole" \/ Excuses(p, f)'
                            \/ f \in files /\ ~Excuses(p, f)
                            \/ NameOf(f) \in names
      BY <2>3, <3>1, <3>2
    <3>5. ASSUME NEW d \in Debts'
          PROVE  d \in (Debts \ {RunDebt(p)}) \cup {FileDebt(NameOf(new))}
      BY <2>9, <3>1, <3>3, <3>4, DebtsGrow
    <3>6. RunDebt(p) \in Debts
      BY <3>3, DebtsAre
    <3>7. IsFiniteSet(Debts) /\ Cardinality(Debts) <= crashes + restores
      BY DEF SurvInv, DebtsPaid
    <3>8. PICK T, e : T = Debts' /\ e = FileDebt(NameOf(new))
      OBVIOUS
    <3>9. T \subseteq (Debts \ {RunDebt(p)}) \cup {e}
      BY <3>5, <3>8
    <3>10. /\ IsFiniteSet(T) /\ Cardinality(T) <= Cardinality(Debts)
           /\ Cardinality(T) \in Nat /\ Cardinality(Debts) \in Nat
      BY <3>6, <3>7, <3>9, OneForAnother
    <3> QED
      BY <1>1, <2>10, <3>7, <3>8, <3>10 DEF DebtsPaid
  <2>12. made # {}
    <3>1. ASSUME NEW f \in files, NameOf(f) = Called(p, FALSE)
          PROVE  FALSE
      <4>1. PICK gz : gz = FALSE
        OBVIOUS
      <4>2. f.stem = run[p].stem /\ f.gz = gz
        <5>1. NameOf(f) = Called(p, gz)
          BY <3>1, <4>1
        <5> QED
          BY <5>1, NameFacts
      <4>3. f.gz = FALSE
        BY <4>1, <4>2
      <4> QED
        BY <2>1, <4>2, <4>3 DEF Copies!Named
    <3> QED
      BY <2>1, <3>1 DEF SurvInv, Beginning, There
  <2>13. Phase(p)' \notin Working /\ Phase(p)' \notin Finishes /\ Phase(p) # "discard"
    BY <2>1, <2>6 DEF Working, Packs, Finishes
  <2> QED
    BY <1>1, <2>6, <2>7, <2>8, <2>10, <2>11, <2>12, <2>13, QuietSurvives
<1> QED
  BY <1>2, <1>3

LEMMA BeginRestoreSurvives ==
    ASSUME IInv, IInv', AloneInv, AloneInv', SurvInv, NEW p \in Process, NEW f \in files,
           Copies!BeginRestore(p, f)
    PROVE  SurvInv'
<1>1. /\ Phase(p) = "idle" /\ UNCHANGED <<files, begun, today, made, crashes>>
      /\ restores' = restores + 1 /\ restores \in Nat /\ crashes \in Nat
  BY DEF Copies!BeginRestore, Copies!At, Phase, IInv, Typed, AloneInv, Ledger
<1>2. ASSUME NEW q \in Process
      PROVE  \/ run'[q] = run[q] /\ (q = p => f.gz /\ f.content = "open")
             \/ /\ run[q].phase = "unpacked" /\ q # p
                /\ run'[q] = [run[q] EXCEPT !.content = "shared"]
             \/ /\ q = p /\ ~(f.gz /\ f.content = "open")
                /\ run'[q] = [Copies!Idle EXCEPT
                      !.phase = IF f.gz THEN "unpacked" ELSE "restore",
                      !.stem = f.stem, !.state = f.state,
                      !.content = IF Copies!Sharing(p, f) # {} THEN "shared" ELSE "open"]
  BY DEF Copies!BeginRestore, Copies!Sharing, Copies!At
<1>3. Aside(p)
  <2> SUFFICES ASSUME NEW z \in Process \ {p}
               PROVE  /\ run'[z].phase = run[z].phase /\ run'[z].stem = run[z].stem
                      /\ run'[z].victims = run[z].victims /\ run'[z].listed = run[z].listed
                      /\ run[z].phase \in Packs => run'[z].content = run[z].content
    BY DEF Aside
  <2>1. CASE run'[z] = run[z]
    BY <2>1
  <2>2. CASE run[z].phase = "unpacked" /\ run'[z] = [run[z] EXCEPT !.content = "shared"]
    BY <2>2 DEF IInv, Typed, IsRun, Packs
  <2> QED
    BY <1>2, <2>1, <2>2
<1>4. /\ run'[p].victims = << >> /\ Targets(p)' = {}
      /\ run'[p].listed = run[p].listed \/ run'[p].listed = {}
      /\ run'[p].phase \in {"idle", "unpacked", "restore"}
      /\ run'[p].phase = "unpacked" => f.content # "open"
      /\ run'[p].phase = "restore" => f.gz = FALSE /\ run'[p].stem = f.stem
  <2>1. /\ run'[p].victims = << >>
        /\ run'[p].listed = run[p].listed \/ run'[p].listed = {}
        /\ run'[p].phase \in {"idle", "unpacked", "restore"}
        /\ run'[p].phase = "unpacked" => f.content # "open"
        /\ run'[p].phase = "restore" => f.gz = FALSE /\ run'[p].stem = f.stem
    <3>1. CASE run'[p] = run[p]
      <4>1. run[p].victims = << >>
        BY <1>1 DEF SurvInv, Shaped
      <4> QED
        BY <1>1, <3>1, <4>1 DEF Phase
    <3>2. CASE /\ ~(f.gz /\ f.content = "open")
               /\ run'[p] = [Copies!Idle EXCEPT
                      !.phase = IF f.gz THEN "unpacked" ELSE "restore",
                      !.stem = f.stem, !.state = f.state,
                      !.content = IF Copies!Sharing(p, f) # {} THEN "shared" ELSE "open"]
      <4>1. /\ run'[p].victims = << >> /\ run'[p].listed = {} /\ run'[p].stem = f.stem
            /\ run'[p].phase = IF f.gz THEN "unpacked" ELSE "restore"
        BY <3>2 DEF Copies!Idle
      <4>2. f.gz \in BOOLEAN
        BY DEF IInv, Typed
      <4> QED
        BY <3>2, <4>1, <4>2
    <3> QED
      BY <1>2, <3>1, <3>2
  <2>2. 1 .. Len(run'[p].victims) = {}
    BY <2>1
  <2> QED
    BY <2>1, <2>2 DEF Targets
<1>5. Wrote(p) /\ Removed(p)
  BY <1>1 DEF Wrote, Removed
<1>6. Drops(p)
  BY <1>4 DEF Drops
<1>7. crashes <= crashes' /\ restores <= restores' /\ (run[p].victims \in Seq(Targets(p)))'
  BY <1>1, <1>4
<1>8. CASE run'[p].phase # "restore"
  <2>1. Phase(p)' \in {"idle", "unpacked"}
    BY <1>4, <1>8 DEF Phase
  <2>2. Moves(p)
    BY <1>1, <1>3, <1>5, <1>6, <2>1, DropsLearns DEF Moves, Works, Working, Packs, IInv, Typed
  <2>3. DebtsPaid'
    BY <1>1, <1>7, <2>1, <2>2, IdleDebts DEF Packs
  <2>4. made = {} => Phase(p)' = "idle"
    BY <1>4, <2>1 DEF Phase, SurvInv, Beginning
  <2>5. Phase(p)' \notin Working /\ Phase(p)' \notin Finishes
    BY <2>1 DEF Working, Packs, Finishes
  <2> QED
    BY <1>1, <1>3, <1>4, <1>5, <1>6, <1>7, <2>1, <2>3, <2>4, <2>5, QuietSurvives
<1>9. CASE run'[p].phase = "restore"
  <2>1. Phase(p)' = "restore" /\ f.gz = FALSE /\ run'[p].stem = f.stem
    BY <1>4, <1>9 DEF Phase
  <2>2. There(Called(p, FALSE)') /\ There(Called(p, FALSE))'
    <3>1. Called(p, FALSE)' = NameOf(f)
      BY <2>1 DEF Called, NameOf
    <3>2. There(NameOf(f))
      BY DEF There
    <3>3. There(Called(p, FALSE))' <=> There(NameOf(f))
      BY <1>1, <3>1 DEF There, NameOf
    <3> QED
      BY <3>1, <3>2, <3>3
  <2>3. Learns(p)
    <3>1. \A n : ~DoomedBy(p, n)'
      BY <1>4 DEF DoomedBy
    <3>2. \A n \in run'[p].listed : Known(n)
      BY <1>4 DEF Known
    <3> QED
      BY <2>2, <3>1, <3>2 DEF Learns, Known
  <2>4. Moves(p)
    BY <1>1, <1>3, <1>5, <2>1, <2>3 DEF Moves, Works, Working, Packs, IInv, Typed
  <2>5. /\ Phase(p)' \notin Packs \cup {"open", "copy", "compress", "pack", "discard", "prune"}
        /\ Phase(p)' \notin Finishes \cup Working
    BY <2>1 DEF Packs, Working, Finishes
  <2>6. Shaped(p)'
    BY <1>1, <1>4, <1>6, <1>7, DropsShaped
  <2>7. Unused(p)' /\ OwnFiles(p)'
    BY <2>5 DEF Unused, OwnFiles
  <2>8. \A g : ~Writes(p, g)' /\ ~Excuses(p, g)' /\ ~Excuses(p, g)
    BY <1>1, <2>5 DEF Writes, Excuses, PacksEmpty, Packs
  <2>9. GoodPasses
    BY <1>1, <1>6, <2>4, <2>5, AllGoodPass DEF Drops
  <2>10. DebtsPaid'
    <3>1. PICK names : names = {}
      OBVIOUS
    <3>2. \A g \in files' : \/ g.content = "whole" \/ Excuses(p, g)'
                            \/ g \in files /\ ~Excuses(p, g)
                            \/ NameOf(g) \in names
      BY <1>1, <2>8
    <3>3. PICK T, e : T = Debts' /\ e = RunDebt(p)
      OBVIOUS
    <3>4. ASSUME NEW d \in T
          PROVE  d \in Debts \cup {e}
      <4>1. d \in Debts'
        BY <3>3
      <4>2. \/ d \in Debts /\ d # RunDebt(p)
            \/ \E n \in names : d = FileDebt(n)
            \/ d = RunDebt(p) /\ Holds(p)'
        BY <2>4, <3>2, <4>1, DebtsGrow
      <4> QED
        BY <3>1, <3>3, <4>2
    <3>5. IsFiniteSet(Debts) /\ Cardinality(Debts) <= crashes + restores
      BY DEF SurvInv, DebtsPaid
    <3>6. /\ IsFiniteSet(T) /\ Cardinality(T) <= Cardinality(Debts) + 1
          /\ Cardinality(T) \in Nat /\ Cardinality(Debts) \in Nat
      BY <3>4, <3>5, OneMore
    <3> QED
      BY <1>1, <3>3, <3>5, <3>6 DEF DebtsPaid
  <2>11. Beginning'
    BY <1>1, <2>1, <2>2, <2>4, StillBeginning
  <2>12. Surviving'
    <3>1. Room' => Room
      BY <1>7, RoomBefore
    <3>2. ~Late(p)'
      BY <2>5 DEF Late
    <3>3. (\E x \in Process : Late(x)') => \E x \in Process : Late(x)
      BY <2>4, <3>2, LateKept
    <3> QED
      BY <1>1, <2>9, <3>1, <3>3, SurvivingKept
  <2> QED
    BY <1>6, <1>7, <2>4, <2>5, <2>6, <2>7, <2>8, <2>9, <2>10, <2>11, <2>12, Survives
<1> QED
  BY <1>8, <1>9

LEMMA BeginSurvives ==
    ASSUME IInv, IInv', AloneInv, AloneInv', SurvInv, NEW p \in Process, NEW compress \in BOOLEAN,
           Copies!Begin(p, compress)
    PROVE  SurvInv'
<1>1. /\ Phase(p) = "idle" /\ UNCHANGED <<files, today, made, crashes, restores>>
      /\ begun' = begun + 1 /\ begun \in Nat
  BY DEF Copies!Begin, Copies!At, Phase, IInv, Typed
<1>2. /\ run'[p].phase = "open" /\ run'[p].stem = begun + 1
      /\ run'[p].listed = {} /\ run'[p].victims = << >>
      /\ \A q \in Process \ {p} : run'[q] = run[q]
  <2>1. PICK new : new = [Copies!Idle EXCEPT !.phase = "open", !.stem = begun + 1,
                                            !.compress = compress]
    OBVIOUS
  <2>2. new.phase = "open" /\ new.stem = begun + 1 /\ new.listed = {} /\ new.victims = << >>
    BY <2>1 DEF Copies!Idle
  <2>3. run' = [run EXCEPT ![p] = new]
    BY <2>1 DEF Copies!Begin
  <2> QED
    BY <2>2, <2>3 DEF IInv, Typed
<1>3. Targets(p)' = {} /\ Phase(p)' = "open"
  <2>1. 1 .. Len(run'[p].victims) = {}
    BY <1>2
  <2> QED
    BY <1>2, <2>1 DEF Targets, Phase
<1>4. /\ crashes <= crashes' /\ restores <= restores'
      /\ \A f \in files : f.stem \in Nat /\ f.stem <= begun
  BY <1>1 DEF AloneInv, Ledger, IInv, Typed
<1>5. Aside(p) /\ Wrote(p) /\ Removed(p)
  BY <1>1, <1>2 DEF Aside, Wrote, Removed
<1>6. Drops(p)
  BY <1>2, <1>3 DEF Drops
<1>7. Moves(p)
  BY <1>1, <1>2, <1>3, <1>5, <1>6, DropsLearns DEF Moves, Works
<1>8. Shaped(p)'
  BY <1>2, <1>3 DEF Shaped
<1>9. Unused(p)'
  <2>1. ASSUME NEW gz \in BOOLEAN, Known(Called(p, gz))'
        PROVE  FALSE
    <3>1. PICK n : n = Called(p, gz)' /\ n.stem = begun + 1
      <4>1. PICK n : n = Called(p, gz)'
        OBVIOUS
      <4>2. n.stem = run'[p].stem
        BY <4>1, Zenon DEF Called
      <4> QED
        BY <1>2, <4>1, <4>2
    <3>2. Known(n)'
      BY <2>1, <3>1 DEF Known, There, DoomedBy, NameOf, Called, Phase
    <3>3. Known(n)
      BY <1>1, <1>7, <3>2, KnownGrows DEF Working, Packs
    <3> QED
      BY <1>1, <3>1, <3>3, KnownBefore
  <2> QED
    BY <2>1 DEF Unused
<1>10. OwnFiles(p)'
  <2>1. \A f \in files : f.stem # begun + 1
    BY <1>1, <1>4
  <2> QED
    BY <1>1, <1>2, <1>3, <2>1 DEF OwnFiles, Packs
<1>11. Phase(p)' \notin Packs \cup {"copy", "pack", "restore"} /\ Phase(p)' \notin Finishes
  BY <1>3 DEF Packs, Finishes
<1>12. \A f : ~Writes(p, f)'
  BY <1>11 DEF Writes
<1>13. GoodPasses
  BY <1>1, <1>6, <1>7, <1>11, AllGoodPass DEF Drops
<1>14. DebtsPaid'
  BY <1>1, <1>4, <1>7, <1>11, IdleDebts DEF Packs
<1>15. Beginning'
  BY <1>1, <1>3, <1>7, StillBeginning
<1>16. Surviving'
  <2>1. Room' => Room
    BY <1>4, RoomBefore
  <2>2. ~Late(p)'
    BY <1>11 DEF Late
  <2>3. (\E x \in Process : Late(x)') => \E x \in Process : Late(x)
    BY <1>7, <2>2, LateKept
  <2> QED
    BY <1>1, <1>13, <2>1, <2>3, SurvivingKept
<1> QED
  BY <1>4, <1>6, <1>7, <1>8, <1>9, <1>10, <1>11, <1>12, <1>13, <1>14, <1>15, <1>16, Survives

-----------------------------------------------------------------------------
(* Steps that write a backup.                                              *)

LEMMA OwnNames ==
    ASSUME NEW x, NEW f, NEW gz
    PROVE  NameOf(f) = Called(x, gz) <=> f.stem = run[x].stem /\ f.gz = gz
  BY NameFacts

LEMMA ThereIsNamed ==
    ASSUME NEW x, NEW gz
    PROVE  There(Called(x, gz)) <=> Copies!Named(x, gz) # {}
<1>1. \A f : NameOf(f) = Called(x, gz) <=> f.stem = run[x].stem /\ f.gz = gz
  BY OwnNames
<1> QED
  BY <1>1 DEF There, Copies!Named

LEMMA OnlyNamed ==
    ASSUME AloneInv, NEW x, NEW gz, NEW f \in Copies!Named(x, gz), NEW g \in Copies!Named(x, gz)
    PROVE  f = g
  BY DEF AloneInv, Ledger, Copies!Named

\* What a run that writes its raw copy leaves: a file of its own, newer than the others.
RawPut(p, new, content) ==
    /\ new.stem = run[p].stem /\ new.gz = FALSE /\ new.content = content
    /\ new.day = today /\ \A g \in files : g.order < new.order
    /\ files' = (files \ Copies!Named(p, FALSE)) \cup {new}

LEMMA PutsRaw ==
    ASSUME AloneInv, NEW p \in Process, NEW content, NEW state,
           Copies!Put(p, FALSE, content, state)
    PROVE  \E new : RawPut(p, new, content)
<1>1. PICK new : new = [stem |-> run[p].stem, gz |-> FALSE, content |-> content, state |-> state,
                        day |-> today, order |-> Copies!Latest + 1]
  OBVIOUS
<1>2. files' = (files \ Copies!Named(p, FALSE)) \cup {new}
  BY <1>1 DEF Copies!Put
<1>3. /\ new.stem = run[p].stem /\ new.gz = FALSE /\ new.content = content /\ new.day = today
      /\ new.order = Copies!Latest + 1
  BY <1>1
<1>4. \A g \in files : g.order < new.order
  BY <1>3, LatestFacts DEF AloneInv, Ledger
<1>5. RawPut(p, new, content)
  BY <1>2, <1>3, <1>4 DEF RawPut
<1> QED
  BY <1>5

LEMMA PutsGz ==
    ASSUME AloneInv, NEW p \in Process, NEW content, NEW state,
           Copies!Put(p, TRUE, content, state)
    PROVE  \E new : /\ new.stem = run[p].stem /\ new.gz = TRUE /\ new.content = content
                    /\ new.day = today /\ \A g \in files : g.order < new.order
                    /\ files' = (files \ Copies!Named(p, TRUE)) \cup {new}
<1>1. PICK new : new = [stem |-> run[p].stem, gz |-> TRUE, content |-> content, state |-> state,
                        day |-> today, order |-> Copies!Latest + 1]
  OBVIOUS
<1>2. files' = (files \ Copies!Named(p, TRUE)) \cup {new}
  BY <1>1 DEF Copies!Put
<1>3. /\ new.stem = run[p].stem /\ new.gz = TRUE /\ new.content = content /\ new.day = today
      /\ new.order = Copies!Latest + 1
  BY <1>1
<1>4. \A g \in files : g.order < new.order
  BY <1>3, LatestFacts DEF AloneInv, Ledger
<1> QED
  BY <1>2, <1>3, <1>4

\* What gets known is there.
LEMMA KnownOnly ==
    ASSUME NEW p \in Process, Moves(p), NEW n, Known(n)'
    PROVE  Known(n) \/ There(n)'
<1>1. ASSUME NEW x \in Process \ {p},
             DoomedBy(x, n)' \/ n \in run'[x].listed \/ (Phase(x)' = "restore" /\ n = Called(x, FALSE)')
      PROVE  Known(n)
  <2>1. run'[x].listed = run[x].listed
    BY DEF Moves, Aside
  <2> QED
    BY <1>1, <2>1, SameTargets DEF Moves, Known
<1>2. ASSUME DoomedBy(p, n)' \/ n \in run'[p].listed \/ (Phase(p)' = "restore" /\ n = Called(p, FALSE)')
      PROVE  Known(n)
  BY <1>2 DEF Moves, Learns
<1> QED
  BY <1>1, <1>2 DEF Known

\* Nobody has met the compressed file yet.
LEMMA StillUnused ==
    ASSUME SurvInv, NEW p \in Process, Moves(p), Phase(p) \in {"open", "copy"},
           run'[p].stem = run[p].stem, Phase(p)' # "open",
           \A f \in files' : f \in files \/ f.gz = FALSE
    PROVE  Unused(p)'
<1>1. PICK n : n = Called(p, TRUE) /\ n = Called(p, TRUE)'
  <2>1. Called(p, TRUE) = Called(p, TRUE)'
    BY DEF Called
  <2> QED
    BY <2>1
<1>2. ~Known(n)
  BY <1>1 DEF SurvInv, Unused
<1>3. ~There(n)'
  <2> SUFFICES ASSUME NEW f \in files', NameOf(f) = n
               PROVE  FALSE
    BY DEF There, NameOf
  <2>1. f.gz = TRUE
    <3>1. PICK gz : gz = TRUE
      OBVIOUS
    <3>2. NameOf(f) = Called(p, gz)
      BY <1>1, <3>1
    <3>3. f.gz = gz
      BY <3>2, OwnNames
    <3> QED
      BY <3>1, <3>3
  <2>2. f \in files
    BY <2>1
  <2> QED
    BY <1>2, <2>2 DEF Known, There
<1>4. ~Known(n)'
  BY <1>2, <1>3, KnownOnly
<1>5. Known(Called(p, TRUE))' <=> Known(n)'
  BY <1>1 DEF Known, There, DoomedBy, NameOf, Called, Phase
<1> QED
  BY <1>4, <1>5 DEF Unused

LEMMA OpenRawSurvives ==
    ASSUME IInv, IInv', AloneInv, AloneInv', SurvInv, NEW p \in Process, Copies!OpenRaw(p)
    PROVE  SurvInv'
<1>1. /\ Phase(p) = "open" /\ UNCHANGED <<begun, today, made, crashes, restores>>
      /\ Copies!Put(p, FALSE, "open", 0) /\ Copies!Go(p, "copy")
  BY DEF Copies!OpenRaw, Copies!At, Phase
<1>20. PICK new : RawPut(p, new, "open")
  BY <1>1, PutsRaw
<1>2. /\ new.stem = run[p].stem /\ new.gz = FALSE /\ new.content = "open"
      /\ new.day = today /\ \A g \in files : g.order < new.order
      /\ files' = (files \ Copies!Named(p, FALSE)) \cup {new}
  BY <1>20 DEF RawPut
<1>3. /\ ~Known(Called(p, FALSE)) /\ run[p].victims = << >>
  BY <1>1 DEF SurvInv, Unused, Shaped
<1>4. Copies!Named(p, FALSE) = {} /\ ~There(Called(p, FALSE))
  BY <1>3, ThereIsNamed DEF Known
<1>5. /\ Aside(p) /\ Drops(p) /\ Phase(p)' = "copy" /\ run'[p].victims = << >>
      /\ run'[p].stem = run[p].stem /\ (run[p].victims \in Seq(Targets(p)))'
  BY <1>1, <1>3, GoDrops
<1>6. NameOf(new) = Called(p, FALSE)
  BY <1>2, OwnNames
<1>7. Wrote(p) /\ Removed(p)
  <2>1. NewFileOf(p, new)
    BY <1>1, <1>2, <1>3, <1>6 DEF NewFileOf, Working
  <2> QED
    BY <1>2, <1>4, <2>1 DEF Wrote, Removed
<1>8. Moves(p)
  BY <1>1, <1>5, <1>7, DropsLearns DEF Moves, Works, Working, IInv, Typed
<1>9. crashes <= crashes' /\ restores <= restores'
  BY <1>1 DEF AloneInv, Ledger, IInv, Typed
<1>10. Shaped(p)'
  BY <1>1, <1>5, DropsShaped
<1>11. Unused(p)'
  BY <1>1, <1>2, <1>5, <1>8, StillUnused
<1>12. Phase(p)' \notin Packs \cup {"compress", "pack", "discard", "restore"} \cup Finishes
  BY <1>5 DEF Packs, Finishes
<1>13. OwnFiles(p)'
  <2>1. \A f \in files : f.stem = run[p].stem => f.day = today
    BY <1>1 DEF SurvInv, OwnFiles, Working
  <2>2. \A f \in files' : f.stem = run[p].stem => f.day = today
    BY <1>2, <2>1
  <2> QED
    BY <1>1, <1>5, <1>12, <2>2 DEF OwnFiles
<1>14. Writes(p, new)'
  <2>1. NameOf(new) = Called(p, FALSE)'
    BY <1>5, <1>6 DEF Called
  <2> QED
    BY <1>2, <1>5, <2>1 DEF Writes, NameOf, Called
<1>15. \A f \in files : ~Writes(p, f)'
  <2> SUFFICES ASSUME NEW f \in files, Writes(p, f)' PROVE FALSE
    OBVIOUS
  <2>1. ~f.gz /\ NameOf(f) = Called(p, f.gz)
    BY <1>5 DEF Writes, NameOf, Called
  <2>2. f.gz = FALSE
    BY <2>1 DEF IInv, Typed
  <2>3. NameOf(f) = Called(p, FALSE)
    BY <2>1, <2>2
  <2> QED
    BY <1>4, <2>3 DEF There
<1>16. GoodPasses
  BY <1>1, <1>5, <1>8, <1>12, AllGoodPass DEF Drops
<1>17. DebtsPaid'
  <2>1. \A f : ~Excuses(p, f)
    BY <1>1 DEF Excuses, Writes, PacksEmpty, Packs
  <2>2. \A f \in files' : Excuses(p, f)' \/ (f \in files /\ ~Excuses(p, f))
    BY <1>2, <1>14, <2>1 DEF Excuses
  <2>3. ~Holds(p)'
    BY <1>12 DEF Holds, PacksEmpty
  <2> QED
    BY <1>8, <1>9, <2>2, <2>3, DebtsStay
<1>18. Beginning'
  <2>1. \A f \in files' : f \in files \/ f.content = "open"
    BY <1>2
  <2>2. \E f \in files' : Writes(p, f)'
    BY <1>2, <1>14
  <2> QED
    BY <1>1, <1>5, <1>8, <2>1, <2>2, StillBeginning
<1>19. Surviving'
  <2>1. Room' => Room
    BY <1>9, RoomBefore
  <2>2. ~Late(p)'
    BY <1>2, <1>12, <1>14 DEF Late
  <2>3. (\E x \in Process : Late(x)') => \E x \in Process : Late(x)
    BY <1>8, <2>2, LateKept
  <2> QED
    BY <1>1, <1>16, <2>1, <2>3, SurvivingKept
<1> QED
  BY <1>5, <1>8, <1>9, <1>10, <1>11, <1>12, <1>13, <1>15, <1>16, <1>17, <1>18, <1>19, Survives

LEMMA RawName ==
    ASSUME NEW x, NEW f, f.stem = run[x].stem, f.gz = FALSE
    PROVE  NameOf(f) = Called(x, FALSE)
  BY OwnNames

LEMMA GzName ==
    ASSUME NEW x, NEW f, f.stem = run[x].stem, f.gz = TRUE
    PROVE  NameOf(f) = Called(x, TRUE)
  BY OwnNames

\* Before the first copy is finished there is nothing that could spoil it.
LEMMA FirstLasts ==
    ASSUME IInv, AloneInv, SurvInv, NEW p \in Process, Moves(p), Targets(p)' \subseteq Targets(p),
           \A x \in Process : ~Late(x), Phase(p)' \notin Packs,
           NEW f \in files', f.content = "whole", f.day = today
    PROVE  Lasting(f)'
<1>1. \A x \in Process : Phase(x) \notin {"prune"} \cup Packs
  BY DEF Late, Finishes, Packs
<1>2. \A x \in Process : Targets(x)' = {}
  <2>1. \A x \in Process : Targets(x) = {}
    BY <1>1, NoTargets
  <2> QED
    BY <2>1, TargetsShrink
<1>3. ~Doomed(NameOf(f))'
  BY <1>2 DEF Doomed, DoomedBy
<1>4. \A x \in Process : Phase(x)' \notin Packs
  BY <1>1, SameTargets DEF Moves
<1>5. ~Widowed(f)'
  BY <1>4 DEF Widowed
<1>6. ~Copies!Aged(f)'
  <2>1. today \in Nat /\ RetentionDays \in Int /\ today' = today
    BY CopiesAssumption DEF AloneInv, Ledger, Moves
  <2> QED
    BY <2>1 DEF Copies!Aged
<1> QED
  BY <1>3, <1>5, <1>6 DEF Lasting, Good

\* The copy is finished.
LEMMA CopyWholeSurvives ==
    ASSUME IInv, IInv', AloneInv, AloneInv', SurvInv, NEW p \in Process, Phase(p) = "copy",
           NEW phase \in {"compress", "size"}, Copies!Go(p, phase),
           NEW u \in Copies!Named(p, FALSE), u.content = "open",
           NEW state, Copies!Put(p, FALSE, "whole", state), made' = made \cup {state},
           UNCHANGED <<begun, today, crashes, restores>>
    PROVE  SurvInv'
<1>20. PICK new : RawPut(p, new, "whole")
  BY PutsRaw
<1>1. /\ new.stem = run[p].stem /\ new.gz = FALSE /\ new.content = "whole"
      /\ new.day = today /\ \A g \in files : g.order < new.order
      /\ files' = (files \ Copies!Named(p, FALSE)) \cup {new}
  BY <1>20 DEF RawPut
<1>2. run[p].victims = << >>
  BY DEF SurvInv, Shaped
<1>3. Copies!Named(p, FALSE) = {u} /\ u \in files /\ u.stem = run[p].stem /\ u.gz = FALSE
  <2>1. \A g \in Copies!Named(p, FALSE) : g = u
    BY OnlyNamed
  <2> QED
    BY <2>1 DEF Copies!Named
<1>4. NameOf(u) = Called(p, FALSE) /\ NameOf(new) = Called(p, FALSE) /\ Writes(p, u)
  <2>1. NameOf(u) = Called(p, FALSE) /\ NameOf(new) = Called(p, FALSE)
    BY <1>1, <1>3, RawName
  <2>2. NameOf(u) = Called(p, u.gz)
    BY <1>3, <2>1
  <2> QED
    BY <1>3, <2>1, <2>2 DEF Writes
<1>5. /\ Aside(p) /\ Drops(p) /\ Phase(p)' = phase /\ run'[p].victims = << >>
      /\ run'[p].stem = run[p].stem /\ (run[p].victims \in Seq(Targets(p)))'
  BY <1>2, GoDrops
<1>6. Wrote(p) /\ Removed(p)
  <2>1. NewFileOf(p, new)
    BY <1>1, <1>3, <1>4 DEF NewFileOf, Working
  <2>2. There(NameOf(u))'
    BY <1>1, <1>4 DEF There, NameOf
  <2> QED
    BY <1>1, <1>3, <1>4, <2>1, <2>2 DEF Wrote, Removed
<1>7. Moves(p)
  BY <1>5, <1>6, DropsLearns DEF Moves, Works, Working, IInv, Typed
<1>8. crashes <= crashes' /\ restores <= restores'
  BY DEF AloneInv, Ledger, IInv, Typed
<1>9. Shaped(p)'
  BY <1>5, DropsShaped
<1>10. Unused(p)'
  BY <1>1, <1>5, <1>7, StillUnused
<1>11. Phase(p)' \notin Packs \cup {"copy", "pack", "discard", "restore"}
  BY <1>5 DEF Packs
<1>12. OwnFiles(p)'
  <2>1. \A f \in files : f.stem = run[p].stem => f.day = today
    BY DEF SurvInv, OwnFiles, Working
  <2>2. \A f \in files' : f.stem = run[p].stem => f.day = today
    BY <1>1, <2>1
  <2>3. \A f \in files' : f.stem = run[p].stem /\ f.gz = FALSE => f = new
    BY <1>1 DEF Copies!Named
  <2>4. \A f \in Files(p, FALSE)' : f.content # "open"
    BY <1>1, <1>5, <2>3 DEF Files
  <2> QED
    BY <1>5, <1>11, <2>2, <2>4 DEF OwnFiles
<1>13. \A f : ~Writes(p, f)'
  BY <1>11 DEF Writes
<1>14. GoodPasses
  BY <1>5, <1>7, <1>11, AllGoodPass DEF Drops
<1>15. DebtsPaid'
  <2>1. ASSUME NEW f \in files', f # new
        PROVE  f \in files /\ ~Excuses(p, f)
    <3>1. f \in files /\ f \notin Copies!Named(p, FALSE)
      BY <1>1, <2>1
    <3>2. f.gz # FALSE \/ f.stem # run[p].stem
      BY <3>1 DEF Copies!Named
    <3>3. ~Writes(p, f)
      <4> SUFFICES ASSUME Writes(p, f) PROVE FALSE
        OBVIOUS
      <4>1. NameOf(f) = Called(p, f.gz) /\ ~f.gz
        BY DEF Writes
      <4>2. f.stem = run[p].stem
        BY <4>1, OwnNames
      <4>3. f.gz = FALSE
        BY <3>1, <4>1 DEF IInv, Typed
      <4> QED
        BY <3>2, <4>2, <4>3
    <3> QED
      BY <3>1, <3>3 DEF Excuses, PacksEmpty, Packs
  <2>2. \A f \in files' : f.content = "whole" \/ (f \in files /\ ~Excuses(p, f))
    BY <1>1, <2>1
  <2>3. ~Holds(p)'
    BY <1>11 DEF Holds, PacksEmpty
  <2> QED
    BY <1>7, <1>8, <2>2, <2>3, DebtsStay
<1>16. Beginning'
  BY DEF Beginning
<1>17. Surviving'
  <2> SUFFICES ASSUME Room'
               PROVE  \E f \in files' : Lasting(f)'
    BY DEF Surviving, Lasting
  <2>1. Room
    BY <1>8, RoomBefore
  <2>2. CASE \A x \in Process : ~Late(x)
    <3>1. new \in files'
      BY <1>1
    <3> QED
      BY <1>1, <1>5, <1>7, <1>11, <2>2, <3>1, FirstLasts DEF Drops
  <2>3. CASE \E x \in Process : Late(x)
    <3>1. made # {}
      BY <2>3 DEF SurvInv, Beginning, Late, Finishes
    <3>2. PICK f \in files : Lasting(f)
      BY <2>1, <2>3, <3>1 DEF SurvInv, Surviving
    <3>3. PICK h : Good(h)' /\ (Copies!Aged(h)' => Copies!Aged(f))
      BY <1>14, <3>2 DEF GoodPasses, Lasting
    <3> QED
      BY <3>2, <3>3 DEF Lasting, Good
  <2> QED
    BY <2>2, <2>3
<1> QED
  BY <1>5, <1>7, <1>8, <1>9, <1>10, <1>11, <1>12, <1>13, <1>14, <1>15, <1>16, <1>17, Survives

\* The pages go nowhere.
LEMMA CopyLostSurvives ==
    ASSUME IInv, IInv', AloneInv, AloneInv', SurvInv, NEW p \in Process, Phase(p) = "copy",
           NEW phase \in {"compress", "size"}, Copies!Go(p, phase),
           \A f \in Copies!Named(p, FALSE) : f.content # "open",
           UNCHANGED <<files, begun, today, made, crashes, restores>>
    PROVE  SurvInv'
<1>1. run[p].victims = << >>
  BY DEF SurvInv, Shaped
<1>2. /\ Aside(p) /\ Drops(p) /\ Phase(p)' = phase /\ run'[p].victims = << >>
      /\ run'[p].stem = run[p].stem /\ (run[p].victims \in Seq(Targets(p)))'
  BY <1>1, GoDrops
<1>3. Wrote(p) /\ Removed(p)
  BY DEF Wrote, Removed
<1>4. Moves(p)
  BY <1>2, <1>3, DropsLearns DEF Moves, Works, Working, IInv, Typed
<1>5. crashes <= crashes' /\ restores <= restores'
  BY DEF AloneInv, Ledger, IInv, Typed
<1>6. \A f \in files : ~Writes(p, f)
  <2> SUFFICES ASSUME NEW f \in files, Writes(p, f) PROVE FALSE
    OBVIOUS
  <2>1. NameOf(f) = Called(p, f.gz) /\ ~f.gz /\ f.content = "open"
    BY DEF Writes
  <2>2. f.stem = run[p].stem
    BY <2>1, OwnNames
  <2>3. f.gz = FALSE
    BY <2>1 DEF IInv, Typed
  <2> QED
    BY <2>1, <2>2, <2>3 DEF Copies!Named
<1>7. Late(p) /\ made # {}
  BY <1>6 DEF Late, SurvInv, Beginning
<1>8. Shaped(p)'
  BY <1>2, DropsShaped
<1>9. Unused(p)'
  BY <1>2, <1>4, StillUnused
<1>10. Phase(p)' \notin Packs \cup {"copy", "pack", "discard", "restore"}
  BY <1>2 DEF Packs
<1>11. OwnFiles(p)'
  <2>1. \A f \in files : f.stem = run[p].stem => f.day = today
    BY DEF SurvInv, OwnFiles, Working
  <2>2. \A f \in Files(p, FALSE)' : f.content # "open"
    BY <1>2 DEF Files, Copies!Named
  <2> QED
    BY <1>2, <1>10, <2>1, <2>2 DEF OwnFiles
<1>12. \A f : ~Writes(p, f)'
  BY <1>10 DEF Writes
<1>13. GoodPasses
  BY <1>2, <1>4, <1>10, AllGoodPass DEF Drops
<1>14. DebtsPaid'
  <2>1. \A f \in files : ~Excuses(p, f)
    BY <1>6 DEF Excuses, PacksEmpty, Packs
  <2>2. ~Holds(p)'
    BY <1>10 DEF Holds, PacksEmpty
  <2> QED
    BY <1>4, <1>5, <2>1, <2>2, DebtsStay
<1>15. Beginning'
  BY <1>7 DEF Beginning
<1>16. Surviving'
  <2>1. Room' => Room
    BY <1>5, RoomBefore
  <2> QED
    BY <1>7, <1>13, <2>1, SurvivingKept
<1> QED
  BY <1>2, <1>4, <1>5, <1>8, <1>9, <1>10, <1>11, <1>12, <1>13, <1>14, <1>15, <1>16, Survives

LEMMA CopyRawSurvives ==
    ASSUME IInv, IInv', AloneInv, AloneInv', SurvInv, NEW p \in Process, Copies!CopyRaw(p)
    PROVE  SurvInv'
<1>1. /\ Phase(p) = "copy" /\ UNCHANGED <<begun, today, crashes, restores>>
  BY DEF Copies!CopyRaw, Copies!At, Phase
<1>2. PICK phase \in {"compress", "size"} : Copies!Go(p, phase)
  BY DEF Copies!CopyRaw
<1>3. CASE \E f \in Copies!Named(p, FALSE) : f.content = "open"
  <2>1. PICK u \in Copies!Named(p, FALSE) : u.content = "open"
    BY <1>3
  <2>2. Copies!Put(p, FALSE, "whole", db) /\ made' = made \cup {db}
    BY <1>3 DEF Copies!CopyRaw
  <2> QED
    BY <1>1, <1>2, <2>1, <2>2, CopyWholeSurvives
<1>4. CASE ~ \E f \in Copies!Named(p, FALSE) : f.content = "open"
  <2>1. UNCHANGED <<files, made>>
    BY <1>4 DEF Copies!CopyRaw
  <2> QED
    BY <1>1, <1>2, <1>4, <2>1, CopyLostSurvives
<1> QED
  BY <1>3, <1>4

\* Nothing of a name that nobody has met is to be removed.
LEMMA NotDoomed ==
    ASSUME NEW n, ~Known(n)
    PROVE  /\ ~There(n) /\ ~Doomed(n)
           /\ \A y \in Process : ~DoomedBy(y, n) /\ n \notin run[y].listed
  BY DEF Known, Doomed

LEMMA PackSurvives ==
    ASSUME IInv, IInv', AloneInv, AloneInv', SurvInv, NEW p \in Process, Phase(p) = "compress",
           NEW raw \in Copies!Named(p, FALSE), Copies!Put(p, TRUE, "open", 0),
           run' = [run EXCEPT ![p] = [@ EXCEPT !.phase = "pack", !.content = raw.content,
                                               !.state = raw.state]],
           UNCHANGED <<begun, today, made, crashes, restores>>
    PROVE  SurvInv'
<1>1. PICK new : /\ new.stem = run[p].stem /\ new.gz = TRUE /\ new.content = "open"
                 /\ new.day = today /\ \A g \in files : g.order < new.order
                 /\ files' = (files \ Copies!Named(p, TRUE)) \cup {new}
  BY PutsGz
<1>2. /\ run'[p].phase = "pack" /\ run'[p].content = raw.content /\ run'[p].stem = run[p].stem
      /\ run'[p].victims = run[p].victims /\ run'[p].listed = run[p].listed
      /\ \A q \in Process \ {p} : run'[q] = run[q]
  BY DEF IInv, Typed, IsRun
<1>3. PICK gz : gz = Called(p, TRUE) /\ gz = Called(p, TRUE)'
  <2>1. Called(p, TRUE) = Called(p, TRUE)'
    BY <1>2 DEF Called
  <2> QED
    BY <2>1
<1>4. ~Known(gz)
  BY <1>3 DEF SurvInv, Unused
<1>5. /\ ~There(gz) /\ ~Doomed(gz)
      /\ \A y \in Process : ~DoomedBy(y, gz) /\ gz \notin run[y].listed
  BY <1>4, NotDoomed
<1>6. Copies!Named(p, TRUE) = {}
  BY <1>3, <1>5, ThereIsNamed
<1>7. /\ run[p].victims = << >> /\ Targets(p) = {}
  BY NoTargets DEF SurvInv, Shaped
<1>8. /\ Targets(p)' = {} /\ Phase(p)' = "pack"
      /\ (run[p].victims \in Seq(Targets(p)))'
  <2>1. Targets(p)' = {} /\ Phase(p)' = "pack"
    BY <1>2, <1>7 DEF Targets, Phase
  <2>2. run'[p].victims = << >>
    BY <1>2, <1>7
  <2>3. run'[p].victims \in Seq(Targets(p)')
    BY <2>2, EmptySeq
  <2> QED
    BY <2>1, <2>3
<1>9. Aside(p) /\ Drops(p)
  BY <1>2, <1>8 DEF Aside, Drops
<1>10. NameOf(new) = gz
  BY <1>1, <1>3, GzName
<1>11. Wrote(p) /\ Removed(p)
  <2>1. NewFileOf(p, new)
    BY <1>1, <1>4, <1>10 DEF NewFileOf, Working
  <2> QED
    BY <1>1, <1>6, <2>1 DEF Wrote, Removed
<1>12. Moves(p)
  BY <1>2, <1>8, <1>9, <1>11, DropsLearns DEF Moves, Works, Working, IInv, Typed
<1>13. crashes <= crashes' /\ restores <= restores'
  BY DEF AloneInv, Ledger, IInv, Typed
<1>14. Shaped(p)'
  BY <1>2, <1>7, <1>8, <1>9, DropsShaped
<1>15. Phase(p)' \notin {"open", "copy", "compress", "discard", "restore", "prune"} /\ Phase(p)' \in Packs
  BY <1>8 DEF Packs
<1>16. Unused(p)'
  BY <1>15 DEF Unused
<1>17. /\ raw \in files /\ raw.stem = run[p].stem /\ raw.gz = FALSE
       /\ raw.content \in {"whole", "empty"}
  <2>1. raw.content # "open"
    BY DEF IInv, RunsSound, Sound, Phase
  <2> QED
    BY <2>1 DEF Copies!Named, IInv, FilesSound, Contains
<1>18. \A f \in files' : /\ f.stem = run[p].stem /\ f.gz = FALSE => f = raw
                         /\ f.stem = run[p].stem /\ f.gz = TRUE => f = new
  <2>1. \A f \in files : f.stem = run[p].stem /\ f.gz = FALSE => f = raw
    <3>1. \A f \in Copies!Named(p, FALSE) : f = raw
      BY OnlyNamed
    <3> QED
      BY <3>1 DEF Copies!Named
  <2> QED
    BY <1>1, <2>1 DEF Copies!Named
<1>19. OwnFiles(p)'
  <2>1. \A f \in files : f.stem = run[p].stem => f.day = today
    BY DEF SurvInv, OwnFiles, Working
  <2>2. \A f \in files' : f.stem = run[p].stem => f.day = today
    BY <1>1, <2>1
  <2>3. \A f \in Files(p, FALSE)' : f = raw
    BY <1>2, <1>18 DEF Files
  <2>4. \A f \in Files(p, TRUE)' : f = new
    BY <1>2, <1>18 DEF Files
  <2> QED
    BY <1>1, <1>2, <1>15, <1>17, <2>2, <2>3, <2>4 DEF OwnFiles
<1>20. \A y \in Process : ~DoomedBy(y, gz)' /\ gz \notin run'[y].listed
  <2>1. \A y \in Process : ~DoomedBy(y, gz)'
    BY <1>5, <1>12, <1>9, TargetsShrink DEF Drops
  <2>2. \A y \in Process : run'[y].listed = run[y].listed
    BY <1>2
  <2> QED
    BY <1>5, <2>1, <2>2
<1>21. \A y \in Process : Together(p, y)'
  <2> SUFFICES ASSUME NEW y \in Process PROVE Together(p, y)'
    OBVIOUS
  <2>1. DoomedBy(y, Called(p, TRUE))' <=> DoomedBy(y, gz)'
    BY <1>3 DEF DoomedBy, NameOf
  <2> QED
    BY <1>3, <1>20, <2>1 DEF Together
<1>22. \A f \in files : ~Writes(p, f)'
  <2> SUFFICES ASSUME NEW f \in files, Writes(p, f)' PROVE FALSE
    OBVIOUS
  <2>1. f.gz /\ NameOf(f) = Called(p, f.gz)
    BY <1>2, <1>8 DEF Writes, NameOf, Called
  <2>2. f.gz = TRUE
    BY <2>1 DEF IInv, Typed
  <2>3. NameOf(f) = gz
    BY <1>3, <2>1, <2>2
  <2> QED
    BY <1>5, <2>3 DEF There
<1>23. ~GzLost(p)'
  <2>1. There(gz)'
    BY <1>1, <1>10 DEF There, NameOf
  <2>2. ~Doomed(gz)'
    BY <1>20 DEF Doomed
  <2>3. GzLost(p)' <=> ~There(gz)' \/ Doomed(gz)'
    BY <1>3 DEF GzLost, There, Doomed, DoomedBy, NameOf
  <2> QED
    BY <2>1, <2>2, <2>3
<1>24. GoodPasses
  BY <1>9, <1>12, <1>23, AllGoodPass DEF Drops
<1>25. /\ \A f : ~Excuses(p, f)
       /\ Excuses(p, new)'
  <2>1. \A f : ~Excuses(p, f)
    BY DEF Excuses, Writes, PacksEmpty, Packs
  <2>2. NameOf(new) = Called(p, new.gz)'
    BY <1>1, <1>3, <1>10
  <2>3. Writes(p, new)'
    BY <1>1, <1>8, <2>2 DEF Writes, NameOf, Called
  <2> QED
    BY <2>1, <2>3 DEF Excuses
<1>26. \A f \in files' : Excuses(p, f)' \/ (f \in files /\ ~Excuses(p, f))
  BY <1>1, <1>25
<1>27. DebtsPaid'
  <2>1. CASE raw.content = "whole"
    <3>1. ~Holds(p)'
      BY <1>2, <1>15, <2>1 DEF Holds, PacksEmpty
    <3> QED
      BY <1>12, <1>13, <1>26, <3>1, DebtsStay
  <2>2. CASE raw.content = "empty"
    <3>1. PICK names : names = {}
      OBVIOUS
    <3>2. \A f \in files' : \/ f.content = "whole" \/ Excuses(p, f)'
                            \/ f \in files /\ ~Excuses(p, f)
                            \/ NameOf(f) \in names
      BY <1>26
    <3>3. PICK T, d, e : T = Debts' /\ d = FileDebt(NameOf(raw)) /\ e = RunDebt(p)
      OBVIOUS
    <3>4. d \in Debts
      <4>1. ASSUME NEW x \in Process, Excuses(x, raw)
            PROVE  FALSE
        <5>1. PacksEmpty(x) /\ raw.stem = run[x].stem
          BY <1>17, <4>1 DEF Excuses, Writes
        <5>2. x # p /\ Phase(x) \in Working
          BY <5>1 DEF PacksEmpty, Packs, Working
        <5> QED
          BY <1>17, <5>1, <5>2 DEF SurvInv, Apart, Working
      <4>2. Charged(raw)
        BY <2>2, <4>1 DEF Charged
      <4> QED
        BY <1>17, <3>3, <4>2, DebtsAre
    <3>5. d \notin T
      <4> SUFFICES ASSUME NEW f \in files', Charged(f)', d = FileDebt(NameOf(f))
                   PROVE  FALSE
        BY <3>3, DebtNames DEF Debts, FileDebt, RunDebt, NameOf
      <4>1. NameOf(f) = NameOf(raw)
        BY <3>3, DebtNames
      <4>2. f.stem = run[p].stem
        BY <1>17, <4>1, NameFacts
      <4>3. PacksEmpty(p)' /\ f.stem = run'[p].stem
        BY <1>2, <1>15, <2>2, <4>2 DEF PacksEmpty
      <4> QED
        BY <4>3 DEF Charged, Excuses
    <3>6. ASSUME NEW g \in T
          PROVE  g \in (Debts \ {d}) \cup {e}
      <4>1. g \in Debts'
        BY <3>3
      <4>2. \/ g \in Debts /\ g # RunDebt(p)
            \/ \E n \in names : g = FileDebt(n)
            \/ g = RunDebt(p) /\ Holds(p)'
        BY <1>12, <3>2, <4>1, DebtsGrow
      <4> QED
        BY <3>1, <3>3, <3>5, <4>2
    <3>7. IsFiniteSet(Debts) /\ Cardinality(Debts) <= crashes + restores
      BY DEF SurvInv, DebtsPaid
    <3>8. /\ IsFiniteSet(T) /\ Cardinality(T) <= Cardinality(Debts)
          /\ Cardinality(T) \in Nat /\ Cardinality(Debts) \in Nat
      BY <3>4, <3>6, <3>7, OneForAnother
    <3>9. crashes \in Nat /\ restores \in Nat /\ crashes' = crashes /\ restores' = restores
      BY DEF AloneInv, Ledger, IInv, Typed
    <3> QED
      BY <3>3, <3>7, <3>8, <3>9 DEF DebtsPaid
  <2> QED
    BY <1>17, <2>1, <2>2
<1>28. made # {}
  BY DEF SurvInv, Beginning
<1>29. Beginning'
  BY <1>28 DEF Beginning
<1>30. Surviving'
  <2>1. Room' => Room
    BY <1>13, RoomBefore
  <2>2. Late(p)
    BY DEF Late, Finishes
  <2> QED
    BY <1>24, <2>1, <2>2, SurvivingKept
<1> QED
  BY <1>9, <1>12, <1>13, <1>14, <1>16, <1>19, <1>21, <1>22, <1>24, <1>27, <1>29, <1>30, Survives

LEMMA OpenGzSurvives ==
    ASSUME IInv, IInv', AloneInv, AloneInv', SurvInv, NEW p \in Process, Copies!OpenGz(p)
    PROVE  SurvInv'
<1>1. /\ Phase(p) = "compress" /\ UNCHANGED <<begun, today, made, crashes, restores>>
  BY DEF Copies!OpenGz, Copies!At, Phase
<1>2. CASE Copies!Named(p, FALSE) = {}
  <2>1. Copies!Exit(p) /\ files' = files
    BY <1>2 DEF Copies!OpenGz
  <2> QED
    BY <1>1, <2>1, StopsSurvive DEF Packs
<1>3. CASE Copies!Named(p, FALSE) # {}
  <2>1. PICK raw : raw = CHOOSE f \in Copies!Named(p, FALSE) : TRUE
    OBVIOUS
  <2>2. raw \in Copies!Named(p, FALSE)
    BY <1>3, <2>1
  <2>3. /\ Copies!Put(p, TRUE, "open", 0)
        /\ run' = [run EXCEPT ![p] = [@ EXCEPT !.phase = "pack", !.content = raw.content,
                                               !.state = raw.state]]
    BY <1>3, <2>1 DEF Copies!OpenGz
  <2> QED
    BY <1>1, <2>2, <2>3, PackSurvives
<1> QED
  BY <1>2, <1>3

\* The compressed file is finished, or was removed meanwhile.
LEMMA CloseGzSurvives ==
    ASSUME IInv, IInv', AloneInv, AloneInv', SurvInv, NEW p \in Process, Copies!CloseGz(p)
    PROVE  SurvInv'
<1>1. /\ Phase(p) = "pack" /\ UNCHANGED <<begun, today, made, crashes, restores>>
      /\ Copies!Go(p, "discard")
      /\ IF Copies!Named(p, TRUE) = {} THEN files' = files
         ELSE Copies!Put(p, TRUE, run[p].content, run[p].state)
  BY DEF Copies!CloseGz, Copies!At, Phase
<1>2. run[p].victims = << >>
  BY <1>1 DEF SurvInv, Shaped
<1>3. /\ Aside(p) /\ Drops(p) /\ Phase(p)' = "discard" /\ run'[p].victims = << >>
      /\ run'[p].stem = run[p].stem /\ run'[p].content = run[p].content
      /\ (run[p].victims \in Seq(Targets(p)))'
  BY <1>1, <1>2, GoDrops
<1>4. /\ run[p].content \in {"whole", "empty"}
      /\ \A f \in files : f.stem = run[p].stem => f.day = today
      /\ \A f \in Files(p, FALSE) : f.content # "open"
      /\ \A f \in Files(p, FALSE) : f.content = "whole" =>
            /\ run[p].content = "whole"
            /\ \A g \in Files(p, TRUE) : f.order < g.order
      /\ \A g \in Files(p, TRUE) : g.content = "open"
  <2>1. Phase(p) \in Working /\ Phase(p) \in {"compress"} \cup Packs /\ Phase(p) \in Packs
    BY <1>1 DEF Working, Packs
  <2>2. OwnFiles(p)
    BY DEF SurvInv
  <2> QED
    BY <1>1, <2>1, <2>2 DEF OwnFiles
\* What is written, if anything.
<1>5. /\ \A f \in files' : \/ f \in files /\ (f.stem = run[p].stem => f.gz # TRUE)
                           \/ /\ f.stem = run[p].stem /\ f.gz = TRUE /\ f.content = run[p].content
                              /\ f.day = today /\ \A g \in files : g.order < f.order
                              /\ \E u \in files : NameOf(u) = NameOf(f) /\ Writes(p, u)
      /\ \A f \in files : f \in files' \/ (Writes(p, f) /\ There(NameOf(f))')
  <2>1. CASE Copies!Named(p, TRUE) = {}
    BY <1>1, <2>1 DEF Copies!Named
  <2>2. CASE Copies!Named(p, TRUE) # {}
    <3>1. PICK u \in Copies!Named(p, TRUE) : TRUE
      BY <2>2
    <3>2. u \in files /\ u.stem = run[p].stem /\ u.gz = TRUE
      BY <3>1 DEF Copies!Named
    <3>3. \A f \in Copies!Named(p, TRUE) : f = u
      BY <3>1, OnlyNamed
    <3>4. Copies!Put(p, TRUE, run[p].content, run[p].state)
      BY <1>1, <2>2
    <3>5. PICK new : /\ new.stem = run[p].stem /\ new.gz = TRUE /\ new.content = run[p].content
                     /\ new.day = today /\ \A g \in files : g.order < new.order
                     /\ files' = (files \ Copies!Named(p, TRUE)) \cup {new}
      BY <3>4, PutsGz
    <3>6. NameOf(u) = Called(p, TRUE) /\ NameOf(new) = Called(p, TRUE)
      BY <3>2, <3>5, GzName
    <3>7. Writes(p, u)
      <4>1. u \in Files(p, TRUE)
        BY <3>2 DEF Files
      <4>2. u.content = "open"
        BY <1>4, <4>1
      <4>3. NameOf(u) = Called(p, u.gz)
        BY <3>2, <3>6
      <4> QED
        BY <1>1, <3>2, <4>2, <4>3 DEF Writes
    <3>8. There(NameOf(u))'
      BY <3>5, <3>6 DEF There, NameOf
    <3>9. ASSUME NEW f \in files, f.stem = run[p].stem, f.gz = TRUE
          PROVE  f = u
      BY <3>3, <3>9 DEF Copies!Named
    <3>10. ASSUME NEW f \in files, f \notin files'
           PROVE  f = u
      BY <3>3, <3>5, <3>10
    <3>11. ASSUME NEW f \in files', f # new
           PROVE  f \in files /\ (f.stem = run[p].stem => f.gz # TRUE)
      BY <3>5, <3>11 DEF Copies!Named
    <3>12. \E w \in files : NameOf(w) = NameOf(new) /\ Writes(p, w)
      BY <3>2, <3>6, <3>7
    <3> QED
      BY <3>5, <3>7, <3>8, <3>10, <3>11, <3>12
  <2> QED
    BY <2>1, <2>2
<1>6. Wrote(p) /\ Removed(p)
  <2>1. Phase(p) \in Working
    BY <1>1 DEF Working, Packs
  <2> QED
    BY <1>4, <1>5, <2>1 DEF Wrote, Removed, NewFileOf
<1>7. Moves(p)
  BY <1>1, <1>3, <1>6, DropsLearns DEF Moves, Works, Working, Packs, IInv, Typed
<1>8. crashes <= crashes' /\ restores <= restores'
  BY <1>1 DEF AloneInv, Ledger, IInv, Typed
<1>9. Shaped(p)'
  BY <1>1, <1>3, DropsShaped
<1>10. /\ Phase(p)' \notin {"open", "copy", "compress", "pack", "restore"}
       /\ Phase(p) \in Packs /\ Phase(p)' \in Packs
  BY <1>1, <1>3 DEF Packs
<1>11. Unused(p)'
  BY <1>10 DEF Unused
<1>12. OwnFiles(p)'
  <2>1. \A f \in files' : f.stem = run[p].stem => f.day = today
    BY <1>4, <1>5
  <2>2. \A f \in Files(p, FALSE)' : f \in files /\ f \in Files(p, FALSE)
    BY <1>3, <1>5 DEF Files
  <2>3. \A g \in Files(p, TRUE)' : g.content = run[p].content /\ \A f \in files : f.order < g.order
    BY <1>3, <1>5 DEF Files
  <2> QED
    BY <1>1, <1>3, <1>4, <1>10, <2>1, <2>2, <2>3 DEF OwnFiles
<1>13. \A y \in Process : Together(p, y)'
  BY <1>3, <1>7, <1>10, TogetherKept
<1>14. \A f : ~Writes(p, f)'
  BY <1>10 DEF Writes
<1>15. GoodPasses
  BY <1>1, <1>3, <1>7, <1>10, AllGoodPass DEF Drops
<1>16. PacksEmpty(p)' <=> PacksEmpty(p)
  BY <1>3, <1>10 DEF PacksEmpty
<1>17. DebtsPaid'
  <2>1. ASSUME NEW f \in files', f.content # "whole", ~Excuses(p, f)'
        PROVE  f \in files /\ ~Excuses(p, f)
    <3>1. f.stem = run[p].stem => run[p].content # "empty"
      BY <1>3, <1>10, <2>1 DEF Excuses, PacksEmpty
    <3>2. f \in files /\ (f.stem = run[p].stem => f.gz # TRUE)
      <4>1. run[p].content \in {"whole", "empty"}
        BY <1>4
      <4>2. f.stem = run[p].stem => f.content # run[p].content
        BY <2>1, <3>1, <4>1
      <4> QED
        BY <1>5, <2>1, <4>2
    <3>3. ~Writes(p, f)
      <4> SUFFICES ASSUME Writes(p, f) PROVE FALSE
        OBVIOUS
      <4>1. NameOf(f) = Called(p, f.gz)
        BY DEF Writes
      <4>2. f.stem = run[p].stem
        BY <4>1, OwnNames
      <4>3. f.gz
        BY <1>1 DEF Writes
      <4>4. f.gz = TRUE
        BY <3>2, <4>3 DEF IInv, Typed
      <4> QED
        BY <3>2, <4>2, <4>4
    <3> QED
      BY <3>1, <3>2, <3>3 DEF Excuses, PacksEmpty
  <2>2. Holds(p)' => Holds(p)
    BY <1>10, <1>16 DEF Holds
  <2> QED
    BY <1>7, <1>8, <2>1, <2>2, DebtsStay
<1>18. made # {}
  BY <1>1 DEF SurvInv, Beginning
<1>19. Beginning'
  BY <1>1, <1>18 DEF Beginning
<1>20. Surviving'
  <2>1. Room' => Room
    BY <1>8, RoomBefore
  <2>2. Late(p)
    BY <1>1 DEF Late, Finishes
  <2> QED
    BY <1>1, <1>15, <2>1, <2>2, SurvivingKept
<1> QED
  BY <1>3, <1>7, <1>8, <1>9, <1>11, <1>12, <1>13, <1>14, <1>15, <1>17, <1>19, <1>20, Survives

\* An empty compressed file is owed when the run no longer answers for it.
LEMMA DiscardDebts ==
    ASSUME IInv, IInv', AloneInv, AloneInv', SurvInv, NEW p \in Process, Moves(p),
           Phase(p) = "discard", files' = files \ Copies!Named(p, FALSE),
           Phase(p)' \notin Packs \cup {"copy", "pack", "restore"},
           UNCHANGED <<crashes, restores>>
    PROVE  DebtsPaid'
<1>1. ~Holds(p)'
  BY DEF Holds, PacksEmpty
<1>2. crashes \in Nat /\ restores \in Nat /\ crashes <= crashes' /\ restores <= restores'
  BY DEF AloneInv, Ledger, IInv, Typed
<1>3. CASE ~PacksEmpty(p)
  <2>1. \A f : ~Excuses(p, f)
    BY <1>3 DEF Excuses, Writes
  <2> QED
    BY <1>1, <1>2, <2>1, DebtsStay
<1>4. CASE PacksEmpty(p)
  <2>1. PICK names, gz : names = {gz} /\ gz = Called(p, TRUE)
    OBVIOUS
  <2>2. ASSUME NEW f \in files', Excuses(p, f)
        PROVE  NameOf(f) \in names
    <3>1. f.stem = run[p].stem
      BY <2>2 DEF Excuses, Writes
    <3>2. f.gz # FALSE
      BY <3>1 DEF Copies!Named
    <3>3. f.gz = TRUE
      BY <3>2 DEF IInv, Typed
    <3> QED
      BY <2>1, <3>1, <3>3, GzName
  <2>3. \A f \in files' : \/ f.content = "whole" \/ Excuses(p, f)'
                          \/ f \in files /\ ~Excuses(p, f)
                          \/ NameOf(f) \in names
    BY <2>2
  <2>4. PICK T, d, e : T = Debts' /\ d = RunDebt(p) /\ e = FileDebt(gz)
    OBVIOUS
  <2>5. d \in Debts
    BY <1>4, <2>4, DebtsAre DEF Holds
  <2>6. ASSUME NEW g \in T
        PROVE  g \in (Debts \ {d}) \cup {e}
    <3>1. g \in Debts'
      BY <2>4
    <3>2. \/ g \in Debts /\ g # RunDebt(p)
          \/ \E n \in names : g = FileDebt(n)
          \/ g = RunDebt(p) /\ Holds(p)'
      BY <2>3, <3>1, DebtsGrow
    <3> QED
      BY <1>1, <2>1, <2>4, <3>2
  <2>7. IsFiniteSet(Debts) /\ Cardinality(Debts) <= crashes + restores
    BY DEF SurvInv, DebtsPaid
  <2>8. /\ IsFiniteSet(T) /\ Cardinality(T) <= Cardinality(Debts)
        /\ Cardinality(T) \in Nat /\ Cardinality(Debts) \in Nat
    BY <2>5, <2>6, <2>7, OneForAnother
  <2> QED
    BY <1>2, <2>4, <2>7, <2>8 DEF DebtsPaid
<1> QED
  BY <1>3, <1>4

\* The raw copy goes when the compressed file lasts.
LEMMA DiscardGood ==
    ASSUME IInv, AloneInv, SurvInv, NEW p \in Process, Moves(p), Drops(p),
           Phase(p) = "discard", files' = files \ Copies!Named(p, FALSE), Phase(p)' \notin Packs
    PROVE  GoodPasses
<1> SUFFICES ASSUME NEW g, Good(g)
             PROVE  \E h : /\ Good(h)' /\ g.order <= h.order
                           /\ Copies!Aged(h)' => Copies!Aged(g)
  BY DEF GoodPasses
<1>1. g \in files /\ g.order \in Nat /\ today' = today
  BY DEF Good, AloneInv, Ledger, Moves
<1>2. CASE NameOf(g) # Called(p, FALSE)
  <2>1. Good(g)'
    BY <1>2, GoodKept DEF Drops
  <2>2. Copies!Aged(g)' => Copies!Aged(g)
    BY <1>1 DEF Copies!Aged
  <2> QED
    BY <1>1, <2>1, <2>2
<1>3. CASE NameOf(g) = Called(p, FALSE)
  <2>1. g.stem = run[p].stem /\ g.gz = FALSE
    <3>1. PICK gz : gz = FALSE
      OBVIOUS
    <3>2. NameOf(g) = Called(p, gz)
      BY <1>3, <3>1
    <3>3. g.stem = run[p].stem /\ g.gz = gz
      BY <3>2, OwnNames
    <3> QED
      BY <3>1, <3>3
  <2>2. Phase(p) \in Packs /\ Phase(p) \in Working
    BY DEF Packs, Working
  <2>3. g \in Files(p, FALSE) /\ g.content = "whole"
    BY <1>1, <2>1 DEF Files, Good
  <2>4. ~GzLost(p)
    BY <2>1, <2>2 DEF Good, Widowed
  <2>5. There(Called(p, TRUE)) /\ ~Doomed(Called(p, TRUE))
    BY <2>4 DEF GzLost
  <2>6. PICK h \in Copies!Named(p, TRUE) : TRUE
    BY <2>5, ThereIsNamed
  <2>7. h \in files /\ h.stem = run[p].stem /\ h.gz = TRUE
    BY <2>6 DEF Copies!Named
  <2>8. h \in Files(p, TRUE) /\ NameOf(h) = Called(p, TRUE)
    BY <2>7, GzName DEF Files
  <2>9. h.content = "whole" /\ g.order < h.order /\ h.day = today
    BY <2>2, <2>3, <2>7, <2>8 DEF SurvInv, OwnFiles
  <2>10. h \in files'
    BY <2>7 DEF Copies!Named
  <2>11. ~Doomed(NameOf(h))'
    <3>1. PICK n : n = NameOf(h)
      OBVIOUS
    <3>2. ~Doomed(n)'
      BY <2>5, <2>8, <3>1, DoomedShrinks DEF Drops
    <3> QED
      BY <3>1, <3>2 DEF Doomed, DoomedBy, NameOf
  <2>12. ~Widowed(h)'
    BY <2>7 DEF Widowed
  <2>13. ~Copies!Aged(h)'
    <3>1. today \in Nat /\ RetentionDays \in Int
      BY CopiesAssumption DEF AloneInv, Ledger
    <3> QED
      BY <1>1, <2>9, <3>1 DEF Copies!Aged
  <2>14. h.order \in Nat
    BY <2>7 DEF AloneInv, Ledger
  <2>15. Good(h)'
    BY <2>9, <2>10, <2>11, <2>12 DEF Good
  <2>16. g.order <= h.order
    BY <1>1, <2>9, <2>14
  <2> QED
    BY <2>13, <2>15, <2>16
<1> QED
  BY <1>2, <1>3

LEMMA DiscardRawSurvives ==
    ASSUME IInv, IInv', AloneInv, AloneInv', SurvInv, NEW p \in Process, Copies!DiscardRaw(p)
    PROVE  SurvInv'
<1>1. /\ Phase(p) = "discard" /\ UNCHANGED <<begun, today, made, crashes, restores>>
      /\ files' = files \ Copies!Named(p, FALSE)
      /\ Copies!Exit(p) \/ Copies!Go(p, "size")
  BY DEF Copies!DiscardRaw, Copies!At, Phase
<1>2. run[p].victims = << >>
  BY <1>1 DEF SurvInv, Shaped
<1>3. /\ Aside(p) /\ Drops(p) /\ Phase(p)' \in {"idle", "size"} /\ run'[p].victims = << >>
      /\ (run[p].victims \in Seq(Targets(p)))'
  BY <1>1, <1>2, GoDrops, ExitDrops
<1>4. Wrote(p) /\ Removed(p)
  <2>1. ASSUME NEW f \in files, f \notin files'
        PROVE  NameOf(f) = Called(p, FALSE)
    <3>1. f.stem = run[p].stem /\ f.gz = FALSE
      BY <1>1, <2>1 DEF Copies!Named
    <3> QED
      BY <3>1, RawName
  <2> QED
    BY <1>1, <2>1 DEF Wrote, Removed
<1>5. Phase(p)' \notin Packs \cup {"copy", "pack", "restore", "prune"} \cup Working
  BY <1>3 DEF Packs, Working
<1>6. Moves(p)
  BY <1>1, <1>3, <1>4, <1>5, DropsLearns DEF Moves, Works, IInv, Typed
<1>7. crashes <= crashes' /\ restores <= restores'
  BY <1>1 DEF AloneInv, Ledger, IInv, Typed
<1>8. GoodPasses
  BY <1>1, <1>3, <1>5, <1>6, DiscardGood
<1>9. DebtsPaid'
  BY <1>1, <1>5, <1>6, DiscardDebts
<1>10. made # {} /\ Phase(p) \in Finishes
  BY <1>1 DEF SurvInv, Beginning, Finishes
<1> QED
  BY <1>1, <1>3, <1>4, <1>5, <1>7, <1>8, <1>9, <1>10, QuietSurvives

-----------------------------------------------------------------------------
(* The choice of what to remove, among files that are changing.            *)

LEMMA RankOrder ==
    ASSUME NEW fs, Ordered(fs), NEW f \in fs, NEW g \in fs, f.order < g.order
    PROVE  Rank(fs, g) < Rank(fs, f)
<1>1. /\ NoOlder(fs, g) \subseteq NoOlder(fs, f)
      /\ f \in NoOlder(fs, f) /\ f \notin NoOlder(fs, g)
  BY DEF NoOlder, Ordered
<1>2. IsFiniteSet(NoOlder(fs, f))
  BY FS_Subset DEF NoOlder, Ordered
<1>3. PICK S, T : S = NoOlder(fs, f) /\ T = NoOlder(fs, g)
  OBVIOUS
<1>4. /\ Cardinality(T) <= Cardinality(S) /\ Cardinality(T) \in Nat /\ Cardinality(S) \in Nat
  BY <1>1, <1>2, <1>3, SubsetCount
<1>5. Cardinality(S) # Cardinality(T)
  BY <1>1, <1>2, <1>3, FS_Subset
<1> QED
  BY <1>3, <1>4, <1>5 DEF Rank

\* Sorted by time, the newest first.
LEMMA SortedByTime ==
    ASSUME NEW fs, Ordered(fs), NEW sorted, sorted = Copies!NewestFirst(fs)
    PROVE  /\ \A i \in 1 .. Len(sorted) : Rank(fs, sorted[i]) = i
           /\ \A i, j \in 1 .. Len(sorted) : i < j => sorted[j].order < sorted[i].order
<1>1. Cardinality(fs) \in Nat /\ \A f \in fs : Copies!Cardinality({g \in fs : g.order >= f.order}) = Rank(fs, f)
  BY Ranks, CopiesCardinality DEF Rank, NoOlder
<1>2. sorted \in Seq(fs) /\ Len(sorted) = Cardinality(fs)
  BY Sorted
<1>3. ASSUME NEW i \in 1 .. Cardinality(fs)
      PROVE  sorted[i] \in fs /\ Rank(fs, sorted[i]) = i
  <2>1. sorted = [k \in 1 .. Cardinality(fs) |->
                    CHOOSE f \in fs : Copies!Cardinality({g \in fs : g.order >= f.order}) = k]
    BY CopiesCardinality DEF Copies!NewestFirst
  <2>2. \E f \in fs : Copies!Cardinality({g \in fs : g.order >= f.order}) = i
    BY <1>1, Ranks
  <2>3. /\ sorted[i] \in fs
        /\ Copies!Cardinality({g \in fs : g.order >= sorted[i].order}) = i
    BY <2>1, <2>2
  <2> QED
    BY <1>1, <2>3
<1>4. ASSUME NEW i \in 1 .. Len(sorted), NEW j \in 1 .. Len(sorted), i < j
      PROVE  sorted[j].order < sorted[i].order
  <2>1. PICK f, g : f = sorted[i] /\ g = sorted[j] /\ f \in fs /\ g \in fs
                    /\ Rank(fs, f) = i /\ Rank(fs, g) = j
    BY <1>2, <1>3
  <2>2. f.order \in Nat /\ g.order \in Nat /\ f.order # g.order
    BY <1>4, <2>1 DEF Ordered
  <2>3. ~(f.order < g.order)
    <3>1. i \in Int /\ j \in Int
      OBVIOUS
    <3> QED
      BY <1>4, <2>1, <3>1, RankOrder
  <2> QED
    BY <2>1, <2>2, <2>3
<1> QED
  BY <1>2, <1>3, <1>4

\* What a run removes of the files it has found: the older of two that are not too old
\* goes first, and as many as the count stay.
Chosen(chosen, found) ==
    /\ chosen \subseteq found
    /\ \A f \in found : \A v \in chosen :
          ~Copies!Aged(f) /\ ~Copies!Aged(v) /\ f.order < v.order => f \in chosen
    /\ (\E v \in chosen : ~Copies!Aged(v)) =>
          /\ RetentionCount > 0
          /\ \E K : /\ K \subseteq files /\ IsFiniteSet(K)
                    /\ RetentionCount <= Cardinality(K)
                    /\ \A k \in K : /\ ~Copies!Aged(k)
                                    /\ \A v \in chosen : Copies!Aged(v) \/ v.order < k.order

LEMMA PrunedFacts ==
    ASSUME Ledger, NEW found, found \subseteq files, NEW victims,
           victims = Copies!NewestFirst({f \in found : Copies!Aged(f)}) \o Copies!Surplus(found),
           NEW chosen, chosen = {victims[i] : i \in 1 .. Len(victims)}
    PROVE  victims \in Seq(chosen) /\ Chosen(chosen, found)
<1>1. Ordered(found)
  <2>1. IsFiniteSet(found)
    BY FS_Subset DEF Ledger
  <2> QED
    BY <2>1 DEF Ordered, Ledger
<1>2. RetentionDays \in Int /\ RetentionCount \in Int
  BY CopiesAssumption
<1>3. PICK old, kept : /\ old = {f \in found : Copies!Aged(f)}
                       /\ kept = {f \in found : ~Copies!Aged(f)}
  OBVIOUS
<1>4. kept \subseteq files /\ old \subseteq found /\ kept \subseteq found
  BY <1>3
<1>5. IsFiniteSet(kept) /\ IsFiniteSet(old)
  BY <1>1, <1>4, FS_Subset DEF Ordered
<1>6. Ordered(old) /\ Ordered(kept)
  BY <1>1, <1>4, <1>5 DEF Ordered
<1>7. PICK first : first = Copies!NewestFirst(old) /\ first \in Seq(old)
  BY <1>6, Sorted
<1>8. PICK second :
         /\ second = Copies!NewestFirst(kept)
         /\ second \in Seq(kept) /\ Len(second) \in Nat
         /\ \A f \in kept : \E i \in 1 .. Len(second) : second[i] = f
         /\ \A i \in 1 .. Len(second) : second[i] \in kept
         /\ \A i, j \in 1 .. Len(second) : second[i] = second[j] => i = j
         /\ \A i, j \in 1 .. Len(second) : i < j => second[j].order < second[i].order
  <2>1. PICK second : second = Copies!NewestFirst(kept)
    OBVIOUS
  <2>2. /\ second \in Seq(kept) /\ Len(second) \in Nat
        /\ \A f \in kept : \E i \in 1 .. Len(second) : second[i] = f
        /\ \A i, j \in 1 .. Len(second) : second[i] = second[j] => i = j
    BY <1>6, <2>1, Sorted
  <2>3. \A i, j \in 1 .. Len(second) : i < j => second[j].order < second[i].order
    BY <1>6, <2>1, SortedByTime
  <2>4. \A i \in 1 .. Len(second) : second[i] \in kept
    BY <2>2, ElementOfSeq
  <2> QED
    BY <2>1, <2>2, <2>3, <2>4
<1>9. PICK extra : /\ extra = Copies!Surplus(found)
                   /\ extra = IF RetentionCount > 0
                              THEN SubSeq(second, RetentionCount + 1, Len(second)) ELSE << >>
  BY <1>3, <1>8 DEF Copies!Surplus
<1>10. /\ extra \in Seq(kept)
       /\ Len(extra) = IF RetentionCount > 0 /\ Len(second) > RetentionCount
                       THEN Len(second) - RetentionCount ELSE 0
       /\ \A i \in 1 .. Len(extra) : /\ i + RetentionCount \in 2 .. Len(second)
                                     /\ extra[i] = second[i + RetentionCount]
  <2>1. CASE RetentionCount > 0 /\ Len(second) > RetentionCount
    <3>1. PICK m, n : m = RetentionCount + 1 /\ n = Len(second) /\ m \in Int /\ n \in Int
      BY <1>2, <1>8
    <3>2. \A i \in m .. n : second[i] \in kept
      BY <1>2, <1>8, <2>1, <3>1
    <3>3. extra = SubSeq(second, m, n)
      BY <1>9, <2>1, <3>1
    <3>4. /\ extra \in Seq(kept) /\ Len(extra) = (IF m <= n THEN n - m + 1 ELSE 0)
          /\ \A i \in 1 .. n - m + 1 : extra[i] = second[m + i - 1]
      BY <3>1, <3>2, <3>3, SubSeqProperties
    <3>5. ASSUME NEW i \in 1 .. Len(extra)
          PROVE  i + RetentionCount \in 2 .. Len(second) /\ extra[i] = second[i + RetentionCount]
      <4>1. m + i - 1 = i + RetentionCount /\ i \in 1 .. n - m + 1
        BY <1>2, <2>1, <3>1, <3>4
      <4> QED
        BY <1>2, <2>1, <3>1, <3>4, <4>1
    <3> QED
      BY <1>2, <2>1, <3>1, <3>4, <3>5
  <2>2. CASE ~(RetentionCount > 0 /\ Len(second) > RetentionCount)
    <3>1. extra = << >>
      BY <1>2, <1>8, <1>9, <2>2
    <3> QED
      BY <2>2, <3>1
  <2> QED
    BY <2>1, <2>2
<1>11. first \in Seq(found) /\ extra \in Seq(found)
  <2>1. old \subseteq found /\ kept \subseteq found
    BY <1>3
  <2> QED
    BY <1>7, <1>10, <2>1, SeqMonotonic
<1>12. Len(first) \in Nat /\ Len(extra) \in Nat /\ victims = first \o extra
  BY <1>3, <1>7, <1>9, <1>11, LenProperties
<1>13. /\ victims \in Seq(found)
       /\ Len(victims) = Len(first) + Len(extra)
       /\ \A i \in 1 .. Len(first) + Len(extra) :
             victims[i] = IF i <= Len(first) THEN first[i] ELSE extra[i - Len(first)]
  BY <1>11, <1>12, ConcatProperties
<1>14. ASSUME NEW v \in chosen
       PROVE  v \in old \/ \E i \in 1 .. Len(extra) : v = extra[i]
  <2>1. PICK i \in 1 .. Len(first) + Len(extra) : v = victims[i]
    BY <1>13
  <2>2. CASE i <= Len(first)
    <3>1. i \in 1 .. Len(first) /\ v = first[i]
      BY <1>12, <1>13, <2>1, <2>2
    <3> QED
      BY <1>7, <3>1, ElementOfSeq
  <2>3. CASE ~(i <= Len(first))
    <3>1. i - Len(first) \in 1 .. Len(extra) /\ v = extra[i - Len(first)]
      BY <1>12, <1>13, <2>1, <2>3
    <3> QED
      BY <3>1
  <2> QED
    BY <2>2, <2>3
<1>15. ASSUME NEW i \in 1 .. Len(extra)
       PROVE  extra[i] \in chosen
  <2>1. PICK k : k = i + Len(first)
    OBVIOUS
  <2>2. k \in 1 .. Len(first) + Len(extra) /\ ~(k <= Len(first)) /\ k - Len(first) = i
    BY <1>12, <2>1
  <2>3. victims[k] = extra[i] /\ k \in 1 .. Len(victims)
    BY <1>13, <2>2
  <2> QED
    BY <2>3
<1>16. victims \in Seq(chosen) /\ chosen \subseteq found
  <2>1. victims \in Seq(chosen)
    BY <1>13, SeqOfItsElements
  <2>2. \A i \in 1 .. Len(victims) : victims[i] \in found
    BY <1>13, ElementOfSeq
  <2> QED
    BY <2>1, <2>2
\* What is not too old comes from behind the count.
<1>17. ASSUME NEW v \in chosen, ~Copies!Aged(v)
       PROVE  /\ RetentionCount > 0 /\ Len(second) > RetentionCount
              /\ \E j \in 1 .. Len(second) : j > RetentionCount /\ v = second[j]
  <2>1. v \notin old
    BY <1>3, <1>17
  <2>2. PICK i \in 1 .. Len(extra) : v = extra[i]
    BY <1>14, <2>1
  <2>3. PICK j : j = i + RetentionCount /\ j \in 2 .. Len(second) /\ v = second[j]
    BY <1>10, <2>2
  <2> QED
    BY <1>2, <1>8, <1>10, <2>2, <2>3
<1>18. ASSUME NEW f \in found, NEW v \in chosen, ~Copies!Aged(f), ~Copies!Aged(v),
              f.order < v.order
       PROVE  f \in chosen
  <2>1. PICK j \in 1 .. Len(second) : j > RetentionCount /\ v = second[j]
    BY <1>17, <1>18
  <2>2. f \in kept
    BY <1>3, <1>18
  <2>3. PICK i \in 1 .. Len(second) : f = second[i]
    BY <1>8, <2>2
  <2>4. f.order \in Nat /\ v.order \in Nat
    BY <1>16 DEF Ledger
  <2>5. ~(i < j) /\ i # j
    BY <1>8, <1>18, <2>1, <2>3, <2>4
  <2>6. i > j
    BY <2>5
  <2>7. PICK n : n = i - RetentionCount
    OBVIOUS
  <2>8. n \in 1 .. Len(extra) /\ n + RetentionCount = i
    <3>1. Len(extra) = Len(second) - RetentionCount
      BY <1>10, <1>17, <1>18
    <3>2. i \in Int /\ j \in Int /\ i > RetentionCount /\ i <= Len(second)
      BY <1>2, <1>8, <2>1, <2>6
    <3> QED
      BY <1>2, <1>8, <2>7, <3>1, <3>2
  <2>9. f = extra[n]
    BY <1>10, <2>3, <2>8
  <2> QED
    BY <1>15, <2>8, <2>9
<1>19. ASSUME NEW w \in chosen, ~Copies!Aged(w)
       PROVE  /\ RetentionCount > 0
              /\ \E K : /\ K \subseteq files /\ IsFiniteSet(K)
                        /\ RetentionCount <= Cardinality(K)
                        /\ \A k \in K : /\ ~Copies!Aged(k)
                                        /\ \A v \in chosen : Copies!Aged(v) \/ v.order < k.order
  <2>1. RetentionCount > 0 /\ Len(second) > RetentionCount
    BY <1>17, <1>19
  <2>2. PICK m, K : m = RetentionCount /\ m \in Nat /\ m <= Len(second)
                    /\ K = {second[i] : i \in 1 .. m}
    <3>1. RetentionCount \in Nat /\ RetentionCount <= Len(second)
      BY <1>2, <1>8, <2>1
    <3> QED
      BY <3>1
  <2>3. \A i \in 1 .. m : i \in 1 .. Len(second) /\ second[i] \in kept
    <3>1. \A i \in 1 .. m : i \in 1 .. Len(second)
      <4>1. PICK n : n = Len(second) /\ n \in Nat /\ m <= n
        BY <1>8, <2>2
      <4> QED
        BY <2>2, <4>1
    <3> QED
      BY <1>8, <3>1
  <2>4. K \subseteq kept /\ IsFiniteSet(K)
    <3>1. K \subseteq kept
      BY <2>2, <2>3
    <3> QED
      BY <1>5, <3>1, FS_Subset
  <2>5. m <= Cardinality(K)
    <3>1. PICK f : f = [i \in 1 .. m |-> second[i]]
      OBVIOUS
    <3>2. f \in [1 .. m -> K] /\ \A i, j \in 1 .. m : f[i] = f[j] => i = j
      BY <1>8, <2>2, <2>3, <3>1
    <3>3. IsFiniteSet(1 .. m) /\ Cardinality(1 .. m) = m
      BY <2>2, FS_Interval
    <3>4. ~(Cardinality(K) < Cardinality(1 .. m))
      <4>1. PICK D : D = 1 .. m
        OBVIOUS
      <4>2. IsFiniteSet(D) /\ f \in [D -> K] /\ ~(\E x, y \in D : x # y /\ f[x] = f[y])
        BY <3>2, <3>3, <4>1
      <4>3. ~(Cardinality(K) < Cardinality(D))
        BY <2>4, <4>2, FS_PigeonHole
      <4> QED
        BY <4>1, <4>3
    <3>5. Cardinality(K) \in Nat
      BY <2>4, FS_CardinalityType
    <3> QED
      BY <2>2, <3>3, <3>4, <3>5
  <2>6. ASSUME NEW k \in K, NEW v \in chosen, ~Copies!Aged(v)
        PROVE  v.order < k.order
    <3>1. PICK i \in 1 .. m : k = second[i]
      BY <2>2
    <3>2. PICK j \in 1 .. Len(second) : j > RetentionCount /\ v = second[j]
      BY <1>17, <2>6
    <3>3. i < j
      BY <2>2, <3>2
    <3> QED
      BY <1>8, <2>3, <3>1, <3>2, <3>3
  <2>7. \A k \in K : ~Copies!Aged(k)
    BY <1>3, <2>4
  <2> QED
    BY <1>4, <2>1, <2>2, <2>4, <2>5, <2>6, <2>7
<1> QED
  BY <1>16, <1>18, <1>19 DEF Chosen

-----------------------------------------------------------------------------
(* How many files can be newer than what is removed, and of no use.        *)

LEMMA IntoFinite ==
    ASSUME NEW S, NEW T, IsFiniteSet(T), NEW f \in [S -> T],
           \A x, y \in S : f[x] = f[y] => x = y
    PROVE  /\ IsFiniteSet(S) /\ Cardinality(S) <= Cardinality(T)
           /\ Cardinality(S) \in Nat /\ Cardinality(T) \in Nat
<1>1. f \in Injection(S, T)
  BY DEF Injection, IsInjective
<1>2. IsFiniteSet(S) /\ Cardinality(S) <= Cardinality(T)
  BY <1>1, FS_Injection
<1> QED
  BY <1>2, FS_CardinalityType

LEMMA ManyFew ==
    ASSUME NEW S, IsFiniteSet(S), NEW m \in Nat, NEW B,
           \A q \in S : IsFiniteSet(B[q]) /\ Cardinality(B[q]) <= m,
           NEW U, \A u \in U : \E q \in S : u \in B[q]
    PROVE  IsFiniteSet(U) /\ Cardinality(U) <= Cardinality(S) * m /\ Cardinality(U) \in Nat
<1>1. PICK size : size = [q \in S |-> Cardinality(B[q])]
  OBVIOUS
<1>2. \A q \in S : size[q] \in Nat /\ size[q] <= m /\ ExistsBijection(1 .. size[q], B[q])
  BY <1>1, FS_CardinalityType
<1>3. PICK count : count = [q \in S |-> CHOOSE f : f \in Bijection(1 .. size[q], B[q])]
  OBVIOUS
<1>4. \A q \in S : count[q] \in Bijection(1 .. size[q], B[q])
  BY <1>2, <1>3 DEF ExistsBijection
<1>5. PICK pairs : pairs = S \X (1 .. m)
  OBVIOUS
<1>6. PICK place : place = [u \in U |-> CHOOSE x \in pairs : count[x[1]][x[2]] = u]
  OBVIOUS
<1>7. ASSUME NEW u \in U
      PROVE  place[u] \in pairs /\ count[place[u][1]][place[u][2]] = u
  <2>1. PICK q \in S : u \in B[q]
    OBVIOUS
  <2>2. PICK i \in 1 .. size[q] : count[q][i] = u
    BY <1>4, <2>1 DEF Bijection, Surjection
  <2>3. i \in 1 .. m
    <3>1. size[q] \in Nat /\ size[q] <= m
      BY <1>2
    <3> QED
      BY <2>2, <3>1
  <2>4. <<q, i>> \in pairs
    BY <1>5, <2>1, <2>3
  <2>5. \E y \in pairs : count[y[1]][y[2]] = u
    BY <2>2, <2>4
  <2> QED
    BY <1>6, <2>5
<1>8. place \in [U -> pairs]
  BY <1>6, <1>7
<1>9. \A u, v \in U : place[u] = place[v] => u = v
  BY <1>7
<1>10. IsFiniteSet(pairs) /\ Cardinality(pairs) = Cardinality(S) * m
  <2>1. IsFiniteSet(1 .. m) /\ Cardinality(1 .. m) = m
    BY FS_Interval
  <2> QED
    BY <1>5, <2>1, FS_Product
<1> QED
  BY <1>8, <1>9, <1>10, IntoFinite

\* What each other process may have spoiled: what it is to remove that was open when
\* it looked, or the file that it is writing.
Written(q) == IF Phase(q) \in Packs /\ There(Called(q, TRUE))
              THEN Called(q, TRUE) ELSE Called(q, FALSE)
Spoils(q)  == IF Phase(q) = "prune" THEN Marked(q) ELSE {Written(q)}

LEMMA SpoilsFew ==
    ASSUME SurvInv, NEW p \in Process, NEW q \in Process \ {p}
    PROVE  /\ Others \in Nat /\ Cardinality(Process \ {p}) = Others
           /\ IsFiniteSet(Process \ {p})
           /\ IsFiniteSet(Spoils(q)) /\ Cardinality(Spoils(q)) <= Others
<1>1. IsFiniteSet(Process)
  BY CopiesAssumption
<1>2. PICK rest : rest = Process \ {p}
  OBVIOUS
<1>3. /\ IsFiniteSet(rest) /\ Cardinality(rest) = Others /\ Cardinality(rest) \in Nat
      /\ Cardinality(rest) # 0
  <2>1. IsFiniteSet(rest) /\ Cardinality(rest) = Cardinality(Process) - 1
    BY <1>1, <1>2, FS_RemoveElement
  <2>2. Cardinality(rest) \in Nat /\ (Cardinality(rest) = 0 => rest = {})
    BY <2>1, FS_CardinalityType, FS_EmptySet
  <2>3. rest # {}
    BY <1>2
  <2> QED
    BY <2>1, <2>2, <2>3 DEF Others
<1>4. IsFiniteSet(Spoils(q)) /\ Cardinality(Spoils(q)) <= Others
  <2>1. CASE Phase(q) = "prune"
    <3>1. FewMarked(q)
      BY DEF SurvInv
    <3> QED
      BY <2>1, <3>1 DEF FewMarked, Spoils, Others
  <2>2. CASE Phase(q) # "prune"
    <3>1. Spoils(q) = {Written(q)}
      BY <2>2 DEF Spoils
    <3>2. PICK n : n = Written(q)
      OBVIOUS
    <3>3. IsFiniteSet({n}) /\ Cardinality({n}) = 1
      BY FS_Singleton
    <3> QED
      BY <1>3, <3>1, <3>2, <3>3
  <2> QED
    BY <2>1, <2>2
<1> QED
  BY <1>2, <1>3, <1>4

Owed(n) == \/ FileDebt(n) \in Debts
           \/ \E x \in Process : RunDebt(x) \in Debts /\ n = Called(x, FALSE)

\* A file that is not too old, and no good, while nothing that lasts is newer.
LEMMA EachSpoiled ==
    ASSUME IInv, AloneInv, SurvInv, Room, NEW p \in Process, Phase(p) = "stat",
           NEW k \in files, ~Copies!Aged(k), \A g : Lasting(g) => g.order < k.order
    PROVE  Owed(NameOf(k)) \/ \E q \in Process \ {p} : NameOf(k) \in Spoils(q)
<1>1. k.order \in Nat /\ k.gz \in BOOLEAN
  BY DEF AloneInv, Ledger, IInv, Typed
<1>2. ASSUME NEW x \in Process, Phase(x) \in Packs, k.stem = run[x].stem, k.gz
      PROVE  x \in Process \ {p} /\ NameOf(k) \in Spoils(x)
  <2>1. k.gz = TRUE
    BY <1>1, <1>2
  <2>2. NameOf(k) = Called(x, TRUE)
    BY <1>2, <2>1, GzName
  <2>3. There(Called(x, TRUE))
    BY <2>2 DEF There
  <2> QED
    BY <1>2, <2>2, <2>3 DEF Spoils, Written, Packs
<1>3. ASSUME k.content # "whole"
      PROVE  Owed(NameOf(k)) \/ \E q \in Process \ {p} : NameOf(k) \in Spoils(q)
  <2>1. CASE Charged(k)
    BY <2>1, DebtsAre DEF Owed
  <2>2. CASE ~Charged(k)
    <3>1. PICK x \in Process : Excuses(x, k)
      BY <1>3, <2>2 DEF Charged
    <3>2. k.stem = run[x].stem
      <4>1. CASE NameOf(k) = Called(x, k.gz)
        BY <4>1, OwnNames
      <4> QED
        BY <3>1, <4>1 DEF Excuses, Writes
    <3>3. CASE k.gz
      <4>1. Phase(x) \in Packs
        BY <3>1, <3>3 DEF Excuses, Writes, Packs, PacksEmpty
      <4> QED
        BY <1>2, <3>2, <3>3, <4>1
    <3>4. CASE ~k.gz
      <4>1. k.gz = FALSE
        BY <1>1, <3>4
      <4>2. NameOf(k) = Called(x, FALSE)
        BY <3>2, <4>1, RawName
      <4>3. CASE PacksEmpty(x)
        BY <4>2, <4>3, DebtsAre DEF Owed, Holds
      <4>4. CASE Writes(x, k)
        <5>1. Phase(x) = "copy"
          BY <3>4, <4>4 DEF Writes
        <5> QED
          BY <4>2, <5>1 DEF Spoils, Written, Packs
      <4> QED
        BY <3>1, <4>3, <4>4 DEF Excuses
    <3> QED
      BY <3>3, <3>4
  <2> QED
    BY <2>1, <2>2
<1>4. ASSUME k.content = "whole", Doomed(NameOf(k))
      PROVE  \E q \in Process \ {p} : NameOf(k) \in Spoils(q)
  <2>1. PICK q \in Process : DoomedBy(q, NameOf(k))
    BY <1>4 DEF Doomed
  <2>2. PICK v \in Targets(q) : NameOf(v) = NameOf(k)
    BY <2>1 DEF DoomedBy
  <2>3. Phase(q) = "prune" /\ q \in Process \ {p}
    BY <2>2, NoTargets
  <2>4. v # k
    <3> SUFFICES ASSUME v = k PROVE FALSE
      OBVIOUS
    <3>1. PICK g \in files : Lasting(g) /\ k.order < g.order
      BY <1>4, <2>2 DEF SurvInv, Newer
    <3>2. g.order \in Nat /\ g.order < k.order
      BY <3>1 DEF AloneInv, Ledger
    <3> QED
      BY <1>1, <3>1, <3>2
  <2>5. v.content = "open"
    BY <1>4, <2>2, <2>4 DEF SurvInv, Replaced
  <2>6. NameOf(v) \in Marked(q)
    BY <1>4, <2>2, <2>5 DEF Marked
  <2> QED
    BY <2>2, <2>3, <2>6 DEF Spoils
<1>5. ASSUME k.content = "whole", Widowed(k), ~Doomed(NameOf(k))
      PROVE  \E q \in Process \ {p} : NameOf(k) \in Spoils(q)
  <2>1. PICK x \in Process : Phase(x) \in Packs /\ run[x].stem = k.stem /\ GzLost(x)
    BY <1>5 DEF Widowed
  <2>2. k.gz = FALSE /\ x \in Process \ {p} /\ Phase(x) # "prune"
    BY <1>1, <1>5, <2>1 DEF Widowed, Packs
  <2>3. NameOf(k) = Called(x, FALSE)
    BY <2>1, <2>2, RawName
  <2>4. ~Doomed(Called(x, TRUE))
    <3> SUFFICES ASSUME NEW y \in Process, DoomedBy(y, Called(x, TRUE)) PROVE FALSE
      BY DEF Doomed
    <3>1. k \in Files(x, FALSE)
      BY <2>1, <2>2 DEF Files
    <3>2. DoomedBy(y, Called(x, FALSE))
      BY <1>5, <2>1, <3>1 DEF SurvInv, Together, RawSpent
    <3> QED
      BY <1>5, <2>3, <3>2 DEF Doomed
  <2>5. ~There(Called(x, TRUE))
    BY <2>1, <2>4 DEF GzLost
  <2> QED
    BY <2>2, <2>3, <2>5 DEF Spoils, Written
<1>6. k.content = "whole" => Doomed(NameOf(k)) \/ Widowed(k)
  <2>1. ~Lasting(k)
    BY <1>1
  <2> QED
    BY <2>1 DEF Lasting, Good
<1> QED
  BY <1>3, <1>4, <1>5, <1>6

\* There is no room for so many.
LEMMA TooMany ==
    ASSUME IInv, AloneInv, SurvInv, Room, RetentionCount > 0, NEW p \in Process, Phase(p) = "stat",
           NEW K, K \subseteq files, IsFiniteSet(K), RetentionCount <= Cardinality(K),
           \A k \in K : Owed(NameOf(k)) \/ \E q \in Process \ {p} : NameOf(k) \in Spoils(q)
    PROVE  FALSE
<1>1. PICK rest : rest = Process \ {p}
  OBVIOUS
<1>2. /\ IsFiniteSet(rest) /\ Others \in Nat /\ Cardinality(rest) = Others
      /\ crashes \in Nat /\ restores \in Nat /\ RetentionCount \in Int
  <2>1. IsFiniteSet(Process) /\ RetentionCount \in Int
    BY CopiesAssumption
  <2>2. IsFiniteSet(rest) /\ Cardinality(rest) = Others
    BY <1>1, <2>1, FS_RemoveElement DEF Others
  <2> QED
    BY <2>1, <2>2, FS_CardinalityType DEF AloneInv, Ledger, IInv, Typed
<1>3. PICK owing, spoiled : /\ owing = {k \in K : Owed(NameOf(k))}
                            /\ spoiled = {k \in K : \E q \in rest : NameOf(k) \in Spoils(q)}
  OBVIOUS
<1>4. /\ IsFiniteSet(owing) /\ Cardinality(owing) \in Nat
      /\ Cardinality(owing) <= crashes + restores
  <2>1. IsFiniteSet(Debts) /\ Cardinality(Debts) <= crashes + restores
    BY DEF SurvInv, DebtsPaid
  <2>2. PICK debt : debt = [k \in owing |->
                              IF FileDebt(NameOf(k)) \in Debts THEN FileDebt(NameOf(k))
                              ELSE RunDebt(CHOOSE x \in Process : RunDebt(x) \in Debts
                                                                  /\ NameOf(k) = Called(x, FALSE))]
    OBVIOUS
  <2>3. ASSUME NEW k \in owing
        PROVE  /\ debt[k] \in Debts
               /\ \/ debt[k] = FileDebt(NameOf(k))
                  \/ \E x \in Process : debt[k] = RunDebt(x) /\ NameOf(k) = Called(x, FALSE)
    <3>1. CASE FileDebt(NameOf(k)) \in Debts
      BY <2>2, <3>1
    <3>2. CASE FileDebt(NameOf(k)) \notin Debts
      <4>1. PICK y : y = CHOOSE x \in Process : RunDebt(x) \in Debts /\ NameOf(k) = Called(x, FALSE)
        OBVIOUS
      <4>2. \E x \in Process : RunDebt(x) \in Debts /\ NameOf(k) = Called(x, FALSE)
        BY <1>3, <3>2 DEF Owed
      <4>3. y \in Process /\ RunDebt(y) \in Debts /\ NameOf(k) = Called(y, FALSE)
        BY <4>1, <4>2
      <4>4. debt[k] = RunDebt(y)
        BY <2>2, <3>2, <4>1
      <4> QED
        BY <4>3, <4>4
    <3> QED
      BY <3>1, <3>2
  <2>4. debt \in [owing -> Debts]
    BY <2>2, <2>3
  <2>5. ASSUME NEW k \in owing, NEW j \in owing, debt[k] = debt[j]
        PROVE  k = j
    <3>1. NameOf(k) = NameOf(j)
      BY <2>3, <2>5, DebtNames
    <3>2. k \in files /\ j \in files
      BY <1>3
    <3> QED
      BY <3>1, <3>2, NameFacts DEF AloneInv, Ledger
  <2>6. /\ IsFiniteSet(owing) /\ Cardinality(owing) <= Cardinality(Debts)
        /\ Cardinality(owing) \in Nat /\ Cardinality(Debts) \in Nat
    BY <2>1, <2>4, <2>5, IntoFinite
  <2> QED
    BY <1>2, <2>1, <2>6
<1>5. PICK square : square = Others * Others
  OBVIOUS
<1>6. /\ IsFiniteSet(spoiled) /\ Cardinality(spoiled) \in Nat /\ square \in Nat
      /\ Cardinality(spoiled) <= square
  <2>1. PICK B, U : B = [q \in rest |-> Spoils(q)] /\ U = {NameOf(k) : k \in spoiled}
    OBVIOUS
  <2>2. \A q \in rest : IsFiniteSet(B[q]) /\ Cardinality(B[q]) <= Others
    BY <1>1, <2>1, SpoilsFew
  <2>3. \A u \in U : \E q \in rest : u \in B[q]
    BY <1>3, <2>1
  <2>4. IsFiniteSet(U) /\ Cardinality(U) <= square /\ Cardinality(U) \in Nat
    <3>1. PICK m : m = Others
      OBVIOUS
    <3>2. IsFiniteSet(U) /\ Cardinality(U) <= Cardinality(rest) * m /\ Cardinality(U) \in Nat
      BY <1>2, <2>2, <2>3, <3>1, ManyFew
    <3> QED
      BY <1>2, <1>5, <3>1, <3>2
  <2>5. PICK name : name = [k \in spoiled |-> NameOf(k)]
    OBVIOUS
  <2>6. name \in [spoiled -> U]
    BY <2>1, <2>5
  <2>7. \A k, j \in spoiled : name[k] = name[j] => k = j
    BY <1>3, <2>5, NameFacts DEF AloneInv, Ledger
  <2>8. /\ IsFiniteSet(spoiled) /\ Cardinality(spoiled) <= Cardinality(U)
        /\ Cardinality(spoiled) \in Nat
    BY <2>4, <2>6, <2>7, IntoFinite
  <2>9. square \in Nat
    <3>1. PICK m \in Nat : m = Others
      BY <1>2
    <3> QED
      BY <1>5, <3>1
  <2> QED
    BY <2>4, <2>8, <2>9
<1>7. Cardinality(K) <= Cardinality(owing) + Cardinality(spoiled) /\ Cardinality(K) \in Nat
  <2>1. K = owing \cup spoiled
    BY <1>1, <1>3
  <2>2. Cardinality(K) = Cardinality(owing) + Cardinality(spoiled) - Cardinality(owing \cap spoiled)
    BY <1>4, <1>6, <2>1, FS_Union
  <2>3. Cardinality(owing \cap spoiled) \in Nat
    <3>1. PICK both : both = owing \cap spoiled
      OBVIOUS
    <3>2. Cardinality(both) \in Nat
      BY <1>4, <3>1, SubsetCount
    <3> QED
      BY <3>1, <3>2
  <2> QED
    BY <1>4, <1>6, <2>2, <2>3, FS_CardinalityType
<1>8. RetentionCount > crashes + restores + square
  BY <1>2, <1>5 DEF Room
<1> QED
  BY <1>2, <1>4, <1>6, <1>7, <1>8

-----------------------------------------------------------------------------
(* What a run chooses to remove.                                            *)

Picks(p, found, chosen) ==
    /\ found = {f \in files : NameOf(f) \in run[p].listed}
    /\ Chosen(chosen, found)
    /\ Phase(p) = "stat" /\ Phase(p)' = "prune" /\ Targets(p)' = chosen
    /\ run'[p].victims \in Seq(chosen) /\ run'[p].listed = {}
    /\ \A q \in Process \ {p} : run'[q] = run[q]
    /\ UNCHANGED <<files, begun, today, made, crashes, restores>>

LEMMA StatPicks ==
    ASSUME IInv, AloneInv, NEW p \in Process, Copies!Stat(p), ~Copies!Exit(p)
    PROVE  \E found, chosen : Picks(p, found, chosen)
<1>1. PICK found : found = {f \in files : NameOf(f) \in run[p].listed}
  OBVIOUS
<1>2. PICK victims : victims = Copies!NewestFirst({f \in found : Copies!Aged(f)}) \o Copies!Surplus(found)
  OBVIOUS
<1>3. run' = [run EXCEPT ![p] = [@ EXCEPT !.phase = "prune", !.listed = {}, !.victims = victims]]
  BY <1>1, <1>2 DEF Copies!Stat, NameOf
<1>4. /\ Phase(p) = "stat" /\ Phase(p)' = "prune"
      /\ run'[p].victims = victims /\ run'[p].listed = {}
      /\ \A q \in Process \ {p} : run'[q] = run[q]
      /\ UNCHANGED <<files, begun, today, made, crashes, restores>>
  BY <1>3 DEF Copies!Stat, Copies!At, Phase, IInv, Typed, IsRun
<1>5. PICK chosen : chosen = {victims[i] : i \in 1 .. Len(victims)}
  OBVIOUS
<1>6. Targets(p)' = chosen
  BY <1>4, <1>5 DEF Targets
<1>7. Ledger /\ found \subseteq files
  BY <1>1 DEF AloneInv
<1>8. victims \in Seq(chosen) /\ Chosen(chosen, found)
  BY <1>2, <1>5, <1>7, PrunedFacts
<1>9. Picks(p, found, chosen)
  BY <1>1, <1>4, <1>6, <1>8 DEF Picks
<1> QED
  BY <1>9

LEMMA NotAged ==
    ASSUME AloneInv, NEW f, f.day = today
    PROVE  ~Copies!Aged(f)
<1>1. today \in Nat /\ RetentionDays \in Int
  BY CopiesAssumption DEF AloneInv, Ledger
<1> QED
  BY <1>1 DEF Copies!Aged

\* Two files of one name are one.
LEMMA SameFile ==
    ASSUME AloneInv, NEW f \in files, NEW g \in files, NameOf(f) = NameOf(g)
    PROVE  f = g
  BY NameFacts DEF AloneInv, Ledger

\* If it chooses one that is not too old, a backup that lasts is newer than all of those.
LEMMA SomeNewer ==
    ASSUME IInv, AloneInv, SurvInv, Room, NEW p \in Process, NEW found, NEW chosen,
           Picks(p, found, chosen), \E v \in chosen : ~Copies!Aged(v)
    PROVE  \E g \in files : Lasting(g) /\ \A v \in chosen : Copies!Aged(v) \/ v.order < g.order
<1> SUFFICES ASSUME \A g \in files : Lasting(g) =>
                       \E v \in chosen : ~Copies!Aged(v) /\ ~(v.order < g.order)
             PROVE  FALSE
  OBVIOUS
<1>1. PICK K : /\ K \subseteq files /\ IsFiniteSet(K)
               /\ RetentionCount <= Cardinality(K)
               /\ \A k \in K : /\ ~Copies!Aged(k)
                               /\ \A v \in chosen : Copies!Aged(v) \/ v.order < k.order
  BY DEF Picks, Chosen
<1>2. RetentionCount > 0 /\ Phase(p) = "stat" /\ chosen \subseteq files
  BY DEF Picks, Chosen
<1>3. ASSUME NEW k \in K, NEW g, Lasting(g)
      PROVE  g.order < k.order
  <2>1. g \in files
    BY <1>3 DEF Lasting, Good
  <2>2. PICK v \in chosen : ~Copies!Aged(v) /\ ~(v.order < g.order)
    BY <1>3, <2>1
  <2>3. v.order < k.order
    BY <1>1, <2>2
  <2>4. g.order \in Nat /\ v.order \in Nat /\ k.order \in Nat
    BY <1>1, <1>2, <2>1, <2>2 DEF AloneInv, Ledger
  <2> QED
    BY <2>2, <2>3, <2>4
<1>4. ASSUME NEW k \in K
      PROVE  Owed(NameOf(k)) \/ \E q \in Process \ {p} : NameOf(k) \in Spoils(q)
  <2>1. k \in files /\ ~Copies!Aged(k)
    BY <1>1
  <2>2. \A g : Lasting(g) => g.order < k.order
    BY <1>3
  <2> QED
    BY <1>2, <2>1, <2>2, EachSpoiled
<1> QED
  BY <1>1, <1>2, <1>4, TooMany

\* Such a backup still lasts after the choice.
LEMMA LastingStays ==
    ASSUME IInv, AloneInv, SurvInv, NEW p \in Process, NEW found, NEW chosen,
           Picks(p, found, chosen),
           NEW g, Lasting(g), \A v \in chosen : Copies!Aged(v) \/ v.order < g.order
    PROVE  Lasting(g)'
<1>1. /\ g \in files /\ g.content = "whole" /\ ~Doomed(NameOf(g)) /\ ~Widowed(g)
      /\ ~Copies!Aged(g) /\ g.order \in Nat
  BY DEF Lasting, Good, AloneInv, Ledger
<1>2. /\ files' = files /\ today' = today /\ chosen \subseteq files /\ Targets(p)' = chosen
      /\ Phase(p)' = "prune" /\ \A q \in Process \ {p} : run'[q] = run[q]
  BY DEF Picks, Chosen
<1>3. \A n : \A x \in Process \ {p} : DoomedBy(x, n)' <=> DoomedBy(x, n)
  BY <1>2 DEF DoomedBy, Targets, NameOf
<1>4. ASSUME NEW n, Doomed(n)', ~Doomed(n)
      PROVE  \E v \in chosen : NameOf(v) = n
  <2>1. PICK x \in Process : DoomedBy(x, n)'
    BY <1>4 DEF Doomed
  <2>2. x = p
    BY <1>3, <1>4, <2>1 DEF Doomed
  <2> QED
    BY <1>2, <2>1, <2>2 DEF DoomedBy, NameOf
<1>5. ~Doomed(NameOf(g))'
  <2>1. PICK n : n = NameOf(g)
    OBVIOUS
  <2>2. ~Doomed(n)'
    <3> SUFFICES ASSUME Doomed(n)' PROVE FALSE
      OBVIOUS
    <3>1. PICK v \in chosen : NameOf(v) = n
      BY <1>1, <1>4, <2>1
    <3>2. v = g
      BY <1>1, <1>2, <2>1, <3>1, SameFile
    <3> QED
      BY <1>1, <3>1, <3>2
  <2> QED
    BY <2>1, <2>2 DEF Doomed, DoomedBy, NameOf
<1>6. ASSUME ~g.gz, NEW x \in Process, Phase(x)' \in Packs, run'[x].stem = g.stem, GzLost(x)'
      PROVE  FALSE
  <2>1. x # p
    BY <1>2, <1>6 DEF Packs
  <2>2. Phase(x) \in Packs /\ run[x].stem = g.stem /\ run'[x].stem = run[x].stem
    BY <1>2, <1>6, <2>1 DEF Phase
  <2>3. PICK n : n = Called(x, TRUE) /\ n = Called(x, TRUE)'
    BY <2>2 DEF Called
  <2>4. GzLost(x)' <=> ~There(n)' \/ Doomed(n)'
    BY <2>3 DEF GzLost, There, Doomed, DoomedBy, NameOf
  <2>5. There(n)' <=> There(n)
    BY <1>2 DEF There, NameOf
  <2>6. There(n) /\ ~Doomed(n)
    BY <1>1, <1>6, <2>2, <2>3 DEF Widowed, GzLost
  <2>7. PICK v \in chosen : NameOf(v) = n
    BY <1>4, <1>6, <2>4, <2>5, <2>6
  <2>8. v \in files /\ v.stem = run[x].stem /\ v.gz = TRUE
    <3>1. NameOf(v) = Called(x, TRUE)
      BY <2>3, <2>7
    <3>2. PICK gz : gz = TRUE
      OBVIOUS
    <3>3. NameOf(v) = Called(x, gz)
      BY <3>1, <3>2
    <3>4. v.stem = run[x].stem /\ v.gz = gz
      BY <3>3, OwnNames
    <3> QED
      BY <1>2, <3>2, <3>4
  <2>9. g.gz = FALSE
    BY <1>1, <1>6 DEF IInv, Typed
  <2>10. v \in Files(x, TRUE) /\ g \in Files(x, FALSE)
    BY <1>1, <2>2, <2>8, <2>9 DEF Files
  <2>11. g.order < v.order /\ v.day = today
    BY <1>1, <2>2, <2>8, <2>10 DEF SurvInv, OwnFiles, Working
  <2>12. v.order \in Nat
    BY <2>8 DEF AloneInv, Ledger
  <2>13. ~Copies!Aged(v)
    BY <2>11, NotAged
  <2>14. v.order < g.order
    BY <2>7, <2>13
  <2> QED
    BY <1>1, <2>11, <2>12, <2>14
<1>7. ~Widowed(g)'
  BY <1>6 DEF Widowed
<1>8. ~Copies!Aged(g)'
  BY <1>1, <1>2 DEF Copies!Aged
<1> QED
  BY <1>1, <1>2, <1>5, <1>7, <1>8 DEF Lasting, Good

LEMMA LastingPasses ==
    ASSUME IInv, AloneInv, SurvInv, Room, NEW p \in Process, NEW found, NEW chosen,
           Picks(p, found, chosen), NEW g, Lasting(g)
    PROVE  \E h \in files : Lasting(h)' /\ g.order <= h.order
<1>1. g \in files /\ g.order \in Nat /\ chosen \subseteq files
  BY DEF Lasting, Good, AloneInv, Ledger, Picks, Chosen
<1>2. CASE \A v \in chosen : Copies!Aged(v) \/ v.order < g.order
  <2>1. Lasting(g)'
    BY <1>2, LastingStays
  <2> QED
    BY <1>1, <2>1
<1>3. CASE \E v \in chosen : ~(Copies!Aged(v) \/ v.order < g.order)
  <2>1. PICK v \in chosen : ~Copies!Aged(v) /\ ~(v.order < g.order)
    BY <1>3
  <2>2. PICK h \in files : Lasting(h) /\ \A w \in chosen : Copies!Aged(w) \/ w.order < h.order
    BY <2>1, SomeNewer
  <2>3. Lasting(h)'
    BY <2>2, LastingStays
  <2>4. v.order \in Nat /\ h.order \in Nat /\ v.order < h.order
    BY <1>1, <2>1, <2>2 DEF AloneInv, Ledger
  <2>5. g.order <= h.order
    BY <1>1, <2>1, <2>4
  <2> QED
    BY <2>2, <2>3, <2>5
<1> QED
  BY <1>2, <1>3

\* The file that a run is writing, if it writes one.
WritesTo(q) == IF Phase(q) = "pack" THEN Called(q, TRUE) ELSE Called(q, FALSE)

LEMMA WritesItsFile ==
    ASSUME NEW q \in Process, NEW f, f.gz \in BOOLEAN, Writes(q, f)
    PROVE  NameOf(f) = WritesTo(q)
<1>1. f.stem = run[q].stem
  <2>1. NameOf(f) = Called(q, f.gz)
    BY DEF Writes
  <2> QED
    BY <2>1, OwnNames
<1>2. CASE f.gz
  <2>1. f.gz = TRUE
    BY <1>2
  <2>2. NameOf(f) = Called(q, TRUE)
    BY <1>1, <2>1, GzName
  <2> QED
    BY <1>2, <2>2 DEF Writes, WritesTo
<1>3. CASE ~f.gz
  <2>1. f.gz = FALSE
    BY <1>3
  <2>2. NameOf(f) = Called(q, FALSE)
    BY <1>1, <2>1, RawName
  <2>3. Phase(q) = "copy"
    BY <1>3 DEF Writes
  <2> QED
    BY <2>2, <2>3 DEF WritesTo
<1> QED
  BY <1>2, <1>3

\* It takes for old at most what each other run is writing.
LEMMA PicksFewMarked ==
    ASSUME IInv, AloneInv, AloneInv', SurvInv, NEW p \in Process, NEW found, NEW chosen,
           Picks(p, found, chosen)
    PROVE  FewMarked(p)'
<1>1. /\ Phase(p)' = "prune" /\ Targets(p)' = chosen /\ chosen \subseteq files /\ files' = files
      /\ \A q \in Process \ {p} : run'[q] = run[q]
  BY DEF Picks, Chosen
<1>2. PICK U, rest, B : U = Marked(p)' /\ rest = Process \ {p} /\ B = [q \in rest |-> {WritesTo(q)}]
  OBVIOUS
<1>3. IsFiniteSet(rest) /\ Cardinality(rest) = Cardinality(Process) - 1
  BY <1>2, CopiesAssumption, FS_RemoveElement
<1>4. ASSUME NEW u \in U
      PROVE  \E q \in rest : u \in B[q]
  <2>1. PICK w \in chosen : /\ u = NameOf(w) /\ w.content = "open"
                            /\ \/ \E f \in files : NameOf(f) = NameOf(w) /\ f.content = "whole"
                               \/ \E y \in Process : Writes(y, w)'
    BY <1>1, <1>2 DEF Marked, NameOf
  <2>2. w \in files /\ w.gz \in BOOLEAN
    BY <1>1 DEF IInv, Typed
  <2>3. PICK y \in Process : Writes(y, w)'
    BY <2>1, <2>2, SameFile
  <2>4. y # p
    BY <1>1, <2>3 DEF Writes
  <2>5. Writes(y, w)
    BY <1>1, <2>3, <2>4 DEF Writes, NameOf, Called, Phase
  <2>6. u = WritesTo(y)
    BY <2>1, <2>2, <2>5, WritesItsFile
  <2> QED
    BY <1>2, <2>4, <2>6
<1>5. \A q \in rest : IsFiniteSet(B[q]) /\ Cardinality(B[q]) <= 1
  <2> SUFFICES ASSUME NEW q \in rest
               PROVE  IsFiniteSet(B[q]) /\ Cardinality(B[q]) <= 1
    OBVIOUS
  <2>1. PICK n : n = WritesTo(q) /\ B[q] = {n}
    BY <1>2
  <2>2. IsFiniteSet({n}) /\ Cardinality({n}) = 1
    BY FS_Singleton
  <2> QED
    BY <2>1, <2>2
<1>6. IsFiniteSet(U) /\ Cardinality(U) <= Cardinality(rest)
  <2>1. PICK m \in Nat : m = 1
    OBVIOUS
  <2>2. IsFiniteSet(U) /\ Cardinality(U) <= Cardinality(rest) * m
    BY <1>3, <1>4, <1>5, <2>1, ManyFew
  <2>3. Cardinality(rest) \in Nat
    BY <1>3, FS_CardinalityType
  <2> QED
    BY <2>1, <2>2, <2>3
<1> QED
  BY <1>2, <1>3, <1>6 DEF FewMarked

\* It chooses a raw copy with the compressed one of the same backup.
LEMMA PicksTogether ==
    ASSUME IInv, AloneInv, SurvInv, NEW p \in Process, NEW found, NEW chosen,
           Picks(p, found, chosen), NEW x \in Process, NEW y \in Process
    PROVE  Together(x, y)'
<1>1. /\ Phase(p)' = "prune" /\ Targets(p)' = chosen /\ chosen \subseteq files
      /\ files' = files /\ today' = today /\ run'[p].listed = {}
      /\ found = {f \in files : NameOf(f) \in run[p].listed} /\ chosen \subseteq found
      /\ \A q \in Process \ {p} : run'[q] = run[q]
  BY DEF Picks, Chosen
<1> SUFFICES ASSUME Phase(x)' \in Packs
             PROVE  Together(x, y)'
  BY DEF Together
<1>2. x # p
  BY <1>1 DEF Packs
<1>3. /\ Phase(x) \in Packs /\ run'[x].stem = run[x].stem
      /\ \A gz : Called(x, gz)' = Called(x, gz)
      /\ RawSpent(x)' <=> RawSpent(x)
  BY <1>1, <1>2 DEF Phase, Called, RawSpent, Files
<1>4. PICK raw, gz : raw = Called(x, FALSE) /\ gz = Called(x, TRUE)
  OBVIOUS
<1>5. /\ DoomedBy(y, gz) => DoomedBy(y, raw) \/ RawSpent(x)
      /\ gz \in run[y].listed => raw \in run[y].listed \/ RawSpent(x)
      /\ gz \in run[p].listed => raw \in run[p].listed \/ RawSpent(x)
  BY <1>3, <1>4 DEF SurvInv, Together
<1>6. gz \in run'[y].listed => raw \in run'[y].listed \/ RawSpent(x)
  BY <1>1, <1>5
<1>7. ASSUME DoomedBy(y, gz)', ~RawSpent(x)
      PROVE  DoomedBy(y, raw)'
  <2>1. CASE y # p
    BY <1>1, <1>5, <1>7, <2>1 DEF DoomedBy, Targets, NameOf
  <2>2. CASE y = p
    <3>1. PICK v \in chosen : NameOf(v) = gz
      BY <1>1, <1>7, <2>2 DEF DoomedBy, NameOf
    <3>2. raw \in run[p].listed
      BY <1>1, <1>5, <1>7, <3>1
    <3>3. PICK f \in Files(x, FALSE) : f.content = "whole"
      BY <1>7 DEF RawSpent
    <3>4. f \in files /\ f.stem = run[x].stem /\ f.gz = FALSE
      BY DEF Files
    <3>5. NameOf(f) = raw
      BY <1>4, <3>4, RawName
    <3>6. v \in files /\ v.stem = run[x].stem /\ v.gz = TRUE
      <4>1. PICK yes : yes = TRUE
        OBVIOUS
      <4>2. NameOf(v) = Called(x, yes)
        BY <1>4, <3>1, <4>1
      <4>3. v.stem = run[x].stem /\ v.gz = yes
        BY <4>2, OwnNames
      <4> QED
        BY <1>1, <4>1, <4>3
    <3>7. v \in Files(x, TRUE)
      BY <3>6 DEF Files
    <3>8. f.day = today /\ v.day = today /\ f.order < v.order
      BY <1>3, <3>3, <3>4, <3>6, <3>7 DEF SurvInv, OwnFiles, Working
    <3>9. ~Copies!Aged(f) /\ ~Copies!Aged(v) /\ f \in found
      BY <1>1, <3>2, <3>4, <3>5, <3>8, NotAged
    <3>10. f \in chosen
      BY <3>8, <3>9 DEF Picks, Chosen
    <3> QED
      BY <1>1, <2>2, <3>5, <3>10 DEF DoomedBy, NameOf
  <2> QED
    BY <2>1, <2>2
<1>8. DoomedBy(y, Called(x, TRUE))' <=> DoomedBy(y, gz)'
  BY <1>3, <1>4 DEF DoomedBy, NameOf
<1>9. DoomedBy(y, Called(x, FALSE))' <=> DoomedBy(y, raw)'
  BY <1>3, <1>4 DEF DoomedBy, NameOf
<1> QED
  BY <1>3, <1>4, <1>6, <1>7, <1>8, <1>9 DEF Together

\* What stays is newer than what is to be removed.
LEMMA PicksOlder ==
    ASSUME IInv, AloneInv, AloneInv', SurvInv, Room' => Room, NEW p \in Process,
           NEW found, NEW chosen, Picks(p, found, chosen)
    PROVE  Surviving' /\ \A x \in Process : Newer(x)'
<1>1. /\ Phase(p) = "stat" /\ Targets(p)' = chosen /\ chosen \subseteq files
      /\ files' = files /\ today' = today /\ made' = made
      /\ \A q \in Process \ {p} : run'[q] = run[q]
  BY DEF Picks, Chosen
<1>2. \A f : Copies!Aged(f)' <=> Copies!Aged(f)
  BY <1>1 DEF Copies!Aged
<1>3. \A f : Lasting(f)' => Good(f)' /\ f \in files'
  BY DEF Lasting, Good
<1>4. Surviving'
  <2> SUFFICES ASSUME Room
               PROVE  \E f \in files' : Lasting(f)'
    BY <1>3 DEF Surviving
  <2>1. made # {} /\ Late(p)
    BY <1>1 DEF SurvInv, Beginning, Late, Finishes
  <2>2. PICK g \in files : Lasting(g)
    BY <2>1 DEF SurvInv, Surviving
  <2>3. \E h \in files : Lasting(h)' /\ g.order <= h.order
    BY <2>2, LastingPasses
  <2> QED
    BY <1>1, <2>3
<1>5. ASSUME NEW x \in Process
      PROVE  Newer(x)'
  <2> SUFFICES ASSUME Room, NEW v \in Targets(x)', v \in files, v.content = "whole", ~Copies!Aged(v)
               PROVE  \E h \in files : Lasting(h)' /\ v.order < h.order
    BY <1>1, <1>2 DEF Newer
  <2>1. CASE x = p
    <3>1. v \in chosen
      BY <1>1, <2>1
    <3>2. PICK g \in files : Lasting(g) /\ \A w \in chosen : Copies!Aged(w) \/ w.order < g.order
      BY <3>1, SomeNewer
    <3>3. Lasting(g)'
      BY <3>2, LastingStays
    <3> QED
      BY <3>1, <3>2, <3>3
  <2>2. CASE x # p
    <3>1. v \in Targets(x)
      BY <1>1, <2>2 DEF Targets
    <3>2. PICK g \in files : Lasting(g) /\ v.order < g.order
      BY <3>1 DEF SurvInv, Newer
    <3>3. PICK h \in files : Lasting(h)' /\ g.order <= h.order
      BY <3>2, LastingPasses
    <3>4. v.order \in Nat /\ g.order \in Nat /\ h.order \in Nat
      BY DEF AloneInv, Ledger
    <3> QED
      BY <3>2, <3>3, <3>4
  <2> QED
    BY <2>1, <2>2
<1> QED
  BY <1>4, <1>5

LEMMA StatSurvives ==
    ASSUME IInv, IInv', AloneInv, AloneInv', SurvInv, NEW p \in Process, Copies!Stat(p)
    PROVE  SurvInv'
<1>1. Phase(p) = "stat" /\ UNCHANGED <<files, begun, today, made, crashes, restores>>
  BY DEF Copies!Stat, Copies!At, Phase
<1>2. Phase(p) \notin {"copy"} \cup Packs
  BY <1>1 DEF Packs
<1>3. CASE Copies!Exit(p)
  BY <1>1, <1>2, <1>3, StopsSurvive
<1>4. CASE ~Copies!Exit(p)
  <2>1. PICK found, chosen : Picks(p, found, chosen)
    BY <1>4, StatPicks
  <2>2. /\ Phase(p)' = "prune" /\ Targets(p)' = chosen /\ chosen \subseteq files
        /\ run'[p].victims \in Seq(chosen) /\ run'[p].listed = {}
        /\ \A q \in Process \ {p} : run'[q] = run[q]
    BY <2>1 DEF Picks, Chosen
  <2>3. Aside(p) /\ Wrote(p) /\ Removed(p)
    BY <1>1, <2>2 DEF Aside, Wrote, Removed
  <2>4. Learns(p)
    <3>1. \A n : DoomedBy(p, n)' => There(n)
      BY <2>2 DEF DoomedBy, There, NameOf
    <3> QED
      BY <2>2, <3>1 DEF Learns, Known
  <2>5. Moves(p)
    BY <1>1, <2>2, <2>3, <2>4 DEF Moves, Works, Working, Packs, IInv, Typed
  <2>6. crashes <= crashes' /\ restores <= restores'
    BY <1>1 DEF AloneInv, Ledger, IInv, Typed
  <2>7. Room' => Room
    BY <2>6, RoomBefore
  <2>8. Shaped(p)'
    <3>1. \A v \in chosen : v.stem \in Nat /\ v.stem <= begun
      BY <2>2 DEF IInv, Typed, AloneInv, Ledger
    <3> QED
      BY <1>1, <2>2, <3>1 DEF Shaped
  <2>9. Unused(p)' /\ Apart(p)' /\ OwnFiles(p)' /\ \A f : ~Writes(p, f)'
    BY <2>2 DEF Unused, Apart, OwnFiles, Writes, Working, Packs
  <2>10. ASSUME NEW x \in Process
         PROVE  Shaped(x)' /\ Unused(x)' /\ Apart(x)' /\ OwnFiles(x)'
    BY <2>5, <2>8, <2>9, OthersNames, OthersFiles
  <2>11. Replaced(p)'
    <3>1. \A v \in chosen : \A f \in files : NameOf(f) = NameOf(v) => f = v
      BY <2>2, SameFile
    <3> QED
      BY <1>1, <2>2, <3>1 DEF Replaced, NameOf
  <2>12. ASSUME NEW x \in Process
         PROVE  Replaced(x)' /\ FewMarked(x)'
    <3>1. CASE x = p
      BY <2>1, <2>11, <3>1, PicksFewMarked
    <3>2. CASE x # p
      <4>1. Targets(x)' \subseteq Targets(x)
        BY <2>3, <3>2, SameTargets
      <4> QED
        BY <2>5, <2>9, <4>1, ReplacedKept, FewMarkedKept
    <3> QED
      BY <3>1, <3>2
  <2>13. \A x, y \in Process : Together(x, y)'
    BY <2>1, PicksTogether
  <2>14. Surviving' /\ \A x \in Process : Newer(x)'
    BY <2>1, <2>7, PicksOlder
  <2>15. DebtsPaid'
    BY <1>1, <1>2, <2>2, <2>5, <2>6, IdleDebts DEF Packs
  <2>16. Beginning'
    BY <1>1 DEF SurvInv, Beginning
  <2> QED
    BY <2>10, <2>12, <2>13, <2>14, <2>15, <2>16 DEF SurvInv
<1> QED
  BY <1>3, <1>4

-----------------------------------------------------------------------------
(* The day ends, or nothing happens; the start.                             *)

\* What the invariant says but for the age of files.
LEMMA SameRuns ==
    ASSUME SurvInv, UNCHANGED <<files, run, made, begun, crashes, restores>>
    PROVE  /\ \A x \in Process : /\ Shaped(x)' /\ Unused(x)' /\ Apart(x)' /\ Replaced(x)'
                                 /\ FewMarked(x)'
                                 /\ \A y \in Process : Together(x, y)'
           /\ DebtsPaid' /\ Beginning'
           /\ \A f : Good(f)' <=> Good(f)
<1>1. ASSUME NEW x \in Process
      PROVE  /\ Phase(x)' = Phase(x) /\ \A gz : Called(x, gz)' = Called(x, gz)
             /\ \A n : DoomedBy(x, n)' <=> DoomedBy(x, n)
             /\ run'[x].listed = run[x].listed
             /\ RawSpent(x)' <=> RawSpent(x)
  BY DEF Phase, Called, DoomedBy, Targets, NameOf, RawSpent, Files
<1>2. ASSUME NEW x \in Process
      PROVE  Shaped(x)' /\ Unused(x)' /\ Apart(x)' /\ Replaced(x)'
  <2>1. Shaped(x)'
    BY DEF SurvInv, Shaped, Phase, Targets
  <2>2. Unused(x)' /\ Apart(x)'
    <3>1. ASSUME NEW n
          PROVE  Known(n)' <=> Known(n)
      <4>1. There(n)' <=> There(n)
        BY DEF There, NameOf
      <4> QED
        BY <1>1, <4>1 DEF Known
    <3>2. PICK raw, gz : raw = Called(x, FALSE) /\ gz = Called(x, TRUE)
      OBVIOUS
    <3>3. raw = Called(x, FALSE)' /\ gz = Called(x, TRUE)'
      BY <1>1, <3>2
    <3>4. (Known(raw)' <=> Known(raw)) /\ (Known(gz)' <=> Known(gz))
      BY <3>1
    <3>5. /\ Known(Called(x, FALSE))' <=> Known(raw)'
          /\ Known(Called(x, TRUE))' <=> Known(gz)'
      BY <3>3 DEF Known, There, DoomedBy, NameOf
    <3> QED
      BY <1>1, <3>2, <3>4, <3>5 DEF SurvInv, Unused, Apart
  <2>3. Replaced(x)'
    BY DEF SurvInv, Replaced, Targets, NameOf
  <2> QED
    BY <2>1, <2>2, <2>3
<1>3. ASSUME NEW x \in Process
      PROVE  FewMarked(x)'
  <2>1. Marked(x)' = Marked(x)
    BY DEF Marked, Targets, NameOf, Writes, Phase, Called
  <2> QED
    BY <2>1 DEF SurvInv, FewMarked
<1>4. ASSUME NEW x \in Process, NEW y \in Process
      PROVE  Together(x, y)'
  <2>1. PICK raw, gz : raw = Called(x, FALSE) /\ gz = Called(x, TRUE)
    OBVIOUS
  <2>2. raw = Called(x, FALSE)' /\ gz = Called(x, TRUE)'
    BY <1>1, <2>1
  <2>3. /\ DoomedBy(y, Called(x, FALSE))' <=> DoomedBy(y, raw)
        /\ DoomedBy(y, Called(x, TRUE))' <=> DoomedBy(y, gz)
    BY <2>2 DEF DoomedBy, Targets, NameOf
  <2> QED
    BY <1>1, <2>1, <2>2, <2>3 DEF SurvInv, Together
<1>5. DebtsPaid'
  <2>1. Debts' = Debts
    BY DEF Debts, Charged, Holds, Excuses, PacksEmpty, Writes, NameOf, Called, Phase
  <2> QED
    BY <2>1 DEF SurvInv, DebtsPaid
<1>6. Beginning'
  BY DEF SurvInv, Beginning, Phase, Writes, There, NameOf, Called
<1>7. \A f : Good(f)' <=> Good(f)
  BY DEF Good, Doomed, DoomedBy, Targets, NameOf, Widowed, Phase, GzLost, There, Called
<1> QED
  BY <1>2, <1>3, <1>4, <1>5, <1>6, <1>7

LEMMA StutterSurvives ==
    ASSUME SurvInv, UNCHANGED Copies!vars
    PROVE  SurvInv'
<1>1. UNCHANGED <<files, run, made, begun, crashes, restores, today>>
  BY DEF Copies!vars
<1>2. \A f : Lasting(f)' <=> Lasting(f)
  BY <1>1, SameRuns DEF Lasting, Copies!Aged
<1>3. ASSUME NEW x \in Process
      PROVE  OwnFiles(x)' /\ Newer(x)'
  <2>1. OwnFiles(x)'
    BY <1>1 DEF SurvInv, OwnFiles, Phase, Files
  <2>2. Newer(x)'
    BY <1>1, <1>2 DEF SurvInv, Newer, Room, Targets, Copies!Aged
  <2> QED
    BY <2>1, <2>2
<1>4. Surviving'
  <2>1. \A x : Late(x)' <=> Late(x)
    BY <1>1 DEF Late, Phase, Writes, NameOf, Called
  <2> QED
    BY <1>1, <1>2, <2>1, SameRuns DEF SurvInv, Surviving, Room
<1> QED
  BY <1>1, <1>3, <1>4, SameRuns DEF SurvInv

LEMMA NextDaySurvives ==
    ASSUME SurvInv, Copies!NextDay
    PROVE  SurvInv'
<1>1. UNCHANGED <<files, run, made, begun, crashes, restores>>
  BY DEF Copies!NextDay
<1>2. \A x \in Process : Phase(x) = "idle" /\ Phase(x)' = "idle"
  BY <1>1 DEF Copies!NextDay, Copies!At, Phase
<1>3. ASSUME NEW x \in Process
      PROVE  OwnFiles(x)' /\ Newer(x)' /\ ~Late(x)'
  <2>1. Targets(x)' = {}
    <3>1. Targets(x) = {} /\ Targets(x)' = Targets(x)
      BY <1>1, <1>2, NoTargets DEF Targets
    <3> QED
      BY <3>1
  <2>2. Newer(x)'
    BY <2>1 DEF Newer
  <2>3. OwnFiles(x)' /\ ~Late(x)'
    BY <1>2 DEF OwnFiles, Late, Working, Packs, Finishes
  <2> QED
    BY <2>2, <2>3
<1>4. Surviving'
  BY <1>1, <1>3, SameRuns DEF SurvInv, Surviving, Room
<1> QED
  BY <1>1, <1>3, <1>4, SameRuns DEF SurvInv

LEMMA StepSurvives ==
    ASSUME IInv, AloneInv, SurvInv, [Copies!Next]_Copies!vars
    PROVE  SurvInv'
<1>1. IInv' /\ AloneInv'
  BY StepIInv, StepAlone
<1>2. CASE UNCHANGED Copies!vars
  BY <1>2, StutterSurvives
<1>3. CASE Copies!Next
  <2>1. CASE Copies!NextDay
    BY <2>1, NextDaySurvives
  <2>2. ASSUME NEW p \in Process, NEW compress \in BOOLEAN, Copies!Begin(p, compress)
        PROVE  SurvInv'
    BY <1>1, <2>2, BeginSurvives
  <2>3. ASSUME NEW p \in Process, NEW f \in files, Copies!BeginRestore(p, f)
        PROVE  SurvInv'
    BY <1>1, <2>3, BeginRestoreSurvives
  <2>4. ASSUME NEW p \in Process,
               \/ Copies!OpenRaw(p) \/ Copies!CopyRaw(p) \/ Copies!OpenGz(p)
               \/ Copies!CloseGz(p) \/ Copies!DiscardRaw(p)
        PROVE  SurvInv'
    BY <1>1, <2>4, OpenRawSurvives, CopyRawSurvives, OpenGzSurvives, CloseGzSurvives,
       DiscardRawSurvives
  <2>5. ASSUME NEW p \in Process,
               \/ Copies!Size(p) \/ Copies!List(p) \/ Copies!Stat(p) \/ Copies!PruneOne(p)
               \/ Copies!Done(p) \/ Copies!Restore(p) \/ Copies!Crash(p)
        PROVE  SurvInv'
    BY <1>1, <2>5, SizeSurvives, ListSurvives, StatSurvives, PruneOneSurvives, DoneSurvives,
       RestoreSurvives, CrashSurvives
  <2> QED
    BY <1>3, <2>1, <2>2, <2>3, <2>4, <2>5 DEF Copies!Next, Copies!Step
<1> QED
  BY <1>2, <1>3

LEMMA InitSurvives == Copies!Init => SurvInv
<1> SUFFICES ASSUME Copies!Init PROVE SurvInv
  OBVIOUS
<1>1. /\ files = {} /\ made = {} /\ begun = 0 /\ crashes = 0 /\ restores = 0
      /\ run = [p \in Process |-> Copies!Idle]
  BY DEF Copies!Init
<1>2. Copies!Idle.phase = "idle" /\ Copies!Idle.victims = << >> /\ Copies!Idle.listed = {}
  BY DEF Copies!Idle
<1>3. ASSUME NEW x \in Process
      PROVE  /\ Phase(x) = "idle" /\ run[x].victims = << >> /\ run[x].listed = {}
             /\ Targets(x) = {}
  <2>1. Phase(x) = "idle" /\ run[x].victims = << >> /\ run[x].listed = {}
    BY <1>1, <1>2 DEF Phase
  <2>2. 1 .. Len(run[x].victims) = {}
    BY <2>1
  <2> QED
    BY <2>1, <2>2 DEF Targets
<1>4. ASSUME NEW x \in Process
      PROVE  /\ Shaped(x) /\ Unused(x) /\ Apart(x) /\ OwnFiles(x) /\ Replaced(x) /\ Newer(x)
             /\ \A y \in Process : Together(x, y)
  <2>1. Shaped(x)
    BY <1>3, EmptySeq DEF Shaped
  <2>2. Unused(x) /\ Apart(x) /\ OwnFiles(x) /\ Replaced(x) /\ Newer(x)
    BY <1>3 DEF Unused, Apart, OwnFiles, Replaced, Newer, Working, Packs
  <2>3. \A y \in Process : Together(x, y)
    BY <1>3 DEF Together, Packs
  <2> QED
    BY <2>1, <2>2, <2>3
<1>5. ASSUME NEW x \in Process
      PROVE  FewMarked(x)
  <2>1. Marked(x) = {}
    BY <1>3 DEF Marked
  <2>2. IsFiniteSet(Marked(x)) /\ Cardinality(Marked(x)) = 0
    BY <2>1, FS_EmptySet
  <2>3. IsFiniteSet(Process) /\ Cardinality(Process) \in Nat /\ Cardinality(Process) # 0
    BY CopiesAssumption, FS_CardinalityType, FS_EmptySet
  <2> QED
    BY <2>2, <2>3 DEF FewMarked
<1>6. DebtsPaid
  <2>1. Debts = {}
    BY <1>1, <1>3 DEF Debts, Holds, PacksEmpty, Packs
  <2> QED
    BY <1>1, <2>1, FS_EmptySet DEF DebtsPaid
<1>7. Beginning /\ Surviving
  BY <1>1, <1>3 DEF Beginning, Surviving
<1> QED
  BY <1>4, <1>5, <1>6, <1>7 DEF SurvInv

-----------------------------------------------------------------------------
(* The theorems about backups that run together.                            *)

\* What each run knows, has and may remove, and what lasts.
THEOREM SurvivingInvariant == Spec => [](part = "backups" => IInv /\ AloneInv /\ SurvInv)
<1> DEFINE Inv  == part = "backups" => IInv /\ AloneInv
           More == part = "backups" => IInv /\ AloneInv /\ SurvInv
<1>1. Init => More
  BY InitIInv, InitAlone, InitSurvives, CopiesStart
<1>2. Inv /\ Inv' /\ More /\ [Next]_allVars => More'
  <2>1. [Next]_allVars => part' = part
    BY DEF Next, allVars
  <2> QED
    BY <2>1, StepSurvives, CopiesStep
<1> QED
  BY <1>1, <1>2, AloneInvariant, PTL DEF Spec

\* Once a backup was finished there is one, whatever other runs do and where they die,
\* if the count leaves room for what may be newer and of no use (prune_backups).
THEOREM SomeBackupSurvivesHolds == Spec => []SomeBackupSurvives
<1> DEFINE Inv == part = "backups" => IInv /\ AloneInv /\ SurvInv
<1>1. SurvInv => Copies!SomeBackupSurvives
  <2> SUFFICES ASSUME SurvInv, made # {},
                      RetentionCount = 0 \/ RetentionCount > crashes + restores + Others * Others
               PROVE  \E f \in files : f.content = "whole"
    BY CopiesCardinality DEF Copies!SomeBackupSurvives, Copies!Whole, Others
  <2>1. Room
    BY DEF Room
  <2>2. PICK f \in files : Good(f)
    BY <2>1 DEF SurvInv, Surviving
  <2> QED
    BY <2>2 DEF Good
<1>2. Inv => SomeBackupSurvives
  BY <1>1 DEF SomeBackupSurvives
<1> QED
  BY <1>2, SurvivingInvariant, PTL
=============================================================================
