--------------------------- MODULE FileCheckProofs ---------------------------
(***************************************************************************)
(* What processes that share a file can rely on, for every number of       *)
(* processes and of runs: nothing here needs a lock, because a file that   *)
(* has the common name keeps it, a file only ever gets better, and a name  *)
(* of a process's own is touched by that process alone.                    *)
(***************************************************************************)
EXTENDS FileCheck, Sequences, TLAPS

----------------------------------------------------------------------------
(* Names and files.                                                        *)

LEMMA TempIsTemp ==
  ASSUME NEW p \in Procs, NEW r \in 1..Runs[p]
  PROVE  << p, r >> \in Temps
BY DEF Temps

(* The name that a process gives its file is nobody else's.                *)
LEMMA NamesDiffer ==
  /\ Shared \notin Temps /\ Old \notin Temps /\ NoFile \notin Temps
  /\ Old # NoFile /\ Shared \in Names
  /\ Temps \subseteq Names /\ Temps \subseteq Files
  /\ Old \in Files /\ NoFile \notin Files
<1>1. ASSUME NEW t \in Temps
      PROVE  Len(t) = 2
  BY DEF Temps
<1>2. Len(Shared) = 1 /\ Len(Old) = 1 /\ Len(NoFile) = 1
  BY DEF Shared, Old, NoFile
<1>3. Old # NoFile
  BY DEF Old, NoFile
<1> QED
  BY <1>1, <1>2, <1>3 DEF Names, Files

----------------------------------------------------------------------------
(* The invariant.                                                          *)

Right(f) == content[f] = "right" /\ sealed[f]

RunsOK == \A p \in Procs : run[p] \in 1..Runs[p]

(* What was given the common name here is good; what is not was there      *)
(* before.                                                                 *)
SharedOK == entry[Shared] \in Temps => Right(entry[Shared])

(* The names of the runs to come are free.                                 *)
Unused ==
  \A p \in Procs : \A r \in run[p] + 1..Runs[p] : entry[<< p, r >>] = NoFile

(* What earlier runs have left is excused.                                 *)
LeftOver ==
  \A p \in Procs : \A r \in 1..run[p] - 1 :
    entry[<< p, r >>] # NoFile => << p, r >> \in excused

(* The common name has a bad file, which is there to stay.                 *)
Spoilt == entry[Shared] = Old /\ ~ Right(Old)

(* The own file of a process, by its place in file_check.                  *)
Placed(p) ==
  /\ at[p] \in {"called", "creating"} => entry[Temp(p)] = NoFile
  /\ at[p] = "sealing" => content[Temp(p)] = "right"
  /\ at[p] \in {"persisting", "rechecking", "keeping"} \cup Owning =>
       Right(Temp(p))
  /\ at[p] \in {"writing", "sealing", "persisting", "rechecking", "keeping"} =>
       entry[Temp(p)] = Temp(p)
  /\ at[p] \in Owning => entry[Shared] = Temp(p)
  /\ at[p] \in {"resealing", "checking"} =>
       entry[Temp(p)] = NoFile \/ faulty[p]
  /\ at[p] = "rechecking" => entry[Shared] # NoFile \/ faulty[p]
  /\ at[p] = "keeping" => Spoilt \/ faulty[p]

(* The file that a process was given, and its own where it has another.    *)
Given(p) ==
  /\ at[p] \in {"done", "loaded"} =>
       /\ handle[p].name \in {Shared, Temp(p)}
       /\ entry[handle[p].name] = handle[p].file /\ Valid(handle[p].name)
       /\ entry[Temp(p)] # NoFile =>
            faulty[p] \/ (handle[p].name = Temp(p) /\ Spoilt)
  /\ at[p] = "failed" => faulty[p]

FileInv ==
  /\ TypeOK /\ RunsOK /\ SharedOK /\ Unused /\ LeftOver
  /\ \A p \in Procs : Placed(p) /\ Given(p)

----------------------------------------------------------------------------
(* What a step of a process leaves to the others: their state, the names   *)
(* of their own, the common name once it has a file, and whatever is good  *)
(* of a file.  Nobody but the process that was there before made Old.      *)
Tame(p) ==
  /\ \A q \in Procs \ {p} :
       /\ at'[q] = at[q] /\ run'[q] = run[q]
       /\ handle'[q] = handle[q] /\ faulty'[q] = faulty[q]
  /\ \A n \in Temps \ {Temp(p)} : entry'[n] = entry[n]
  /\ entry'[Shared] # entry[Shared] =>
       /\ entry[Shared] = NoFile /\ entry'[Shared] = Temp(p)
       /\ content'[Temp(p)] = "right" /\ sealed'[Temp(p)]
  /\ \A f \in Files :
       /\ content[f] = "right" => content'[f] = "right"
       /\ sealed[f] => sealed'[f]
  /\ content'[Old] = content[Old] /\ sealed'[Old] = sealed[Old]

(* The state of the others is as good after a step as before.              *)
LEMMA OthersKeep ==
  ASSUME FileInv, TypeOK', NEW p \in Procs, NEW q \in Procs, q # p, Tame(p)
  PROVE  (Placed(q) /\ Given(q))'
<1>1. Temp(q)' = Temp(q) /\ Temp(q) \in Temps /\ Temp(p) # Temp(q)
  BY TempIsTemp DEF Temp, Tame, FileInv, RunsOK
<1>2. entry'[Temp(q)] = entry[Temp(q)]
  BY <1>1 DEF Tame
<1>3. /\ at'[q] = at[q] /\ handle'[q] = handle[q] /\ faulty'[q] = faulty[q]
      /\ Placed(q) /\ Given(q)
  BY DEF Tame, FileInv
<1>4. entry[Shared] # NoFile => entry'[Shared] = entry[Shared]
  BY DEF Tame
<1>5. \A f \in Files : Right(f) => content'[f] = "right" /\ sealed'[f]
  BY DEF Tame, Right
<1>6. Spoilt => /\ entry'[Shared] = Old
                /\ ~ (content'[Old] = "right" /\ sealed'[Old])
  BY NamesDiffer DEF Tame, Spoilt, Right
<1>7. Placed(q)'
  <2>1. Right(Temp(q)) => content'[Temp(q)] = "right" /\ sealed'[Temp(q)]
    BY <1>1, <1>5, NamesDiffer
  <2>2. content[Temp(q)] = "right" => content'[Temp(q)] = "right"
    BY <1>1, NamesDiffer DEF Tame
  <2>3. entry[Shared] = Temp(q) => entry'[Shared] = Temp(q)
    BY <1>1, <1>4, NamesDiffer
  <2> QED
    BY <1>1, <1>2, <1>3, <1>4, <1>6, <2>1, <2>2, <2>3
       DEF Placed, Right, Spoilt
<1>8. Given(q)'
  <2>1. CASE at[q] \in {"done", "loaded"}
    <3>1. /\ handle[q].name \in {Shared, Temp(q)}
          /\ entry[handle[q].name] = handle[q].file /\ Valid(handle[q].name)
      BY <1>3, <2>1 DEF Given
    <3>2. /\ entry'[handle[q].name] = entry[handle[q].name]
          /\ entry[handle[q].name] \in Files
      <4>1. entry[handle[q].name] # NoFile
        BY <3>1 DEF Valid
      <4>2. handle[q].name \in Names
        BY <1>1, <3>1, NamesDiffer
      <4> QED
        BY <1>2, <1>4, <3>1, <4>1, <4>2 DEF TypeOK
    <3>3. /\ content'[entry[handle[q].name]] = "right"
          /\ sealed'[entry[handle[q].name]]
      BY <1>5, <3>1, <3>2 DEF Valid, Right
    <3> QED
      BY <1>1, <1>2, <1>3, <1>6, <3>2, <3>3 DEF Given, Valid, Spoilt, Right
  <2>2. CASE at[q] \notin {"done", "loaded"}
    BY <1>3, <2>2 DEF Given
  <2> QED
    BY <2>1, <2>2
<1> QED
  BY <1>7, <1>8

(* A run that ends leaves no file of its own without an excuse.            *)
Leaves(p) ==
  /\ excused \subseteq excused'
  /\ run'[p] # run[p] =>
       /\ run'[p] = run[p] + 1
       /\ entry'[Temp(p)] # NoFile => Temp(p) \in excused'

(* So a step that is tame, and leaves its own process well, keeps it all.  *)
LEMMA TameKeeps ==
  ASSUME FileInv, TypeOK', NEW p \in Procs, Tame(p),
         run'[p] \in run[p]..Runs[p], (Placed(p) /\ Given(p))', Leaves(p)
  PROVE  FileInv'
<1>1. RunsOK'
  BY DEF FileInv, RunsOK, Tame
<1>2. SharedOK'
  <2>1. CASE entry'[Shared] = entry[Shared]
    BY NamesDiffer DEF FileInv, SharedOK, Tame, Right
  <2>2. CASE entry'[Shared] # entry[Shared]
    BY <2>2 DEF SharedOK, Tame, Right
  <2> QED
    BY <2>1, <2>2
<1>3. Unused'
  <2> SUFFICES ASSUME NEW q \in Procs, NEW r \in run'[q] + 1..Runs[q]
               PROVE  entry'[<< q, r >>] = NoFile
    BY DEF Unused
  <2>1. /\ run[q] \in 1..Runs[q] /\ run'[q] \in 1..Runs[q]
        /\ run[q] <= run'[q] /\ Runs[q] \in Nat
    BY FileCheckAssumption DEF FileInv, RunsOK, Tame
  <2>2. r \in run[q] + 1..Runs[q] /\ r \in 1..Runs[q]
    BY <2>1
  <2>3. << q, r >> \in Temps /\ << q, r >> # Temp(p)
    BY <2>2, TempIsTemp DEF Temp
  <2> QED
    BY <2>2, <2>3 DEF Tame, FileInv, Unused
<1>4. ASSUME NEW q \in Procs
      PROVE  (Placed(q) /\ Given(q))'
  BY <1>4, OthersKeep
<1>5. LeftOver'
  <2> SUFFICES ASSUME NEW q \in Procs, NEW r \in 1..run'[q] - 1,
                      entry'[<< q, r >>] # NoFile
               PROVE  << q, r >> \in excused'
    BY DEF LeftOver
  <2>1. /\ run[q] \in Nat /\ run'[q] \in Nat /\ Runs[q] \in Nat
        /\ run'[q] <= Runs[q] /\ (q # p => run'[q] = run[q])
    BY FileCheckAssumption DEF FileInv, RunsOK, Tame
  <2>2. << q, r >> \in Temps
    BY <2>1, TempIsTemp
  <2>3. CASE << q, r >> = Temp(p)
    <3>1. q = p /\ r = run[p]
      BY <2>3 DEF Temp
    <3> QED
      BY <2>1, <2>3, <3>1 DEF Leaves
  <2>4. CASE << q, r >> # Temp(p)
    <3>1. entry[<< q, r >>] # NoFile
      BY <2>2, <2>4 DEF Tame
    <3>2. r \in 1..run[q] - 1
      BY <2>1, <2>4 DEF Leaves, Temp
    <3> QED
      BY <3>1, <3>2 DEF FileInv, LeftOver, Leaves
  <2> QED
    BY <2>3, <2>4
<1> QED
  BY <1>1, <1>2, <1>3, <1>4, <1>5 DEF FileInv

----------------------------------------------------------------------------
(* The steps one by one.                                                   *)

StepOK(p) ==
  /\ TypeOK' /\ Tame(p) /\ run'[p] \in run[p]..Runs[p]
  /\ (Placed(p) /\ Given(p))' /\ Leaves(p)

LEMMA OwnName ==
  ASSUME FileInv, NEW p \in Procs
  PROVE  /\ Temp(p) \in Temps /\ Temp(p) \in Names /\ Temp(p) \in Files
         /\ Temp(p) # Shared /\ Temp(p) # Old /\ Temp(p) # NoFile
         /\ run[p] \in Nat /\ Runs[p] \in Nat /\ run[p] <= Runs[p]
BY TempIsTemp, NamesDiffer, FileCheckAssumption DEF FileInv, RunsOK, Temp

LEMMA NoDirectoryStep ==
  ASSUME FileInv, NEW p \in Procs, NoDirectory(p), excused' = excused
  PROVE  StepOK(p)
<1> USE DEF NoDirectory, Breaks, Fault, Goes
<1>1. TypeOK'
  BY DEF FileInv, TypeOK, Place
<1>2. Tame(p) /\ run'[p] \in run[p]..Runs[p]
  BY OwnName DEF Tame
<1>3. Placed(p)'
  BY DEF FileInv, Placed, Owning, Temp
<1>4. Given(p)'
  BY DEF FileInv, TypeOK, Given
<1> QED
  BY <1>1, <1>2, <1>3, <1>4 DEF StepOK, Leaves

LEMMA LooksStep ==
  ASSUME FileInv, NEW p \in Procs, Looks(p), excused' = excused
  PROVE  StepOK(p)
<1> USE DEF Looks, Accepts, Rejects, Returns, Stays, Fault, Goes, dir
<1>1. TypeOK'
  BY NamesDiffer DEF FileInv, TypeOK, Place, Midway, Writing, Handle, Valid
<1>2. Tame(p) /\ run'[p] \in run[p]..Runs[p]
  BY OwnName DEF Tame, FileInv, TypeOK
<1>3. Placed(p)'
  BY DEF FileInv, TypeOK, Placed, Owning, Temp
<1>4. Given(p)'
  BY DEF FileInv, TypeOK, Placed, Given, Temp, Valid
<1> QED
  BY <1>1, <1>2, <1>3, <1>4 DEF StepOK, Leaves

LEMMA CreatesStep ==
  ASSUME FileInv, NEW p \in Procs, Creates(p), excused' = excused
  PROVE  StepOK(p)
<1> USE DEF Creates, Goes, NoReturn, Stays
<1>1. TypeOK'
  BY OwnName DEF FileInv, TypeOK, Place, Midway, Writing
<1>2. Tame(p) /\ run'[p] \in run[p]..Runs[p]
  BY OwnName DEF Tame
<1>3. Placed(p)'
  BY OwnName DEF FileInv, TypeOK, Placed, Owning, Temp
<1>4. Given(p)'
  BY DEF Given
<1> QED
  BY <1>1, <1>2, <1>3, <1>4 DEF StepOK, Leaves

LEMMA WritesStep ==
  ASSUME FileInv, NEW p \in Procs, Writes(p), excused' = excused
  PROVE  StepOK(p)
<1> USE DEF Writes, Goes, NoReturn, Stays
<1>1. TypeOK'
  BY DEF FileInv, TypeOK, Place, Midway, Writing
<1>2. Tame(p) /\ run'[p] \in run[p]..Runs[p]
  BY OwnName DEF Tame
<1>3. Placed(p)'
  BY OwnName DEF FileInv, TypeOK, Placed, Owning, Temp
<1>4. Given(p)'
  BY DEF Given
<1> QED
  BY <1>1, <1>2, <1>3, <1>4 DEF StepOK, Leaves

LEMMA SealsStep ==
  ASSUME FileInv, NEW p \in Procs, Seals(p), excused' = excused
  PROVE  StepOK(p)
<1> USE DEF Seals, Goes, NoReturn, Stays
<1>1. TypeOK'
  BY DEF FileInv, TypeOK, Place, Midway
<1>2. Tame(p) /\ run'[p] \in run[p]..Runs[p]
  <2>1. \A f \in Files : sealed[f] => sealed'[f]
    BY DEF FileInv, TypeOK
  <2>2. sealed'[Old] = sealed[Old]
    BY OwnName, NamesDiffer DEF FileInv, TypeOK
  <2>3. run'[p] \in run[p]..Runs[p]
    BY OwnName
  <2>4. \A q \in Procs \ {p} : at'[q] = at[q]
    BY DEF FileInv, TypeOK
  <2> QED
    BY <2>1, <2>2, <2>3, <2>4 DEF Tame
<1>3. Placed(p)'
  BY OwnName DEF FileInv, TypeOK, Placed, Right, Owning, Temp
<1>4. Given(p)'
  BY DEF Given
<1> QED
  BY <1>1, <1>2, <1>3, <1>4 DEF StepOK, Leaves

LEMMA WriteFailsStep ==
  ASSUME FileInv, NEW p \in Procs, WriteFails(p), excused' = excused
  PROVE  StepOK(p)
<1> USE DEF WriteFails, Breaks, Fault, Goes, Writing
<1>1. TypeOK'
  BY DEF FileInv, TypeOK, Place
<1>2. Tame(p) /\ run'[p] \in run[p]..Runs[p]
  BY OwnName, NamesDiffer DEF Tame, FileInv, TypeOK
<1>3. Placed(p)'
  BY DEF FileInv, TypeOK, Placed, Owning
<1>4. Given(p)'
  BY OwnName DEF FileInv, TypeOK, Given, Right
<1> QED
  BY <1>1, <1>2, <1>3, <1>4 DEF StepOK, Leaves

LEMMA RenamesStep ==
  ASSUME FileInv, NEW p \in Procs, Renames(p), excused' = excused
  PROVE  StepOK(p)
<1> USE DEF Renames, Goes, NoReturn, Stays
<1>1. TypeOK'
  BY OwnName DEF FileInv, TypeOK, Place, Midway, Owning
<1>2. Tame(p) /\ run'[p] \in run[p]..Runs[p]
  BY OwnName, NamesDiffer DEF Tame, FileInv, TypeOK, Placed, Right
<1>3. Placed(p)'
  BY OwnName, NamesDiffer DEF FileInv, TypeOK, Placed, Right, Temp
<1>4. Given(p)'
  BY DEF Given
<1> QED
  BY <1>1, <1>2, <1>3, <1>4 DEF StepOK, Leaves

LEMMA LinksStep ==
  ASSUME FileInv, NEW p \in Procs, Links(p), excused' = excused
  PROVE  StepOK(p)
<1> USE DEF Links, Goes, NoReturn, Stays
<1>1. TypeOK'
  BY OwnName DEF FileInv, TypeOK, Place, Midway, Owning
<1>2. Tame(p) /\ run'[p] \in run[p]..Runs[p]
  BY OwnName, NamesDiffer DEF Tame, FileInv, Placed, Right
<1>3. Placed(p)'
  BY NamesDiffer DEF FileInv, TypeOK, Placed, Right, Temp
<1>4. Given(p)'
  BY DEF Given
<1> QED
  BY <1>1, <1>2, <1>3, <1>4 DEF StepOK, Leaves

LEMMA UnlinksStep ==
  ASSUME FileInv, NEW p \in Procs, Unlinks(p), excused' = excused
  PROVE  StepOK(p)
<1> USE DEF Unlinks, Goes, Removes, Fault
<1>1. TypeOK'
  BY DEF FileInv, TypeOK, Place, Midway, Owning
<1>2. Tame(p) /\ run'[p] \in run[p]..Runs[p]
  BY OwnName, NamesDiffer DEF Tame, FileInv, TypeOK
<1>3. Placed(p)'
  BY OwnName, NamesDiffer DEF FileInv, TypeOK, Placed, Right, Owning, Temp
<1>4. Given(p)'
  BY DEF Given
<1> QED
  BY <1>1, <1>2, <1>3, <1>4 DEF StepOK, Leaves

LEMMA PersistFailsStep ==
  ASSUME FileInv, NEW p \in Procs, PersistFails(p), excused' = excused
  PROVE  StepOK(p)
<1> USE DEF PersistFails, Goes, Fault, dir
<1>1. TypeOK'
  BY DEF FileInv, TypeOK, Place, Midway
<1>2. Tame(p) /\ run'[p] \in run[p]..Runs[p]
  BY OwnName DEF Tame
<1>3. Placed(p)'
  BY DEF FileInv, TypeOK, Placed, Right, Owning, Temp
<1>4. Given(p)'
  BY DEF Given
<1> QED
  BY <1>1, <1>2, <1>3, <1>4 DEF StepOK, Leaves

LEMMA ResealsStep ==
  ASSUME FileInv, NEW p \in Procs, Reseals(p), excused' = excused
  PROVE  StepOK(p)
<1> USE DEF Reseals, Goes, NoReturn, Stays
<1>1. TypeOK'
  BY DEF FileInv, TypeOK, Place, Midway, Owning
<1>2. Tame(p) /\ run'[p] \in run[p]..Runs[p]
  <2>1. \A f \in Files : sealed[f] => sealed'[f]
    BY DEF FileInv, TypeOK
  <2>2. sealed'[Old] = sealed[Old]
    BY OwnName, NamesDiffer DEF FileInv, TypeOK
  <2>3. run'[p] \in run[p]..Runs[p]
    BY OwnName
  <2>4. \A q \in Procs \ {p} : at'[q] = at[q]
    BY DEF FileInv, TypeOK
  <2> QED
    BY <2>1, <2>2, <2>3, <2>4 DEF Tame
<1>3. Placed(p)'
  BY DEF FileInv, Placed, Right, Owning, Temp
<1>4. Given(p)'
  BY DEF Given
<1> QED
  BY <1>1, <1>2, <1>3, <1>4 DEF StepOK, Leaves

LEMMA ResealFailsStep ==
  ASSUME FileInv, NEW p \in Procs, ResealFails(p), excused' = excused
  PROVE  StepOK(p)
<1> USE DEF ResealFails, Breaks, Fault, Goes
<1>1. TypeOK'
  BY DEF FileInv, TypeOK, Place
<1>2. Tame(p) /\ run'[p] \in run[p]..Runs[p]
  BY OwnName DEF Tame
<1>3. Placed(p)'
  BY DEF FileInv, TypeOK, Placed, Owning
<1>4. Given(p)'
  BY DEF FileInv, TypeOK, Given
<1> QED
  BY <1>1, <1>2, <1>3, <1>4 DEF StepOK, Leaves

LEMMA ChecksStep ==
  ASSUME FileInv, NEW p \in Procs, Checks(p), excused' = excused
  PROVE  StepOK(p)
<1> USE DEF Checks, Accepts, Rejects, Returns, Stays, Fault, Goes, dir
<1>1. TypeOK'
  BY NamesDiffer DEF FileInv, TypeOK, Place, Handle, Valid
<1>2. Tame(p) /\ run'[p] \in run[p]..Runs[p]
  BY OwnName DEF Tame, FileInv, TypeOK
<1>3. Placed(p)'
  BY DEF FileInv, TypeOK, Placed, Owning
<1>4. Given(p)'
  <2>1. CASE Accepts(p, "checking", Shared)
    BY <2>1, OwnName, NamesDiffer
       DEF FileInv, TypeOK, Placed, Given, Right, Owning, Temp, Spoilt, Valid
  <2>2. CASE Rejects(p, "checking", "failed", Shared)
    BY <2>2, OwnName, NamesDiffer
       DEF FileInv, TypeOK, Placed, Given, Right, Owning, Valid
  <2> QED
    BY <2>1, <2>2
<1> QED
  BY <1>1, <1>2, <1>3, <1>4 DEF StepOK, Leaves

LEMMA RechecksStep ==
  ASSUME FileInv, NEW p \in Procs, Rechecks(p), excused' = excused
  PROVE  StepOK(p)
<1> USE DEF Rechecks, Rejects, Returns, Removes, Fault, Goes
<1>1. TypeOK'
  BY NamesDiffer DEF FileInv, TypeOK, Place, Midway, Handle, Valid
<1>2. Tame(p) /\ run'[p] \in run[p]..Runs[p]
  <2>1. \A n \in Names \ {Temp(p)} : entry'[n] = entry[n]
    BY DEF FileInv, TypeOK
  <2> QED
    BY OwnName, NamesDiffer DEF Tame, FileInv, TypeOK
<1>3. Placed(p)'
  <2>1. entry'[Shared] = entry[Shared] /\ (Spoilt => Spoilt')
    BY OwnName, NamesDiffer DEF FileInv, TypeOK, Spoilt, Right
  <2>2. at[p] = "rechecking" /\ Right(Temp(p)) /\ entry[Temp(p)] = Temp(p)
    BY DEF FileInv, Placed
  <2>3. CASE at'[p] = "done"
    BY <2>3 DEF Placed, Owning
  <2>4. CASE /\ at'[p] = "keeping" /\ entry' = entry
             /\ faulty'[p] = (faulty[p] \/ Valid(Shared))
    <3>1. faulty'[p] \/ Spoilt
      BY <2>4, NamesDiffer
         DEF FileInv, TypeOK, Placed, SharedOK, Spoilt, Right, Valid, Files
    <3>2. Temp(p)' = Temp(p)
      BY DEF Temp
    <3> QED
      BY <2>1, <2>2, <2>4, <3>1, <3>2 DEF Placed, Right, Owning
  <2> QED
    BY <2>3, <2>4 DEF FileInv, TypeOK
<1>4. Given(p)'
  BY OwnName, NamesDiffer DEF FileInv, TypeOK, Given, Temp, Valid
<1> QED
  BY <1>1, <1>2, <1>3, <1>4 DEF StepOK, Leaves

LEMMA KeepsStep ==
  ASSUME FileInv, NEW p \in Procs, Keeps(p), excused' = excused
  PROVE  StepOK(p)
<1> USE DEF Keeps, Accepts, Rejects, Returns, Stays, Fault, Goes, dir
<1>1. TypeOK'
  BY OwnName DEF FileInv, TypeOK, Place, Handle, Valid
<1>2. Tame(p) /\ run'[p] \in run[p]..Runs[p]
  BY OwnName DEF Tame, FileInv, TypeOK
<1>3. Placed(p)'
  BY DEF FileInv, TypeOK, Placed, Owning
<1>4. Given(p)'
  <2>1. CASE Accepts(p, "keeping", Temp(p))
    BY <2>1, OwnName, NamesDiffer
       DEF FileInv, TypeOK, Placed, Given, Right, Owning, Temp, Spoilt, Valid
  <2>2. CASE Rejects(p, "keeping", "failed", Temp(p))
    BY <2>2, OwnName, NamesDiffer
       DEF FileInv, TypeOK, Placed, Given, Right, Owning, Valid
  <2> QED
    BY <2>1, <2>2
<1> QED
  BY <1>1, <1>2, <1>3, <1>4 DEF StepOK, Leaves

LEMMA PanicsStep ==
  ASSUME FileInv, NEW p \in Procs, Panics(p), excused' = excused
  PROVE  StepOK(p)
<1> USE DEF Panics, Breaks, Fault, Goes
<1>1. TypeOK'
  BY DEF FileInv, TypeOK, Place
<1>2. Tame(p) /\ run'[p] \in run[p]..Runs[p]
  BY OwnName, NamesDiffer DEF Tame, FileInv, TypeOK
<1>3. Placed(p)'
  BY DEF FileInv, TypeOK, Placed, Owning
<1>4. Given(p)'
  BY DEF FileInv, TypeOK, Given, Right
<1> QED
  BY <1>1, <1>2, <1>3, <1>4 DEF StepOK, Leaves

LEMMA LoadsStep ==
  ASSUME FileInv, NEW p \in Procs, Loads(p), excused' = excused
  PROVE  StepOK(p)
<1> USE DEF Loads, Goes, Stays, Fault, dir
<1>1. TypeOK'
  BY DEF FileInv, TypeOK, Place
<1>2. Tame(p) /\ run'[p] \in run[p]..Runs[p]
  BY OwnName DEF Tame, FileInv, TypeOK
<1>3. Placed(p)'
  BY DEF FileInv, TypeOK, Placed, Owning
<1>4. Given(p)'
  BY DEF FileInv, TypeOK, Given, Right, Temp, Spoilt, Valid
<1> QED
  BY <1>1, <1>2, <1>3, <1>4 DEF StepOK, Leaves

(* A process that has a file under its own name has a reason.              *)
LEMMA ReasonsAreGood ==
  ASSUME FileInv, NEW p \in Procs, entry[Temp(p)] # NoFile
  PROVE  HasReason(p)
<1> SUFFICES ASSUME at[p] \notin Midway, ~ faulty[p]
             PROVE  handle[p].name = Temp(p) /\ ~ Valid(Shared)
  BY DEF HasReason
<1>1. at[p] \in {"done", "loaded"}
  BY DEF FileInv, TypeOK, Place, Placed, Given
<1> QED
  BY <1>1 DEF FileInv, Given, Spoilt, Valid, Right

LEMMA RestartsStep ==
  ASSUME FileInv, NEW p \in Procs, Restarts(p)
  PROVE  StepOK(p)
<1> USE DEF Restarts, dir
<1>1. TypeOK'
  BY OwnName DEF FileInv, TypeOK, Place
<1>2. Tame(p) /\ run'[p] \in run[p]..Runs[p]
  <2>1. run'[p] = run[p] + 1
    BY DEF FileInv, TypeOK
  <2> QED
    BY OwnName DEF Tame
<1>3. Placed(p)'
  <2>1. at'[p] = "called" /\ run'[p] = run[p] + 1
    BY DEF FileInv, TypeOK
  <2>2. run[p] + 1 \in run[p] + 1..Runs[p]
    BY OwnName
  <2>3. entry[<< p, run[p] + 1 >>] = NoFile
    BY <2>2 DEF FileInv, Unused
  <2> QED
    BY <2>1, <2>3 DEF Placed, Owning, Temp
<1>4. Given(p)'
  BY DEF FileInv, TypeOK, Given
<1>5. Leaves(p)
  <2>1. run'[p] = run[p] + 1 /\ entry' = entry
    BY DEF FileInv, TypeOK
  <2>2. entry[Temp(p)] # NoFile => HasReason(p)
    BY ReasonsAreGood
  <2> QED
    BY <2>1, <2>2 DEF Leaves
<1> QED
  BY <1>1, <1>2, <1>3, <1>4, <1>5 DEF StepOK

----------------------------------------------------------------------------
(* The theorems.                                                           *)

LEMMA FileInvInit == Init => FileInv
<1> SUFFICES ASSUME Init PROVE FileInv
  OBVIOUS
<1>1. TypeOK
  BY NamesDiffer DEF Init, TypeOK, Place
<1>2. RunsOK
  <2>1. ASSUME NEW p \in Procs PROVE run[p] = 1 /\ 1 \in 1..Runs[p]
    <3>1. Runs[p] \in Nat /\ Runs[p] # 0
      BY FileCheckAssumption
    <3> QED
      BY <3>1 DEF Init
  <2> QED
    BY <2>1 DEF RunsOK
<1>3. entry[Shared] \in {NoFile, Old} /\ \A n \in Temps : entry[n] = NoFile
  BY NamesDiffer DEF Init
<1>4. SharedOK
  BY <1>3, NamesDiffer DEF SharedOK
<1>5. Unused
  <2> SUFFICES ASSUME NEW p \in Procs, NEW r \in run[p] + 1..Runs[p]
               PROVE  << p, r >> \in Temps
    BY <1>3 DEF Unused
  <2> QED
    BY TempIsTemp DEF Init
<1>6. ASSUME NEW p \in Procs
      PROVE  Placed(p) /\ Given(p)
  BY <1>2, <1>3, TempIsTemp DEF Init, RunsOK, Placed, Given, Owning, Temp
<1>7. LeftOver
  BY <1>2 DEF Init, LeftOver
<1> QED
  BY <1>1, <1>2, <1>4, <1>5, <1>6, <1>7 DEF FileInv

StepOf(p) ==
  \/ (file_check(p) \/ Loads(p)) /\ UNCHANGED excused
  \/ Restarts(p)

(* Every step of a process is tame and leaves the process itself well.     *)
LEMMA StepIsOK ==
  ASSUME FileInv, NEW p \in Procs, StepOf(p)
  PROVE  StepOK(p)
<1>0. Restarts(p) \/ excused' = excused
  BY DEF StepOf
<1>1. CASE excused' = excused /\ (NoDirectory(p) \/ Looks(p) \/ Write(p))
  BY <1>1, NoDirectoryStep, LooksStep, CreatesStep, WritesStep, SealsStep,
     WriteFailsStep
     DEF Write
<1>2. CASE excused' = excused /\ (Persists(p) \/ Unlinks(p) \/ PersistFails(p))
  BY <1>2, RenamesStep, LinksStep, UnlinksStep, PersistFailsStep DEF Persists
<1>3. CASE excused' = excused /\ (Reseals(p) \/ ResealFails(p) \/ Checks(p))
  BY <1>3, ResealsStep, ResealFailsStep, ChecksStep
<1>4. CASE excused' = excused /\ (Rechecks(p) \/ Keeps(p) \/ Panics(p) \/ Loads(p))
  BY <1>4, RechecksStep, KeepsStep, PanicsStep, LoadsStep
<1>5. CASE Restarts(p)
  BY <1>5, RestartsStep
<1> QED
  BY <1>0, <1>1, <1>2, <1>3, <1>4, <1>5 DEF StepOf, file_check

LEMMA FileInvNext == FileInv /\ [Next]_vars => FileInv'
<1>1. ASSUME FileInv, NEW p \in Procs, StepOf(p)
      PROVE  FileInv'
  BY <1>1, StepIsOK, TameKeeps DEF StepOK
<1>2. ASSUME FileInv, UNCHANGED vars
      PROVE  FileInv'
  BY <1>2
     DEF vars, dir, FileInv, TypeOK, RunsOK, SharedOK, Unused, LeftOver, Placed,
         Given, Right, Spoilt, Valid, Temp
<1> QED
  BY <1>1, <1>2 DEF Next, StepOf

LEMMA FileInvHolds == Spec => []FileInv
BY FileInvInit, FileInvNext, PTL DEF Spec

(* The directory, the files and the handles keep their types.              *)
THEOREM FileCheckTypeOK == Spec => []TypeOK
<1>1. FileInv => TypeOK
  BY DEF FileInv
<1> QED
  BY <1>1, FileInvHolds, PTL

(* Whoever is given a file by file_check has the right one, under a name   *)
(* that leads to it for as long as the process lives, and nobody goes      *)
(* without unless the file system failed: for every number of processes    *)
(* that come, go and start again at any moment.                            *)
THEOREM EveryoneIsServed == Spec => []EveryoneGetsTheFile
<1>1. FileInv => EveryoneGetsTheFile
  BY DEF FileInv, Given, EveryoneGetsTheFile
<1> QED
  BY <1>1, FileInvHolds, PTL

(* No file is left under a name of its own by a run that is done with      *)
(* file_check, unless it is the one in use because the common name has a   *)
(* bad file, or the file system failed; nor has it been left so by any run *)
(* that ended before.                                                      *)
THEOREM NoTempIsForgotten == Spec => []TempsHaveReason
<1>1. FileInv => TempsHaveReason
  <2> SUFFICES ASSUME FileInv, NEW p \in Procs, NEW r \in 1..Runs[p],
                      entry[<< p, r >>] # NoFile
               PROVE  << p, r >> \in excused \/ (<< p, r >> = Temp(p) /\ HasReason(p))
    BY DEF TempsHaveReason, Temps
  <2>1. run[p] \in Nat /\ Runs[p] \in Nat /\ run[p] <= Runs[p]
    BY OwnName
  <2>2. CASE r < run[p]
    BY <2>1, <2>2 DEF FileInv, LeftOver
  <2>3. CASE r = run[p]
    BY <2>3, ReasonsAreGood DEF Temp
  <2>4. CASE r > run[p]
    <3>1. r \in run[p] + 1..Runs[p]
      BY <2>1, <2>4
    <3> QED
      BY <3>1 DEF FileInv, Unused
  <2> QED
    BY <2>1, <2>2, <2>3, <2>4
<1> QED
  BY <1>1, FileInvHolds, PTL

(* The file that got the common name first keeps it: nobody moves another  *)
(* one over it (persist_noclobber), or removes it.                         *)
THEOREM CommonNameStays ==
  Spec => [][entry[Shared] # NoFile => entry'[Shared] = entry[Shared]]_vars
<1>1. FileInv /\ [Next]_vars =>
        [entry[Shared] # NoFile => entry'[Shared] = entry[Shared]]_vars
  BY StepIsOK DEF Next, StepOf, StepOK, Tame, vars, dir
<1> QED
  BY <1>1, FileInvHolds, PTL DEF Spec
=============================================================================
