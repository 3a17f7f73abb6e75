------------------------------ MODULE FileCheck ------------------------------
(***************************************************************************)
(* file_check (tx5-core/src/file_check.rs): processes that bring the same  *)
(* file with them, a library or a program, agree on one copy of it in a    *)
(* common directory, without a lock.  Each looks for a good copy under the *)
(* common name; else it writes one under a name of its own and moves it to *)
(* the common one, unless somebody was there first.  Who finds no good     *)
(* copy even then stays with its own.                                      *)
(*                                                                         *)
(* Processes end and start again at any moment, and the calls of the file  *)
(* system fail.  The file system is external.                              *)
(***************************************************************************)
EXTENDS Naturals

CONSTANTS
  Procs,   \* processes, or threads
  Runs     \* how often each starts (bounds the model)

ASSUME FileCheckAssumption == Runs \in [Procs -> Nat \ {0}]

(* A process makes at most one file in each of its runs.                   *)
Temps == UNION {{p} \X (1..Runs[p]) : p \in Procs}
Shared == << "shared" >>   \* the common name
Old == << "old" >>         \* a file that was there before
Files == Temps \cup {Old}
NoFile == << "none" >>
Names == Temps \cup {Shared}

VARIABLES
  entry,   \* the directory: which file has a name
  content, \* what is in a file
  sealed,  \* it can be read and executed only
  at,      \* where a process is in file_check
  run,     \* which of its runs this is
  handle,  \* the FileCheck it got: a name and an open file
  faulty,  \* a call of the file system failed in this run
  excused  \* names of runs that ended with a reason to leave a file
           \* (a history variable)

dir == << entry, content, sealed >>
vars == << dir, at, run, handle, faulty, excused >>

Writing == {"creating", "writing", "sealing"}
Owning == {"linked", "resealing", "checking"}
Midway == Writing \cup Owning \cup {"persisting", "rechecking", "keeping"}
Place == {"called", "done", "loaded", "failed"} \cup Midway

Handle == [name : Names, file : Files]
NoHandle == [name |-> Shared, file |-> NoFile]

TypeOK ==
  /\ entry \in [Names -> Files \cup {NoFile}]
  /\ content \in [Files -> {"partial", "right", "wrong"}]
  /\ sealed \in [Files -> BOOLEAN]
  /\ at \in [Procs -> Place] /\ run \in [Procs -> Nat]
  /\ handle \in [Procs -> Handle \cup {NoHandle}]
  /\ faulty \in [Procs -> BOOLEAN] /\ excused \subseteq Temps

(* The common name may be free, or have a file of whatever kind.           *)
Init ==
  /\ \E f \in {NoFile, Old} :
       entry = [n \in Names |-> IF n = Shared THEN f ELSE NoFile]
  /\ \E c \in {"right", "wrong"}, s \in BOOLEAN :
       /\ content = [f \in Files |-> IF f = Old THEN c ELSE "partial"]
       /\ sealed = [f \in Files |-> f = Old /\ s]
  /\ at = [p \in Procs |-> "called"]
  /\ run = [p \in Procs |-> 1]
  /\ handle = [p \in Procs |-> NoHandle]
  /\ faulty = [p \in Procs |-> FALSE] /\ excused = {}

-----------------------------------------------------------------------------
Temp(p) == << p, run[p] >>

(* validate: the file has the hash, and is read-only.                      *)
Valid(n) ==
  /\ entry[n] # NoFile
  /\ content[entry[n]] = "right" /\ sealed[entry[n]]

Goes(p, from, to) == at[p] = from /\ at' = [at EXCEPT ![p] = to]

Returns(p, from, n) ==
  /\ Goes(p, from, "done")
  /\ handle' = [handle EXCEPT ![p] = [name |-> n, file |-> entry[n]]]

Stays == UNCHANGED << run, faulty >>
NoReturn == UNCHANGED handle /\ Stays

Fault(p, now) == faulty' = [faulty EXCEPT ![p] = @ \/ now]

(* What it calls fails.                                                    *)
Breaks(p, from) ==
  /\ Goes(p, from, "failed") /\ Fault(p, TRUE)
  /\ UNCHANGED << content, sealed, run, handle >>

(* The own name is removed, or is not, and nobody hears of it.             *)
Removes(p) ==
  \/ entry' = [entry EXCEPT ![Temp(p)] = NoFile] /\ Fault(p, FALSE)
  \/ entry' = entry /\ Fault(p, TRUE)

(* validate returns the file; or an error, also when it cannot read it.    *)
Accepts(p, from, n) == Valid(n) /\ Returns(p, from, n) /\ Stays
Rejects(p, from, to, n) == Goes(p, from, to) /\ Fault(p, Valid(n)) /\ UNCHANGED << run, handle >>

(* A file that was opened and cannot be read is a panic; the own file, if  *)
(* it is still temporary, goes with it.                                    *)
Panics(p) ==
  /\ \E from \in {"called", "checking", "rechecking", "keeping"} : Breaks(p, from)
  /\ entry[IF at[p] = "keeping" THEN Temp(p) ELSE Shared] # NoFile
  /\ \/ entry' = entry
     \/ at[p] = "rechecking" /\ entry' = [entry EXCEPT ![Temp(p)] = NoFile]

-----------------------------------------------------------------------------
(* get_cache_dir.                                                          *)
NoDirectory(p) == Breaks(p, "called") /\ UNCHANGED entry

Looks(p) ==
  /\ Accepts(p, "called", Shared) \/ Rejects(p, "called", "creating", Shared)
  /\ UNCHANGED dir

(* write, step by step: a process that ends here leaves part of a file.    *)
Creates(p) ==
  /\ Goes(p, "creating", "writing")
  /\ entry' = [entry EXCEPT ![Temp(p)] = Temp(p)]
  /\ UNCHANGED << content, sealed >> /\ NoReturn

Writes(p) ==
  /\ Goes(p, "writing", "sealing")
  /\ content' = [content EXCEPT ![Temp(p)] = "right"]
  /\ UNCHANGED << entry, sealed >> /\ NoReturn

Seals(p) ==
  /\ Goes(p, "sealing", "persisting")
  /\ sealed' = [sealed EXCEPT ![Temp(p)] = TRUE]
  /\ UNCHANGED << entry, content >> /\ NoReturn

(* The temporary file is dropped, which removes it.                        *)
WriteFails(p) ==
  /\ \E from \in Writing : Breaks(p, from)
  /\ entry' \in {entry, [entry EXCEPT ![Temp(p)] = NoFile]}

-----------------------------------------------------------------------------
(* persist_noclobber, of the tempfile crate: a rename that replaces        *)
(* nothing or, where there is none, a link and then an unlink.             *)
Renames(p) ==
  /\ entry[Shared] = NoFile /\ Goes(p, "persisting", "resealing")
  /\ entry' = [entry EXCEPT ![Shared] = Temp(p), ![Temp(p)] = NoFile]
  /\ UNCHANGED << content, sealed >> /\ NoReturn

Links(p) ==
  /\ entry[Shared] = NoFile /\ Goes(p, "persisting", "linked")
  /\ entry' = [entry EXCEPT ![Shared] = Temp(p)]
  /\ UNCHANGED << content, sealed >> /\ NoReturn

Unlinks(p) ==
  /\ Goes(p, "linked", "resealing")
  /\ Removes(p)
  /\ UNCHANGED << content, sealed, run, handle >>

(* Faulty variant: persist, which replaces what has the name.              *)
Replaces(p) ==
  /\ Goes(p, "persisting", "resealing")
  /\ entry' = [entry EXCEPT ![Shared] = Temp(p), ![Temp(p)] = NoFile]
  /\ UNCHANGED << content, sealed >> /\ NoReturn

Persists(p) == Renames(p) \/ Links(p)

(* Somebody was first, or the move failed.                                 *)
PersistFails(p) ==
  /\ Goes(p, "persisting", "rechecking")
  /\ Fault(p, entry[Shared] = NoFile)
  /\ UNCHANGED << dir, run, handle >>

-----------------------------------------------------------------------------
(* The file that has the common name now: set_perms once more.             *)
Reseals(p) ==
  /\ Goes(p, "resealing", "checking")
  /\ sealed' = [sealed EXCEPT ![Temp(p)] = TRUE]
  /\ UNCHANGED << entry, content >> /\ NoReturn

ResealFails(p) == Breaks(p, "resealing") /\ UNCHANGED entry

Checks(p) ==
  /\ Accepts(p, "checking", Shared) \/ Rejects(p, "checking", "failed", Shared)
  /\ UNCHANGED dir

(* Faulty variant: the file is kept from being removed before the other    *)
(* one is looked at.                                                       *)
ForgetsFirst(p) ==
  /\ Accepts(p, "rechecking", Shared) \/ Rejects(p, "rechecking", "keeping", Shared)
  /\ UNCHANGED dir

(* A different process wrote correctly: the own file is removed.           *)
Rechecks(p) ==
  /\ \/ Valid(Shared) /\ Returns(p, "rechecking", Shared) /\ Removes(p) /\ run' = run
     \/ Rejects(p, "rechecking", "keeping", Shared) /\ entry' = entry
  /\ UNCHANGED << content, sealed >>

(* The own file stays, also when it is no good.                            *)
Keeps(p) ==
  /\ Accepts(p, "keeping", Temp(p)) \/ Rejects(p, "keeping", "failed", Temp(p))
  /\ UNCHANGED dir

-----------------------------------------------------------------------------
(* priv_new loads the library by its name, for good, or panics.            *)
Loads(p) ==
  /\ \/ entry[handle[p].name] # NoFile /\ Goes(p, "done", "loaded") /\ Stays
     \/ Goes(p, "done", "failed") /\ Fault(p, entry[handle[p].name] # NoFile) /\ run' = run
  /\ UNCHANGED << dir, handle >>

(* A process may leave a file under its own name: it is in file_check, or  *)
(* uses that file because the common name has a bad one, or the file       *)
(* system failed.                                                          *)
HasReason(p) ==
  \/ at[p] \in Midway \/ faulty[p]
  \/ handle[p].name = Temp(p) /\ ~Valid(Shared)

(* A process ends, and another begins, at any moment.                      *)
Restarts(p) ==
  /\ run[p] < Runs[p] /\ run' = [run EXCEPT ![p] = @ + 1]
  /\ at' = [at EXCEPT ![p] = "called"]
  /\ handle' = [handle EXCEPT ![p] = NoHandle]
  /\ faulty' = [faulty EXCEPT ![p] = FALSE]
  /\ excused' = excused \cup (IF HasReason(p) THEN {Temp(p)} ELSE {})
  /\ UNCHANGED dir

Write(p) == Creates(p) \/ Writes(p) \/ Seals(p) \/ WriteFails(p)

file_check(p) ==
  \/ NoDirectory(p) \/ Looks(p) \/ Write(p)
  \/ Persists(p) \/ Unlinks(p) \/ PersistFails(p)
  \/ Reseals(p) \/ ResealFails(p) \/ Checks(p)
  \/ Rechecks(p) \/ Keeps(p) \/ Panics(p)

Next == \E p \in Procs :
  \/ (file_check(p) \/ Loads(p)) /\ UNCHANGED excused
  \/ Restarts(p)

Spec == Init /\ [][Next]_vars

-----------------------------------------------------------------------------
(* Who is given a file has the right one, and its name leads to that file  *)
(* for as long as the process lives: what others write, move or remove     *)
(* meanwhile is never that.  And nobody goes without, unless the file      *)
(* system failed: what a process made itself always passes validate.       *)
EveryoneGetsTheFile ==
  \A p \in Procs :
    /\ at[p] \in {"done", "loaded"} =>
         entry[handle[p].name] = handle[p].file /\ Valid(handle[p].name)
    /\ at[p] = "failed" => faulty[p]

(* Files under other names do not pile up with the runs that succeed: one  *)
(* that is there belongs to a process that is in file_check, or uses it    *)
(* because the common name has a bad file, or met a failure of the file    *)
(* system; or is what an earlier run left that ended in such a state.      *)
TempsHaveReason ==
  \A t \in Temps : entry[t] # NoFile =>
    t \in excused \/ \E p \in Procs : t = Temp(p) /\ HasReason(p)
=============================================================================
