------------------------------- MODULE ACStore -------------------------------
(***************************************************************************)
(* The blobs of the artifact cache: rows in SQLite with a count of         *)
(* references (devtools/local_cache/ac/db), files in a store beside them   *)
(* (ac/fs).  A request prepares files in a stash directory of its own,     *)
(* moves files between the store and stash directories inside its SQL      *)
(* transaction, and tidies up after it: the two commits are not one, and   *)
(* a removal shares its stash directory with others.                       *)
(*                                                                         *)
(* BigDBMutex_ is held for a whole transaction.  A directory goes in one   *)
(* step: two requests that remove it at the same time may make a removal   *)
(* throw, which ends the server like a kill at that step.  Sizes, copy     *)
(* modes, deps and the locks of ACLocks are left out; removals are those   *)
(* that are let through (forced, or of what nobody has requested).         *)
(***************************************************************************)
EXTENDS Integers, FiniteSets, Functions

CONSTANTS
  Uids, Blobs, Paths,
  Contents,    \* what may be put: functions from paths to blobs
  Slots,       \* requests that are served at a time
  MaxRequests, \* bound: requests
  MaxFaults,   \* bound: failures of SQL or of I/O
  MaxCrashes,  \* bound: kills of the server
  Nothing, Nobody

ASSUME ContentsAssumption ==
  \A c \in Contents : DOMAIN c \subseteq Paths /\ Range(c) \subseteq Blobs
ASSUME FiniteAssumption == IsFiniteSet(Uids) /\ IsFiniteSet(Paths)
ASSUME NamesAssumption ==
  Slots \cap (Uids \cup {"GC"}) = {} /\ Nobody \notin Slots /\ Nothing \notin Contents
ASSUME BoundsAssumption == MaxRequests \in Nat /\ MaxFaults \in Nat /\ MaxCrashes \in Nat

VARIABLES
  acs,    \* tables acs and acs_blob: a stored uid -> its content, or Nothing
  ref,    \* table blobs: ref_count, 0 without a row
  saved,  \* <<acs, ref>> as last committed
  mutex,  \* who is in a transaction
  store,  \* the blobs that have a file in the store
  old,    \* stash directory -> files moved out of the store
  new,    \* stash directory -> files linked from outside or from the store
  made,   \* the stash directories that exist
  job,    \* what each request does
  left, faults, crashes,  \* what the bounds leave
  torn,   \* history: rows without a file after a failure
  swept,  \* history: rows without a file after a shared directory went
  slipped \* history: files that stayed when their row went

tables == <<acs, ref>>
files == <<store, old, new, made>>
bounds == <<left, faults, crashes>>
history == <<torn, swept, slipped>>
vars == <<tables, saved, mutex, files, job, bounds, history>>

Job(op, at, us, to, keep) ==
  [op |-> op, at |-> at, us |-> us, to |-> to, keep |-> keep,
   removed |-> {}, put |-> {}, io |-> FALSE]
Free == Job("none", "idle", {}, Nothing, FALSE)

StashDirs == Slots \cup Uids \cup {"GC"}
(* Mutant: a get shares the directory of the removals. *)
StashDirShared(r) ==
  CASE job[r].op \in {"remove", "get"} -> CHOOSE u \in job[r].us : TRUE
    [] job[r].op = "gc" -> "GC"
    [] OTHER -> r

(* PrepareStashDir: a put or a get has a directory of its own; removals of *)
(* a uid share one, and so do collections.                                 *)
StashDir(r) ==
  CASE job[r].op = "remove" -> CHOOSE u \in job[r].us : TRUE
    [] job[r].op = "gc" -> "GC"
    [] OTHER -> r

Init ==
  /\ acs = [u \in Uids |-> Nothing] /\ ref = [b \in Blobs |-> 0]
  /\ saved = <<acs, ref>> /\ mutex = Nobody
  /\ store = {} /\ old = [d \in StashDirs |-> {}] /\ new = old /\ made = {}
  /\ job = [r \in Slots |-> Free]
  /\ left = MaxRequests /\ faults = MaxFaults /\ crashes = MaxCrashes
  /\ torn = {} /\ swept = {} /\ slipped = {}

-----------------------------------------------------------------------------
(* The tables.                                                             *)

Stored(a) == {u \in Uids : a[u] # Nothing}
Rows(a) == {x \in Stored(a) \X Paths : x[2] \in DOMAIN a[x[1]]}
RowsOf(a, b) == {x \in Rows(a) : a[x[1]][x[2]] = b}
Without(us) == [u \in Uids |-> IF u \in us THEN Nothing ELSE acs[u]]

Monus(m, n) == IF m <= n THEN 0 ELSE m - n
(* Mutants: a row counts twice, and below zero; the rows of a uid count as *)
(* one.                                                                    *)
RefsWithoutTwice(us) ==
  [b \in Blobs |-> ref[b] - 2 * Cardinality({x \in RowsOf(acs, b) : x[1] \in us})]
RefsWithoutOnce(us) ==
  [b \in Blobs |-> Monus(ref[b], Cardinality({x[1] : x \in {y \in RowsOf(acs, b) : y[1] \in us}}))]

(* RemoveBlobs calls PutBlob(-1) for every row, PutUid PutBlob(+1) for     *)
(* every path: a row of blobs goes with its last reference and comes with  *)
(* the first.                                                              *)
RefsWithout(us) ==
  [b \in Blobs |-> Monus(ref[b], Cardinality({x \in RowsOf(acs, b) : x[1] \in us}))]
Gone(us) == {b \in Blobs : ref[b] > 0 /\ RefsWithout(us)[b] = 0}

-----------------------------------------------------------------------------
(* Stash directories.                                                      *)

Move(r, at, removed, put) ==
  job' = [job EXCEPT ![r].at = at, ![r].removed = removed, ![r].put = put]
Go(r, at) == Move(r, at, job[r].removed, job[r].put)
Fail(r) == job' = [job EXCEPT ![r].at = "undo", ![r].io = TRUE]
Answer(r) == job' = [job EXCEPT ![r] = Free]
Discard(d) ==
  /\ old' = [old EXCEPT ![d] = {}] /\ new' = [new EXCEPT ![d] = {}]
  /\ made' = made \ {d}

(* The files that r would put back if it had to. *)
Stashed(r) ==
  IF job[r].at \in {"txn", "undo"} THEN job[r].removed \cap old[StashDir(r)] ELSE {}
Removal(r) == job[r].op \in {"remove", "gc"}

(* The directory goes with whatever is in it, also what another removal    *)
(* has moved there.                                                        *)
CleanupStashDirs(r) ==
  IF Removal(r) /\ job[r].removed = {} THEN UNCHANGED <<old, new, made, swept>>
  ELSE /\ Discard(StashDir(r))
       /\ swept' = swept \cup
            (UNION {Stashed(q) : q \in {q \in Slots \ {r} : StashDir(q) = StashDir(r)}})

Begin(r, op, us, to, keep) ==
  /\ job[r].at = "idle" /\ left > 0
  /\ left' = left - 1
  /\ job' = [job EXCEPT ![r] = Job(op, "ready", us, to, keep)]
  /\ UNCHANGED <<tables, saved, mutex, faults, crashes, history>>

(* PreprocessPut: the files are linked before the transaction. *)
StartPut(r, u, c, keep) ==
  /\ Begin(r, "put", {u}, c, keep)
  /\ new' = [new EXCEPT ![r] = Range(c)] /\ made' = made \cup {r}
  /\ UNCHANGED <<store, old>>
StartGet(r, u) ==
  /\ Begin(r, "get", {u}, Nothing, FALSE)
  /\ made' = made \cup {r}
  /\ UNCHANGED <<store, old, new>>
StartRemove(r, u) == Begin(r, "remove", {u}, Nothing, TRUE) /\ UNCHANGED files
StartGC(r, us) ==
  /\ us # {} /\ us \subseteq Stored(acs)
  /\ Begin(r, "gc", us, Nothing, TRUE)
  /\ UNCHANGED files

-----------------------------------------------------------------------------
(* PutUid.                                                                 *)

Ready(r, op) == job[r].at = "ready" /\ job[r].op = op /\ mutex = Nobody

(* UseOldBlobs: the blobs of a uid that is there are kept. *)
PutKeep(r) ==
  /\ Ready(r, "put") /\ job[r].keep /\ job[r].us \subseteq Stored(acs)
  /\ mutex' = r /\ Go(r, "txn")
  /\ UNCHANGED <<tables, saved, files, bounds, history>>

(* Files of rows that go are moved to the stash, files of rows that come   *)
(* are moved out of it by FsCommit.  A file that is not there is let be;   *)
(* but if the put brings it anew, GetInfo finds that one, and the removal  *)
(* is recorded.                                                            *)
PutTxn(r) ==
  LET us == job[r].us
      c == job[r].to
      removed == Gone(us) \cap (store \cup new[r])
  IN
  /\ Ready(r, "put") /\ ~(job[r].keep /\ us \subseteq Stored(acs))
  /\ mutex' = r
  /\ acs' = [u \in Uids |-> IF u \in us THEN c ELSE acs[u]]
  /\ ref' = [b \in Blobs |-> RefsWithout(us)[b] + Cardinality({p \in DOMAIN c : c[p] = b})]
  /\ store' = store \ removed
  /\ old' = [old EXCEPT ![r] = removed \cap store]
  /\ Move(r, "txn", removed, {b \in Range(c) : RefsWithout(us)[b] = 0})
  /\ UNCHANGED <<saved, new, made, bounds, history>>

(* TTransactionLog::Commit, called before the transaction is committed. *)
PutFsCommit(r) ==
  /\ job[r].op = "put" /\ job[r].at = "txn"
  /\ store' = store \cup job[r].put
  /\ Discard(r) /\ Go(r, "files")
  /\ UNCHANGED <<tables, saved, mutex, bounds, history>>

SqlCommit(r) ==
  /\ mutex = r
  /\ job[r].at = IF job[r].op = "put" THEN "files" ELSE "txn"
  /\ saved' = <<acs, ref>> /\ mutex' = Nobody
  /\ torn' = {b \in torn : ref[b] > 0} \ store
  /\ swept' = {b \in swept : ref[b] > 0} \ store
  /\ IF job[r].op = "put" THEN Answer(r) ELSE Go(r, "tidy")
  /\ UNCHANGED <<tables, files, bounds, slipped>>

-----------------------------------------------------------------------------
(* GetUid: the transaction links the files to the stash, the copy to the   *)
(* destination is made after it.                                           *)

Wanted(r) == UNION {Range(acs[u]) : u \in job[r].us}

GetMiss(r) ==
  /\ Ready(r, "get") /\ ~ job[r].us \subseteq Stored(acs)
  /\ Answer(r) /\ Discard(r)
  /\ UNCHANGED <<tables, saved, mutex, store, bounds, history>>

GetTxn(r) ==
  /\ Ready(r, "get") /\ job[r].us \subseteq Stored(acs) /\ Wanted(r) \subseteq store
  /\ new' = [new EXCEPT ![StashDir(r)] = @ \cup Wanted(r)]
  /\ Move(r, "copy", {}, Wanted(r))
  /\ UNCHANGED <<tables, saved, mutex, store, old, made, bounds, history>>

(* A file is not there: TSystemError. *)
GetFails(r) ==
  /\ Ready(r, "get") /\ job[r].us \subseteq Stored(acs) /\ ~ Wanted(r) \subseteq store
  /\ Fail(r)
  /\ UNCHANGED <<tables, saved, mutex, files, bounds, history>>

GetPost(r) ==
  /\ job[r].at = "copy"
  /\ Discard(StashDir(r)) /\ Answer(r)
  /\ UNCHANGED <<tables, saved, mutex, store, bounds, history>>

-----------------------------------------------------------------------------
(* RemoveUid, and a round of CleanSomethingWithIter.                       *)

Present(r) == job[r].us \cap Stored(acs)

RemoveMiss(r) ==
  /\ Removal(r) /\ Ready(r, job[r].op) /\ Present(r) = {}
  /\ Answer(r)
  /\ UNCHANGED <<tables, saved, mutex, files, bounds, history>>

(* A file that is not there is let be.  CreateStashDirs looks whether the  *)
(* directory is there: if a removal that uses it too then takes it away,   *)
(* the rename that follows fails.                                          *)
RemoveDirs(r) ==
  LET removed == Gone(job[r].us) \cap store IN
  /\ Removal(r) /\ Ready(r, job[r].op) /\ Present(r) # {}
  /\ mutex' = r
  /\ Move(r, "dirs", removed, {})
  /\ made' = IF removed = {} THEN made ELSE made \cup {StashDir(r)}
  /\ UNCHANGED <<tables, saved, store, old, new, bounds, history>>

(* ENOENT is swallowed: the row goes, the file stays. *)
RemoveTxn(r) ==
  LET d == StashDir(r)
      removed == job[r].removed
  IN
  /\ Removal(r) /\ job[r].at = "dirs"
  /\ acs' = Without(job[r].us) /\ ref' = RefsWithout(job[r].us)
  /\ IF d \in made
     THEN store' = store \ removed /\ old' = [old EXCEPT ![d] = @ \cup removed]
          /\ UNCHANGED slipped
     ELSE slipped' = slipped \cup removed /\ UNCHANGED <<store, old>>
  /\ Go(r, "txn")
  /\ UNCHANGED <<saved, mutex, new, made, bounds, torn, swept>>

(* Mutants: the store is tidied too; the stash is left. *)
RemovePostStore(r) ==
  /\ job[r].at = "tidy"
  /\ store' = store \ job[r].removed
  /\ CleanupStashDirs(r) /\ Answer(r)
  /\ UNCHANGED <<tables, saved, mutex, bounds, torn, slipped>>
RemovePostLeaves(r) ==
  /\ job[r].at = "tidy"
  /\ Answer(r)
  /\ UNCHANGED <<tables, saved, mutex, files, bounds, history>>

(* TTransactionLog::Commit, after the transaction and outside the mutex. *)
RemovePost(r) ==
  /\ job[r].at = "tidy"
  /\ CleanupStashDirs(r) /\ Answer(r)
  /\ UNCHANGED <<tables, saved, mutex, store, bounds, torn, slipped>>

-----------------------------------------------------------------------------
(* Failures.                                                               *)

(* What requests have taken from the store and not given back; between the *)
(* commits of files and of SQL it is nowhere any more.                     *)
Held ==
  (UNION {Stashed(r) : r \in Slots}) \cup
  (UNION {job[r].removed : r \in {r \in Slots : job[r].at = "files"}})

(* The server ends and is started again: what was not committed is undone, *)
(* nobody looks at the stash any more.  The next puts and gets find other  *)
(* numbers for their directories.                                          *)
Halt(back, stash) ==
  /\ acs' = saved[1] /\ ref' = saved[2] /\ mutex' = Nobody
  /\ job' = [r \in Slots |-> Free]
  /\ old' = [d \in StashDirs |-> IF d \in Slots THEN {} ELSE stash[d]]
  /\ new' = [d \in StashDirs |-> IF d \in Slots THEN {} ELSE new[d]]
  /\ made' = made \ Slots
  /\ store' = store \cup back
  /\ torn' = torn \cup {b \in Held \ store' : saved[2][b] > 0}
  /\ UNCHANGED <<saved, left, swept, slipped>>
Crash ==
  /\ crashes > 0 /\ crashes' = crashes - 1
  /\ Halt({}, old)
  /\ UNCHANGED faults

(* ROLLBACK, and the mutex is given up; the files are put back later.      *)
(* After FsCommit there is nothing to put back: what was replaced is lost. *)
SqlFails(r) ==
  /\ faults > 0 /\ faults' = faults - 1
  /\ mutex = r /\ job[r].at \in {"txn", "files"}
  /\ acs' = saved[1] /\ ref' = saved[2] /\ mutex' = Nobody
  /\ IF job[r].at = "txn"
     THEN Go(r, "undo") /\ UNCHANGED torn
     ELSE Answer(r) /\ torn' = torn \cup (job[r].removed \ store)
  /\ UNCHANGED <<saved, files, left, crashes, swept, slipped>>

(* A copy fails: in PreprocessPut, or from the stash to the destination. *)
CopyFails(r) ==
  /\ faults > 0 /\ faults' = faults - 1
  /\ job[r].at = IF job[r].op = "put" THEN "ready" ELSE "copy"
  /\ Fail(r)
  /\ UNCHANGED <<tables, saved, mutex, files, left, crashes, history>>

(* TTransactionLog::Rollback, in the destructor of the guard. *)
Undo(r) ==
  /\ job[r].at = "undo" /\ job[r].removed \subseteq old[StashDir(r)]
  /\ store' = store \cup job[r].removed
  /\ CleanupStashDirs(r)
  /\ IF job[r].io THEN Go(r, "failed") ELSE Answer(r)
  /\ UNCHANGED <<tables, saved, mutex, bounds, torn, slipped>>

(* A file is not in the stash, because another removal has taken the       *)
(* directory away or because it never was: RenameBlobs throws after it has *)
(* put some of the others back, and the destructor with it.                *)
UndoFails(r) ==
  /\ job[r].at = "undo" /\ ~ job[r].removed \subseteq old[StashDir(r)]
  /\ \E back \in SUBSET Stashed(r) : Halt(back, [old EXCEPT ![StashDir(r)] = @ \ back])
  /\ UNCHANGED <<faults, crashes>>

(* Put and Get of TACCacheServer remove a uid that made them fail. *)
RemoveOnFailure(r) ==
  /\ job[r].at = "failed"
  /\ job' = [job EXCEPT ![r] = Job("remove", "ready", job[r].us, Nothing, TRUE)]
  /\ UNCHANGED <<tables, saved, mutex, files, bounds, history>>

-----------------------------------------------------------------------------
Start(r) ==
  \/ \E u \in Uids : StartGet(r, u) \/ StartRemove(r, u)
  \/ \E u \in Uids, c \in Contents, keep \in BOOLEAN : StartPut(r, u, c, keep)
  \/ \E us \in SUBSET Uids : StartGC(r, us)
Serve(r) ==
  \/ PutKeep(r) \/ PutTxn(r) \/ PutFsCommit(r) \/ SqlCommit(r)
  \/ GetMiss(r) \/ GetTxn(r) \/ GetFails(r) \/ GetPost(r)
  \/ RemoveMiss(r) \/ RemoveDirs(r) \/ RemoveTxn(r) \/ RemovePost(r)
  \/ Undo(r) \/ UndoFails(r) \/ RemoveOnFailure(r)
Next ==
  \/ \E r \in Slots : Start(r) \/ Serve(r) \/ SqlFails(r) \/ CopyFails(r)
  \/ Crash

Spec == Init /\ [][Next]_vars

-----------------------------------------------------------------------------
Tables == [Uids -> Contents \cup {Nothing}] \X [Blobs -> Nat]
Jobs == [op : {"none", "put", "get", "remove", "gc"},
         at : {"idle", "ready", "txn", "files", "copy", "dirs", "tidy", "undo", "failed"},
         us : SUBSET Uids, to : Contents \cup {Nothing}, keep : BOOLEAN,
         removed : SUBSET Blobs, put : SUBSET Blobs, io : BOOLEAN]
ACStoreTypeOK ==
  /\ <<acs, ref>> \in Tables /\ saved \in Tables
  /\ mutex \in Slots \cup {Nobody}
  /\ store \subseteq Blobs /\ torn \subseteq Blobs /\ swept \subseteq Blobs /\ slipped \subseteq Blobs
  /\ old \in [StashDirs -> SUBSET Blobs] /\ new \in [StashDirs -> SUBSET Blobs]
  /\ made \subseteq StashDirs
  /\ job \in [Slots -> Jobs]
  /\ left \in Nat /\ faults \in Nat /\ crashes \in Nat

(* ref_count is kept beside acs_blob by puts, replacements and removals,   *)
(* also of content that has a blob twice: it is the number of rows.        *)
RefsMatch ==
  /\ \A b \in Blobs : ref[b] = Cardinality(RowsOf(acs, b))
  /\ \A b \in Blobs : saved[2][b] = Cardinality(RowsOf(saved[1], b))

(* A blob that has a committed row has its file in the store, whatever     *)
(* tidies up outside the mutex, or really in the stash of a request that   *)
(* can put it back, or a put is between its two commits.  The exceptions:  *)
(* a kill or a failed COMMIT caught the file outside the store (torn), or  *)
(* a removal that is rolled back finds that another one has taken away the *)
(* stash directory that they share (swept).                                *)
BlobsThere == \A b \in Blobs : saved[2][b] > 0 => b \in store \cup Held \cup torn \cup swept

(* A get that found its uid delivers all its files, also of a uid that is  *)
(* removed or replaced before they are copied.                             *)
GotWhole ==
  \A r \in Slots : job[r].at = "copy" => job[r].put \subseteq new[StashDir(r)]

(* Without failures nothing is left on the disk that no row accounts for,  *)
(* except for files whose removal met a directory that was being removed:  *)
(* nothing will ever remove those.                                         *)
NothingLeft ==
  (\A r \in Slots : job[r] = Free) /\ faults = MaxFaults /\ crashes = MaxCrashes =>
    /\ store \subseteq {b \in Blobs : ref[b] > 0} \cup slipped
    /\ \A d \in StashDirs : old[d] = {} /\ new[d] = {}
=============================================================================
