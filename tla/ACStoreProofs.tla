---------------------------- MODULE ACStoreProofs ----------------------------
(* The counts of references are the numbers of rows, no committed row is   *)
(* without its file, a get delivers whole, and nothing is left behind:     *)
(* proved for all uids, blobs and requests.                                *)
EXTENDS ACStore, FiniteSetTheorems, TLAPS

Ats == {"idle", "ready", "txn", "files", "copy", "dirs", "tidy", "undo", "failed"}

LEMMA JobTyped ==
  ASSUME NEW op \in {"none", "put", "get", "remove", "gc"}, NEW at \in Ats,
         NEW us \in SUBSET Uids, NEW to \in Contents \cup {Nothing}, NEW keep \in BOOLEAN
  PROVE  Job(op, at, us, to, keep) \in Jobs
BY DEF Job, Jobs, Ats

LEMMA FreeTyped == Free \in Jobs
BY JobTyped DEF Free, Ats

(* What each way of changing a job does to it. *)
LEMMA MoveDoes ==
  ASSUME job \in [Slots -> Jobs], NEW r \in Slots, NEW at \in Ats,
         NEW removed \in SUBSET Blobs, NEW put \in SUBSET Blobs, Move(r, at, removed, put)
  PROVE  /\ job' \in [Slots -> Jobs]
         /\ \A q \in Slots \ {r} : job'[q] = job[q]
         /\ job'[r].op = job[r].op /\ job'[r].us = job[r].us /\ job'[r].to = job[r].to
         /\ job'[r].io = job[r].io /\ job'[r].at = at /\ job'[r].removed = removed /\ job'[r].put = put
<1>1. job[r] \in Jobs
  OBVIOUS
<1>2. job' = [job EXCEPT ![r] = [job[r] EXCEPT !.at = at, !.removed = removed, !.put = put]]
  BY DEF Move
<1>3. [job[r] EXCEPT !.at = at, !.removed = removed, !.put = put] \in Jobs
  BY <1>1 DEF Jobs, Ats
<1>4. /\ job' \in [Slots -> Jobs]
      /\ \A q \in Slots \ {r} : job'[q] = job[q]
      /\ job'[r] = [job[r] EXCEPT !.at = at, !.removed = removed, !.put = put]
  BY <1>2, <1>3
<1> QED
  BY <1>1, <1>4 DEF Jobs

LEMMA GoDoes ==
  ASSUME job \in [Slots -> Jobs], NEW r \in Slots, NEW at \in Ats, Go(r, at)
  PROVE  /\ job' \in [Slots -> Jobs]
         /\ \A q \in Slots \ {r} : job'[q] = job[q]
         /\ job'[r].op = job[r].op /\ job'[r].us = job[r].us /\ job'[r].to = job[r].to
         /\ job'[r].io = job[r].io /\ job'[r].at = at /\ job'[r].removed = job[r].removed /\ job'[r].put = job[r].put
<1>1. job[r] \in Jobs
  OBVIOUS
<1>2. job[r].removed \in SUBSET Blobs /\ job[r].put \in SUBSET Blobs
  BY <1>1 DEF Jobs
<1> QED
  BY <1>2, MoveDoes DEF Go

LEMMA FailDoes ==
  ASSUME job \in [Slots -> Jobs], NEW r \in Slots, Fail(r)
  PROVE  /\ job' \in [Slots -> Jobs]
         /\ \A q \in Slots \ {r} : job'[q] = job[q]
         /\ job'[r].op = job[r].op /\ job'[r].us = job[r].us /\ job'[r].to = job[r].to
         /\ job'[r].at = "undo" /\ job'[r].removed = job[r].removed /\ job'[r].put = job[r].put
<1>1. job[r] \in Jobs
  OBVIOUS
<1>2. job' = [job EXCEPT ![r] = [job[r] EXCEPT !.at = "undo", !.io = TRUE]]
  BY DEF Fail
<1>3. [job[r] EXCEPT !.at = "undo", !.io = TRUE] \in Jobs
  BY <1>1 DEF Jobs
<1>4. /\ job' \in [Slots -> Jobs]
      /\ \A q \in Slots \ {r} : job'[q] = job[q]
      /\ job'[r] = [job[r] EXCEPT !.at = "undo", !.io = TRUE]
  BY <1>2, <1>3
<1> QED
  BY <1>1, <1>4 DEF Jobs

LEMMA NewJob ==
  ASSUME job \in [Slots -> Jobs], NEW r \in Slots, NEW J \in Jobs,
         job' = [job EXCEPT ![r] = J]
  PROVE  /\ job' \in [Slots -> Jobs]
         /\ \A q \in Slots \ {r} : job'[q] = job[q]
         /\ job'[r] = J
OBVIOUS

LEMMA AnswerDoes ==
  ASSUME job \in [Slots -> Jobs], NEW r \in Slots, Answer(r)
  PROVE  /\ job' \in [Slots -> Jobs]
         /\ \A q \in Slots \ {r} : job'[q] = job[q]
         /\ job'[r] = Free
BY NewJob, FreeTyped DEF Answer

LEMMA DiscardDoes ==
  ASSUME NEW d \in StashDirs, Discard(d),
         old \in [StashDirs -> SUBSET Blobs], new \in [StashDirs -> SUBSET Blobs],
         made \subseteq StashDirs
  PROVE  /\ old' \in [StashDirs -> SUBSET Blobs] /\ new' \in [StashDirs -> SUBSET Blobs]
         /\ made' \subseteq StashDirs
         /\ \A e \in StashDirs \ {d} : old'[e] = old[e] /\ new'[e] = new[e]
BY DEF Discard

LEMMA CountsTyped ==
  ASSUME acs \in [Uids -> Contents \cup {Nothing}], ref \in [Blobs -> Nat], NEW us
  PROVE  RefsWithout(us) \in [Blobs -> Nat]
<1>1. IsFiniteSet(Uids \X Paths)
  BY FiniteAssumption, FS_Product
<1>2. ASSUME NEW b \in Blobs
      PROVE  Cardinality({x \in RowsOf(acs, b) : x[1] \in us}) \in Nat
  <2>1. {x \in RowsOf(acs, b) : x[1] \in us} \in SUBSET (Uids \X Paths)
    BY DEF RowsOf, Rows, Stored
  <2> QED
    BY ONLY <1>1, <2>1, FS_Subset, FS_CardinalityType
<1> QED
  BY <1>2 DEF RefsWithout, Monus

LEMMA ContentTyped ==
  ASSUME NEW c \in Contents, NEW b
  PROVE  /\ IsFiniteSet({p \in DOMAIN c : c[p] = b})
         /\ Cardinality({p \in DOMAIN c : c[p] = b}) \in Nat
<1>1. {p \in DOMAIN c : c[p] = b} \in SUBSET Paths
  BY ContentsAssumption
<1> QED
  BY ONLY <1>1, FiniteAssumption, FS_Subset, FS_CardinalityType

(* What a job holds, by what it is doing.                                  *)
JobOK(r) ==
  /\ job[r].op \in {"put", "get", "remove"} => \E u \in Uids : job[r].us = {u}
  /\ job[r].op = "put" => job[r].to \in Contents
  /\ job[r].op \in {"remove", "gc"} => job[r].put = {}
  /\ job[r].at = "ready" => job[r].put = {} /\ job[r].removed = {}
  /\ job[r].at = "copy" => job[r].op = "get"
  /\ job[r].at = "txn" => job[r].op \in {"put", "remove", "gc"}
  /\ job[r].io \/ job[r].at = "failed" => job[r].op \in {"put", "get"}
  /\ job[r].at = "dirs" => job[r].op \in {"remove", "gc"} /\ job[r].removed \subseteq Gone(job[r].us)
  /\ job[r].at = "files" => job[r].put \subseteq store
  /\ job[r].at \in {"dirs", "txn", "files"} <=> mutex = r
JobsOK == \A r \in Slots : JobOK(r)

LEMMA DirTyped ==
  ASSUME ACStoreTypeOK, NEW r \in Slots, JobOK(r)
  PROVE  StashDir(r) \in StashDirs
BY DEF StashDir, StashDirs, JobOK

LEMMA StashedTyped ==
  ASSUME ACStoreTypeOK, NEW r \in Slots
  PROVE  Stashed(r) \subseteq Blobs
<1>1. job[r].removed \subseteq Blobs
  BY DEF ACStoreTypeOK, Jobs
<1> QED
  BY <1>1 DEF Stashed

(* What a request has taken from the store: until a put has committed its  *)
(* files, it can put back what is in its stash.                            *)
Out(r) == IF job[r].at = "files" THEN job[r].removed ELSE Stashed(r)

LEMMA HeldOut ==
  ASSUME NEW b
  PROVE  b \in Held <=> \E r \in Slots : b \in Out(r)
<1>1. b \in Held <=> \/ \E r \in Slots : b \in Stashed(r)
                     \/ \E r \in Slots : job[r].at = "files" /\ b \in job[r].removed
  BY Zenon DEF Held
<1>2. \A r \in Slots : job[r].at = "files" => Stashed(r) = {}
  BY DEF Stashed
<1> QED
  BY <1>1, <1>2 DEF Out

LEMMA CleanupDoes ==
  ASSUME ACStoreTypeOK, NEW r \in Slots, JobOK(r), CleanupStashDirs(r)
  PROVE  /\ old' \in [StashDirs -> SUBSET Blobs] /\ new' \in [StashDirs -> SUBSET Blobs]
         /\ made' \subseteq StashDirs /\ swept' \subseteq Blobs
<1>1. CASE UNCHANGED <<old, new, made, swept>>
  BY <1>1 DEF ACStoreTypeOK
<1>2. CASE ~UNCHANGED <<old, new, made, swept>>
  <2>1. Discard(StashDir(r)) /\ StashDir(r) \in StashDirs
    BY <1>2, DirTyped DEF CleanupStashDirs
  <2>2. UNION {Stashed(q) : q \in {q \in Slots \ {r} : StashDir(q) = StashDir(r)}} \subseteq Blobs
    BY StashedTyped
  <2>3. swept' \subseteq Blobs
    BY <1>2, <2>2 DEF CleanupStashDirs, ACStoreTypeOK
  <2> QED
    BY <2>1, <2>3, DiscardDoes DEF ACStoreTypeOK
<1> QED
  BY <1>1, <1>2

LEMMA InitTyped == Init => ACStoreTypeOK
BY FreeTyped, BoundsAssumption
   DEF Init, ACStoreTypeOK, Tables, StashDirs

LEMMA StartTyped ==
  ASSUME ACStoreTypeOK, NEW r \in Slots, Start(r)
  PROVE  ACStoreTypeOK'
<1> USE DEF ACStoreTypeOK, tables, bounds, history, files
<1>1. ASSUME NEW op \in {"put", "get", "remove", "gc"}, NEW us \in SUBSET Uids,
             NEW to \in Contents \cup {Nothing}, NEW keep \in BOOLEAN,
             Begin(r, op, us, to, keep)
      PROVE  /\ job' \in [Slots -> Jobs] /\ left' \in Nat
             /\ UNCHANGED <<tables, saved, mutex, faults, crashes, history>>
  <2>1. Job(op, "ready", us, to, keep) \in Jobs
    BY JobTyped DEF Ats
  <2> QED
    BY <1>1, <2>1, NewJob DEF Begin
<1>2. ASSUME NEW u \in Uids, StartGet(r, u) PROVE ACStoreTypeOK'
  BY <1>1, <1>2 DEF StartGet, StashDirs
<1>3. ASSUME NEW u \in Uids, StartRemove(r, u) PROVE ACStoreTypeOK'
  BY <1>1, <1>3 DEF StartRemove, StashDirs
<1>4. ASSUME NEW u \in Uids, NEW c \in Contents, NEW keep \in BOOLEAN, StartPut(r, u, c, keep)
      PROVE ACStoreTypeOK'
  <2>1. Range(c) \in SUBSET Blobs /\ r \in StashDirs
    BY ContentsAssumption DEF StashDirs
  <2>2. Begin(r, "put", {u}, c, keep) /\ {u} \in SUBSET Uids /\ c \in Contents \cup {Nothing}
    BY <1>4 DEF StartPut
  <2>3. /\ job' \in [Slots -> Jobs] /\ left' \in Nat
        /\ UNCHANGED <<tables, saved, mutex, faults, crashes, history>>
    BY <1>1, <2>2
  <2> QED
    BY <1>4, <2>1, <2>3 DEF StartPut
<1>5. ASSUME NEW us \in SUBSET Uids, StartGC(r, us) PROVE ACStoreTypeOK'
  BY <1>1, <1>5 DEF StartGC, StashDirs
<1> QED
  BY <1>2, <1>3, <1>4, <1>5 DEF Start

LEMMA PutTyped ==
  ASSUME ACStoreTypeOK, NEW r \in Slots, JobOK(r),
         PutKeep(r) \/ PutTxn(r) \/ PutFsCommit(r) \/ SqlCommit(r)
  PROVE  ACStoreTypeOK'
<1> USE DEF ACStoreTypeOK, tables, bounds, history, files
<1>0. r \in StashDirs /\ "txn" \in Ats /\ "files" \in Ats /\ "tidy" \in Ats
  BY DEF StashDirs, Ats
<1>1. CASE PutKeep(r)
  BY <1>0, <1>1, GoDoes DEF PutKeep
<1>2. CASE PutTxn(r)
  <2> DEFINE us == job[r].us
             c == job[r].to
             removed == Gone(us) \cap (store \cup new[r])
             put == {b \in Range(c) : RefsWithout(us)[b] = 0}
  <2>1. c \in Contents /\ removed \in SUBSET Blobs /\ put \in SUBSET Blobs
    BY <1>2, ContentsAssumption DEF PutTxn, Ready, JobOK, Gone
  <2>2. Move(r, "txn", removed, put)
    BY <1>2 DEF PutTxn
  <2>3. job' \in [Slots -> Jobs]
    BY <1>0, <2>1, <2>2, MoveDoes
  <2>4. acs' \in [Uids -> Contents \cup {Nothing}]
    BY <1>2, <2>1 DEF PutTxn, Tables
  <2>5. ref' \in [Blobs -> Nat]
    <3>1. RefsWithout(us) \in [Blobs -> Nat]
      BY CountsTyped DEF Tables
    <3>2. ref' = [b \in Blobs |-> RefsWithout(us)[b] + Cardinality({p \in DOMAIN c : c[p] = b})]
      BY <1>2 DEF PutTxn
    <3>3. ASSUME NEW b \in Blobs
          PROVE  Cardinality({p \in DOMAIN c : c[p] = b}) \in Nat
      BY <2>1, ContentTyped
    <3> QED
      BY ONLY <3>1, <3>2, <3>3
  <2>6. store' \subseteq Blobs /\ old' \in [StashDirs -> SUBSET Blobs]
    BY <1>0, <1>2, <2>1 DEF PutTxn
  <2> QED
    BY <1>2, <2>3, <2>4, <2>5, <2>6 DEF PutTxn, Tables
<1>3. CASE PutFsCommit(r)
  <2>1. job' \in [Slots -> Jobs] /\ job[r].put \in SUBSET Blobs
    BY <1>0, <1>3, GoDoes DEF PutFsCommit, Jobs
  <2> QED
    BY <1>0, <1>3, <2>1, DiscardDoes DEF PutFsCommit
<1>4. CASE SqlCommit(r)
  <2>1. job' \in [Slots -> Jobs]
    BY <1>0, <1>4, GoDoes, AnswerDoes DEF SqlCommit
  <2> QED
    BY <1>4, <2>1 DEF SqlCommit
<1> QED
  BY <1>1, <1>2, <1>3, <1>4

LEMMA GetTyped ==
  ASSUME ACStoreTypeOK, NEW r \in Slots, JobOK(r),
         GetMiss(r) \/ GetTxn(r) \/ GetFails(r) \/ GetPost(r)
  PROVE  ACStoreTypeOK'
<1> USE DEF ACStoreTypeOK, tables, bounds, history, files
<1>0. r \in StashDirs /\ StashDir(r) \in StashDirs /\ "copy" \in Ats
  BY DirTyped DEF StashDirs, Ats
<1>1. CASE GetMiss(r)
  BY <1>0, <1>1, AnswerDoes, DiscardDoes DEF GetMiss
<1>2. CASE GetTxn(r)
  <2>1. Wanted(r) \in SUBSET Blobs /\ {} \in SUBSET Blobs
    BY <1>2 DEF GetTxn
  <2>2. job' \in [Slots -> Jobs]
    BY <1>0, <1>2, <2>1, MoveDoes DEF GetTxn
  <2> QED
    BY <1>0, <1>2, <2>1, <2>2 DEF GetTxn
<1>3. CASE GetFails(r)
  BY <1>3, FailDoes DEF GetFails
<1>4. CASE GetPost(r)
  BY <1>0, <1>4, AnswerDoes, DiscardDoes DEF GetPost
<1> QED
  BY <1>1, <1>2, <1>3, <1>4

LEMMA RemoveTyped ==
  ASSUME ACStoreTypeOK, NEW r \in Slots, JobOK(r),
         RemoveMiss(r) \/ RemoveDirs(r) \/ RemoveTxn(r) \/ RemovePost(r)
  PROVE  ACStoreTypeOK'
<1> USE DEF ACStoreTypeOK, tables, bounds, history, files
<1>0. r \in StashDirs /\ StashDir(r) \in StashDirs /\ "dirs" \in Ats /\ "txn" \in Ats
  BY DirTyped DEF StashDirs, Ats
<1>1. CASE RemoveMiss(r)
  BY <1>1, AnswerDoes DEF RemoveMiss
<1>2. CASE RemoveDirs(r)
  <2> DEFINE removed == Gone(job[r].us) \cap store
  <2>1. removed \in SUBSET Blobs /\ {} \in SUBSET Blobs
    OBVIOUS
  <2>2. job' \in [Slots -> Jobs]
    BY <1>0, <1>2, <2>1, MoveDoes DEF RemoveDirs
  <2> QED
    BY <1>0, <1>2, <2>2 DEF RemoveDirs
<1>3. CASE RemoveTxn(r)
  <2>1. job' \in [Slots -> Jobs]
    BY <1>0, <1>3, GoDoes DEF RemoveTxn
  <2>2. job[r].removed \in SUBSET Blobs
    BY DEF Jobs
  <2>3. ref' \in [Blobs -> Nat]
    BY <1>3, CountsTyped DEF RemoveTxn, Tables
  <2>4. acs' \in [Uids -> Contents \cup {Nothing}]
    BY <1>3 DEF RemoveTxn, Without, Tables
  <2>5. /\ store' \subseteq Blobs /\ slipped' \subseteq Blobs
        /\ old' \in [StashDirs -> SUBSET Blobs]
    BY <1>0, <1>3, <2>2 DEF RemoveTxn
  <2> QED
    BY <1>3, <2>1, <2>3, <2>4, <2>5 DEF RemoveTxn, Tables
<1>4. CASE RemovePost(r)
  BY <1>0, <1>4, AnswerDoes, CleanupDoes DEF RemovePost
<1> QED
  BY <1>1, <1>2, <1>3, <1>4

LEMMA HaltTyped ==
  ASSUME ACStoreTypeOK, NEW back \in SUBSET Blobs, NEW stash \in [StashDirs -> SUBSET Blobs],
         Halt(back, stash), faults' \in Nat, crashes' \in Nat
  PROVE  ACStoreTypeOK'
<1>1. job' \in [Slots -> Jobs]
  BY FreeTyped DEF Halt
<1>2. <<acs', ref'>> \in Tables /\ saved' \in Tables
  BY DEF Halt, ACStoreTypeOK, Tables
<1>3. Held \subseteq Blobs
  <2>1. \A r \in Slots : Stashed(r) \subseteq Blobs /\ job[r].removed \subseteq Blobs
    BY StashedTyped DEF ACStoreTypeOK, Jobs
  <2> QED
    BY <2>1, HeldOut DEF Out
<1>4. store' \subseteq Blobs /\ torn' \subseteq Blobs
  BY <1>3 DEF Halt, ACStoreTypeOK
<1>5. old' \in [StashDirs -> SUBSET Blobs] /\ new' \in [StashDirs -> SUBSET Blobs]
  BY DEF Halt, ACStoreTypeOK
<1> QED
  BY <1>1, <1>2, <1>4, <1>5 DEF Halt, ACStoreTypeOK

LEMMA FailureTyped ==
  ASSUME ACStoreTypeOK, NEW r \in Slots, JobOK(r),
         SqlFails(r) \/ CopyFails(r) \/ Undo(r) \/ UndoFails(r) \/ RemoveOnFailure(r)
  PROVE  ACStoreTypeOK'
<1> USE DEF ACStoreTypeOK, tables, bounds, history, files
<1>0. r \in StashDirs /\ StashDir(r) \in StashDirs /\ "undo" \in Ats /\ "failed" \in Ats
  BY DirTyped DEF StashDirs, Ats
<1>a. job[r].removed \in SUBSET Blobs /\ job[r].us \in SUBSET Uids
  BY DEF Jobs
<1>1. CASE SqlFails(r)
  <2>1. job' \in [Slots -> Jobs] /\ torn' \subseteq Blobs
    BY <1>0, <1>a, <1>1, GoDoes, AnswerDoes DEF SqlFails
  <2>2. <<acs', ref'>> \in Tables
    BY <1>1 DEF SqlFails, Tables
  <2> QED
    BY <1>1, <2>1, <2>2 DEF SqlFails
<1>2. CASE CopyFails(r)
  BY <1>2, FailDoes DEF CopyFails
<1>3. CASE Undo(r)
  <2>1. job' \in [Slots -> Jobs]
    BY <1>0, <1>3, GoDoes, AnswerDoes DEF Undo
  <2>2. /\ old' \in [StashDirs -> SUBSET Blobs] /\ new' \in [StashDirs -> SUBSET Blobs]
        /\ made' \subseteq StashDirs /\ swept' \subseteq Blobs
    BY <1>3, CleanupDoes DEF Undo
  <2> QED
    BY <1>a, <1>3, <2>1, <2>2 DEF Undo
<1>4. CASE UndoFails(r)
  <2>1. Stashed(r) \subseteq Blobs /\ faults' \in Nat /\ crashes' \in Nat
    BY <1>4, StashedTyped DEF UndoFails
  <2>2. PICK back \in SUBSET Blobs : Halt(back, [old EXCEPT ![StashDir(r)] = @ \ back])
    BY <1>4, <2>1 DEF UndoFails
  <2>3. PICK stash \in [StashDirs -> SUBSET Blobs] :
          stash = [old EXCEPT ![StashDir(r)] = @ \ back]
    BY <1>0
  <2>4. Halt(back, stash)
    BY ONLY <2>2, <2>3
  <2> QED
    BY <2>1, <2>4, HaltTyped
<1>5. CASE RemoveOnFailure(r)
  <2>1. Job("remove", "ready", job[r].us, Nothing, TRUE) \in Jobs
    BY <1>a, JobTyped DEF Ats
  <2> QED
    BY <1>5, <2>1, NewJob DEF RemoveOnFailure
<1> QED
  BY <1>1, <1>2, <1>3, <1>4, <1>5

LEMMA CrashTyped ==
  ASSUME ACStoreTypeOK, Crash
  PROVE  ACStoreTypeOK'
<1>1. PICK stash \in [StashDirs -> SUBSET Blobs] : stash = old
  BY DEF ACStoreTypeOK
<1>2. Halt({}, old) /\ faults' \in Nat /\ crashes' \in Nat
  BY DEF Crash, ACStoreTypeOK
<1>3. Halt({}, stash)
  BY ONLY <1>1, <1>2
<1> QED
  BY <1>2, <1>3, HaltTyped

LEMMA StepTyped ==
  ASSUME ACStoreTypeOK, JobsOK, [Next]_vars
  PROVE  ACStoreTypeOK'
<1>1. CASE UNCHANGED vars
  BY <1>1 DEF vars, tables, files, bounds, history, ACStoreTypeOK
<1>2. CASE Crash
  BY <1>2, CrashTyped
<1>3. ASSUME NEW r \in Slots, Start(r) \/ Serve(r) \/ SqlFails(r) \/ CopyFails(r)
      PROVE  ACStoreTypeOK'
  <2>1. JobOK(r)
    BY DEF JobsOK
  <2> QED
    BY <1>3, <2>1, StartTyped, PutTyped, GetTyped, RemoveTyped, FailureTyped DEF Serve
<1> QED
  BY <1>1, <1>2, <1>3 DEF Next

-----------------------------------------------------------------------------
(* What the jobs hold is right.                                            *)

LEMMA GoneSame ==
  ASSUME UNCHANGED <<acs, ref>>
  PROVE  \A us : Gone(us)' = Gone(us)
BY DEF Gone, RefsWithout, RowsOf, Rows, Stored

(* A job does not disturb the others: only who is in a transaction changes *)
(* the tables or takes files from the store.                               *)
LEMMA OthersOK ==
  ASSUME JobsOK, NEW r \in Slots, \A q \in Slots \ {r} : job'[q] = job[q],
         mutex' = mutex \/ {mutex, mutex'} \subseteq {r, Nobody},
         UNCHANGED <<acs, ref>> \/ mutex \in {r, Nobody},
         store \subseteq store' \/ mutex \in {r, Nobody},
         JobOK(r)'
  PROVE  JobsOK'
<1>1. ASSUME NEW q \in Slots \ {r} PROVE JobOK(q)'
  <2>1. job'[q] = job[q] /\ JobOK(q) /\ q # Nobody /\ q # r
    BY NamesAssumption DEF JobsOK
  <2>2. mutex' = q <=> mutex = q
    BY <2>1
  <2>3. job[q].at = "dirs" => UNCHANGED <<acs, ref>>
    BY <2>1 DEF JobOK
  <2>4. job[q].at = "files" => store \subseteq store'
    BY <2>1 DEF JobOK
  <2>5. job[q].at = "dirs" => Gone(job[q].us)' = Gone(job[q].us)
    BY <2>1, <2>3, GoneSame
  <2> QED
    BY <2>1, <2>2, <2>4, <2>5 DEF JobOK
<1> QED
  BY <1>1 DEF JobsOK

LEMMA FreeOK ==
  /\ Free.op = "none" /\ Free.at = "idle" /\ Free.put = {} /\ Free.removed = {}
  /\ Free.us = {} /\ Free.io = FALSE
BY DEF Free, Job

LEMMA StartOK ==
  ASSUME ACStoreTypeOK, JobsOK, NEW r \in Slots, Start(r) \/ RemoveOnFailure(r)
  PROVE  JobsOK'
<1>1. ASSUME NEW op \in {"put", "get", "remove", "gc"}, NEW us \in SUBSET Uids,
             NEW to \in Contents \cup {Nothing}, NEW keep \in BOOLEAN,
             op \in {"put", "get", "remove"} => \E u \in Uids : us = {u},
             op = "put" => to \in Contents,
             job[r].at \in {"idle", "failed"},
             job' = [job EXCEPT ![r] = Job(op, "ready", us, to, keep)],
             UNCHANGED <<tables, mutex>>, store' = store
      PROVE  JobsOK'
  <2> DEFINE J == Job(op, "ready", us, to, keep)
  <2>1. J \in Jobs
    BY JobTyped DEF Ats
  <2>2. \A q \in Slots \ {r} : job'[q] = job[q]
    BY <1>1, <2>1, NewJob DEF ACStoreTypeOK
  <2>3. job'[r] = J
    BY <1>1, <2>1, NewJob DEF ACStoreTypeOK
  <2>4. J.op = op /\ J.at = "ready" /\ J.us = us /\ J.to = to /\ J.put = {} /\ J.removed = {}
        /\ J.io = FALSE
    BY DEF Job
  <2>5. mutex # r
    BY <1>1 DEF JobsOK, JobOK
  <2>6. JobOK(r)'
    BY <1>1, <2>3, <2>4, <2>5 DEF JobOK
  <2> QED
    BY <1>1, <2>2, <2>6, OthersOK DEF tables
<1>2. CASE Start(r)
  <2>1. ASSUME NEW u \in Uids, StartGet(r, u) PROVE JobsOK'
    BY <1>1, <2>1 DEF StartGet, Begin
  <2>2. ASSUME NEW u \in Uids, StartRemove(r, u) PROVE JobsOK'
    BY <1>1, <2>2 DEF StartRemove, Begin, files
  <2>3. ASSUME NEW u \in Uids, NEW c \in Contents, NEW keep \in BOOLEAN, StartPut(r, u, c, keep)
        PROVE JobsOK'
    BY <1>1, <2>3 DEF StartPut, Begin
  <2>4. ASSUME NEW us \in SUBSET Uids, StartGC(r, us) PROVE JobsOK'
    BY <1>1, <2>4 DEF StartGC, Begin, files
  <2> QED
    BY <1>2, <2>1, <2>2, <2>3, <2>4 DEF Start
<1>3. CASE RemoveOnFailure(r)
  <2>1. job[r].us \in SUBSET Uids
    BY DEF ACStoreTypeOK, Jobs
  <2>2. \E u \in Uids : job[r].us = {u}
    BY <1>3 DEF RemoveOnFailure, JobsOK, JobOK
  <2> QED
    BY <1>1, <1>3, <2>1, <2>2 DEF RemoveOnFailure, files
<1> QED
  BY <1>2, <1>3

LEMMA PutOK ==
  ASSUME ACStoreTypeOK, JobsOK, NEW r \in Slots,
         PutKeep(r) \/ PutTxn(r) \/ PutFsCommit(r) \/ SqlCommit(r)
  PROVE  JobsOK'
<1> USE DEF tables, files
<1>0. /\ job \in [Slots -> Jobs] /\ JobOK(r) /\ r # Nobody
      /\ "txn" \in Ats /\ "files" \in Ats /\ "tidy" \in Ats
  BY NamesAssumption DEF ACStoreTypeOK, JobsOK, Ats
<1>1. CASE PutKeep(r)
  <2>1. JobOK(r)'
    BY <1>0, <1>1, GoDoes DEF PutKeep, Ready, JobOK
  <2> QED
    BY <1>0, <1>1, <2>1, GoDoes, OthersOK DEF PutKeep, Ready
<1>2. CASE PutTxn(r)
  <2> DEFINE us == job[r].us
             removed == Gone(us) \cap (store \cup new[r])
             put == {b \in Range(job[r].to) : RefsWithout(us)[b] = 0}
  <2>1. removed \in SUBSET Blobs /\ put \in SUBSET Blobs
    BY <1>2, ContentsAssumption DEF PutTxn, Ready, JobsOK, JobOK, Gone
  <2>2. Move(r, "txn", removed, put)
    BY <1>2 DEF PutTxn
  <2>3. JobOK(r)'
    BY <1>0, <1>2, <2>1, <2>2, MoveDoes DEF PutTxn, Ready, JobOK
  <2> QED
    BY <1>0, <1>2, <2>1, <2>2, <2>3, MoveDoes, OthersOK DEF PutTxn, Ready
<1>3. CASE PutFsCommit(r)
  <2>1. JobOK(r)'
    BY <1>0, <1>3, GoDoes DEF PutFsCommit, JobOK
  <2>2. mutex = r
    BY <1>0, <1>3 DEF PutFsCommit, JobOK
  <2> QED
    BY <1>0, <1>3, <2>1, <2>2, GoDoes, OthersOK DEF PutFsCommit
<1>4. CASE SqlCommit(r)
  <2>1. JobOK(r)'
    BY <1>0, <1>4, GoDoes, AnswerDoes, FreeOK DEF SqlCommit, JobOK
  <2> QED
    BY <1>0, <1>4, <2>1, GoDoes, AnswerDoes, OthersOK DEF SqlCommit
<1> QED
  BY <1>1, <1>2, <1>3, <1>4

LEMMA GetOK ==
  ASSUME ACStoreTypeOK, JobsOK, NEW r \in Slots,
         GetMiss(r) \/ GetTxn(r) \/ GetFails(r) \/ GetPost(r)
  PROVE  JobsOK'
<1> USE DEF tables, files
<1>0. /\ job \in [Slots -> Jobs] /\ JobOK(r) /\ r # Nobody /\ "copy" \in Ats
      /\ store \in SUBSET Blobs /\ {} \in SUBSET Blobs
  BY NamesAssumption DEF ACStoreTypeOK, JobsOK, Ats
<1>1. CASE GetMiss(r)
  <2>1. JobOK(r)'
    BY <1>0, <1>1, AnswerDoes, FreeOK DEF GetMiss, Ready, JobOK
  <2> QED
    BY <1>0, <1>1, <2>1, AnswerDoes, OthersOK DEF GetMiss, Ready
<1>2. CASE GetTxn(r)
  <2>1. Wanted(r) \in SUBSET Blobs /\ Move(r, "copy", {}, Wanted(r))
    BY <1>0, <1>2 DEF GetTxn
  <2>2. JobOK(r)'
    BY <1>0, <1>2, <2>1, MoveDoes DEF GetTxn, Ready, JobOK
  <2> QED
    BY <1>0, <1>2, <2>1, <2>2, MoveDoes, OthersOK DEF GetTxn, Ready
<1>3. CASE GetFails(r)
  <2>1. JobOK(r)'
    BY <1>0, <1>3, FailDoes DEF GetFails, Ready, JobOK
  <2> QED
    BY <1>0, <1>3, <2>1, FailDoes, OthersOK DEF GetFails, Ready
<1>4. CASE GetPost(r)
  <2>1. JobOK(r)'
    BY <1>0, <1>4, AnswerDoes, FreeOK DEF GetPost, JobOK
  <2> QED
    BY <1>0, <1>4, <2>1, AnswerDoes, OthersOK DEF GetPost
<1> QED
  BY <1>1, <1>2, <1>3, <1>4

LEMMA RemoveOK ==
  ASSUME ACStoreTypeOK, JobsOK, NEW r \in Slots,
         RemoveMiss(r) \/ RemoveDirs(r) \/ RemoveTxn(r) \/ RemovePost(r)
  PROVE  JobsOK'
<1> USE DEF tables, files
<1>0. /\ job \in [Slots -> Jobs] /\ JobOK(r) /\ r # Nobody
      /\ "dirs" \in Ats /\ "txn" \in Ats
      /\ store \in SUBSET Blobs /\ {} \in SUBSET Blobs
  BY NamesAssumption DEF ACStoreTypeOK, JobsOK, Ats
<1>1. CASE RemoveMiss(r)
  <2>1. JobOK(r)'
    BY <1>0, <1>1, AnswerDoes, FreeOK DEF RemoveMiss, Ready, JobOK
  <2> QED
    BY <1>0, <1>1, <2>1, AnswerDoes, OthersOK DEF RemoveMiss, Ready
<1>2. CASE RemoveDirs(r)
  <2> DEFINE removed == Gone(job[r].us) \cap store
  <2>1. removed \in SUBSET Blobs /\ Move(r, "dirs", removed, {})
    BY <1>0, <1>2 DEF RemoveDirs
  <2>2. /\ job'[r].op = job[r].op /\ job'[r].us = job[r].us /\ job'[r].to = job[r].to
        /\ job'[r].io = job[r].io /\ job'[r].at = "dirs" /\ job'[r].removed = removed
        /\ job'[r].put = {}
    BY ONLY <1>0, <2>1, MoveDoes
  <2>3. Gone(job[r].us)' = Gone(job[r].us)
    BY <1>2, <2>2, GoneSame DEF RemoveDirs
  <2>4. JobOK(r)'
    BY <1>0, <1>2, <2>2, <2>3 DEF RemoveDirs, Ready, Removal, JobOK
  <2> QED
    BY <1>0, <1>2, <2>1, <2>4, MoveDoes, OthersOK DEF RemoveDirs, Ready
<1>3. CASE RemoveTxn(r)
  <2>1. mutex = r
    BY <1>0, <1>3 DEF RemoveTxn, JobOK
  <2>2. JobOK(r)'
    BY <1>0, <1>3, GoDoes DEF RemoveTxn, Removal, JobOK
  <2> QED
    BY <1>0, <1>3, <2>1, <2>2, GoDoes, OthersOK DEF RemoveTxn
<1>4. CASE RemovePost(r)
  <2>1. JobOK(r)'
    BY <1>0, <1>4, AnswerDoes, FreeOK DEF RemovePost, JobOK
  <2> QED
    BY <1>0, <1>4, <2>1, AnswerDoes, OthersOK DEF RemovePost
<1> QED
  BY <1>1, <1>2, <1>3, <1>4

LEMMA HaltOK ==
  ASSUME NEW back, NEW stash, Halt(back, stash)
  PROVE  JobsOK'
BY FreeOK, NamesAssumption DEF Halt, JobsOK, JobOK

LEMMA FailureOK ==
  ASSUME ACStoreTypeOK, JobsOK, NEW r \in Slots,
         SqlFails(r) \/ CopyFails(r) \/ Undo(r) \/ UndoFails(r)
  PROVE  JobsOK'
<1> USE DEF tables, files
<1>0. /\ job \in [Slots -> Jobs] /\ JobOK(r) /\ r # Nobody
      /\ "undo" \in Ats /\ "failed" \in Ats
  BY NamesAssumption DEF ACStoreTypeOK, JobsOK, Ats
<1>1. CASE SqlFails(r)
  <2>1. JobOK(r)'
    BY <1>0, <1>1, GoDoes, AnswerDoes, FreeOK DEF SqlFails, JobOK
  <2> QED
    BY <1>0, <1>1, <2>1, GoDoes, AnswerDoes, OthersOK DEF SqlFails
<1>2. CASE CopyFails(r)
  <2>1. JobOK(r)'
    BY <1>0, <1>2, FailDoes DEF CopyFails, JobOK
  <2> QED
    BY <1>0, <1>2, <2>1, FailDoes, OthersOK DEF CopyFails
<1>3. CASE Undo(r)
  <2>1. JobOK(r)'
    BY <1>0, <1>3, GoDoes, AnswerDoes, FreeOK DEF Undo, JobOK
  <2> QED
    BY <1>0, <1>3, <2>1, GoDoes, AnswerDoes, OthersOK DEF Undo
<1>4. CASE UndoFails(r)
  <2>1. \E back, stash : Halt(back, stash)
    BY <1>4 DEF UndoFails
  <2> QED
    BY <2>1, HaltOK
<1> QED
  BY <1>1, <1>2, <1>3, <1>4

LEMMA StepOK ==
  ASSUME ACStoreTypeOK, JobsOK, [Next]_vars
  PROVE  JobsOK'
<1>1. CASE UNCHANGED vars
  <2>1. \A us : Gone(us)' = Gone(us)
    BY <1>1, GoneSame DEF vars, tables
  <2> QED
    BY <1>1, <2>1 DEF vars, tables, files, bounds, history, JobsOK, JobOK
<1>2. CASE Crash
  <2>1. \E back, stash : Halt(back, stash)
    BY <1>2 DEF Crash
  <2> QED
    BY <2>1, HaltOK
<1> QED
  BY <1>1, <1>2, StartOK, PutOK, GetOK, RemoveOK, FailureOK DEF Next, Serve

-----------------------------------------------------------------------------
(* No committed row is without its file.  The rows of the transaction that *)
(* is open have theirs, too, but for the files that it will bring: that is *)
(* what makes its COMMIT safe whatever the others do to the store.         *)

Kept(b) ==
  \/ b \in store \cup torn \cup swept
  \/ \E q \in Slots : job[q].at = "undo" /\ b \in Stashed(q)
CommittedKept ==
  \A b \in Blobs : saved[2][b] > 0 => Kept(b) \/ \E q \in Slots : mutex = q /\ b \in Out(q)
WorkingKept ==
  \A b \in Blobs : ref[b] > 0 => Kept(b) \/ \E q \in Slots : mutex = q /\ b \in job[q].put
AllKept == CommittedKept /\ WorkingKept

(* The directory of a put or a get is its own. *)
LEMMA OwnDir ==
  ASSUME ACStoreTypeOK, JobsOK, NEW r \in Slots
  PROVE  /\ \A q \in Slots \ {r} : StashDir(r) # q
         /\ job[r].op = "get" => StashDir(r) = r
<1>1. CASE job[r].op = "remove"
  <2>1. PICK u \in Uids : job[r].us = {u}
    BY <1>1 DEF JobsOK, JobOK
  <2> QED
    BY <1>1, <2>1, NamesAssumption DEF StashDir
<1>2. CASE job[r].op = "gc"
  BY <1>2, NamesAssumption DEF StashDir
<1>3. CASE job[r].op \notin {"remove", "gc"}
  BY <1>3 DEF StashDir
<1> QED
  BY <1>1, <1>2, <1>3

(* The others can still put back what they could, or it was swept away.    *)
LEMMA OthersStash ==
  ASSUME ACStoreTypeOK, JobsOK, NEW r \in Slots, \A q \in Slots \ {r} : job'[q] = job[q],
         \/ \A d \in StashDirs \ {r} : old[d] \subseteq old'[d]
         \/ CleanupStashDirs(r),
         NEW q \in Slots \ {r}
  PROVE  Stashed(q) \subseteq Stashed(q)' \cup swept' /\ Out(q) \subseteq Out(q)' \cup swept'
<1>1. PICK d \in StashDirs \ {r} : d = StashDir(q)
  BY OwnDir, DirTyped DEF JobsOK
<1>2. job'[q] = job[q] /\ d = StashDir(q)'
  BY <1>1 DEF StashDir
<1>3. old[d] \subseteq old'[d] \/ Stashed(q) \subseteq swept'
  <2>1. CASE CleanupStashDirs(r)
    <3>1. CASE UNCHANGED old
      BY <3>1
    <3>2. CASE Discard(StashDir(r)) /\ d # StashDir(r)
      BY <1>1, <3>2 DEF Discard, ACStoreTypeOK
    <3>3. CASE d = StashDir(r) /\ ~UNCHANGED old
      BY <1>1, <2>1, <3>3 DEF CleanupStashDirs
    <3> QED
      BY <2>1, <3>1, <3>2, <3>3 DEF CleanupStashDirs
  <2> QED
    BY <2>1
<1>4. Stashed(q) \subseteq Stashed(q)' \cup swept'
  BY <1>1, <1>2, <1>3 DEF Stashed
<1> QED
  BY <1>2, <1>4 DEF Out

LEMMA KeptGrows ==
  ASSUME store \subseteq store', torn \subseteq torn', swept \subseteq swept',
         \A q \in Slots : job[q].at = "undo" =>
            \/ Stashed(q) \subseteq store'
            \/ job'[q].at = "undo" /\ Stashed(q) \subseteq Stashed(q)' \cup swept'
  PROVE  \A b : Kept(b) => Kept(b)'
BY DEF Kept

(* A step that leaves the tables alone, adds to the store and keeps what   *)
(* the transaction holds.                                                  *)
LEMMA QuietStep ==
  ASSUME AllKept, store \subseteq store', torn \subseteq torn', swept \subseteq swept',
         UNCHANGED <<ref, saved>>,
         \A q \in Slots : job[q].at = "undo" =>
            \/ Stashed(q) \subseteq store'
            \/ job'[q].at = "undo" /\ Stashed(q) \subseteq Stashed(q)' \cup swept',
         \A q \in Slots : mutex = q =>
            mutex' = q /\ Out(q) \subseteq Out(q)' \cup swept' /\ job'[q].put = job[q].put
  PROVE  AllKept'
<1>1. \A b : Kept(b) => Kept(b)'
  BY KeptGrows
<1>2. ASSUME NEW b \in Blobs, saved'[2][b] > 0
      PROVE  Kept(b)' \/ \E q \in Slots : mutex' = q /\ b \in Out(q)'
  <2>1. Kept(b) \/ \E q \in Slots : mutex = q /\ b \in Out(q)
    BY <1>2 DEF AllKept, CommittedKept
  <2>2. b \in swept' => Kept(b)'
    BY DEF Kept
  <2> QED
    BY <1>1, <2>1, <2>2
<1>3. ASSUME NEW b \in Blobs, ref'[b] > 0
      PROVE  Kept(b)' \/ \E q \in Slots : mutex' = q /\ b \in job'[q].put
  <2>1. Kept(b) \/ \E q \in Slots : mutex = q /\ b \in job[q].put
    BY <1>3 DEF AllKept, WorkingKept
  <2> QED
    BY <1>1, <2>1
<1> QED
  BY <1>2, <1>3 DEF AllKept, CommittedKept, WorkingKept

(* A step of r outside its transaction: r takes nothing from the store,    *)
(* and discards at most its own directory or sweeps one away.              *)
LEMMA OutsideStep ==
  ASSUME ACStoreTypeOK, JobsOK, AllKept, NEW r \in Slots,
         \A q \in Slots \ {r} : job'[q] = job[q],
         \/ \A d \in StashDirs \ {r} : old[d] \subseteq old'[d]
         \/ CleanupStashDirs(r),
         mutex # r, mutex' = mutex \/ mutex = Nobody,
         store \subseteq store', swept \subseteq swept', UNCHANGED <<torn, ref, saved>>,
         job[r].at = "undo" => Stashed(r) \subseteq store'
  PROVE  AllKept'
<1>1. \A q \in Slots \ {r} :
        Stashed(q) \subseteq Stashed(q)' \cup swept' /\ Out(q) \subseteq Out(q)' \cup swept'
  BY OthersStash
<1>2. \A q \in Slots : mutex = q => q # r /\ mutex' = q
  BY NamesAssumption
<1> QED
  BY <1>1, <1>2, QuietStep

LEMMA StartKept ==
  ASSUME ACStoreTypeOK, JobsOK, AllKept, NEW r \in Slots, Start(r) \/ RemoveOnFailure(r)
  PROVE  AllKept'
<1>1. /\ job[r].at \in {"idle", "failed"} /\ store' = store /\ old' = old
      /\ UNCHANGED <<torn, swept, ref, saved, mutex>>
      /\ \E J : job' = [job EXCEPT ![r] = J]
  BY DEF Start, StartGet, StartRemove, StartPut, StartGC, RemoveOnFailure, Begin,
         tables, files, bounds, history
<1>2. \A q \in Slots \ {r} : job'[q] = job[q]
  BY <1>1 DEF ACStoreTypeOK
<1>3. mutex # r
  BY <1>1 DEF JobsOK, JobOK
<1> QED
  BY <1>1, <1>2, <1>3, OutsideStep

LEMMA PutKept ==
  ASSUME ACStoreTypeOK, JobsOK, AllKept, NEW r \in Slots,
         PutKeep(r) \/ PutTxn(r) \/ PutFsCommit(r) \/ SqlCommit(r)
  PROVE  AllKept'
<1> USE DEF tables, files, history
<1>0. /\ job \in [Slots -> Jobs] /\ JobOK(r) /\ Nobody \notin Slots
      /\ old \in [StashDirs -> SUBSET Blobs] /\ r \in StashDirs /\ store \in SUBSET Blobs
      /\ "txn" \in Ats /\ "files" \in Ats /\ "tidy" \in Ats
  BY NamesAssumption DEF ACStoreTypeOK, JobsOK, Ats, StashDirs
<1>1. CASE PutKeep(r)
  <2>1. /\ job[r].at = "ready" /\ mutex = Nobody
        /\ UNCHANGED <<store, old, torn, swept, ref, saved>>
    BY <1>1 DEF PutKeep, Ready
  <2>2. \A q \in Slots \ {r} : job'[q] = job[q]
    BY <1>0, <1>1, GoDoes DEF PutKeep
  <2> QED
    BY <1>0, <2>1, <2>2, OutsideStep
<1>2. CASE PutTxn(r)
  <2> DEFINE us == job[r].us
             c == job[r].to
             removed == Gone(us) \cap (store \cup new[r])
             put == {b \in Range(c) : RefsWithout(us)[b] = 0}
  <2>1. c \in Contents /\ removed \in SUBSET Blobs /\ put \in SUBSET Blobs
    BY <1>0, <1>2, ContentsAssumption DEF PutTxn, Ready, JobOK, Gone
  <2>2. /\ \A q \in Slots \ {r} : job'[q] = job[q]
        /\ job'[r].at = "txn" /\ job'[r].removed = removed /\ job'[r].put = put
        /\ job'[r].op = job[r].op
    <3>1. Move(r, "txn", removed, put)
      BY <1>2 DEF PutTxn
    <3>2. ASSUME NEW old1 \in SUBSET Blobs, NEW new1 \in SUBSET Blobs,
                 Move(r, "txn", old1, new1)
          PROVE  /\ \A q \in Slots \ {r} : job'[q] = job[q]
                 /\ job'[r].at = "txn" /\ job'[r].removed = old1 /\ job'[r].put = new1
                 /\ job'[r].op = job[r].op
      BY <1>0, <3>2, MoveDoes
    <3> HIDE DEF removed, put
    <3> QED
      BY ONLY <2>1, <3>1, <3>2
  <2>3. /\ mutex = Nobody /\ mutex' = r /\ store' = store \ removed
        /\ old' = [old EXCEPT ![r] = removed \cap store]
        /\ UNCHANGED <<torn, swept, saved>> /\ job[r].at = "ready" /\ job[r].op = "put"
        /\ ref' = [b \in Blobs |-> RefsWithout(us)[b] + Cardinality({p \in DOMAIN c : c[p] = b})]
    BY <1>2 DEF PutTxn, Ready
  <2>4. \A b : Kept(b) => Kept(b)' \/ b \in removed \cap store
    <3>1. \A q \in Slots \ {r} : Stashed(q) \subseteq Stashed(q)' \cup swept'
      <4>1. \A d \in StashDirs \ {r} : old[d] \subseteq old'[d]
        BY <1>0, <2>3
      <4> QED
        BY <2>2, <4>1, OthersStash
    <3> HIDE DEF removed
    <3> QED
      BY <2>2, <2>3, <3>1 DEF Kept
  <2>a. Out(r)' = removed \cap store
    <3>1. StashDir(r)' = r /\ job'[r].at = "txn"
      BY <2>2, <2>3 DEF StashDir
    <3>2. old'[r] = removed \cap store /\ job'[r].removed = removed
      BY <1>0, <2>2, <2>3
    <3> HIDE DEF removed
    <3> QED
      BY <3>1, <3>2 DEF Out, Stashed
  <2>5. ASSUME NEW b \in Blobs, saved'[2][b] > 0
        PROVE  Kept(b)' \/ b \in Out(r)'
    <3>1. Kept(b)
      BY <1>0, <2>3, <2>5 DEF AllKept, CommittedKept
    <3>2. Kept(b)' \/ b \in removed \cap store
      BY ONLY <2>4, <3>1
    <3> QED
      BY ONLY <2>a, <3>2
  <2>6. ASSUME NEW b \in Blobs, ref'[b] > 0
        PROVE  Kept(b)' \/ b \in job'[r].put
    <3>1. CASE RefsWithout(us)[b] = 0
      <4>1. Cardinality({p \in DOMAIN c : c[p] = b}) > 0
        <5>1. Cardinality({p \in DOMAIN c : c[p] = b}) \in Nat
          BY <2>1, ContentTyped
        <5>2. ref'[b] = RefsWithout(us)[b] + Cardinality({p \in DOMAIN c : c[p] = b})
          BY ONLY <2>3, b \in Blobs
        <5> QED
          BY <2>6, <3>1, <5>1, <5>2
      <4>2. {p \in DOMAIN c : c[p] = b} # {}
        BY <4>1, FS_EmptySet
      <4> QED
        BY <2>2, <3>1, <4>2 DEF Range
    <3>2. CASE RefsWithout(us)[b] # 0
      <4>1. ref[b] \in Nat /\ b \notin removed
        BY <3>2 DEF ACStoreTypeOK, Tables, Gone
      <4>2. Cardinality({x \in RowsOf(acs, b) : x[1] \in us}) \in Nat
        <5>1. {x \in RowsOf(acs, b) : x[1] \in us} \in SUBSET (Uids \X Paths)
          BY DEF RowsOf, Rows, Stored
        <5> QED
          BY ONLY <5>1, FiniteAssumption, FS_Product, FS_Subset, FS_CardinalityType
      <4>3. ref[b] > 0
        <5>1. RefsWithout(us)[b] = Monus(ref[b], Cardinality({x \in RowsOf(acs, b) : x[1] \in us}))
          BY DEF RefsWithout
        <5> QED
          BY <3>2, <4>1, <4>2, <5>1 DEF Monus
      <4>4. Kept(b)
        BY <1>0, <2>3, <4>3 DEF AllKept, WorkingKept
      <4> QED
        BY ONLY <2>4, <4>1, <4>4
    <3> QED
      BY <3>1, <3>2
  <2> QED
    BY <2>3, <2>5, <2>6 DEF AllKept, CommittedKept, WorkingKept
<1>3. CASE PutFsCommit(r)
  <2>1. /\ \A q \in Slots \ {r} : job'[q] = job[q]
        /\ job'[r].at = "files" /\ job'[r].removed = job[r].removed /\ job'[r].put = job[r].put
    BY <1>0, <1>3, GoDoes DEF PutFsCommit
  <2>2. /\ job[r].at = "txn" /\ store \subseteq store' /\ Discard(r)
        /\ UNCHANGED <<torn, swept, ref, saved, mutex>>
    BY <1>3 DEF PutFsCommit
  <2>3. \A q \in Slots \ {r} :
          Stashed(q) \subseteq Stashed(q)' \cup swept' /\ Out(q) \subseteq Out(q)' \cup swept'
    <3>1. \A d \in StashDirs \ {r} : old[d] \subseteq old'[d]
      BY <1>0, <2>2 DEF Discard
    <3> QED
      BY <2>1, <3>1, OthersStash
  <2>4. Out(r) \subseteq Out(r)'
    BY <2>1, <2>2 DEF Out, Stashed
  <2>5. \A q \in Slots : job[q].at = "undo" =>
          job'[q].at = "undo" /\ Stashed(q) \subseteq Stashed(q)' \cup swept'
    BY <2>1, <2>2, <2>3
  <2>6. \A q \in Slots : mutex = q =>
          mutex' = q /\ Out(q) \subseteq Out(q)' \cup swept' /\ job'[q].put = job[q].put
    BY <2>1, <2>2, <2>3, <2>4
  <2> QED
    BY <2>2, <2>5, <2>6, QuietStep
<1>4. CASE SqlCommit(r)
  <2>1. /\ mutex = r /\ mutex' = Nobody /\ saved' = <<acs, ref>> /\ UNCHANGED <<ref, store, old>>
        /\ torn' = {b \in torn : ref[b] > 0} \ store
        /\ swept' = {b \in swept : ref[b] > 0} \ store
        /\ job[r].at \in {"files", "txn"}
    BY <1>4 DEF SqlCommit
  <2>2. \A q \in Slots \ {r} : job'[q] = job[q]
    BY <1>0, <1>4, GoDoes, AnswerDoes DEF SqlCommit
  <2>3. job[r].put \subseteq store
    <3>1. CASE job[r].op = "put"
      BY <1>0, <1>4, <3>1 DEF SqlCommit, JobOK
    <3>2. CASE job[r].op # "put"
      BY <1>0, <1>4, <3>2 DEF SqlCommit, JobOK
    <3> QED
      BY <3>1, <3>2
  <2>4. ASSUME NEW b \in Blobs, ref[b] > 0 PROVE Kept(b)'
    <3>1. Kept(b) \/ b \in job[r].put
      BY <1>0, <2>1, <2>4 DEF AllKept, WorkingKept
    <3>2. b \in store \cup torn \cup swept => b \in store' \cup torn' \cup swept'
      BY <2>1, <2>4
    <3>3. ASSUME NEW q \in Slots, job[q].at = "undo", b \in Stashed(q) PROVE Kept(b)'
      <4>1. q # r /\ job'[q] = job[q] /\ old' = old
        BY <2>1, <2>2, <3>3
      <4>2. Stashed(q)' = Stashed(q)
        BY <4>1 DEF Stashed, StashDir
      <4> QED
        BY <3>3, <4>1, <4>2 DEF Kept
    <3> QED
      BY <2>3, <3>1, <3>2, <3>3, <2>1 DEF Kept
  <2>5. saved'[2] = ref /\ ref' = ref
    BY <2>1
  <2> QED
    BY <2>4, <2>5 DEF AllKept, CommittedKept, WorkingKept
<1> QED
  BY <1>1, <1>2, <1>3, <1>4

LEMMA GetKept ==
  ASSUME ACStoreTypeOK, JobsOK, AllKept, NEW r \in Slots,
         GetMiss(r) \/ GetTxn(r) \/ GetFails(r) \/ GetPost(r)
  PROVE  AllKept'
<1> USE DEF tables, files, history
<1>0. /\ job \in [Slots -> Jobs] /\ JobOK(r) /\ Nobody \notin Slots /\ "copy" \in Ats
      /\ store \in SUBSET Blobs /\ {} \in SUBSET Blobs /\ old \in [StashDirs -> SUBSET Blobs]
  BY NamesAssumption DEF ACStoreTypeOK, JobsOK, Ats
<1>1. /\ UNCHANGED <<store, torn, swept, ref, saved, mutex>>
      /\ job[r].at \in {"ready", "copy"} /\ job[r].op = "get"
  BY <1>0 DEF GetMiss, GetTxn, GetFails, GetPost, Ready, JobOK
<1>2. \A q \in Slots \ {r} : job'[q] = job[q]
  <2>1. CASE GetTxn(r)
    <3>1. Wanted(r) \in SUBSET Blobs /\ Move(r, "copy", {}, Wanted(r))
      BY <1>0, <2>1 DEF GetTxn
    <3> QED
      BY <1>0, <3>1, MoveDoes
  <2>2. CASE GetMiss(r) \/ GetFails(r) \/ GetPost(r)
    BY <1>0, <2>2, FailDoes, AnswerDoes DEF GetMiss, GetFails, GetPost
  <2> QED
    BY <2>1, <2>2
<1>3. mutex # r
  BY <1>0, <1>1 DEF JobOK
<1>4. \A d \in StashDirs \ {r} : old[d] \subseteq old'[d]
  <2>1. StashDir(r) = r
    BY <1>1, OwnDir
  <2>2. old' = old \/ Discard(r)
    BY <2>1 DEF GetMiss, GetTxn, GetFails, GetPost
  <2> QED
    BY <1>0, <2>2 DEF Discard
<1> QED
  BY <1>1, <1>2, <1>3, <1>4, OutsideStep

LEMMA RemoveKept ==
  ASSUME ACStoreTypeOK, JobsOK, AllKept, NEW r \in Slots,
         RemoveMiss(r) \/ RemoveDirs(r) \/ RemoveTxn(r) \/ RemovePost(r)
  PROVE  AllKept'
<1> USE DEF tables, files, history
<1>0. /\ job \in [Slots -> Jobs] /\ JobOK(r) /\ Nobody \notin Slots
      /\ "dirs" \in Ats /\ "txn" \in Ats
      /\ store \in SUBSET Blobs /\ {} \in SUBSET Blobs
      /\ old \in [StashDirs -> SUBSET Blobs]
  BY NamesAssumption DEF ACStoreTypeOK, JobsOK, Ats
<1>1. CASE RemoveMiss(r) \/ RemovePost(r)
  <2>1. /\ UNCHANGED <<store, torn, ref, saved, mutex>> /\ swept \subseteq swept'
        /\ job[r].at \in {"ready", "tidy"} /\ Answer(r)
        /\ old' = old \/ CleanupStashDirs(r)
    BY <1>1 DEF RemoveMiss, RemovePost, Ready, CleanupStashDirs
  <2>2. \A q \in Slots \ {r} : job'[q] = job[q]
    BY <1>0, <2>1, AnswerDoes
  <2>3. mutex # r
    BY <1>0, <2>1 DEF JobOK
  <2> QED
    BY <2>1, <2>2, <2>3, OutsideStep
<1>2. CASE RemoveDirs(r)
  <2>1. Move(r, "dirs", Gone(job[r].us) \cap store, {})
    BY <1>2 DEF RemoveDirs
  <2>2. \A q \in Slots \ {r} : job'[q] = job[q]
    BY <1>0, <2>1, MoveDoes
  <2>3. /\ UNCHANGED <<store, old, torn, swept, ref, saved>> /\ mutex = Nobody
        /\ job[r].at = "ready"
    BY <1>2 DEF RemoveDirs, Ready
  <2> QED
    BY <1>0, <2>2, <2>3, OutsideStep
<1>3. CASE RemoveTxn(r)
  <2>0. PICK d \in StashDirs : d = StashDir(r)
    BY <1>0, DirTyped
  <2>1. /\ \A q \in Slots \ {r} : job'[q] = job[q]
        /\ job'[r].removed = job[r].removed /\ job'[r].put = job[r].put
        /\ job'[r].at = "txn" /\ job'[r].op = job[r].op /\ job'[r].us = job[r].us
    BY <1>0, <1>3, GoDoes DEF RemoveTxn
  <2>2. /\ mutex = r /\ mutex' = r /\ job[r].at = "dirs" /\ job[r].put = {}
        /\ job[r].removed \subseteq Gone(job[r].us)
    BY <1>0, <1>3 DEF RemoveTxn, Removal, JobOK
  <2>3. /\ UNCHANGED <<torn, swept, saved>>
        /\ ref' = RefsWithout(job[r].us)
        /\ \/ store' = store \ job[r].removed /\ old' = [old EXCEPT ![d] = @ \cup job[r].removed]
           \/ UNCHANGED <<store, old>>
    BY <1>3, <2>0 DEF RemoveTxn
  <2>a. StashDir(r)' = d /\ Out(r) = {}
    BY <2>0, <2>1, <2>2 DEF StashDir, Out, Stashed
  <2>4. ASSUME NEW b, Kept(b) PROVE Kept(b)' \/ (b \in job[r].removed /\ b \in Out(r)')
    <3>1. CASE b \in store /\ b \in job[r].removed /\ b \notin store'
      <4>1. old'[d] = old[d] \cup job[r].removed
        BY <1>0, <2>3, <3>1
      <4>2. Out(r)' = job[r].removed
        BY <2>1, <2>a, <4>1 DEF Out, Stashed
      <4> QED
        BY <3>1, <4>2
    <3>2. CASE b \in store \cup torn \cup swept /\ b \in store' \cup torn' \cup swept'
      BY <3>2 DEF Kept
    <3>3. ASSUME NEW q \in Slots, job[q].at = "undo", b \in Stashed(q) PROVE Kept(b)'
      <4>1. q # r /\ job'[q] = job[q]
        BY <2>1, <2>2, <3>3
      <4>2. \A e \in StashDirs : old[e] \subseteq old'[e]
        BY <1>0, <2>3
      <4>3. Stashed(q) \subseteq Stashed(q)' \cup swept'
        BY <2>1, <4>1, <4>2, OthersStash
      <4> QED
        BY <3>3, <4>1, <4>3 DEF Kept
    <3> QED
      BY <2>3, <2>4, <3>1, <3>2, <3>3 DEF Kept
  <2>5. ASSUME NEW b \in Blobs, saved'[2][b] > 0
        PROVE  Kept(b)' \/ b \in Out(r)'
    <3>1. Kept(b)
      BY <2>2, <2>3, <2>5, <2>a DEF AllKept, CommittedKept
    <3> QED
      BY <2>4, <3>1
  <2>6. ASSUME NEW b \in Blobs, ref'[b] > 0
        PROVE  Kept(b)'
    <3>1. ref[b] \in Nat /\ RefsWithout(job[r].us)[b] > 0
      BY <2>3, <2>6 DEF ACStoreTypeOK, Tables
    <3>2. b \notin job[r].removed
      BY <2>2, <3>1 DEF Gone
    <3>3. Cardinality({x \in RowsOf(acs, b) : x[1] \in job[r].us}) \in Nat
      <4>1. {x \in RowsOf(acs, b) : x[1] \in job[r].us} \in SUBSET (Uids \X Paths)
        BY DEF RowsOf, Rows, Stored
      <4> QED
        BY ONLY <4>1, FiniteAssumption, FS_Product, FS_Subset, FS_CardinalityType
    <3>4. RefsWithout(job[r].us)[b] = Monus(ref[b], Cardinality({x \in RowsOf(acs, b) : x[1] \in job[r].us}))
      BY DEF RefsWithout
    <3>5. ref[b] > 0
      BY <3>1, <3>3, <3>4 DEF Monus
    <3>6. Kept(b)
      BY <2>2, <3>5 DEF AllKept, WorkingKept
    <3> QED
      BY <2>4, <3>2, <3>6
  <2> QED
    BY <2>2, <2>5, <2>6 DEF AllKept, CommittedKept, WorkingKept
<1> QED
  BY <1>1, <1>2, <1>3

LEMMA HaltKept ==
  ASSUME AllKept, NEW back, NEW stash, Halt(back, stash)
  PROVE  AllKept'
<1>1. /\ store \subseteq store' /\ swept' = swept /\ saved' = saved /\ ref' = saved[2]
      /\ torn' = torn \cup {b \in Held \ store' : saved[2][b] > 0}
  BY DEF Halt
<1>2. ASSUME NEW b \in Blobs, saved[2][b] > 0 PROVE Kept(b)'
  <2>1. b \in store \cup torn \cup swept \/ b \in Held
    <3>1. ASSUME NEW q \in Slots, job[q].at = "undo", b \in Stashed(q) PROVE b \in Out(q)
      BY <3>1 DEF Out
    <3> QED
      BY <1>2, <3>1, HeldOut DEF AllKept, CommittedKept, Kept
  <2>2. b \in store' \cup torn' \cup swept'
    BY <1>1, <1>2, <2>1
  <2> QED
    BY <2>2 DEF Kept
<1> QED
  BY <1>1, <1>2 DEF AllKept, CommittedKept, WorkingKept

LEMMA FailureKept ==
  ASSUME ACStoreTypeOK, JobsOK, AllKept, NEW r \in Slots,
         SqlFails(r) \/ CopyFails(r) \/ Undo(r) \/ UndoFails(r)
  PROVE  AllKept'
<1> USE DEF tables, files, history
<1>0. /\ job \in [Slots -> Jobs] /\ JobOK(r) /\ Nobody \notin Slots
      /\ "undo" \in Ats /\ "failed" \in Ats
  BY NamesAssumption DEF ACStoreTypeOK, JobsOK, Ats
<1>1. CASE SqlFails(r)
  <2>1. /\ mutex = r /\ mutex' = Nobody /\ UNCHANGED <<saved, store, old, swept>>
        /\ ref' = saved[2] /\ job[r].at \in {"txn", "files"} /\ torn \subseteq torn'
    BY <1>1 DEF SqlFails
  <2>2. \A q \in Slots \ {r} : job'[q] = job[q]
    BY <1>0, <1>1, GoDoes, AnswerDoes DEF SqlFails
  <2>3. \A q \in Slots : job[q].at = "undo" =>
          job'[q].at = "undo" /\ Stashed(q) \subseteq Stashed(q)' \cup swept'
    <3>1. \A q \in Slots \ {r} : Stashed(q) \subseteq Stashed(q)' \cup swept'
      BY <2>1, <2>2, OthersStash
    <3> QED
      BY <2>1, <2>2, <3>1
  <2>4. ASSUME NEW b \in Out(r) PROVE Kept(b)'
    <3>1. CASE job[r].at = "txn"
      <4>1. /\ job'[r].at = "undo" /\ job'[r].op = job[r].op /\ job'[r].us = job[r].us
            /\ job'[r].removed = job[r].removed
        BY <1>0, <1>1, <3>1, GoDoes DEF SqlFails
      <4>2. Stashed(r)' = Stashed(r)
        BY <2>1, <3>1, <4>1 DEF Stashed, StashDir
      <4> QED
        BY <2>4, <3>1, <4>1, <4>2 DEF Out, Kept
    <3>2. CASE job[r].at = "files"
      BY <1>1, <2>4, <3>2 DEF SqlFails, Kept, Out
    <3> QED
      BY <2>1, <3>1, <3>2
  <2>5. ASSUME NEW b \in Blobs, saved[2][b] > 0 PROVE Kept(b)'
    <3>1. Kept(b) \/ b \in Out(r)
      BY <2>1, <2>5 DEF AllKept, CommittedKept
    <3>2. Kept(b) => Kept(b)'
      BY <2>1, <2>3, KeptGrows
    <3> QED
      BY <2>4, <3>1, <3>2
  <2> QED
    BY <2>1, <2>5 DEF AllKept, CommittedKept, WorkingKept
<1>2. CASE CopyFails(r)
  <2>1. /\ UNCHANGED <<store, old, torn, swept, ref, saved, mutex>>
        /\ job[r].at \in {"ready", "copy"}
    BY <1>2 DEF CopyFails
  <2>2. \A q \in Slots \ {r} : job'[q] = job[q]
    BY <1>0, <1>2, FailDoes DEF CopyFails
  <2>3. mutex # r
    BY <1>0, <2>1 DEF JobOK
  <2> QED
    BY <2>1, <2>2, <2>3, OutsideStep
<1>3. CASE Undo(r)
  <2>1. /\ UNCHANGED <<torn, ref, saved, mutex>> /\ swept \subseteq swept'
        /\ job[r].at = "undo" /\ store' = store \cup job[r].removed
        /\ CleanupStashDirs(r)
    BY <1>3 DEF Undo, CleanupStashDirs
  <2>2. \A q \in Slots \ {r} : job'[q] = job[q]
    BY <1>0, <1>3, GoDoes, AnswerDoes DEF Undo
  <2>3. mutex # r
    BY <1>0, <2>1 DEF JobOK
  <2>4. Stashed(r) \subseteq store'
    BY <2>1 DEF Stashed
  <2> QED
    BY <2>1, <2>2, <2>3, <2>4, OutsideStep
<1>4. CASE UndoFails(r)
  <2>1. \E back, stash : Halt(back, stash)
    BY <1>4 DEF UndoFails
  <2> QED
    BY <2>1, HaltKept
<1> QED
  BY <1>1, <1>2, <1>3, <1>4

LEMMA StepKept ==
  ASSUME ACStoreTypeOK, JobsOK, AllKept, [Next]_vars
  PROVE  AllKept'
<1>1. CASE UNCHANGED vars
  <2>1. UNCHANGED <<store, torn, swept, ref, saved, mutex, job, old>>
    BY <1>1 DEF vars, tables, files, bounds, history
  <2>2. \A q : Stashed(q)' = Stashed(q) /\ Out(q)' = Out(q)
    BY <2>1 DEF Out, Stashed, StashDir
  <2> QED
    BY <2>1, <2>2, QuietStep
<1>2. CASE Crash
  <2>1. \E back, stash : Halt(back, stash)
    BY <1>2 DEF Crash
  <2> QED
    BY <2>1, HaltKept
<1> QED
  BY <1>1, <1>2, StartKept, PutKept, GetKept, RemoveKept, FailureKept DEF Next, Serve

(* ACStoreTypeOK: every variable keeps its type.                           *)
THEOREM TypeCorrect == Spec => []ACStoreTypeOK
<1>1. Init => ACStoreTypeOK /\ JobsOK
  <2>1. Init => JobsOK
    BY FreeOK, NamesAssumption DEF Init, JobsOK, JobOK
  <2> QED
    BY <2>1, InitTyped
<1>2. ACStoreTypeOK /\ JobsOK /\ [Next]_vars => (ACStoreTypeOK /\ JobsOK)'
  BY StepTyped, StepOK
<1> QED
  BY <1>1, <1>2, PTL DEF Spec

(* BlobsThere: every blob with a committed row has its file in the store,  *)
(* or in the stash directory of a request that can put it back, or a put   *)
(* is between its two commits; unless a kill or a failed COMMIT caught the *)
(* file outside the store, or another removal took away the directory that *)
(* two of them share; whatever removals, puts and gets of any uids         *)
(* interleave.                                                             *)
THEOREM BlobsThereAlways == Spec => []BlobsThere
<1> DEFINE IInv == ACStoreTypeOK /\ JobsOK /\ AllKept
<1>1. Init => IInv
  <2>1. Init => JobsOK
    BY FreeOK, NamesAssumption DEF Init, JobsOK, JobOK
  <2>2. Init => AllKept
    BY DEF Init, AllKept, CommittedKept, WorkingKept
  <2> QED
    BY <2>1, <2>2, InitTyped
<1>2. IInv /\ [Next]_vars => IInv'
  BY StepTyped, StepOK, StepKept
<1>3. IInv => BlobsThere
  <2>1. ASSUME NEW q \in Slots, job[q].at = "undo" PROVE Out(q) = Stashed(q)
    BY <2>1 DEF Out
  <2> QED
    BY <2>1, HeldOut DEF AllKept, CommittedKept, Kept, BlobsThere
<1> QED
  BY <1>1, <1>2, <1>3, PTL DEF Spec

-----------------------------------------------------------------------------
(* The counts of references.                                               *)

Counted(a, f) == \A b \in Blobs : f[b] = Cardinality(RowsOf(a, b))

LEMMA RowsFinite ==
  ASSUME NEW a, NEW b
  PROVE  IsFiniteSet(RowsOf(a, b)) /\ Cardinality(RowsOf(a, b)) \in Nat
<1>1. RowsOf(a, b) \in SUBSET (Uids \X Paths)
  BY DEF RowsOf, Rows, Stored
<1> QED
  BY ONLY <1>1, FiniteAssumption, FS_Product, FS_Subset, FS_CardinalityType

(* RemoveBlobs: every row that goes takes its reference, and no more.      *)
LEMMA WithoutCounts ==
  ASSUME NEW us, acs \in [Uids -> Contents \cup {Nothing}], Counted(acs, ref), NEW b \in Blobs
  PROVE  RefsWithout(us)[b] = Cardinality(RowsOf(Without(us), b))
<1> DEFINE A == RowsOf(acs, b)
           G == {x \in RowsOf(acs, b) : x[1] \in us}
<1>1. RowsOf(Without(us), b) = A \ G
  BY DEF RowsOf, Rows, Stored, Without
<1>2. /\ IsFiniteSet(A) /\ Cardinality(A) \in Nat /\ G \in SUBSET A /\ A \cap G = G
      /\ ref[b] = Cardinality(A)
  BY RowsFinite DEF Counted
<1>3. RefsWithout(us)[b] = Monus(ref[b], Cardinality(G))
  BY DEF RefsWithout
<1> HIDE DEF A, G
<1>4. Cardinality(G) \in Nat /\ Cardinality(G) <= Cardinality(A)
  BY ONLY <1>2, FS_Subset, FS_CardinalityType
<1>5. Cardinality(A \ G) = Cardinality(A) - Cardinality(G)
  BY ONLY <1>2, FS_Difference
<1> QED
  BY ONLY <1>1, <1>2, <1>3, <1>4, <1>5 DEF Monus

(* PutUid: every path brings a reference. *)
LEMMA PutCounts ==
  ASSUME NEW u \in Uids, NEW c \in Contents, NEW a, NEW b,
         a = [v \in Uids |-> IF v \in {u} THEN c ELSE acs[v]]
  PROVE  Cardinality(RowsOf(a, b))
           = Cardinality(RowsOf(Without({u}), b)) + Cardinality({p \in DOMAIN c : c[p] = b})
<1> DEFINE R == RowsOf(Without({u}), b)
           P == {p \in DOMAIN c : c[p] = b}
           N == {<<u, p>> : p \in P}
<1>1. RowsOf(a, b) = R \cup N
  BY ContentsAssumption, NamesAssumption DEF RowsOf, Rows, Stored, Without
<1>2. R \cap N = {}
  BY DEF RowsOf, Rows, Stored, Without
<1>3. IsFiniteSet(R) /\ Cardinality(R) \in Nat
  BY RowsFinite
<1>4. IsFiniteSet(P) /\ Cardinality(P) \in Nat
  BY ContentTyped
<1>5. IsFiniteSet(N) /\ Cardinality(N) = Cardinality(P)
  <2> DEFINE f == [p \in P |-> <<u, p>>]
  <2>1. f \in Bijection(P, N)
    BY DEF Bijection, Injection, Surjection, IsInjective
  <2>2. ExistsBijection(P, N)
    BY <2>1 DEF ExistsBijection
  <2> HIDE DEF P, N
  <2> QED
    BY ONLY <1>4, <2>2, FS_Bijection
<1> HIDE DEF R, P, N
<1>6. Cardinality(R \cup N) = Cardinality(R) + Cardinality(N) - Cardinality(R \cap N)
  BY ONLY <1>3, <1>5, FS_Union
<1>7. Cardinality(R \cap N) = 0
  BY ONLY <1>2, FS_EmptySet
<1>8. Cardinality(RowsOf(a, b)) = Cardinality(R) + Cardinality(P)
  BY ONLY <1>1, <1>3, <1>4, <1>5, <1>6, <1>7
<1> QED
  BY ONLY <1>8 DEF R, P

LEMMA InitCounts == Init => Counted(acs, ref) /\ Counted(saved[1], saved[2])
<1> SUFFICES ASSUME Init, NEW b \in Blobs PROVE Cardinality(RowsOf(acs, b)) = 0
  BY DEF Init, Counted
<1>1. RowsOf(acs, b) = {}
  BY DEF Init, RowsOf, Rows, Stored
<1> QED
  BY <1>1, FS_EmptySet

LEMMA StepCounts ==
  ASSUME ACStoreTypeOK, JobsOK, Counted(acs, ref), Counted(saved[1], saved[2]), [Next]_vars
  PROVE  Counted(acs', ref') /\ Counted(saved[1]', saved[2]')
<1> USE DEF tables, files, bounds, history
<1>1. ASSUME NEW r \in Slots, PutTxn(r)
      PROVE  Counted(acs', ref') /\ Counted(saved[1]', saved[2]')
  <2> DEFINE c == job[r].to
  <2>1. PICK u \in Uids : job[r].us = {u}
    BY <1>1 DEF PutTxn, Ready, JobsOK, JobOK
  <2>2. c \in Contents
    BY <1>1 DEF PutTxn, Ready, JobsOK, JobOK
  <2>3. /\ acs' = [v \in Uids |-> IF v \in {u} THEN c ELSE acs[v]]
        /\ ref' = [b \in Blobs |-> RefsWithout({u})[b] + Cardinality({p \in DOMAIN c : c[p] = b})]
        /\ saved' = saved
    BY <1>1, <2>1 DEF PutTxn
  <2>4. ASSUME NEW b \in Blobs PROVE ref'[b] = Cardinality(RowsOf(acs', b))
    <3>1. RefsWithout({u})[b] = Cardinality(RowsOf(Without({u}), b))
      BY WithoutCounts DEF ACStoreTypeOK, Tables
    <3>2. Cardinality(RowsOf(acs', b))
            = Cardinality(RowsOf(Without({u}), b)) + Cardinality({p \in DOMAIN c : c[p] = b})
      BY <2>2, <2>3, PutCounts
    <3>3. ref'[b] = RefsWithout({u})[b] + Cardinality({p \in DOMAIN c : c[p] = b})
      BY ONLY <2>3, b \in Blobs
    <3> QED
      BY ONLY <3>1, <3>2, <3>3
  <2> QED
    BY <2>3, <2>4 DEF Counted
<1>2. ASSUME NEW r \in Slots, RemoveTxn(r)
      PROVE  Counted(acs', ref') /\ Counted(saved[1]', saved[2]')
  <2>1. acs' = Without(job[r].us) /\ ref' = RefsWithout(job[r].us) /\ saved' = saved
    BY <1>2 DEF RemoveTxn
  <2> QED
    BY <2>1, WithoutCounts DEF Counted, ACStoreTypeOK, Tables
<1>3. CASE UNCHANGED <<acs, ref, saved>>
  BY <1>3
<1>4. CASE saved' = <<acs, ref>> /\ UNCHANGED <<acs, ref>>
  BY <1>4
<1>5. CASE acs' = saved[1] /\ ref' = saved[2] /\ saved' = saved
  BY <1>5
<1>6. ASSUME NEW r \in Slots, Start(r)
      PROVE  UNCHANGED <<acs, ref, saved>>
  BY <1>6 DEF Start, StartGet, StartRemove, StartPut, StartGC, Begin
<1>7. ASSUME NEW r \in Slots, Serve(r) \/ SqlFails(r) \/ CopyFails(r)
      PROVE  \/ PutTxn(r) \/ RemoveTxn(r)
             \/ UNCHANGED <<acs, ref, saved>>
             \/ saved' = <<acs, ref>> /\ UNCHANGED <<acs, ref>>
             \/ acs' = saved[1] /\ ref' = saved[2] /\ saved' = saved
  BY <1>7 DEF Serve, PutKeep, PutFsCommit, SqlCommit, GetMiss, GetTxn, GetFails, GetPost,
     RemoveMiss, RemoveDirs, RemovePost, Undo, UndoFails, Halt, RemoveOnFailure, SqlFails, CopyFails
<1>8. CASE Crash
  BY <1>5, <1>8 DEF Crash, Halt
<1>9. CASE UNCHANGED vars
  BY <1>3, <1>9 DEF vars
<1> QED
  BY <1>1, <1>2, <1>3, <1>4, <1>5, <1>6, <1>7, <1>8, <1>9 DEF Next

(* RefsMatch: ref_count is the number of rows of acs_blob, in the tables   *)
(* as committed and in those of the open transaction.                      *)
THEOREM RefsMatchAlways == Spec => []RefsMatch
<1> DEFINE IInv == ACStoreTypeOK /\ JobsOK /\ Counted(acs, ref) /\ Counted(saved[1], saved[2])
<1>1. Init => IInv
  <2>1. Init => JobsOK
    BY FreeOK, NamesAssumption DEF Init, JobsOK, JobOK
  <2> QED
    BY <2>1, InitTyped, InitCounts
<1>2. IInv /\ [Next]_vars => IInv'
  <2>1. ASSUME IInv, [Next]_vars PROVE Counted(acs, ref)' /\ Counted(saved[1], saved[2])'
    BY <2>1, StepCounts DEF Counted
  <2> QED
    BY <2>1, StepTyped, StepOK
<1>3. IInv => RefsMatch
  BY DEF Counted, RefsMatch
<1> QED
  BY <1>1, <1>2, <1>3, PTL DEF Spec

-----------------------------------------------------------------------------
(* What a get has copied is not touched by the others.                     *)

Whole == \A r \in Slots : job[r].at = "copy" => job[r].put \subseteq new[r]

(* A step of r that copies nothing. *)
LEMMA OthersWhole ==
  ASSUME Whole, NEW r \in Slots,
         \A q \in Slots \ {r} : job'[q] = job[q] /\ new'[q] = new[q],
         job'[r].at # "copy"
  PROVE  Whole'
BY DEF Whole

(* Removing the directory of r leaves those of the others. *)
LEMMA DiscardOthers ==
  ASSUME ACStoreTypeOK, JobsOK, NEW r \in Slots, Discard(StashDir(r)) \/ CleanupStashDirs(r)
  PROVE  \A q \in Slots \ {r} : new'[q] = new[q]
<1>1. \A q \in Slots \ {r} : q \in StashDirs /\ q # StashDir(r)
  BY OwnDir DEF StashDirs
<1>2. /\ new' \in {new, [new EXCEPT ![StashDir(r)] = {}]}
      /\ new \in [StashDirs -> SUBSET Blobs]
  BY DEF Discard, CleanupStashDirs, ACStoreTypeOK
<1> QED
  BY ONLY <1>1, <1>2

LEMMA StartWhole ==
  ASSUME ACStoreTypeOK, JobsOK, Whole, NEW r \in Slots, Start(r) \/ RemoveOnFailure(r)
  PROVE  Whole'
<1> USE DEF files
<1>0. job \in [Slots -> Jobs] /\ new \in [StashDirs -> SUBSET Blobs] /\ Slots \subseteq StashDirs
  BY DEF ACStoreTypeOK, StashDirs
<1>1. ASSUME NEW op, NEW us, NEW to, NEW keep, Begin(r, op, us, to, keep)
      PROVE  (\A q \in Slots \ {r} : job'[q] = job[q]) /\ job'[r].at = "ready"
  BY <1>0, <1>1 DEF Begin, Job
<1>2. CASE Start(r)
  <2>1. (\A q \in Slots \ {r} : job'[q] = job[q]) /\ job'[r].at = "ready"
    BY <1>1, <1>2 DEF Start, StartGet, StartRemove, StartPut, StartGC
  <2>2. \A q \in Slots \ {r} : new'[q] = new[q]
    BY <1>0, <1>2 DEF Start, StartGet, StartRemove, StartPut, StartGC
  <2> QED
    BY <2>1, <2>2, OthersWhole
<1>3. CASE RemoveOnFailure(r)
  <2>1. (\A q \in Slots \ {r} : job'[q] = job[q]) /\ job'[r].at = "ready" /\ new' = new
    BY <1>0, <1>3 DEF RemoveOnFailure, Job
  <2> QED
    BY <2>1, OthersWhole
<1> QED
  BY <1>2, <1>3

LEMMA PutWhole ==
  ASSUME ACStoreTypeOK, JobsOK, Whole, NEW r \in Slots,
         PutKeep(r) \/ PutTxn(r) \/ PutFsCommit(r) \/ SqlCommit(r)
  PROVE  Whole'
<1> USE DEF files
<1>0. /\ job \in [Slots -> Jobs] /\ "txn" \in Ats /\ "files" \in Ats /\ "tidy" \in Ats
      /\ store \in SUBSET Blobs
  BY DEF ACStoreTypeOK, Ats
<1>1. CASE PutKeep(r)
  <2>1. (\A q \in Slots \ {r} : job'[q] = job[q]) /\ job'[r].at = "txn" /\ new' = new
    BY <1>0, <1>1, GoDoes DEF PutKeep
  <2> QED
    BY <2>1, OthersWhole
<1>2. CASE PutTxn(r)
  <2> DEFINE removed == Gone(job[r].us) \cap (store \cup new[r])
             c == job[r].to
             put == {b \in Range(c) : RefsWithout(job[r].us)[b] = 0}
  <2>1. c \in Contents
    BY <1>2 DEF PutTxn, Ready, JobsOK, JobOK
  <2>2. removed \in SUBSET Blobs /\ put \in SUBSET Blobs
    BY <1>0, <2>1, ContentsAssumption DEF Gone
  <2>3. Move(r, "txn", removed, put) /\ new' = new
    BY <1>2 DEF PutTxn
  <2> HIDE DEF removed, put, c
  <2>4. (\A q \in Slots \ {r} : job'[q] = job[q]) /\ job'[r].at = "txn"
    BY ONLY <1>0, <2>2, <2>3, r \in Slots, MoveDoes
  <2> QED
    BY <2>3, <2>4, OthersWhole
<1>3. CASE PutFsCommit(r)
  <2>1. (\A q \in Slots \ {r} : job'[q] = job[q]) /\ job'[r].at = "files"
    BY <1>0, <1>3, GoDoes DEF PutFsCommit
  <2>2. StashDir(r) = r
    BY <1>3 DEF PutFsCommit, StashDir
  <2>3. \A q \in Slots \ {r} : new'[q] = new[q]
    BY <1>3, <2>2, DiscardOthers DEF PutFsCommit
  <2> QED
    BY <2>1, <2>3, OthersWhole
<1>4. CASE SqlCommit(r)
  <2>1. (\A q \in Slots \ {r} : job'[q] = job[q]) /\ job'[r].at # "copy" /\ new' = new
    BY <1>0, <1>4, GoDoes, AnswerDoes DEF SqlCommit, Free, Job
  <2> QED
    BY <2>1, OthersWhole
<1> QED
  BY <1>1, <1>2, <1>3, <1>4

LEMMA GetWhole ==
  ASSUME ACStoreTypeOK, JobsOK, Whole, NEW r \in Slots,
         GetMiss(r) \/ GetTxn(r) \/ GetFails(r) \/ GetPost(r)
  PROVE  Whole'
<1> USE DEF files
<1>0. /\ job \in [Slots -> Jobs] /\ "copy" \in Ats /\ store \in SUBSET Blobs
      /\ {} \in SUBSET Blobs /\ new \in [StashDirs -> SUBSET Blobs] /\ Slots \subseteq StashDirs
  BY DEF ACStoreTypeOK, Ats, StashDirs
<1>1. CASE GetMiss(r) \/ GetPost(r)
  <2>1. StashDir(r) = r /\ Discard(r)
    BY <1>1, OwnDir DEF GetMiss, GetPost, Ready, JobsOK, JobOK
  <2>2. (\A q \in Slots \ {r} : job'[q] = job[q]) /\ job'[r].at # "copy"
    BY <1>0, <1>1, AnswerDoes DEF GetMiss, GetPost, Free, Job
  <2> QED
    BY <2>1, <2>2, DiscardOthers, OthersWhole
<1>2. CASE GetTxn(r)
  <2>1. Wanted(r) \in SUBSET Blobs /\ Move(r, "copy", {}, Wanted(r))
    BY <1>0, <1>2 DEF GetTxn
  <2>2. (\A q \in Slots \ {r} : job'[q] = job[q]) /\ job'[r].put = Wanted(r)
    BY ONLY <1>0, <2>1, r \in Slots, MoveDoes
  <2>a. StashDir(r) = r
    BY <1>2, OwnDir DEF GetTxn, Ready
  <2>b. new' = [new EXCEPT ![StashDir(r)] = @ \cup Wanted(r)]
    BY <1>2 DEF GetTxn
  <2>3. new' = [new EXCEPT ![r] = @ \cup Wanted(r)]
    BY ONLY <2>a, <2>b
  <2>4. new'[r] = new[r] \cup Wanted(r) /\ \A q \in Slots \ {r} : new'[q] = new[q]
    BY ONLY <1>0, <2>3, r \in Slots
  <2> QED
    BY <2>2, <2>4 DEF Whole
<1>3. CASE GetFails(r)
  <2>1. (\A q \in Slots \ {r} : job'[q] = job[q]) /\ job'[r].at # "copy" /\ new' = new
    BY <1>0, <1>3, FailDoes DEF GetFails
  <2> QED
    BY <2>1, OthersWhole
<1> QED
  BY <1>1, <1>2, <1>3

LEMMA RemoveWhole ==
  ASSUME ACStoreTypeOK, JobsOK, Whole, NEW r \in Slots,
         RemoveMiss(r) \/ RemoveDirs(r) \/ RemoveTxn(r) \/ RemovePost(r)
  PROVE  Whole'
<1> USE DEF files
<1>0. /\ job \in [Slots -> Jobs] /\ "dirs" \in Ats /\ "txn" \in Ats
      /\ store \in SUBSET Blobs /\ {} \in SUBSET Blobs
  BY DEF ACStoreTypeOK, Ats
<1>1. CASE RemoveMiss(r)
  <2>1. (\A q \in Slots \ {r} : job'[q] = job[q]) /\ job'[r].at # "copy" /\ new' = new
    BY <1>0, <1>1, AnswerDoes DEF RemoveMiss, Free, Job
  <2> QED
    BY <2>1, OthersWhole
<1>2. CASE RemoveDirs(r)
  <2> DEFINE removed == Gone(job[r].us) \cap store
  <2>1. removed \in SUBSET Blobs /\ Move(r, "dirs", removed, {}) /\ new' = new
    BY <1>0, <1>2 DEF RemoveDirs
  <2>2. (\A q \in Slots \ {r} : job'[q] = job[q]) /\ job'[r].at = "dirs"
    BY ONLY <1>0, <2>1, r \in Slots, MoveDoes
  <2> QED
    BY <2>1, <2>2, OthersWhole
<1>3. CASE RemoveTxn(r)
  <2>1. (\A q \in Slots \ {r} : job'[q] = job[q]) /\ job'[r].at = "txn" /\ new' = new
    BY <1>0, <1>3, GoDoes DEF RemoveTxn
  <2> QED
    BY <2>1, OthersWhole
<1>4. CASE RemovePost(r)
  <2>1. (\A q \in Slots \ {r} : job'[q] = job[q]) /\ job'[r].at # "copy"
    BY <1>0, <1>4, AnswerDoes DEF RemovePost, Free, Job
  <2>2. \A q \in Slots \ {r} : new'[q] = new[q]
    BY <1>4, DiscardOthers DEF RemovePost
  <2> QED
    BY <2>1, <2>2, OthersWhole
<1> QED
  BY <1>1, <1>2, <1>3, <1>4

LEMMA HaltWhole == ASSUME NEW back, NEW stash, Halt(back, stash) PROVE Whole'
BY DEF Halt, Whole, Free, Job

LEMMA FailureWhole ==
  ASSUME ACStoreTypeOK, JobsOK, Whole, NEW r \in Slots,
         SqlFails(r) \/ CopyFails(r) \/ Undo(r) \/ UndoFails(r)
  PROVE  Whole'
<1> USE DEF files
<1>0. job \in [Slots -> Jobs] /\ "undo" \in Ats /\ "failed" \in Ats
  BY DEF ACStoreTypeOK, Ats
<1>1. CASE SqlFails(r)
  <2>1. (\A q \in Slots \ {r} : job'[q] = job[q]) /\ job'[r].at # "copy" /\ new' = new
    BY <1>0, <1>1, GoDoes, AnswerDoes DEF SqlFails, Free, Job
  <2> QED
    BY <2>1, OthersWhole
<1>2. CASE CopyFails(r)
  <2>1. (\A q \in Slots \ {r} : job'[q] = job[q]) /\ job'[r].at # "copy" /\ new' = new
    BY <1>0, <1>2, FailDoes DEF CopyFails
  <2> QED
    BY <2>1, OthersWhole
<1>3. CASE Undo(r)
  <2>1. (\A q \in Slots \ {r} : job'[q] = job[q]) /\ job'[r].at # "copy"
    BY <1>0, <1>3, GoDoes, AnswerDoes DEF Undo, Free, Job
  <2>2. \A q \in Slots \ {r} : new'[q] = new[q]
    BY <1>3, DiscardOthers DEF Undo
  <2> QED
    BY <2>1, <2>2, OthersWhole
<1>4. CASE UndoFails(r)
  <2>1. \E back, stash : Halt(back, stash)
    BY <1>4 DEF UndoFails
  <2> QED
    BY <2>1, HaltWhole
<1> QED
  BY <1>1, <1>2, <1>3, <1>4

LEMMA StepWhole ==
  ASSUME ACStoreTypeOK, JobsOK, Whole, [Next]_vars
  PROVE  Whole'
<1>1. CASE UNCHANGED vars
  BY <1>1 DEF vars, files, Whole
<1>2. CASE Crash
  <2>1. \E back, stash : Halt(back, stash)
    BY <1>2 DEF Crash
  <2> QED
    BY <2>1, HaltWhole
<1>3. ASSUME NEW r \in Slots, Start(r) \/ Serve(r) \/ SqlFails(r) \/ CopyFails(r)
      PROVE  Whole'
  BY <1>3, StartWhole, PutWhole, GetWhole, RemoveWhole, FailureWhole DEF Serve
<1> QED
  BY <1>1, <1>2, <1>3 DEF Next

(* GotWhole: a get that found its uid has all its files in its own stash,  *)
(* whatever is removed, replaced or tidied up before they are copied.      *)
THEOREM GotWholeAlways == Spec => []GotWhole
<1> DEFINE IInv == ACStoreTypeOK /\ JobsOK /\ Whole
<1>1. Init => IInv
  <2>1. Init => JobsOK
    BY FreeOK, NamesAssumption DEF Init, JobsOK, JobOK
  <2>2. Init => Whole
    BY DEF Init, Whole, Free, Job
  <2> QED
    BY <2>1, <2>2, InitTyped
<1>2. IInv /\ [Next]_vars => IInv'
  BY StepTyped, StepOK, StepWhole
<1>3. IInv => GotWhole
  BY OwnDir DEF Whole, GotWhole, JobsOK, JobOK
<1> QED
  BY <1>1, <1>2, <1>3, PTL DEF Spec
-----------------------------------------------------------------------------
(* What is left on the disk.  As long as nothing has failed, a file of the *)
(* store has a row or slipped away from its removal, and whatever is in a  *)
(* stash directory is there for a request that will still discard it.      *)

Faultless == faults = MaxFaults /\ crashes = MaxCrashes
Bounded == faults <= MaxFaults /\ crashes <= MaxCrashes

(* Nothing is to be undone, and no file has been lost. *)
Unhurt == torn = {} /\ \A r \in Slots : job[r].at \notin {"undo", "failed"}
StoreRows == store \subseteq {b \in Blobs : ref[b] > 0} \cup slipped
(* What a put will move in has its rows, what a removal will move out is   *)
(* all that its rows leave.                                                *)
PutRows(r) == job[r].at = "txn" => \A b \in job[r].put : ref[b] > 0
TakesAll(r) == job[r].at = "dirs" => Gone(job[r].us) \cap store \subseteq job[r].removed
OwnTidy(r) ==
  \/ old[r] = {} /\ new[r] = {}
  \/ job[r].op = "put" /\ job[r].at \in {"ready", "txn"}
  \/ job[r].op = "get" /\ job[r].at \in {"ready", "copy"}
Tidies(r, d) ==
  Removal(r) /\ job[r].at \in {"txn", "tidy"} /\ job[r].removed # {} /\ StashDir(r) = d
SharedTidy ==
  \A d \in StashDirs \ Slots :
    new[d] = {} /\ (old[d] = {} \/ \E r \in Slots : Tidies(r, d))
(* What a removal has moved out has no rows any more, and so what another  *)
(* one sweeps away from it.                                                *)
TxnRows(r) == Removal(r) /\ job[r].at = "txn" => \A b \in job[r].removed : ref[b] = 0
SweptRows == \A b \in swept : ref[b] = 0 /\ mutex # Nobody
Tidy ==
  /\ Unhurt /\ StoreRows /\ SharedTidy /\ SweptRows
  /\ \A r \in Slots : PutRows(r) /\ TakesAll(r) /\ OwnTidy(r) /\ TxnRows(r)
TidyInv == Bounded /\ (Faultless => Tidy)

(* A step of r: what it leaves of the shared directories is still in use.  *)
LEMMA SharedKept ==
  ASSUME SharedTidy, NEW r \in Slots, \A q \in Slots \ {r} : job'[q] = job[q],
         \A d \in StashDirs \ Slots :
           \/ new'[d] = {} /\ old'[d] = {}
           \/ new'[d] = new[d] /\ Tidies(r, d)'
           \/ new'[d] = new[d] /\ old'[d] = old[d] /\ (Tidies(r, d) => Tidies(r, d)')
  PROVE  SharedTidy'
<1> SUFFICES ASSUME NEW d \in StashDirs \ Slots
             PROVE  new'[d] = {} /\ (old'[d] = {} \/ \E q \in Slots : Tidies(q, d)')
  BY DEF SharedTidy
<1>1. new[d] = {} /\ (old[d] = {} \/ \E q \in Slots : Tidies(q, d))
  BY DEF SharedTidy
<1>2. ASSUME NEW q \in Slots \ {r}, Tidies(q, d) PROVE Tidies(q, d)'
  BY <1>2 DEF Tidies, Removal, StashDir
<1> QED
  BY <1>1, <1>2

(* A step of r: the others are in no transaction that it could disturb.    *)
LEMMA OthersTidy ==
  ASSUME JobsOK, Tidy, NEW r \in Slots,
         \A q \in Slots \ {r} : job'[q] = job[q] /\ old'[q] = old[q] /\ new'[q] = new[q],
         UNCHANGED <<acs, ref>> \/ mutex \in {r, Nobody},
         store' \subseteq store \/ mutex \in {r, Nobody},
         torn' = {}, job'[r].at \notin {"undo", "failed"}, StoreRows', SharedTidy', SweptRows',
         PutRows(r)', TakesAll(r)', OwnTidy(r)', TxnRows(r)'
  PROVE  Tidy'
<1>1. ASSUME NEW q \in Slots \ {r}
      PROVE  PutRows(q)' /\ TakesAll(q)' /\ OwnTidy(q)' /\ TxnRows(q)'
  <2>1. /\ job'[q] = job[q] /\ JobOK(q) /\ q # Nobody /\ q # r
        /\ PutRows(q) /\ TakesAll(q) /\ OwnTidy(q) /\ TxnRows(q)
    BY NamesAssumption DEF JobsOK, Tidy
  <2>2. job[q].at \in {"txn", "dirs"} => mutex = q
    BY <2>1 DEF JobOK
  <2>3. PutRows(q)'
    BY <2>1, <2>2 DEF PutRows
  <2>4. job[q].at = "dirs" => Gone(job[q].us)' = Gone(job[q].us) /\ store' \subseteq store
    BY <2>1, <2>2, GoneSame
  <2>5. TakesAll(q)'
    BY <2>1, <2>4 DEF TakesAll
  <2>6. OwnTidy(q)'
    BY <2>1 DEF OwnTidy
  <2>7. TxnRows(q)'
    BY <2>1, <2>2 DEF TxnRows, Removal
  <2> QED
    BY <2>3, <2>5, <2>6, <2>7
<1>2. Unhurt'
  BY DEF Unhurt, Tidy
<1> QED
  BY <1>1, <1>2 DEF Tidy

(* A step that leaves the tables and the files in the store.               *)
LEMMA RowsSame ==
  ASSUME StoreRows, UNCHANGED <<ref, store, slipped>>
  PROVE  StoreRows'
BY DEF StoreRows

LEMMA SweptSame ==
  ASSUME SweptRows, UNCHANGED <<ref, swept>>, mutex' = mutex \/ mutex = Nobody
  PROVE  SweptRows'
BY DEF SweptRows

LEMMA StartTidy ==
  ASSUME ACStoreTypeOK, JobsOK, Tidy, NEW r \in Slots, Start(r)
  PROVE  Tidy'
<1> USE DEF tables, files, history
<1>0. /\ job \in [Slots -> Jobs] /\ Slots \subseteq StashDirs
      /\ old \in [StashDirs -> SUBSET Blobs] /\ new \in [StashDirs -> SUBSET Blobs]
      /\ OwnTidy(r) /\ StoreRows /\ SharedTidy /\ SweptRows /\ torn = {}
  BY DEF ACStoreTypeOK, StashDirs, Tidy, Unhurt
<1>1. ASSUME NEW op, NEW us, NEW to, NEW keep, Begin(r, op, us, to, keep)
      PROVE  /\ \A q \in Slots \ {r} : job'[q] = job[q]
             /\ job[r].at = "idle" /\ job'[r].at = "ready" /\ job'[r].op = op
             /\ UNCHANGED <<acs, ref, torn, swept, slipped, mutex>>
  BY <1>0, <1>1 DEF Begin, Job
<1>2. \E op : /\ \A q \in Slots \ {r} : job'[q] = job[q]
              /\ job[r].at = "idle" /\ job'[r].at = "ready" /\ job'[r].op = op
              /\ UNCHANGED <<acs, ref, torn, swept, slipped, mutex, store, old>>
              /\ \/ new' = new
                 \/ op = "put" /\ \E c : new' = [new EXCEPT ![r] = c]
  BY <1>1 DEF Start, StartGet, StartRemove, StartPut, StartGC
<1>3. PICK op : /\ \A q \in Slots \ {r} : job'[q] = job[q]
                /\ job[r].at = "idle" /\ job'[r].at = "ready" /\ job'[r].op = op
                /\ UNCHANGED <<acs, ref, torn, swept, slipped, mutex, store, old>>
                /\ \/ new' = new
                   \/ op = "put" /\ \E c : new' = [new EXCEPT ![r] = c]
  BY <1>2
<1>4. /\ \A d \in StashDirs \ {r} : new'[d] = new[d]
      /\ new'[r] = new[r] \/ job'[r].op = "put"
  BY <1>0, <1>3
<1>5. OwnTidy(r)' /\ PutRows(r)' /\ TakesAll(r)' /\ TxnRows(r)'
  BY <1>0, <1>3, <1>4 DEF OwnTidy, PutRows, TakesAll, TxnRows, Removal
<1>6. SharedTidy'
  <2>1. \A d \in StashDirs \ Slots : new'[d] = new[d] /\ old'[d] = old[d] /\ ~Tidies(r, d)
    BY <1>3, <1>4 DEF Tidies
  <2> QED
    BY <1>0, <1>3, <2>1, SharedKept
<1>7. StoreRows' /\ SweptRows'
  BY <1>0, <1>3, RowsSame, SweptSame
<1> QED
  BY <1>0, <1>3, <1>4, <1>5, <1>6, <1>7, OthersTidy

(* What a discarded directory of r leaves. *)
LEMMA DiscardTidy ==
  ASSUME ACStoreTypeOK, NEW d \in StashDirs, Discard(d)
  PROVE  /\ old'[d] = {} /\ new'[d] = {}
         /\ \A e \in StashDirs \ {d} : old'[e] = old[e] /\ new'[e] = new[e]
BY DEF Discard, ACStoreTypeOK

LEMMA PutTidy ==
  ASSUME ACStoreTypeOK, JobsOK, Tidy, NEW r \in Slots,
         PutKeep(r) \/ PutTxn(r) \/ PutFsCommit(r) \/ SqlCommit(r)
  PROVE  Tidy'
<1> USE DEF tables, files, history
<1>0. /\ job \in [Slots -> Jobs] /\ Slots \subseteq StashDirs /\ JobOK(r)
      /\ old \in [StashDirs -> SUBSET Blobs] /\ new \in [StashDirs -> SUBSET Blobs]
      /\ OwnTidy(r) /\ PutRows(r) /\ StoreRows /\ SharedTidy /\ SweptRows /\ torn = {}
      /\ store \in SUBSET Blobs
      /\ "txn" \in Ats /\ "files" \in Ats /\ "tidy" \in Ats
  BY DEF ACStoreTypeOK, StashDirs, Tidy, Unhurt, JobsOK, Ats
<1>1. CASE PutKeep(r)
  <2>1. /\ \A q \in Slots \ {r} : job'[q] = job[q]
        /\ job'[r].op = "put" /\ job'[r].at = "txn" /\ job'[r].put = job[r].put
    BY <1>0, <1>1, GoDoes DEF PutKeep, Ready
  <2>2. job[r].put = {} /\ job[r].at = "ready"
    BY <1>0, <1>1 DEF PutKeep, Ready, JobOK
  <2>3. UNCHANGED <<acs, ref, store, old, new, torn, swept, slipped>> /\ mutex = Nobody
    BY <1>1 DEF PutKeep, Ready
  <2>4. OwnTidy(r)' /\ PutRows(r)' /\ TakesAll(r)' /\ TxnRows(r)'
    BY <2>1, <2>2 DEF OwnTidy, PutRows, TakesAll, TxnRows, Removal
  <2>5. SharedTidy'
    BY <1>0, <2>1, <2>2, <2>3, SharedKept DEF Tidies
  <2>6. StoreRows' /\ SweptRows'
    BY <1>0, <2>3, RowsSame, SweptSame
  <2> QED
    BY <1>0, <2>1, <2>3, <2>4, <2>5, <2>6, OthersTidy
<1>2. CASE PutTxn(r)
  <2> DEFINE c == job[r].to
             removed == Gone(job[r].us) \cap (store \cup new[r])
             put == {b \in Range(c) : RefsWithout(job[r].us)[b] = 0}
             come(b) == Cardinality({p \in DOMAIN c : c[p] = b})
  <2>0. c \in Contents
    BY <1>0, <1>2 DEF PutTxn, Ready, JobOK
  <2>1. removed \in SUBSET Blobs /\ put \in SUBSET Blobs
    BY <1>0, <2>0, ContentsAssumption DEF Gone
  <2>2. /\ Move(r, "txn", removed, put) /\ mutex = Nobody /\ job[r].at = "ready" /\ job[r].op = "put"
        /\ ref' = [b \in Blobs |-> RefsWithout(job[r].us)[b] + come(b)]
        /\ store' = store \ removed
        /\ old' = [old EXCEPT ![r] = removed \cap store]
        /\ UNCHANGED <<new, torn, swept, slipped>>
    BY <1>2 DEF PutTxn, Ready
  <2>3. RefsWithout(job[r].us) \in [Blobs -> Nat]
    BY CountsTyped DEF ACStoreTypeOK, Tables
  <2>4. \A b \in Blobs : come(b) \in Nat
    BY <2>0, ContentTyped
  <2>5. \A b \in put : ref'[b] > 0
    <3> SUFFICES ASSUME NEW b \in put PROVE ref'[b] > 0
      OBVIOUS
    <3>1. b \in Blobs /\ RefsWithout(job[r].us)[b] = 0 /\ b \in Range(c)
      BY <2>1
    <3>2. PICK p \in DOMAIN c : c[p] = b
      BY <3>1 DEF Range
    <3>3. {p1 \in DOMAIN c : c[p1] = b} # {}
      BY <3>2
    <3>4. come(b) # 0
      BY <2>0, <3>3, ContentTyped, FS_EmptySet
    <3>5. come(b) \in Nat /\ ref'[b] = 0 + come(b)
      BY <2>2, <2>4, <3>1
    <3> QED
      BY <3>4, <3>5
  <2>6. StoreRows'
    <3> SUFFICES ASSUME NEW b \in store', b \notin slipped' PROVE b \in Blobs /\ ref'[b] > 0
      BY DEF StoreRows
    <3>1. b \in store /\ b \in Blobs /\ b \notin removed /\ b \notin slipped
      BY <1>0, <2>2
    <3>2. ref[b] > 0
      BY <1>0, <3>1 DEF StoreRows
    <3>3. RefsWithout(job[r].us)[b] # 0
      BY <3>1, <3>2 DEF Gone
    <3>4. RefsWithout(job[r].us)[b] \in Nat /\ come(b) \in Nat
      BY <2>3, <2>4, <3>1
    <3>5. ref'[b] = RefsWithout(job[r].us)[b] + come(b)
      BY <2>2, <3>1
    <3> HIDE DEF come
    <3> QED
      BY <3>1, <3>3, <3>4, <3>5
  <2> HIDE DEF removed, put, c, come
  <2>7. /\ \A q \in Slots \ {r} : job'[q] = job[q]
        /\ job'[r].op = "put" /\ job'[r].at = "txn" /\ job'[r].put = put
    BY ONLY <1>0, <2>1, <2>2, r \in Slots, MoveDoes
  <2>8. \A d \in StashDirs \ {r} : old'[d] = old[d] /\ new'[d] = new[d]
    BY <1>0, <2>2
  <2>9. OwnTidy(r)' /\ PutRows(r)' /\ TakesAll(r)' /\ TxnRows(r)'
    BY <2>5, <2>7 DEF OwnTidy, PutRows, TakesAll, TxnRows, Removal
  <2>10. SharedTidy'
    BY <1>0, <2>2, <2>7, <2>8, SharedKept DEF Tidies
  <2>11. SweptRows'
    BY <1>0, <2>2 DEF SweptRows
  <2> QED
    BY <1>0, <2>2, <2>6, <2>7, <2>8, <2>9, <2>10, <2>11, OthersTidy
<1>3. CASE PutFsCommit(r)
  <2>1. /\ \A q \in Slots \ {r} : job'[q] = job[q]
        /\ job'[r].op = "put" /\ job'[r].at = "files"
        /\ job[r].op = "put" /\ job[r].at = "txn"
    BY <1>0, <1>3, GoDoes DEF PutFsCommit
  <2>2. mutex = r
    BY <1>0, <2>1 DEF JobOK
  <2>3. /\ store' = store \cup job[r].put /\ UNCHANGED <<acs, ref, torn, swept, slipped, mutex>>
        /\ Discard(r) /\ r \in StashDirs
    BY <1>0, <1>3 DEF PutFsCommit
  <2>4. /\ old'[r] = {} /\ new'[r] = {}
        /\ \A d \in StashDirs \ {r} : old'[d] = old[d] /\ new'[d] = new[d]
    BY <2>3, DiscardTidy
  <2>5. OwnTidy(r)' /\ PutRows(r)' /\ TakesAll(r)' /\ TxnRows(r)'
    BY <2>1, <2>4 DEF OwnTidy, PutRows, TakesAll, TxnRows, Removal
  <2>6. job[r].put \in SUBSET Blobs
    BY <1>0 DEF Jobs
  <2>7. StoreRows'
    BY <1>0, <2>1, <2>3, <2>6 DEF StoreRows, PutRows
  <2>8. SharedTidy'
    BY <1>0, <2>1, <2>4, SharedKept DEF Tidies, Removal
  <2>9. SweptRows'
    BY <1>0, <2>3, SweptSame
  <2> QED
    BY <1>0, <2>1, <2>2, <2>3, <2>4, <2>5, <2>7, <2>8, <2>9, OthersTidy
<1>4. CASE SqlCommit(r)
  <2>1. /\ mutex = r /\ torn' = {} /\ swept' = {} /\ UNCHANGED <<acs, ref, store, old, new, slipped>>
        /\ job[r].at = IF job[r].op = "put" THEN "files" ELSE "txn"
    BY <1>0, <1>4 DEF SqlCommit, SweptRows
  <2>a. SweptRows'
    BY <2>1 DEF SweptRows
  <2>2. CASE job[r].op = "put"
    <3>1. (\A q \in Slots \ {r} : job'[q] = job[q]) /\ job'[r].at = "idle" /\ job[r].at = "files"
      BY <1>0, <1>4, <2>1, <2>2, AnswerDoes, FreeOK DEF SqlCommit
    <3>2. OwnTidy(r)' /\ PutRows(r)' /\ TakesAll(r)' /\ TxnRows(r)'
      BY <1>0, <2>1, <3>1 DEF OwnTidy, PutRows, TakesAll, TxnRows, Removal
    <3>3. SharedTidy'
      BY <1>0, <2>1, <3>1, SharedKept DEF Tidies
    <3>4. StoreRows'
      BY <1>0, <2>1, RowsSame
    <3> QED
      BY <2>1, <2>a, <3>1, <3>2, <3>3, <3>4, OthersTidy
  <2>3. CASE job[r].op # "put"
    <3>1. /\ \A q \in Slots \ {r} : job'[q] = job[q]
          /\ job'[r].at = "tidy" /\ job'[r].op = job[r].op /\ job'[r].us = job[r].us
          /\ job'[r].removed = job[r].removed
      BY <1>0, <1>4, <2>3, GoDoes DEF SqlCommit
    <3>2. job[r].at = "txn" /\ job[r].op \in {"remove", "gc"}
      BY <1>0, <2>1, <2>3 DEF JobOK
    <3>3. OwnTidy(r)' /\ PutRows(r)' /\ TakesAll(r)' /\ TxnRows(r)'
      BY <1>0, <2>1, <3>1, <3>2 DEF OwnTidy, PutRows, TakesAll, TxnRows, Removal
    <3>4. \A d : Tidies(r, d) => Tidies(r, d)'
      BY <3>1 DEF Tidies, Removal, StashDir
    <3>5. SharedTidy'
      BY <1>0, <2>1, <3>1, <3>4, SharedKept
    <3>6. StoreRows'
      BY <1>0, <2>1, RowsSame
    <3> QED
      BY <2>1, <2>a, <3>1, <3>3, <3>5, <3>6, OthersTidy
  <2> QED
    BY <2>2, <2>3
<1> QED
  BY <1>1, <1>2, <1>3, <1>4

(* As long as nothing has failed a get finds its files. *)
LEMMA GetFinds ==
  ASSUME ACStoreTypeOK, AllKept, Counted(acs, ref), Unhurt, SweptRows, NEW r \in Slots
  PROVE  ~GetFails(r)
<1> SUFFICES ASSUME GetFails(r) PROVE FALSE
  OBVIOUS
<1>1. mutex = Nobody /\ job[r].us \subseteq Stored(acs) /\ ~ Wanted(r) \subseteq store
  BY DEF GetFails, Ready
<1>2. PICK u \in job[r].us : \E b \in Range(acs[u]) : b \notin store
  BY <1>1 DEF Wanted
<1>3. u \in Uids /\ acs[u] \in Contents /\ u \in Stored(acs)
  BY <1>1 DEF Stored, ACStoreTypeOK, Tables
<1>4. PICK b \in Range(acs[u]) : b \notin store
  BY <1>2
<1>5. PICK p \in DOMAIN acs[u] : acs[u][p] = b
  BY DEF Range
<1>6. p \in Paths /\ b \in Blobs
  BY <1>3, <1>5, ContentsAssumption
<1>7. <<u, p>> \in RowsOf(acs, b)
  BY <1>3, <1>6, <1>5 DEF RowsOf, Rows
<1>8. ref[b] > 0
  <2>1. Cardinality(RowsOf(acs, b)) # 0 /\ Cardinality(RowsOf(acs, b)) \in Nat
    BY <1>7, RowsFinite, FS_EmptySet
  <2> QED
    BY <1>6, <2>1 DEF Counted
<1> QED
  BY <1>1, <1>4, <1>6, <1>8, NamesAssumption DEF AllKept, WorkingKept, Kept, Unhurt, SweptRows

LEMMA GetTidy ==
  ASSUME ACStoreTypeOK, JobsOK, Tidy, NEW r \in Slots, GetMiss(r) \/ GetTxn(r) \/ GetPost(r)
  PROVE  Tidy'
<1> USE DEF tables, files, history
<1>0. /\ job \in [Slots -> Jobs] /\ Slots \subseteq StashDirs /\ JobOK(r)
      /\ old \in [StashDirs -> SUBSET Blobs] /\ new \in [StashDirs -> SUBSET Blobs]
      /\ OwnTidy(r) /\ StoreRows /\ SharedTidy /\ SweptRows /\ torn = {}
      /\ store \in SUBSET Blobs /\ {} \in SUBSET Blobs /\ "copy" \in Ats
  BY DEF ACStoreTypeOK, StashDirs, Tidy, Unhurt, JobsOK, Ats
<1>1. /\ job[r].op = "get" /\ job[r].at \in {"ready", "copy"}
      /\ UNCHANGED <<acs, ref, store, torn, swept, slipped, mutex>>
  BY <1>0 DEF GetMiss, GetTxn, GetPost, Ready, JobOK
<1>2. StashDir(r) = r
  BY <1>1, OwnDir
<1>3. /\ \A q \in Slots \ {r} : job'[q] = job[q]
      /\ \/ job'[r].at = "idle" /\ old'[r] = {} /\ new'[r] = {}
         \/ job'[r].at = "copy" /\ job'[r].op = "get"
      /\ \A d \in StashDirs \ {r} : old'[d] = old[d] /\ new'[d] = new[d]
  <2>1. CASE GetMiss(r) \/ GetPost(r)
    <3>1. Discard(r) /\ Answer(r)
      BY <1>2, <2>1 DEF GetMiss, GetPost
    <3>2. r \in StashDirs
      BY <1>0
    <3> QED
      BY <1>0, <3>1, <3>2, DiscardTidy, AnswerDoes, FreeOK
  <2>2. CASE GetTxn(r)
    <3>1. Wanted(r) \in SUBSET Blobs /\ Move(r, "copy", {}, Wanted(r))
      BY <1>0, <2>2 DEF GetTxn
    <3>2. (\A q \in Slots \ {r} : job'[q] = job[q]) /\ job'[r].at = "copy" /\ job'[r].op = job[r].op
      BY ONLY <1>0, <3>1, r \in Slots, MoveDoes
    <3>3. /\ new' = [new EXCEPT ![StashDir(r)] = @ \cup Wanted(r)]
          /\ old' = old
      BY <2>2 DEF GetTxn
    <3>4. new' = [new EXCEPT ![r] = @ \cup Wanted(r)]
      BY ONLY <1>2, <3>3
    <3> QED
      BY <1>0, <1>1, <3>2, <3>3, <3>4
  <2> QED
    BY <2>1, <2>2
<1>4. OwnTidy(r)' /\ PutRows(r)' /\ TakesAll(r)' /\ TxnRows(r)'
  BY <1>3 DEF OwnTidy, PutRows, TakesAll, TxnRows, Removal
<1>5. SharedTidy'
  BY <1>0, <1>1, <1>3, SharedKept DEF Tidies
<1>6. StoreRows' /\ SweptRows'
  BY <1>0, <1>1, RowsSame, SweptSame
<1> QED
  BY <1>0, <1>1, <1>3, <1>4, <1>5, <1>6, OthersTidy

LEMMA RemoveTidy ==
  ASSUME ACStoreTypeOK, JobsOK, Tidy, NEW r \in Slots,
         RemoveMiss(r) \/ RemoveDirs(r) \/ RemoveTxn(r) \/ RemovePost(r)
  PROVE  Tidy'
<1> USE DEF tables, files, history
<1>0. /\ job \in [Slots -> Jobs] /\ Slots \subseteq StashDirs /\ JobOK(r)
      /\ old \in [StashDirs -> SUBSET Blobs] /\ new \in [StashDirs -> SUBSET Blobs]
      /\ OwnTidy(r) /\ TakesAll(r) /\ StoreRows /\ SharedTidy /\ SweptRows /\ torn = {}
      /\ store \in SUBSET Blobs /\ {} \in SUBSET Blobs /\ "dirs" \in Ats /\ "txn" \in Ats
      /\ StashDir(r) \in StashDirs
      /\ \A q \in Slots \ {r} : StashDir(r) # q
  BY DirTyped, OwnDir DEF ACStoreTypeOK, StashDirs, Tidy, Unhurt, JobsOK, Ats
<1>1. CASE RemoveMiss(r)
  <2>1. /\ \A q \in Slots \ {r} : job'[q] = job[q]
        /\ job'[r].at = "idle" /\ job[r].at = "ready" /\ job[r].op \in {"remove", "gc"}
        /\ UNCHANGED <<acs, ref, store, old, new, torn, swept, slipped, mutex>>
    BY <1>0, <1>1, AnswerDoes, FreeOK DEF RemoveMiss, Ready, Removal
  <2>2. OwnTidy(r)' /\ PutRows(r)' /\ TakesAll(r)' /\ TxnRows(r)'
    BY <1>0, <2>1 DEF OwnTidy, PutRows, TakesAll, TxnRows, Removal
  <2>3. SharedTidy'
    BY <1>0, <2>1, SharedKept DEF Tidies
  <2>4. StoreRows' /\ SweptRows'
    BY <1>0, <2>1, RowsSame, SweptSame
  <2> QED
    BY <1>0, <2>1, <2>2, <2>3, <2>4, OthersTidy
<1>2. CASE RemoveDirs(r)
  <2> DEFINE removed == Gone(job[r].us) \cap store
  <2>1. /\ removed \in SUBSET Blobs /\ Move(r, "dirs", removed, {})
        /\ job[r].at = "ready" /\ job[r].op \in {"remove", "gc"}
        /\ UNCHANGED <<acs, ref, store, old, new, torn, swept, slipped>> /\ mutex = Nobody
    BY <1>0, <1>2 DEF RemoveDirs, Ready, Removal
  <2>a. \A us : Gone(us)' = Gone(us)
    BY <2>1, GoneSame
  <2>b. /\ \A q \in Slots \ {r} : job'[q] = job[q]
        /\ job'[r].at = "dirs" /\ job'[r].op = job[r].op /\ job'[r].us = job[r].us
        /\ job'[r].removed = removed
    BY ONLY <1>0, <2>1, r \in Slots, MoveDoes
  <2>3. TakesAll(r)'
    BY <2>1, <2>a, <2>b DEF TakesAll
  <2> HIDE DEF removed
  <2>4. OwnTidy(r)' /\ PutRows(r)' /\ TxnRows(r)'
    BY <1>0, <2>1, <2>b DEF OwnTidy, PutRows, TxnRows
  <2>5. SharedTidy'
    BY <1>0, <2>1, <2>b, SharedKept DEF Tidies
  <2>6. StoreRows' /\ SweptRows'
    BY <1>0, <2>1, RowsSame, SweptSame
  <2> QED
    BY <1>0, <2>1, <2>b, <2>3, <2>4, <2>5, <2>6, OthersTidy
<1>3. CASE RemoveTxn(r)
  <2> DEFINE us == job[r].us
             removed == job[r].removed
  <2>0. PICK d \in StashDirs : d = StashDir(r)
    BY <1>0
  <2>1. /\ \A q \in Slots \ {r} : job'[q] = job[q]
        /\ job'[r].at = "txn" /\ job'[r].op = job[r].op /\ job'[r].us = job[r].us
        /\ job'[r].removed = removed /\ job'[r].put = job[r].put
        /\ job[r].at = "dirs" /\ job[r].op \in {"remove", "gc"}
    BY <1>0, <1>3, GoDoes DEF RemoveTxn, Removal
  <2>2. mutex = r /\ job[r].put = {} /\ removed \subseteq Gone(us)
    BY <1>0, <2>1 DEF JobOK
  <2>3. /\ ref' = RefsWithout(us) /\ UNCHANGED <<new, torn, swept, mutex>>
        /\ \/ /\ store' = store \ removed /\ old' = [old EXCEPT ![d] = @ \cup removed]
              /\ slipped' = slipped
           \/ slipped' = slipped \cup removed /\ UNCHANGED <<store, old>>
    BY <1>3, <2>0 DEF RemoveTxn
  <2>4. RefsWithout(us) \in [Blobs -> Nat]
    BY CountsTyped DEF ACStoreTypeOK, Tables
  <2>5. Gone(us) \cap store \subseteq removed
    BY <1>0, <2>1 DEF TakesAll
  <2>6. StoreRows'
    <3> SUFFICES ASSUME NEW b \in store', b \notin slipped' PROVE b \in Blobs /\ ref'[b] > 0
      BY DEF StoreRows
    <3>1. b \in store /\ b \in Blobs /\ b \notin removed /\ b \notin slipped
      BY <1>0, <2>3
    <3>2. ref[b] > 0
      BY <1>0, <3>1 DEF StoreRows
    <3>3. RefsWithout(us)[b] # 0
      BY <2>5, <3>1, <3>2 DEF Gone
    <3>4. RefsWithout(us)[b] \in Nat /\ ref'[b] = RefsWithout(us)[b]
      BY <2>3, <2>4, <3>1
    <3> QED
      BY <3>1, <3>3, <3>4
  <2>7. d # r
    <3>1. CASE job[r].op = "remove"
      <4>1. PICK u \in Uids : us = {u}
        BY <1>0, <3>1 DEF JobOK
      <4> QED
        BY <1>0, <2>0, <3>1, <4>1, NamesAssumption DEF StashDir
    <3>2. CASE job[r].op = "gc"
      BY <1>0, <2>0, <3>2, NamesAssumption DEF StashDir
    <3> QED
      BY <2>1, <3>1, <3>2
  <2>8. Tidies(r, d)' \/ removed = {}
    <3>1. StashDir(r)' = StashDir(r)
      BY <2>1 DEF StashDir
    <3> QED
      BY <2>0, <2>1, <3>1 DEF Tidies, Removal
  <2>13. \A b \in removed : ref'[b] = 0
    BY <2>2, <2>3 DEF Gone
  <2>14. SweptRows'
    <3> SUFFICES ASSUME NEW b \in swept' PROVE ref'[b] = 0 /\ mutex' # Nobody
      BY DEF SweptRows
    <3>1. b \in swept /\ ref[b] = 0 /\ mutex' # Nobody /\ b \in Blobs
      BY <1>0, <2>3 DEF SweptRows, ACStoreTypeOK
    <3>2. RefsWithout(us)[b] = 0
      <4>1. Cardinality({x \in RowsOf(acs, b) : x[1] \in us}) \in Nat
        <5>1. {x \in RowsOf(acs, b) : x[1] \in us} \in SUBSET (Uids \X Paths)
          BY DEF RowsOf, Rows, Stored
        <5> QED
          BY ONLY <5>1, FiniteAssumption, FS_Product, FS_Subset, FS_CardinalityType
      <4> QED
        BY <3>1, <4>1 DEF RefsWithout, Monus
    <3> QED
      BY <2>3, <3>1, <3>2
  <2> HIDE DEF us, removed
  <2>9. /\ \A e \in StashDirs \ {d} : old'[e] = old[e]
        /\ removed = {} => old'[d] = old[d]
    BY <1>0, <2>3
  <2>10. SharedTidy'
    <3>1. \A e \in StashDirs \ Slots : ~Tidies(r, e)
      BY <2>1 DEF Tidies
    <3>2. ASSUME NEW e \in StashDirs \ Slots
          PROVE  \/ new'[e] = new[e] /\ Tidies(r, e)'
                 \/ new'[e] = new[e] /\ old'[e] = old[e] /\ (Tidies(r, e) => Tidies(r, e)')
      <4>1. CASE e = d /\ removed # {}
        BY <2>3, <2>8, <4>1
      <4>2. CASE ~(e = d /\ removed # {})
        BY <2>3, <2>9, <3>1, <4>2
      <4> QED
        BY <4>1, <4>2
    <3> QED
      BY <1>0, <2>1, <3>2, SharedKept
  <2>11. OwnTidy(r)' /\ PutRows(r)' /\ TakesAll(r)' /\ TxnRows(r)'
    <3>1. old[r] = {} /\ new[r] = {}
      BY <1>0, <2>1 DEF OwnTidy
    <3> QED
      BY <1>0, <2>1, <2>2, <2>3, <2>7, <2>9, <2>13, <3>1 DEF OwnTidy, PutRows, TakesAll, TxnRows, Removal
  <2>12. \A q \in Slots \ {r} : old'[q] = old[q] /\ new'[q] = new[q]
    BY <1>0, <2>0, <2>3, <2>9
  <2> QED
    BY <1>0, <2>1, <2>2, <2>3, <2>6, <2>10, <2>11, <2>12, <2>14, OthersTidy
<1>4. CASE RemovePost(r)
  <2>1. /\ \A q \in Slots \ {r} : job'[q] = job[q]
        /\ job'[r].at = "idle" /\ job[r].at = "tidy"
        /\ UNCHANGED <<acs, ref, store, torn, slipped, mutex>>
        /\ \/ job[r].removed = {} /\ UNCHANGED <<old, new>>
           \/ Discard(StashDir(r))
    BY <1>0, <1>4, AnswerDoes, FreeOK DEF RemovePost, CleanupStashDirs
  <2>2. ASSUME NEW e \in StashDirs
        PROVE  \/ old'[e] = {} /\ new'[e] = {}
               \/ old'[e] = old[e] /\ new'[e] = new[e] /\ ~Tidies(r, e)
    <3>1. CASE job[r].removed = {} /\ UNCHANGED <<old, new>>
      BY <3>1 DEF Tidies
    <3>2. CASE Discard(StashDir(r))
      BY <1>0, <3>2, DiscardTidy DEF Tidies
    <3> QED
      BY <2>1, <3>1, <3>2
  <2>3. \A q \in Slots \ {r} : old'[q] = old[q] /\ new'[q] = new[q]
    BY <1>0, <2>1, DiscardTidy
  <2>4. SharedTidy'
    BY <1>0, <2>1, <2>2, SharedKept
  <2>5. OwnTidy(r)' /\ PutRows(r)' /\ TakesAll(r)' /\ TxnRows(r)'
    <3>1. old[r] = {} /\ new[r] = {}
      BY <1>0, <2>1 DEF OwnTidy
    <3> QED
      BY <1>0, <2>1, <2>2, <3>1 DEF OwnTidy, PutRows, TakesAll, TxnRows, Removal
  <2>6. StoreRows'
    BY <1>0, <2>1, RowsSame
  <2>7. ASSUME NEW b \in swept', b \notin swept PROVE ref[b] = 0 /\ mutex # Nobody
    <3>1. PICK q \in Slots \ {r} : StashDir(q) = StashDir(r) /\ b \in Stashed(q)
      BY <1>4, <2>7 DEF RemovePost, CleanupStashDirs
    <3>2. /\ job[q].at = "txn" /\ b \in job[q].removed /\ JobOK(q)
          /\ TxnRows(q) /\ q # Nobody /\ StashDir(q) # q
      BY <1>0, <3>1, NamesAssumption DEF Stashed, Tidy, Unhurt, JobsOK
    <3>3. job[q].op \in {"remove", "gc"} /\ mutex = q
      BY <3>2 DEF JobOK, StashDir
    <3> QED
      BY <3>2, <3>3 DEF TxnRows, Removal
  <2>8. SweptRows'
    BY <1>0, <2>1, <2>7 DEF SweptRows
  <2> QED
    BY <1>0, <2>1, <2>3, <2>4, <2>5, <2>6, <2>8, OthersTidy
<1> QED
  BY <1>1, <1>2, <1>3, <1>4

LEMMA StepTidy ==
  ASSUME ACStoreTypeOK, JobsOK, AllKept, Counted(acs, ref), TidyInv, [Next]_vars
  PROVE  TidyInv'
<1>0. /\ faults \in Nat /\ crashes \in Nat /\ MaxFaults \in Nat /\ MaxCrashes \in Nat
      /\ faults <= MaxFaults /\ crashes <= MaxCrashes
  BY BoundsAssumption DEF ACStoreTypeOK, TidyInv, Bounded
<1>1. ASSUME Crash PROVE Bounded' /\ ~Faultless'
  BY <1>0, <1>1 DEF Crash, Bounded, Faultless
<1>2. ASSUME NEW r \in Slots, SqlFails(r) \/ CopyFails(r) PROVE Bounded' /\ ~Faultless'
  BY <1>0, <1>2 DEF SqlFails, CopyFails, Bounded, Faultless
<1>3. ASSUME NEW r \in Slots, Start(r) \/ Serve(r) PROVE UNCHANGED <<faults, crashes>>
  BY <1>3 DEF Start, StartGet, StartRemove, StartPut, StartGC, Begin, Serve, bounds,
     PutKeep, PutTxn, PutFsCommit, SqlCommit, GetMiss, GetTxn, GetFails, GetPost,
     RemoveMiss, RemoveDirs, RemoveTxn, RemovePost, Undo, UndoFails, RemoveOnFailure
<1>4. ASSUME NEW r \in Slots, Start(r) \/ Serve(r), Faultless PROVE Tidy'
  <2>1. Tidy /\ Unhurt /\ SweptRows
    BY <1>4 DEF TidyInv, Tidy
  <2>2. ~Undo(r) /\ ~UndoFails(r) /\ ~RemoveOnFailure(r)
    BY <2>1 DEF Unhurt, Undo, UndoFails, RemoveOnFailure
  <2>3. ~GetFails(r)
    BY <2>1, GetFinds
  <2> QED
    BY <1>4, <2>1, <2>2, <2>3, StartTidy, PutTidy, GetTidy, RemoveTidy DEF Serve
<1>5. CASE UNCHANGED vars
  <2>1. \A us : Gone(us)' = Gone(us)
    BY <1>5, GoneSame DEF vars, tables
  <2>2. Tidy => Tidy'
    BY <1>5, <2>1 DEF vars, tables, files, bounds, history, Tidy, Unhurt, StoreRows, SharedTidy,
       PutRows, TakesAll, OwnTidy, TxnRows, SweptRows, Tidies, Removal, StashDir
  <2> QED
    BY <1>5, <2>2 DEF vars, bounds, TidyInv, Bounded, Faultless
<1>6. ASSUME NEW r \in Slots, Start(r) \/ Serve(r) PROVE TidyInv'
  BY <1>0, <1>3, <1>4, <1>6 DEF TidyInv, Bounded, Faultless
<1> QED
  BY <1>1, <1>2, <1>5, <1>6 DEF Next, TidyInv

(* NothingLeft: as long as nothing has failed, once all requests have been *)
(* answered each file of the store has a row (or slipped from a removal    *)
(* whose directory another one took away), and the stash is empty.         *)
THEOREM NothingLeftAlways == Spec => []NothingLeft
<1> DEFINE IInv == ACStoreTypeOK /\ JobsOK /\ AllKept /\ Counted(acs, ref)
                     /\ Counted(saved[1], saved[2]) /\ TidyInv
<1>1. Init => IInv
  <2>1. Init => JobsOK
    BY FreeOK, NamesAssumption DEF Init, JobsOK, JobOK
  <2>2. Init => AllKept
    BY DEF Init, AllKept, CommittedKept, WorkingKept
  <2>3. Init => TidyInv
    <3> SUFFICES ASSUME Init PROVE TidyInv
      OBVIOUS
    <3>1. Bounded
      BY BoundsAssumption DEF Init, Bounded
    <3>2. Unhurt /\ StoreRows /\ SweptRows
      BY FreeOK DEF Init, Unhurt, StoreRows, SweptRows
    <3>3. \A d \in StashDirs : old[d] = {} /\ new[d] = {}
      BY DEF Init
    <3>4. SharedTidy /\ \A r \in Slots : OwnTidy(r)
      BY <3>3 DEF SharedTidy, OwnTidy, StashDirs
    <3>5. \A r \in Slots : PutRows(r) /\ TakesAll(r) /\ TxnRows(r)
      BY FreeOK DEF Init, PutRows, TakesAll, TxnRows
    <3> QED
      BY <3>1, <3>2, <3>4, <3>5 DEF TidyInv, Tidy
  <2> QED
    BY <2>1, <2>2, <2>3, InitTyped, InitCounts
<1>2. IInv /\ [Next]_vars => IInv'
  <2>1. ASSUME IInv, [Next]_vars PROVE Counted(acs, ref)' /\ Counted(saved[1], saved[2])'
    BY <2>1, StepCounts DEF Counted
  <2> QED
    BY <2>1, StepTyped, StepOK, StepKept, StepTidy
<1>3. IInv => NothingLeft
  <2> SUFFICES ASSUME IInv, \A r \in Slots : job[r] = Free, Faultless
               PROVE  /\ store \subseteq {b \in Blobs : ref[b] > 0} \cup slipped
                      /\ \A d \in StashDirs : old[d] = {} /\ new[d] = {}
    BY DEF NothingLeft, Faultless
  <2>1. StoreRows /\ SharedTidy /\ \A r \in Slots : OwnTidy(r)
    BY DEF TidyInv, Tidy
  <2>2. \A r \in Slots : job[r].at = "idle"
    BY FreeOK
  <2> QED
    BY <2>1, <2>2 DEF StoreRows, SharedTidy, OwnTidy, Tidies
<1> QED
  BY <1>1, <1>2, <1>3, PTL DEF Spec
=============================================================================
