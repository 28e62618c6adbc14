----------------------------- MODULE PSingleton -----------------------------
(***************************************************************************)
(* One local cache server per lock file (devtools/local_cache/psingleton): *)
(* the processes that run ServerCode find the server that is there or take *)
(* its place.  The lock file holds the name of the server (pid, creation   *)
(* time, address) and is locked with flock: TFileReadWriteLock in          *)
(* systemptr.cpp, called from TSingletonServer in server.cpp.              *)
(*                                                                         *)
(* A process runs once, in one of three modes: Normal concedes to a server *)
(* that answers, ForcedSeizure takes its place, Halt only stops it.  An    *)
(* RPC may fail although the server is well, a signal or a critical error  *)
(* may shut a server down at any time, a process may die at any step, and  *)
(* the lock file may be removed (rm -rf ~/.ya).  A process that was sent   *)
(* SIGKILL takes no further step, and pids with creation times are not     *)
(* reused.                                                                 *)
(***************************************************************************)
EXTENDS Naturals

CONSTANTS
  Proc,
  NoName,     \* TSystemWideName(), also what an empty file parses to
  Free,       \* an exclusive lock that nobody holds
  Starts,     \* [mode, last]: the EModes of the processes ("None": it never
              \* starts) and how many files were made and removed before
  ATTEMPTS,   \* TFileReadWriteLock::ATTEMPTS
  MaxFiles    \* bound: lock files ever made, one more than are removed

ASSUME PSingletonAssumption ==
  /\ NoName \notin Proc /\ Free \notin Proc
  /\ ATTEMPTS \in Nat \ {0} /\ MaxFiles \in Nat \ {0}
  /\ Starts \subseteq [mode : [Proc -> {"None", "Normal", "ForcedSeizure", "Halt"}],
                       last : 0..(MaxFiles - 1)]

VARIABLES
  linked,     \* the lock file exists under its name
  last,       \* the last file made under that name
  content,    \* content[f]: the name in file f
  shared,     \* shared[f]: the processes with LOCK_SH on f
  excl,       \* excl[f]: the process with LOCK_EX on f, or Free
  mode,       \* EMode of a process
  pc,
  tries,      \* failed attempts of TryToReplace
  file,       \* the lock file a process has opened
  stale,      \* the name a process has read under LOCK_EX
  state,      \* TSingletonServer::State_
  grpc,       \* processes whose grpc server answers
  backends,   \* processes whose back ends run
  home,       \* history: the file a server wrote its name to, or 0
  orphaned    \* history: servers whose name a dying process has lost

fileVars == <<linked, last, content>>
lockVars == <<shared, excl>>
procVars == <<mode, tries, file, stale>>
servVars == <<state, grpc, backends, home>>
vars == <<fileVars, lockVars, pc, procVars, servVars, orphaned>>

File == 1..MaxFiles
State == {"Suspended", "Processing", "ShuttingDown"}

(* Steps of a process under LOCK_EX, and with its signal handlers set.     *)
Installing == {"recheck", "hardstop", "term", "wait", "stopped", "build",
               "truncate", "write", "start", "fail"}
Handling == {"serving", "stoplock", "cleanup", "cleanup locked", "empty", "rewrite"}
Locked == Installing \cup {"cleanup locked", "empty", "rewrite"}
PC == {"idle", "read", "check", "lock", "handlers", "unwind", "exit"}
      \cup Installing \cup Handling

Init ==
  /\ linked = FALSE /\ \E s \in Starts : mode = s.mode /\ last = s.last
  /\ content = [f \in File |-> NoName]
  /\ shared = [f \in File |-> {}] /\ excl = [f \in File |-> Free]
  /\ pc = [p \in Proc |-> "idle"]
  /\ tries = [p \in Proc |-> 0] /\ file = [p \in Proc |-> 0]
  /\ stale = [p \in Proc |-> NoName]
  /\ state = [p \in Proc |-> "Suspended"]
  /\ grpc = {} /\ backends = {} /\ home = [p \in Proc |-> 0]
  /\ orphaned = {}

(* TProcessUID::CheckProcess: the process is there.                        *)
Alive(n) == n \in Proc /\ pc[n] \notin {"idle", "exit"}

(* TSystemWideName::CheckProcess may only say yes of a server that answers *)
(* and is not shutting down; it may say no of any.                         *)
Serving(n) == Alive(n) /\ n \in grpc /\ state[n] # "ShuttingDown"

Goto(p, l) == pc' = [pc EXCEPT ![p] = l]

Unlocked(p) == [f \in File |-> IF excl[f] = p THEN Free ELSE excl[f]]
Unshared(p) == [f \in File |-> shared[f] \ {p}]

(* TFile(Name, OpenAlways): the file of that name, a new one if need be.   *)
Opened == IF linked THEN last ELSE last + 1
OpenFile(p) ==
  /\ Opened \in File
  /\ linked' = TRUE /\ last' = Opened /\ UNCHANGED content
  /\ file' = [file EXCEPT ![p] = Opened]

Begin(p) ==
  /\ pc[p] = "idle" /\ mode[p] # "None" /\ OpenFile(p)
  /\ Goto(p, IF mode[p] = "Normal" THEN "read" ELSE "lock")
  /\ UNCHANGED <<lockVars, mode, tries, stale, servVars, orphaned>>

-----------------------------------------------------------------------------
(* TryToReplace and Write: the lock, and who is there.                     *)

(* LockedRead, without waiting for the lock.                               *)
LockShared(p) ==
  /\ pc[p] = "read"
  /\ IF excl[file[p]] = Free
       THEN /\ shared' = [shared EXCEPT ![file[p]] = @ \cup {p}]
            /\ Goto(p, "check")
       ELSE Goto(p, "lock") /\ UNCHANGED shared
  /\ UNCHANGED <<fileVars, excl, procVars, servVars, orphaned>>

(* Mutant: a process that goes on keeps its shared lock.                   *)
CheckKeeps(p) ==
  /\ pc[p] = "check"
  /\ \/ Serving(content[file[p]]) /\ Goto(p, "exit") /\ shared' = Unshared(p)
     \/ Goto(p, "lock") /\ UNCHANGED shared
  /\ UNCHANGED <<fileVars, excl, procVars, servVars, orphaned>>

Check(p) ==
  /\ pc[p] = "check"
  /\ \/ Serving(content[file[p]]) /\ Goto(p, "exit")
     \/ Goto(p, "lock")
  /\ shared' = Unshared(p)
  /\ UNCHANGED <<fileVars, excl, procVars, servVars, orphaned>>

(* LockedReadAndWrite and LockedWrite: the file is read as soon as it is   *)
(* locked.  Only the last attempt of TryToReplace waits; Write does        *)
(* nothing between its attempts, so that all it does is wait.              *)
LockExclusive(p) ==
  /\ pc[p] = "lock"
  /\ excl[file[p]] = Free /\ shared[file[p]] = {}
  /\ excl' = [excl EXCEPT ![file[p]] = p]
  /\ stale' = [stale EXCEPT ![p] = content[file[p]]]
  /\ Goto(p, IF mode[p] = "Normal" THEN "recheck" ELSE "hardstop")
  /\ UNCHANGED <<fileVars, shared, mode, tries, file, servVars, orphaned>>

LockBusy(p) ==
  /\ pc[p] = "lock" /\ mode[p] = "Normal" /\ tries[p] + 1 < ATTEMPTS
  /\ excl[file[p]] # Free \/ shared[file[p]] # {}
  /\ tries' = [tries EXCEPT ![p] = @ + 1] /\ Goto(p, "read")
  /\ UNCHANGED <<fileVars, lockVars, mode, file, stale, servVars, orphaned>>

(* Mutant: a process that concedes under the exclusive lock keeps it.      *)
RecheckKeeps(p) ==
  /\ pc[p] = "recheck"
  /\ \/ Serving(stale[p]) /\ Goto(p, "exit")
     \/ Goto(p, "hardstop")
  /\ UNCHANGED <<fileVars, lockVars, procVars, servVars, orphaned>>

(* ReadOtherOrWriteMyself: concede after all, or call InstallServer.       *)
Recheck(p) ==
  /\ pc[p] = "recheck"
  /\ \/ Serving(stale[p]) /\ Goto(p, "exit") /\ excl' = Unlocked(p)
     \/ Goto(p, "hardstop") /\ UNCHANGED excl
  /\ UNCHANGED <<fileVars, shared, procVars, servVars, orphaned>>

-----------------------------------------------------------------------------
(* HardStop, under the exclusive lock.                                     *)

(* Mutant: a process that does not answer is taken for one that is gone.   *)
HardStopSilent(p) ==
  /\ pc[p] = "hardstop"
  /\ \/ /\ Serving(stale[p]) /\ Goto(p, "wait")
        /\ state' = [state EXCEPT ![stale[p]] = "ShuttingDown"]
     \/ Goto(p, "stopped") /\ UNCHANGED state
  /\ UNCHANGED <<fileVars, lockVars, procVars, grpc, backends, home, orphaned>>

(* The Shutdown RPC if it answers, a signal if it does not or the RPC      *)
(* fails, and nothing if the process is gone.                              *)
HardStop(p) ==
  /\ pc[p] = "hardstop"
  /\ \/ /\ Serving(stale[p]) /\ Goto(p, "wait")
        /\ state' = [state EXCEPT ![stale[p]] = "ShuttingDown"]
     \/ Alive(stale[p]) /\ Goto(p, "term") /\ UNCHANGED state
     \/ ~ Alive(stale[p]) /\ Goto(p, "stopped") /\ UNCHANGED state
  /\ UNCHANGED <<fileVars, lockVars, procVars, grpc, backends, home, orphaned>>

(* The end of process q by a signal or a crash: the system drops its locks *)
(* and its threads.  If it was between emptying the file and writing back  *)
(* the name of another server, that name is lost.                          *)
LostBy(q) == IF pc[q] = "rewrite" /\ Alive(stale[q]) /\ stale[q] # q
             THEN {stale[q]} ELSE {}
Die(q) ==
  /\ excl' = Unlocked(q) /\ shared' = Unshared(q)
  /\ grpc' = grpc \ {q} /\ backends' = backends \ {q}
  /\ orphaned' = orphaned \cup LostBy(q)

(* SIGTERM: the handler calls Shutdown; a process that has not set its     *)
(* handlers dies of it.                                                    *)
Term(p) ==
  LET s == stale[p] IN
  /\ pc[p] = "term"
  /\ \/ /\ Alive(s) /\ pc[s] \notin Handling
        /\ Die(s) /\ pc' = [pc EXCEPT ![p] = "wait", ![s] = "exit"]
        /\ UNCHANGED <<state, home>>
     \/ /\ Alive(s) /\ pc[s] \in Handling /\ Goto(p, "wait")
        /\ state' = [state EXCEPT ![s] = "ShuttingDown"]
        /\ UNCHANGED <<lockVars, grpc, backends, home, orphaned>>
     \/ /\ ~ Alive(s) /\ Goto(p, "wait")
        /\ UNCHANGED <<lockVars, servVars, orphaned>>
  /\ UNCHANGED <<fileVars, procVars>>

Wait(p) ==
  /\ pc[p] = "wait" /\ ~ Alive(stale[p]) /\ Goto(p, "stopped")
  /\ UNCHANGED <<fileVars, lockVars, procVars, servVars, orphaned>>

(* SIGKILL after TermSignalWait seconds.                                   *)
Kill(p) ==
  /\ pc[p] = "wait" /\ Alive(stale[p])
  /\ Die(stale[p]) /\ pc' = [pc EXCEPT ![p] = "stopped", ![stale[p]] = "exit"]
  /\ UNCHANGED <<fileVars, procVars, state, home>>

(* Halt writes the empty name and unlocks; InstallServer goes on.  Its     *)
(* check that the old server does not answer cannot fail: it is gone.      *)
Stopped(p) ==
  /\ pc[p] = "stopped"
  /\ IF mode[p] = "Halt"
       THEN /\ content' = [content EXCEPT ![file[p]] = NoName]
            /\ excl' = Unlocked(p) /\ Goto(p, "handlers")
       ELSE Goto(p, "build") /\ UNCHANGED <<content, excl>>
  /\ UNCHANGED <<linked, last, shared, procVars, servVars, orphaned>>

-----------------------------------------------------------------------------
(* InstallServer, after HardStop.                                          *)

(* BuildAndStartService: the port or the socket may be refused.            *)
Build(p) ==
  /\ pc[p] = "build"
  /\ \/ Goto(p, "truncate") /\ grpc' = grpc \cup {p}
     \/ Goto(p, "fail") /\ UNCHANGED grpc
  /\ UNCHANGED <<fileVars, lockVars, procVars, state, backends, home, orphaned>>

(* WriteMyself: the file is emptied, then the process checks that it       *)
(* answers itself, then writes its name.                                   *)
Truncate(p) ==
  /\ pc[p] = "truncate" /\ Goto(p, "write")
  /\ content' = [content EXCEPT ![file[p]] = NoName]
  /\ UNCHANGED <<linked, last, lockVars, procVars, servVars, orphaned>>

WriteMyself(p) ==
  /\ pc[p] = "write"
  /\ \/ /\ Serving(p) /\ Goto(p, "start")
        /\ content' = [content EXCEPT ![file[p]] = p]
        /\ home' = [home EXCEPT ![p] = file[p]]
     \/ Goto(p, "fail") /\ UNCHANGED <<content, home>>
  /\ UNCHANGED <<linked, last, lockVars, procVars, state, grpc, backends, orphaned>>

(* StartProcessing: if a back end cannot be started, those before it stay  *)
(* started and the server shuts down.                                      *)
StartProcessing(p) ==
  IF state[p] = "Suspended"
  THEN /\ backends' = backends \cup {p}
       /\ \E s \in {"Processing", "ShuttingDown"} : state' = [state EXCEPT ![p] = s]
  ELSE UNCHANGED <<backends, state>>

(* The end of InstallServer and of the exclusive lock.                     *)
Start(p) ==
  /\ pc[p] = "start" /\ StartProcessing(p)
  /\ excl' = Unlocked(p) /\ Goto(p, "handlers")
  /\ UNCHANGED <<fileVars, shared, procVars, grpc, home, orphaned>>

SetHandlers(p) ==
  /\ pc[p] = "handlers" /\ Goto(p, "serving")
  /\ UNCHANGED <<fileVars, lockVars, procVars, servVars, orphaned>>

(* An exception in InstallServer: TShutdownGuard, the lock, and the        *)
(* destructor of the server, whose Cleanup writes nothing.                 *)
Fail(p) ==
  /\ pc[p] = "fail" /\ Goto(p, "unwind")
  /\ state' = [state EXCEPT ![p] = "ShuttingDown"] /\ excl' = Unlocked(p)
  /\ UNCHANGED <<fileVars, shared, procVars, grpc, backends, home, orphaned>>

Unwind(p) ==
  /\ pc[p] = "unwind" /\ p \notin grpc
  /\ backends' = backends \ {p} /\ Goto(p, "exit")
  /\ UNCHANGED <<fileVars, lockVars, procVars, state, grpc, home, orphaned>>

-----------------------------------------------------------------------------
(* A server at work.                                                       *)

(* TShutdownPoller (no activity, or no lock file), a signal, an RPC, or    *)
(* the handler of critical errors.                                         *)
Shutdown(p) ==
  /\ p \in grpc /\ state[p] # "ShuttingDown"
  /\ pc[p] = "serving" \/ p \in backends
  /\ state' = [state EXCEPT ![p] = "ShuttingDown"]
  /\ UNCHANGED <<fileVars, lockVars, pc, procVars, grpc, backends, home, orphaned>>

(* The StartProcessing and StopProcessing RPCs of a client, which knows    *)
(* the server by the name in the lock file.                                *)
StartRPC(p) ==
  /\ p \in grpc /\ home[p] # 0 /\ state[p] = "Suspended" /\ StartProcessing(p)
  /\ UNCHANGED <<fileVars, lockVars, pc, procVars, grpc, home, orphaned>>

(* StopProcessing does nothing unless the server is Processing.            *)
StopProcessing(p) ==
  IF state[p] = "Processing"
  THEN backends' = backends \ {p} /\ state' = [state EXCEPT ![p] = "Suspended"]
  ELSE UNCHANGED <<backends, state>>

StopRPC(p) ==
  /\ p \in grpc /\ home[p] # 0 /\ state[p] = "Processing" /\ StopProcessing(p)
  /\ UNCHANGED <<fileVars, lockVars, pc, procVars, grpc, home, orphaned>>

(* WaitThread_: StopProcessing, which finds ShuttingDown, then             *)
(* Server_->Shutdown.                                                      *)
WaitThread(p) ==
  /\ p \in grpc /\ state[p] = "ShuttingDown" /\ StopProcessing(p)
  /\ grpc' = grpc \ {p}
  /\ UNCHANGED <<fileVars, lockVars, pc, procVars, home, orphaned>>

-----------------------------------------------------------------------------
(* StopLocked and Cleanup.                                                 *)

(* WaitForCompletion is over, at once for Halt, which has no grpc server.  *)
Leave(p) ==
  /\ pc[p] = "serving" /\ p \notin grpc
  /\ OpenFile(p) /\ Goto(p, "stoplock")
  /\ UNCHANGED <<lockVars, mode, tries, stale, servVars, orphaned>>

(* Mutant: StopLocked waits for the lock.                                  *)
StopLockWaits(p) ==
  /\ pc[p] = "stoplock" /\ excl[file[p]] = Free /\ shared[file[p]] = {}
  /\ excl' = [excl EXCEPT ![file[p]] = p]
  /\ stale' = [stale EXCEPT ![p] = content[file[p]]]
  /\ Goto(p, "cleanup locked")
  /\ UNCHANGED <<fileVars, shared, mode, tries, file, servVars, orphaned>>

(* StopLocked(NonBlocking) gives up a lock that is busy.                   *)
StopLock(p) ==
  /\ pc[p] = "stoplock"
  /\ IF excl[file[p]] = Free /\ shared[file[p]] = {}
       THEN /\ excl' = [excl EXCEPT ![file[p]] = p]
            /\ stale' = [stale EXCEPT ![p] = content[file[p]]]
            /\ Goto(p, "cleanup locked")
       ELSE Goto(p, "cleanup") /\ UNCHANGED <<excl, stale>>
  /\ UNCHANGED <<fileVars, shared, mode, tries, file, servVars, orphaned>>

Cleanup(p) ==
  /\ \/ pc[p] = "cleanup" /\ Goto(p, "exit")
     \/ pc[p] = "cleanup locked" /\ Goto(p, "empty")
  /\ backends' = backends \ {p}
  /\ UNCHANGED <<fileVars, lockVars, procVars, state, grpc, home, orphaned>>

(* finalizeProcessing with WriteMyself: the name of another server is      *)
(* written back.                                                           *)
Empty(p) ==
  /\ pc[p] = "empty" /\ Goto(p, "rewrite")
  /\ content' = [content EXCEPT ![file[p]] = NoName]
  /\ UNCHANGED <<linked, last, lockVars, procVars, servVars, orphaned>>

(* Mutant: the leaving process clears the file whoever is in it.           *)
NewProcErased(p) == NoName

NewProc(p) == IF stale[p] = p THEN NoName ELSE stale[p]

Rewrite(p) ==
  /\ pc[p] = "rewrite" /\ Goto(p, "exit") /\ excl' = Unlocked(p)
  /\ content' = [content EXCEPT ![file[p]] = NewProc(p)]
  /\ UNCHANGED <<linked, last, shared, procVars, servVars, orphaned>>

-----------------------------------------------------------------------------
Crash(p) ==
  /\ Alive(p) /\ Goto(p, "exit") /\ Die(p)
  /\ UNCHANGED <<fileVars, procVars, state, home>>

Remove ==
  /\ linked /\ last < MaxFiles /\ linked' = FALSE
  /\ UNCHANGED <<last, content, lockVars, pc, procVars, servVars, orphaned>>

Step(p) ==
  \/ LockShared(p) \/ Check(p) \/ LockExclusive(p) \/ LockBusy(p) \/ Recheck(p)
  \/ HardStop(p) \/ Term(p) \/ Wait(p) \/ Stopped(p)
  \/ Build(p) \/ Truncate(p) \/ WriteMyself(p) \/ Start(p) \/ SetHandlers(p)
  \/ Fail(p) \/ Unwind(p) \/ WaitThread(p)
  \/ Leave(p) \/ StopLock(p) \/ Cleanup(p) \/ Empty(p) \/ Rewrite(p)

Next ==
  \/ \E p \in Proc : Begin(p) \/ Step(p) \/ Kill(p) \/ Crash(p)
                     \/ Shutdown(p) \/ StartRPC(p) \/ StopRPC(p)
  \/ Remove

(* The steps of a process that has begun are taken, and one waiting for a  *)
(* lock that is free gets it.  Nothing makes the time out of HardStop      *)
(* expire, so that no property rests on SIGKILL.                           *)
Spec == Init /\ [][Next]_vars /\ \A p \in Proc : WF_vars(Step(p))

-----------------------------------------------------------------------------
PSingletonTypeOK ==
  /\ linked \in BOOLEAN /\ last \in 0..MaxFiles
  /\ content \in [File -> Proc \cup {NoName}]
  /\ shared \in [File -> SUBSET Proc] /\ excl \in [File -> Proc \cup {Free}]
  /\ mode \in [Proc -> {"None", "Normal", "ForcedSeizure", "Halt"}] /\ pc \in [Proc -> PC] /\ tries \in [Proc -> 0..ATTEMPTS]
  /\ file \in [Proc -> 0..MaxFiles] /\ stale \in [Proc -> Proc \cup {NoName}]
  /\ state \in [Proc -> State] /\ home \in [Proc -> 0..MaxFiles]
  /\ grpc \subseteq Proc /\ backends \subseteq Proc /\ orphaned \subseteq Proc
  /\ \A f \in File : excl[f] # Free =>
       /\ pc[excl[f]] \in Locked /\ file[excl[f]] = f /\ shared[f] = {}

(* Two processes never run the back ends (the databases and stores of the  *)
(* caches) of one lock file at a time, whatever dies or is shut down when: *)
(* a new server is built only after the old process is gone.  Two cases    *)
(* remain: the lock file was removed, so that there are two; and a process *)
(* died while it wrote back the name of a server, which is then unknown to *)
(* the next one.                                                           *)
OneServer ==
  \A p, q \in backends : p # q /\ home[p] = home[q] => {p, q} \cap orphaned # {}

(* A server that answers can be found: its name is in the file where it    *)
(* was installed unless a process has that file locked.  A process that    *)
(* leaves, of Halt or of an earlier server, does not erase its successor.  *)
Findable ==
  \A p \in Proc : pc[p] \in {"handlers", "serving"} /\ Serving(p) /\ home[p] # 0 =>
    p \in orphaned \/ content[home[p]] = p \/ excl[home[p]] # Free

(* A process that has begun serves or ends: nobody waits for ever for the  *)
(* lock or for the old server.                                             *)
Settles ==
  \A p \in Proc : pc[p] = "read" \/ pc[p] = "lock" ~> pc[p] \in {"serving", "exit"}

(* A server that shuts down ends by itself, although the process that has  *)
(* asked it to holds the lock it wants for its own Cleanup.                *)
ShutdownCompletes ==
  \A p \in Proc : p \in backends /\ state[p] = "ShuttingDown" ~> pc[p] = "exit"

(* "Shutdown BE before GRPC services to avoid conflicts during new server  *)
(* installation": a server that no longer answers runs no back end.        *)
BackEndsFirst == backends \subseteq grpc
=============================================================================
