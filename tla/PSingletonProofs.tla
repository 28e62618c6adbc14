-------------------------- MODULE PSingletonProofs --------------------------
(* One server runs the back ends of a lock file, and a server that answers *)
(* can be found by it: proved for all processes, modes and files.          *)
EXTENDS PSingleton, TLAPS

Act(p) == Begin(p) \/ Step(p) \/ Kill(p) \/ Crash(p)
          \/ Shutdown(p) \/ StartRPC(p) \/ StopRPC(p)

FileTypes ==
  linked \in BOOLEAN /\ last \in 0..MaxFiles /\ content \in [File -> Proc \cup {NoName}]
LockTypes == shared \in [File -> SUBSET Proc] /\ excl \in [File -> Proc \cup {Free}]
PcTypes == pc \in [Proc -> PC]
ProcTypes ==
  /\ mode \in [Proc -> {"None", "Normal", "ForcedSeizure", "Halt"}]
  /\ tries \in [Proc -> 0..ATTEMPTS]
  /\ file \in [Proc -> 0..MaxFiles] /\ stale \in [Proc -> Proc \cup {NoName}]
ServerTypes ==
  /\ state \in [Proc -> State] /\ home \in [Proc -> 0..MaxFiles]
  /\ grpc \subseteq Proc /\ backends \subseteq Proc /\ orphaned \subseteq Proc
Types == FileTypes /\ LockTypes /\ PcTypes /\ ProcTypes /\ ServerTypes

HasFile(p) == pc[p] # "idle" => file[p] \in File

(* LOCK_EX is held at the steps of Locked, on the file that is open, and   *)
(* by nobody else.                                                         *)
LockOf(p, f) == excl[f] = p <=> pc[p] \in Locked /\ file[p] = f
Exclusive(f) == excl[f] # Free => shared[f] = {}

(* Where a server may be that has its name in a file, answers, or runs     *)
(* back ends.                                                              *)
Installed == {"start", "handlers", "serving", "stoplock", "cleanup", "cleanup locked",
              "empty", "rewrite", "exit"}
Placed(p) ==
  /\ home[p] # 0 => pc[p] \in Installed
  /\ p \in grpc => pc[p] \in {"truncate", "write", "start", "handlers", "serving",
                              "fail", "unwind"}
  /\ p \in backends => home[p] # 0 /\ pc[p] \in Installed \ {"empty", "rewrite", "exit"}
  /\ pc[p] = "start" => home[p] = file[p]

(* What was read under the lock is still in the file.                      *)
NameRead(p) ==
  /\ pc[p] \in {"recheck", "hardstop", "term", "wait", "cleanup locked", "empty"}
       => stale[p] = content[file[p]]
  /\ pc[p] = "rewrite" => content[file[p]] = NoName

(* The name of a live server is in its file, or about to be written back.  *)
Rewriting(q) == excl[home[q]] \in Proc /\ pc[excl[home[q]]] = "rewrite"
                /\ stale[excl[home[q]]] = q
Live(q) == home[q] # 0 /\ Alive(q) /\ q \notin orphaned
Named(q) == Live(q) => content[home[q]] = q \/ Rewriting(q)

(* After HardStop no live server is left in the file.                      *)
Replacing == {"stopped", "build", "truncate", "write"}
Alone(p, q) == pc[p] \in Replacing /\ home[q] = file[p] => ~ Live(q)

IInv ==
  /\ Types
  /\ \A p \in Proc : HasFile(p) /\ Placed(p) /\ NameRead(p) /\ Named(p)
  /\ \A f \in File : Exclusive(f)
  /\ \A p \in Proc, f \in File : LockOf(p, f)
  /\ \A p, q \in Proc : Alone(p, q)

(* Each step keeps the types, by the variables they are about.             *)
LEMMA FilesTyped ==
  ASSUME IInv, NEW p \in Proc, Act(p)
  PROVE  FileTypes'
<1>h. FileTypes /\ ProcTypes /\ HasFile(p)
  BY DEF IInv, Types
<1> USE <1>h, PSingletonAssumption DEF Goto, fileVars, lockVars, procVars, servVars,
    FileTypes, ProcTypes, HasFile, File
<1>LockShared. CASE LockShared(p)  BY <1>LockShared DEF LockShared
<1>Check. CASE Check(p)  BY <1>Check DEF Check, Unshared
<1>LockExclusive. CASE LockExclusive(p)  BY <1>LockExclusive DEF LockExclusive
<1>LockBusy. CASE LockBusy(p)  BY <1>LockBusy DEF LockBusy
<1>Recheck. CASE Recheck(p)  BY <1>Recheck DEF Recheck, Unlocked
<1>HardStop. CASE HardStop(p)  BY <1>HardStop DEF HardStop
<1>Term. CASE Term(p)  BY <1>Term DEF Term, Die, LostBy, Unlocked, Unshared
<1>Wait. CASE Wait(p)  BY <1>Wait DEF Wait
<1>Stopped. CASE Stopped(p)  BY <1>Stopped DEF Stopped, Unlocked
<1>Build. CASE Build(p)  BY <1>Build DEF Build
<1>Truncate. CASE Truncate(p)  BY <1>Truncate DEF Truncate
<1>WriteMyself. CASE WriteMyself(p)  BY <1>WriteMyself DEF WriteMyself
<1>Start. CASE Start(p)  BY <1>Start DEF Start, StartProcessing, Unlocked
<1>SetHandlers. CASE SetHandlers(p)  BY <1>SetHandlers DEF SetHandlers
<1>Fail. CASE Fail(p)  BY <1>Fail DEF Fail, Unlocked
<1>Unwind. CASE Unwind(p)  BY <1>Unwind DEF Unwind
<1>WaitThread. CASE WaitThread(p)  BY <1>WaitThread DEF WaitThread, StopProcessing
<1>Leave. CASE Leave(p)  BY <1>Leave DEF Leave, OpenFile, Opened
<1>StopLock. CASE StopLock(p)  BY <1>StopLock DEF StopLock
<1>Cleanup. CASE Cleanup(p)  BY <1>Cleanup DEF Cleanup
<1>Empty. CASE Empty(p)  BY <1>Empty DEF Empty
<1>Rewrite. CASE Rewrite(p)  BY <1>Rewrite DEF Rewrite, Unlocked, NewProc
<1>Begin. CASE Begin(p)  BY <1>Begin DEF Begin, OpenFile, Opened
<1>Kill. CASE Kill(p)  BY <1>Kill DEF Kill, Die, LostBy, Unlocked, Unshared
<1>Crash. CASE Crash(p)  BY <1>Crash DEF Crash, Die, LostBy, Unlocked, Unshared
<1>Shutdown. CASE Shutdown(p)  BY <1>Shutdown DEF Shutdown
<1>StartRPC. CASE StartRPC(p)  BY <1>StartRPC DEF StartRPC, StartProcessing
<1>StopRPC. CASE StopRPC(p)  BY <1>StopRPC DEF StopRPC, StopProcessing
<1> QED BY <1>LockShared, <1>Check, <1>LockExclusive, <1>LockBusy, <1>Recheck, <1>HardStop,
    <1>Term, <1>Wait, <1>Stopped, <1>Build, <1>Truncate, <1>WriteMyself, <1>Start,
    <1>SetHandlers, <1>Fail, <1>Unwind, <1>WaitThread, <1>Leave, <1>StopLock, <1>Cleanup,
    <1>Empty, <1>Rewrite, <1>Begin, <1>Kill, <1>Crash, <1>Shutdown, <1>StartRPC, <1>StopRPC
    DEF Act, Step

LEMMA LocksTyped ==
  ASSUME IInv, NEW p \in Proc, Act(p)
  PROVE  LockTypes'
<1>h. LockTypes
  BY DEF IInv, Types
<1> USE <1>h, PSingletonAssumption DEF Goto, fileVars, lockVars, procVars, servVars,
    LockTypes
<1>LockShared. CASE LockShared(p)  BY <1>LockShared DEF LockShared
<1>Check. CASE Check(p)  BY <1>Check DEF Check, Unshared
<1>LockExclusive. CASE LockExclusive(p)  BY <1>LockExclusive DEF LockExclusive
<1>LockBusy. CASE LockBusy(p)  BY <1>LockBusy DEF LockBusy
<1>Recheck. CASE Recheck(p)  BY <1>Recheck DEF Recheck, Unlocked
<1>HardStop. CASE HardStop(p)  BY <1>HardStop DEF HardStop
<1>Term. CASE Term(p)  BY <1>Term DEF Term, Die, LostBy, Unlocked, Unshared
<1>Wait. CASE Wait(p)  BY <1>Wait DEF Wait
<1>Stopped. CASE Stopped(p)  BY <1>Stopped DEF Stopped, Unlocked
<1>Build. CASE Build(p)  BY <1>Build DEF Build
<1>Truncate. CASE Truncate(p)  BY <1>Truncate DEF Truncate
<1>WriteMyself. CASE WriteMyself(p)  BY <1>WriteMyself DEF WriteMyself
<1>Start. CASE Start(p)  BY <1>Start DEF Start, StartProcessing, Unlocked
<1>SetHandlers. CASE SetHandlers(p)  BY <1>SetHandlers DEF SetHandlers
<1>Fail. CASE Fail(p)  BY <1>Fail DEF Fail, Unlocked
<1>Unwind. CASE Unwind(p)  BY <1>Unwind DEF Unwind
<1>WaitThread. CASE WaitThread(p)  BY <1>WaitThread DEF WaitThread, StopProcessing
<1>Leave. CASE Leave(p)  BY <1>Leave DEF Leave, OpenFile, Opened
<1>StopLock. CASE StopLock(p)  BY <1>StopLock DEF StopLock
<1>Cleanup. CASE Cleanup(p)  BY <1>Cleanup DEF Cleanup
<1>Empty. CASE Empty(p)  BY <1>Empty DEF Empty
<1>Rewrite. CASE Rewrite(p)  BY <1>Rewrite DEF Rewrite, Unlocked, NewProc
<1>Begin. CASE Begin(p)  BY <1>Begin DEF Begin, OpenFile, Opened
<1>Kill. CASE Kill(p)  BY <1>Kill DEF Kill, Die, LostBy, Unlocked, Unshared
<1>Crash. CASE Crash(p)  BY <1>Crash DEF Crash, Die, LostBy, Unlocked, Unshared
<1>Shutdown. CASE Shutdown(p)  BY <1>Shutdown DEF Shutdown
<1>StartRPC. CASE StartRPC(p)  BY <1>StartRPC DEF StartRPC, StartProcessing
<1>StopRPC. CASE StopRPC(p)  BY <1>StopRPC DEF StopRPC, StopProcessing
<1> QED BY <1>LockShared, <1>Check, <1>LockExclusive, <1>LockBusy, <1>Recheck, <1>HardStop,
    <1>Term, <1>Wait, <1>Stopped, <1>Build, <1>Truncate, <1>WriteMyself, <1>Start,
    <1>SetHandlers, <1>Fail, <1>Unwind, <1>WaitThread, <1>Leave, <1>StopLock, <1>Cleanup,
    <1>Empty, <1>Rewrite, <1>Begin, <1>Kill, <1>Crash, <1>Shutdown, <1>StartRPC, <1>StopRPC
    DEF Act, Step

LEMMA PcTyped ==
  ASSUME IInv, NEW p \in Proc, Act(p)
  PROVE  PcTypes'
<1>h. PcTypes
  BY DEF IInv, Types
<1> USE <1>h, PSingletonAssumption DEF Goto, fileVars, lockVars, procVars, servVars,
    PcTypes, PC, Installing, Handling
<1>LockShared. CASE LockShared(p)  BY <1>LockShared DEF LockShared
<1>Check. CASE Check(p)  BY <1>Check DEF Check, Unshared
<1>LockExclusive. CASE LockExclusive(p)  BY <1>LockExclusive DEF LockExclusive
<1>LockBusy. CASE LockBusy(p)  BY <1>LockBusy DEF LockBusy
<1>Recheck. CASE Recheck(p)  BY <1>Recheck DEF Recheck, Unlocked
<1>HardStop. CASE HardStop(p)  BY <1>HardStop DEF HardStop
<1>Term. CASE Term(p)  BY <1>Term DEF Term, Die, LostBy, Unlocked, Unshared
<1>Wait. CASE Wait(p)  BY <1>Wait DEF Wait
<1>Stopped. CASE Stopped(p)  BY <1>Stopped DEF Stopped, Unlocked
<1>Build. CASE Build(p)  BY <1>Build DEF Build
<1>Truncate. CASE Truncate(p)  BY <1>Truncate DEF Truncate
<1>WriteMyself. CASE WriteMyself(p)  BY <1>WriteMyself DEF WriteMyself
<1>Start. CASE Start(p)  BY <1>Start DEF Start, StartProcessing, Unlocked
<1>SetHandlers. CASE SetHandlers(p)  BY <1>SetHandlers DEF SetHandlers
<1>Fail. CASE Fail(p)  BY <1>Fail DEF Fail, Unlocked
<1>Unwind. CASE Unwind(p)  BY <1>Unwind DEF Unwind
<1>WaitThread. CASE WaitThread(p)  BY <1>WaitThread DEF WaitThread, StopProcessing
<1>Leave. CASE Leave(p)  BY <1>Leave DEF Leave, OpenFile, Opened
<1>StopLock. CASE StopLock(p)  BY <1>StopLock DEF StopLock
<1>Cleanup. CASE Cleanup(p)  BY <1>Cleanup DEF Cleanup
<1>Empty. CASE Empty(p)  BY <1>Empty DEF Empty
<1>Rewrite. CASE Rewrite(p)  BY <1>Rewrite DEF Rewrite, Unlocked, NewProc
<1>Begin. CASE Begin(p)  BY <1>Begin DEF Begin, OpenFile, Opened
<1>Kill. CASE Kill(p)  BY <1>Kill DEF Kill, Die, LostBy, Unlocked, Unshared
<1>Crash. CASE Crash(p)  BY <1>Crash DEF Crash, Die, LostBy, Unlocked, Unshared
<1>Shutdown. CASE Shutdown(p)  BY <1>Shutdown DEF Shutdown
<1>StartRPC. CASE StartRPC(p)  BY <1>StartRPC DEF StartRPC, StartProcessing
<1>StopRPC. CASE StopRPC(p)  BY <1>StopRPC DEF StopRPC, StopProcessing
<1> QED BY <1>LockShared, <1>Check, <1>LockExclusive, <1>LockBusy, <1>Recheck, <1>HardStop,
    <1>Term, <1>Wait, <1>Stopped, <1>Build, <1>Truncate, <1>WriteMyself, <1>Start,
    <1>SetHandlers, <1>Fail, <1>Unwind, <1>WaitThread, <1>Leave, <1>StopLock, <1>Cleanup,
    <1>Empty, <1>Rewrite, <1>Begin, <1>Kill, <1>Crash, <1>Shutdown, <1>StartRPC, <1>StopRPC
    DEF Act, Step

LEMMA ProcsTyped ==
  ASSUME IInv, NEW p \in Proc, Act(p),
         NEW q \in Proc
  PROVE  ProcTypes' /\ HasFile(q)'
<1>h. ProcTypes /\ PcTypes /\ FileTypes /\ HasFile(p) /\ HasFile(q)
  BY DEF IInv, Types
<1> USE <1>h, PSingletonAssumption DEF Goto, fileVars, lockVars, procVars, servVars,
    ProcTypes, PcTypes, FileTypes, HasFile, File
<1>LockShared. CASE LockShared(p)  BY <1>LockShared DEF LockShared
<1>Check. CASE Check(p)  BY <1>Check DEF Check, Unshared
<1>LockExclusive. CASE LockExclusive(p)  BY <1>LockExclusive DEF LockExclusive
<1>LockBusy. CASE LockBusy(p)  BY <1>LockBusy DEF LockBusy
<1>Recheck. CASE Recheck(p)  BY <1>Recheck DEF Recheck, Unlocked
<1>HardStop. CASE HardStop(p)  BY <1>HardStop DEF HardStop
<1>Term. CASE Term(p)
  BY <1>Term DEF Term, Die, LostBy, Unlocked, Unshared, Alive
<1>Wait. CASE Wait(p)  BY <1>Wait DEF Wait
<1>Stopped. CASE Stopped(p)  BY <1>Stopped DEF Stopped, Unlocked
<1>Build. CASE Build(p)  BY <1>Build DEF Build
<1>Truncate. CASE Truncate(p)  BY <1>Truncate DEF Truncate
<1>WriteMyself. CASE WriteMyself(p)  BY <1>WriteMyself DEF WriteMyself
<1>Start. CASE Start(p)  BY <1>Start DEF Start, StartProcessing, Unlocked
<1>SetHandlers. CASE SetHandlers(p)  BY <1>SetHandlers DEF SetHandlers
<1>Fail. CASE Fail(p)  BY <1>Fail DEF Fail, Unlocked
<1>Unwind. CASE Unwind(p)  BY <1>Unwind DEF Unwind
<1>WaitThread. CASE WaitThread(p)  BY <1>WaitThread DEF WaitThread, StopProcessing
<1>Leave. CASE Leave(p)  BY <1>Leave DEF Leave, OpenFile, Opened
<1>StopLock. CASE StopLock(p)  BY <1>StopLock DEF StopLock
<1>Cleanup. CASE Cleanup(p)  BY <1>Cleanup DEF Cleanup
<1>Empty. CASE Empty(p)  BY <1>Empty DEF Empty
<1>Rewrite. CASE Rewrite(p)  BY <1>Rewrite DEF Rewrite, Unlocked, NewProc
<1>Begin. CASE Begin(p)  BY <1>Begin DEF Begin, OpenFile, Opened
<1>Kill. CASE Kill(p)
  BY <1>Kill DEF Kill, Die, LostBy, Unlocked, Unshared, Alive
<1>Crash. CASE Crash(p)
  BY <1>Crash DEF Crash, Die, LostBy, Unlocked, Unshared, Alive
<1>Shutdown. CASE Shutdown(p)  BY <1>Shutdown DEF Shutdown
<1>StartRPC. CASE StartRPC(p)  BY <1>StartRPC DEF StartRPC, StartProcessing
<1>StopRPC. CASE StopRPC(p)  BY <1>StopRPC DEF StopRPC, StopProcessing
<1> QED BY <1>LockShared, <1>Check, <1>LockExclusive, <1>LockBusy, <1>Recheck, <1>HardStop,
    <1>Term, <1>Wait, <1>Stopped, <1>Build, <1>Truncate, <1>WriteMyself, <1>Start,
    <1>SetHandlers, <1>Fail, <1>Unwind, <1>WaitThread, <1>Leave, <1>StopLock, <1>Cleanup,
    <1>Empty, <1>Rewrite, <1>Begin, <1>Kill, <1>Crash, <1>Shutdown, <1>StartRPC, <1>StopRPC
    DEF Act, Step

LEMMA ServersTyped ==
  ASSUME IInv, NEW p \in Proc, Act(p)
  PROVE  ServerTypes'
<1>h. ServerTypes /\ ProcTypes /\ HasFile(p)
  BY DEF IInv, Types
<1> USE <1>h, PSingletonAssumption DEF Goto, fileVars, lockVars, procVars, servVars,
    ServerTypes, ProcTypes, State, Alive, Serving, HasFile, File
<1>LockShared. CASE LockShared(p)  BY <1>LockShared DEF LockShared
<1>Check. CASE Check(p)  BY <1>Check DEF Check, Unshared
<1>LockExclusive. CASE LockExclusive(p)  BY <1>LockExclusive DEF LockExclusive
<1>LockBusy. CASE LockBusy(p)  BY <1>LockBusy DEF LockBusy
<1>Recheck. CASE Recheck(p)  BY <1>Recheck DEF Recheck, Unlocked
<1>HardStop. CASE HardStop(p)  BY <1>HardStop DEF HardStop
<1>Term. CASE Term(p)  BY <1>Term DEF Term, Die, LostBy, Unlocked, Unshared
<1>Wait. CASE Wait(p)  BY <1>Wait DEF Wait
<1>Stopped. CASE Stopped(p)  BY <1>Stopped DEF Stopped, Unlocked
<1>Build. CASE Build(p)  BY <1>Build DEF Build
<1>Truncate. CASE Truncate(p)  BY <1>Truncate DEF Truncate
<1>WriteMyself. CASE WriteMyself(p)  BY <1>WriteMyself DEF WriteMyself
<1>Start. CASE Start(p)  BY <1>Start DEF Start, StartProcessing, Unlocked
<1>SetHandlers. CASE SetHandlers(p)  BY <1>SetHandlers DEF SetHandlers
<1>Fail. CASE Fail(p)  BY <1>Fail DEF Fail, Unlocked
<1>Unwind. CASE Unwind(p)  BY <1>Unwind DEF Unwind
<1>WaitThread. CASE WaitThread(p)  BY <1>WaitThread DEF WaitThread, StopProcessing
<1>Leave. CASE Leave(p)  BY <1>Leave DEF Leave, OpenFile, Opened
<1>StopLock. CASE StopLock(p)  BY <1>StopLock DEF StopLock
<1>Cleanup. CASE Cleanup(p)  BY <1>Cleanup DEF Cleanup
<1>Empty. CASE Empty(p)  BY <1>Empty DEF Empty
<1>Rewrite. CASE Rewrite(p)  BY <1>Rewrite DEF Rewrite, Unlocked, NewProc
<1>Begin. CASE Begin(p)  BY <1>Begin DEF Begin, OpenFile, Opened
<1>Kill. CASE Kill(p)  BY <1>Kill DEF Kill, Die, LostBy, Unlocked, Unshared
<1>Crash. CASE Crash(p)  BY <1>Crash DEF Crash, Die, LostBy, Unlocked, Unshared
<1>Shutdown. CASE Shutdown(p)  BY <1>Shutdown DEF Shutdown
<1>StartRPC. CASE StartRPC(p)  BY <1>StartRPC DEF StartRPC, StartProcessing
<1>StopRPC. CASE StopRPC(p)  BY <1>StopRPC DEF StopRPC, StopProcessing
<1> QED BY <1>LockShared, <1>Check, <1>LockExclusive, <1>LockBusy, <1>Recheck, <1>HardStop,
    <1>Term, <1>Wait, <1>Stopped, <1>Build, <1>Truncate, <1>WriteMyself, <1>Start,
    <1>SetHandlers, <1>Fail, <1>Unwind, <1>WaitThread, <1>Leave, <1>StopLock, <1>Cleanup,
    <1>Empty, <1>Rewrite, <1>Begin, <1>Kill, <1>Crash, <1>Shutdown, <1>StartRPC, <1>StopRPC
    DEF Act, Step

(* A server has its name in a file, answers and runs back ends where it may. *)
LEMMA PlacedKept ==
  ASSUME IInv, NEW p \in Proc, Act(p),
         NEW q \in Proc
  PROVE  Placed(q)'
<1>h. Types /\ Placed(p) /\ Placed(q) /\ HasFile(p)
  BY DEF IInv, Types
<1> USE <1>h, PSingletonAssumption DEF Goto, fileVars, lockVars, procVars, servVars, Types,
    ServerTypes, FileTypes, ProcTypes, PcTypes, LockTypes, Placed, Installed, HasFile,
    Alive, Serving, Handling
<1>LockShared. CASE LockShared(p)  BY <1>LockShared DEF LockShared
<1>Check. CASE Check(p)  BY <1>Check DEF Check, Unshared
<1>LockExclusive. CASE LockExclusive(p)  BY <1>LockExclusive DEF LockExclusive
<1>LockBusy. CASE LockBusy(p)  BY <1>LockBusy DEF LockBusy
<1>Recheck. CASE Recheck(p)  BY <1>Recheck DEF Recheck, Unlocked
<1>HardStop. CASE HardStop(p)  BY <1>HardStop DEF HardStop
<1>Term. CASE Term(p)  BY <1>Term DEF Term, Die, LostBy, Unlocked, Unshared
<1>Wait. CASE Wait(p)  BY <1>Wait DEF Wait
<1>Stopped. CASE Stopped(p)  BY <1>Stopped DEF Stopped, Unlocked
<1>Build. CASE Build(p)  BY <1>Build DEF Build
<1>Truncate. CASE Truncate(p)  BY <1>Truncate DEF Truncate
<1>WriteMyself. CASE WriteMyself(p)
  <2>1. CASE q = p
    BY <1>WriteMyself, <2>1 DEF WriteMyself
  <2>2. CASE q # p
    BY <1>WriteMyself, <2>2 DEF WriteMyself
  <2> QED BY <2>1, <2>2
<1>Start. CASE Start(p)
  <2>1. /\ pc[p] = "start" /\ pc' = [pc EXCEPT ![p] = "handlers"]
        /\ backends' \subseteq backends \cup {p} /\ UNCHANGED <<grpc, home, file>>
    BY <1>Start DEF Start, StartProcessing
  <2>2. CASE q = p
    <3>1. home[p] = file[p] /\ file[p] \in File /\ pc'[p] = "handlers"
      BY <2>1
    <3>2. home[p] # 0
      BY ONLY <3>1 DEF File
    <3> QED BY <2>1, <2>2, <3>1, <3>2
  <2>3. CASE q # p
    BY <2>1, <2>3
  <2> QED BY <2>2, <2>3
<1>SetHandlers. CASE SetHandlers(p)  BY <1>SetHandlers DEF SetHandlers
<1>Fail. CASE Fail(p)  BY <1>Fail DEF Fail, Unlocked
<1>Unwind. CASE Unwind(p)  BY <1>Unwind DEF Unwind
<1>WaitThread. CASE WaitThread(p)  BY <1>WaitThread DEF WaitThread, StopProcessing
<1>Leave. CASE Leave(p)  BY <1>Leave DEF Leave, OpenFile, Opened
<1>StopLock. CASE StopLock(p)  BY <1>StopLock DEF StopLock
<1>Cleanup. CASE Cleanup(p)  BY <1>Cleanup DEF Cleanup
<1>Empty. CASE Empty(p)  BY <1>Empty DEF Empty
<1>Rewrite. CASE Rewrite(p)  BY <1>Rewrite DEF Rewrite, Unlocked, NewProc
<1>Begin. CASE Begin(p)  BY <1>Begin DEF Begin, OpenFile, Opened
<1>Kill. CASE Kill(p)  BY <1>Kill DEF Kill, Die, LostBy, Unlocked, Unshared
<1>Crash. CASE Crash(p)  BY <1>Crash DEF Crash, Die, LostBy, Unlocked, Unshared
<1>Shutdown. CASE Shutdown(p)  BY <1>Shutdown DEF Shutdown
<1>StartRPC. CASE StartRPC(p)
  <2>1. /\ p \in grpc /\ home[p] # 0 /\ backends' \subseteq backends \cup {p}
        /\ UNCHANGED <<pc, grpc, home, file>>
    BY <1>StartRPC DEF StartRPC, StartProcessing
  <2> QED BY <2>1
<1>StopRPC. CASE StopRPC(p)  BY <1>StopRPC DEF StopRPC, StopProcessing
<1> QED BY <1>LockShared, <1>Check, <1>LockExclusive, <1>LockBusy, <1>Recheck, <1>HardStop,
    <1>Term, <1>Wait, <1>Stopped, <1>Build, <1>Truncate, <1>WriteMyself, <1>Start,
    <1>SetHandlers, <1>Fail, <1>Unwind, <1>WaitThread, <1>Leave, <1>StopLock, <1>Cleanup,
    <1>Empty, <1>Rewrite, <1>Begin, <1>Kill, <1>Crash, <1>Shutdown, <1>StartRPC, <1>StopRPC
    DEF Act, Step

(* A lock is taken when it is free and given up with the step that needs it. *)
LEMMA LockKept ==
  ASSUME IInv, NEW p \in Proc, Act(p),
         NEW q \in Proc, NEW f \in File
  PROVE  LockOf(q, f)' /\ Exclusive(f)'
<1>h. Types /\ HasFile(p) /\ LockOf(p, f) /\ LockOf(q, f) /\ Exclusive(f)
  BY DEF IInv, Types
<1> USE <1>h, PSingletonAssumption DEF Goto, fileVars, lockVars, procVars, servVars, Types,
    FileTypes, ProcTypes, PcTypes, LockTypes, HasFile, LockOf, Exclusive, Locked,
    Installing, Handling, Alive
<1>LockShared. CASE LockShared(p)  BY <1>LockShared DEF LockShared
<1>Check. CASE Check(p)  BY <1>Check DEF Check, Unshared
<1>LockExclusive. CASE LockExclusive(p)  BY <1>LockExclusive DEF LockExclusive
<1>LockBusy. CASE LockBusy(p)  BY <1>LockBusy DEF LockBusy
<1>Recheck. CASE Recheck(p)  BY <1>Recheck DEF Recheck, Unlocked
<1>HardStop. CASE HardStop(p)  BY <1>HardStop DEF HardStop
<1>Term. CASE Term(p)
  <2>1. CASE Alive(stale[p]) /\ pc[stale[p]] \notin Handling /\ Die(stale[p])
             /\ pc' = [pc EXCEPT ![p] = "wait", ![stale[p]] = "exit"] /\ UNCHANGED <<state, home>>
    BY <1>Term, <2>1 DEF Term, Die, LostBy, Unlocked, Unshared
  <2>2. CASE Goto(p, "wait") /\ UNCHANGED <<lockVars, grpc, backends, home, orphaned>>
    BY <1>Term, <2>2 DEF Term
  <2> QED BY <1>Term, <2>1, <2>2 DEF Term
<1>Wait. CASE Wait(p)  BY <1>Wait DEF Wait
<1>Stopped. CASE Stopped(p)
  <2>1. pc[p] = "stopped" /\ file[p] \in File /\ UNCHANGED <<shared, file>>
    BY <1>Stopped DEF Stopped
  <2>2. CASE excl' = Unlocked(p) /\ Goto(p, "handlers")
    BY <2>1, <2>2 DEF Unlocked
  <2>3. CASE excl' = excl /\ Goto(p, "build")
    BY <2>1, <2>3
  <2> QED BY <1>Stopped, <2>2, <2>3 DEF Stopped
<1>Build. CASE Build(p)  BY <1>Build DEF Build
<1>Truncate. CASE Truncate(p)  BY <1>Truncate DEF Truncate
<1>WriteMyself. CASE WriteMyself(p)  BY <1>WriteMyself DEF WriteMyself
<1>Start. CASE Start(p)  BY <1>Start DEF Start, StartProcessing, Unlocked
<1>SetHandlers. CASE SetHandlers(p)  BY <1>SetHandlers DEF SetHandlers
<1>Fail. CASE Fail(p)  BY <1>Fail DEF Fail, Unlocked
<1>Unwind. CASE Unwind(p)  BY <1>Unwind DEF Unwind
<1>WaitThread. CASE WaitThread(p)  BY <1>WaitThread DEF WaitThread, StopProcessing
<1>Leave. CASE Leave(p)  BY <1>Leave DEF Leave, OpenFile, Opened
<1>StopLock. CASE StopLock(p)
  <2>1. pc[p] = "stoplock" /\ file[p] \in File /\ UNCHANGED <<shared, file>>
    BY <1>StopLock DEF StopLock
  <2>2. CASE /\ excl[file[p]] = Free /\ shared[file[p]] = {}
             /\ excl' = [excl EXCEPT ![file[p]] = p] /\ Goto(p, "cleanup locked")
    BY <2>1, <2>2
  <2>3. CASE excl' = excl /\ Goto(p, "cleanup")
    BY <2>1, <2>3
  <2> QED BY <1>StopLock, <2>2, <2>3 DEF StopLock
<1>Cleanup. CASE Cleanup(p)  BY <1>Cleanup DEF Cleanup
<1>Empty. CASE Empty(p)  BY <1>Empty DEF Empty
<1>Rewrite. CASE Rewrite(p)  BY <1>Rewrite DEF Rewrite, Unlocked, NewProc
<1>Begin. CASE Begin(p)  BY <1>Begin DEF Begin, OpenFile, Opened
<1>Kill. CASE Kill(p)  BY <1>Kill DEF Kill, Die, LostBy, Unlocked, Unshared
<1>Crash. CASE Crash(p)  BY <1>Crash DEF Crash, Die, LostBy, Unlocked, Unshared
<1>Shutdown. CASE Shutdown(p)  BY <1>Shutdown DEF Shutdown
<1>StartRPC. CASE StartRPC(p)  BY <1>StartRPC DEF StartRPC, StartProcessing
<1>StopRPC. CASE StopRPC(p)  BY <1>StopRPC DEF StopRPC, StopProcessing
<1> QED BY <1>LockShared, <1>Check, <1>LockExclusive, <1>LockBusy, <1>Recheck, <1>HardStop,
    <1>Term, <1>Wait, <1>Stopped, <1>Build, <1>Truncate, <1>WriteMyself, <1>Start,
    <1>SetHandlers, <1>Fail, <1>Unwind, <1>WaitThread, <1>Leave, <1>StopLock, <1>Cleanup,
    <1>Empty, <1>Rewrite, <1>Begin, <1>Kill, <1>Crash, <1>Shutdown, <1>StartRPC, <1>StopRPC
    DEF Act, Step

(* Only the owner of the lock changes the file.                            *)
LEMMA NamesKept ==
  ASSUME IInv, NEW p \in Proc, Act(p),
         NEW q \in Proc
  PROVE  NameRead(q)'
<1>h. Types /\ HasFile(p) /\ HasFile(q) /\ NameRead(q)
      /\ (pc[p] # "idle" => LockOf(p, file[p]) /\ LockOf(q, file[p]))
  BY DEF IInv, HasFile
<1> USE <1>h, PSingletonAssumption DEF Goto, fileVars, lockVars, procVars, servVars, Types,
    FileTypes, ProcTypes, PcTypes, LockTypes, HasFile, LockOf, NameRead, Locked, Installing,
    Handling, Alive
<1>LockShared. CASE LockShared(p)  BY <1>LockShared DEF LockShared
<1>Check. CASE Check(p)  BY <1>Check DEF Check, Unshared
<1>LockExclusive. CASE LockExclusive(p)  BY <1>LockExclusive DEF LockExclusive
<1>LockBusy. CASE LockBusy(p)  BY <1>LockBusy DEF LockBusy
<1>Recheck. CASE Recheck(p)  BY <1>Recheck DEF Recheck, Unlocked
<1>HardStop. CASE HardStop(p)  BY <1>HardStop DEF HardStop
<1>Term. CASE Term(p)  BY <1>Term DEF Term, Die, LostBy, Unlocked, Unshared
<1>Wait. CASE Wait(p)  BY <1>Wait DEF Wait
<1>Stopped. CASE Stopped(p)
  <2>1. pc[p] = "stopped" /\ file[p] \in File /\ excl[file[p]] = p /\ UNCHANGED <<file, stale>>
    BY <1>Stopped DEF Stopped
  <2>2. /\ \A g \in File : g # file[p] => content'[g] = content[g]
        /\ \A r \in Proc : r # p => pc'[r] = pc[r]
    BY <1>Stopped, <2>1 DEF Stopped
  <2>3. CASE q = p
    BY <1>Stopped, <2>1, <2>3 DEF Stopped, Unlocked
  <2>4. CASE q # p /\ pc[q] \in Locked
    <3>1. file[q] # file[p] /\ file[q] \in File
      BY <2>1, <2>4
    <3> QED BY <2>1, <2>2, <2>4, <3>1
  <2>5. CASE q # p /\ pc[q] \notin Locked
    BY <2>2, <2>5
  <2> QED BY <2>3, <2>4, <2>5
<1>Build. CASE Build(p)  BY <1>Build DEF Build
<1>Truncate. CASE Truncate(p)
  <2>1. pc[p] = "truncate" /\ file[p] \in File /\ excl[file[p]] = p /\ UNCHANGED <<file, stale>>
    BY <1>Truncate DEF Truncate
  <2>2. /\ \A g \in File : g # file[p] => content'[g] = content[g]
        /\ \A r \in Proc : r # p => pc'[r] = pc[r]
    BY <1>Truncate, <2>1 DEF Truncate
  <2>3. CASE q = p
    BY <1>Truncate, <2>1, <2>3 DEF Truncate
  <2>4. CASE q # p /\ pc[q] \in Locked
    <3>1. file[q] # file[p] /\ file[q] \in File
      BY <2>1, <2>4
    <3> QED BY <2>1, <2>2, <2>4, <3>1
  <2>5. CASE q # p /\ pc[q] \notin Locked
    BY <2>2, <2>5
  <2> QED BY <2>3, <2>4, <2>5
<1>WriteMyself. CASE WriteMyself(p)
  <2>1. pc[p] = "write" /\ file[p] \in File /\ excl[file[p]] = p /\ UNCHANGED <<file, stale>>
    BY <1>WriteMyself DEF WriteMyself
  <2>2. /\ \A g \in File : g # file[p] => content'[g] = content[g]
        /\ \A r \in Proc : r # p => pc'[r] = pc[r]
    BY <1>WriteMyself, <2>1 DEF WriteMyself
  <2>3. CASE q = p
    BY <1>WriteMyself, <2>1, <2>3 DEF WriteMyself
  <2>4. CASE q # p /\ pc[q] \in Locked
    <3>1. file[q] # file[p] /\ file[q] \in File
      BY <2>1, <2>4
    <3> QED BY <2>1, <2>2, <2>4, <3>1
  <2>5. CASE q # p /\ pc[q] \notin Locked
    BY <2>2, <2>5
  <2> QED BY <2>3, <2>4, <2>5
<1>Start. CASE Start(p)  BY <1>Start DEF Start, StartProcessing, Unlocked
<1>SetHandlers. CASE SetHandlers(p)  BY <1>SetHandlers DEF SetHandlers
<1>Fail. CASE Fail(p)  BY <1>Fail DEF Fail, Unlocked
<1>Unwind. CASE Unwind(p)  BY <1>Unwind DEF Unwind
<1>WaitThread. CASE WaitThread(p)  BY <1>WaitThread DEF WaitThread, StopProcessing
<1>Leave. CASE Leave(p)  BY <1>Leave DEF Leave, OpenFile, Opened
<1>StopLock. CASE StopLock(p)
  <2>1. CASE q = p
    BY <1>StopLock, <2>1 DEF StopLock
  <2>2. CASE q # p
    BY <1>StopLock, <2>2 DEF StopLock
  <2> QED BY <2>1, <2>2
<1>Cleanup. CASE Cleanup(p)  BY <1>Cleanup DEF Cleanup
<1>Empty. CASE Empty(p)
  <2>1. pc[p] = "empty" /\ file[p] \in File /\ excl[file[p]] = p /\ UNCHANGED <<file, stale>>
    BY <1>Empty DEF Empty
  <2>2. /\ \A g \in File : g # file[p] => content'[g] = content[g]
        /\ \A r \in Proc : r # p => pc'[r] = pc[r]
    BY <1>Empty, <2>1 DEF Empty
  <2>3. CASE q = p
    BY <1>Empty, <2>1, <2>3 DEF Empty
  <2>4. CASE q # p /\ pc[q] \in Locked
    <3>1. file[q] # file[p] /\ file[q] \in File
      BY <2>1, <2>4
    <3> QED BY <2>1, <2>2, <2>4, <3>1
  <2>5. CASE q # p /\ pc[q] \notin Locked
    BY <2>2, <2>5
  <2> QED BY <2>3, <2>4, <2>5
<1>Rewrite. CASE Rewrite(p)
  <2>1. pc[p] = "rewrite" /\ file[p] \in File /\ excl[file[p]] = p /\ UNCHANGED <<file, stale>>
    BY <1>Rewrite DEF Rewrite
  <2>2. /\ \A g \in File : g # file[p] => content'[g] = content[g]
        /\ \A r \in Proc : r # p => pc'[r] = pc[r]
    BY <1>Rewrite, <2>1 DEF Rewrite
  <2>3. CASE q = p
    BY <1>Rewrite, <2>1, <2>3 DEF Rewrite, Unlocked, NewProc
  <2>4. CASE q # p /\ pc[q] \in Locked
    <3>1. file[q] # file[p] /\ file[q] \in File
      BY <2>1, <2>4
    <3> QED BY <2>1, <2>2, <2>4, <3>1
  <2>5. CASE q # p /\ pc[q] \notin Locked
    BY <2>2, <2>5
  <2> QED BY <2>3, <2>4, <2>5
<1>Begin. CASE Begin(p)  BY <1>Begin DEF Begin, OpenFile, Opened
<1>Kill. CASE Kill(p)  BY <1>Kill DEF Kill, Die, LostBy, Unlocked, Unshared
<1>Crash. CASE Crash(p)  BY <1>Crash DEF Crash, Die, LostBy, Unlocked, Unshared
<1>Shutdown. CASE Shutdown(p)  BY <1>Shutdown DEF Shutdown
<1>StartRPC. CASE StartRPC(p)  BY <1>StartRPC DEF StartRPC, StartProcessing
<1>StopRPC. CASE StopRPC(p)  BY <1>StopRPC DEF StopRPC, StopProcessing
<1> QED BY <1>LockShared, <1>Check, <1>LockExclusive, <1>LockBusy, <1>Recheck, <1>HardStop,
    <1>Term, <1>Wait, <1>Stopped, <1>Build, <1>Truncate, <1>WriteMyself, <1>Start,
    <1>SetHandlers, <1>Fail, <1>Unwind, <1>WaitThread, <1>Leave, <1>StopLock, <1>Cleanup,
    <1>Empty, <1>Rewrite, <1>Begin, <1>Kill, <1>Crash, <1>Shutdown, <1>StartRPC, <1>StopRPC
    DEF Act, Step

(* HardStop ends only when the server that was named is gone.              *)
LEMMA AloneKept ==
  ASSUME IInv, NEW p \in Proc, Act(p),
         NEW r \in Proc, NEW q \in Proc
  PROVE  Alone(r, q)'
<1>h. Types /\ HasFile(p) /\ HasFile(r) /\ NameRead(p) /\ Placed(q) /\ Named(q) /\ Alone(r, q)
      /\ (pc[p] # "idle" => LockOf(p, file[p]) /\ LockOf(r, file[p]))
  BY DEF IInv, HasFile
<1> USE <1>h, PSingletonAssumption DEF Goto, fileVars, lockVars, procVars, servVars, Types,
    FileTypes, ProcTypes, PcTypes, LockTypes, ServerTypes, HasFile, LockOf, NameRead,
    Placed, Installed, Named, Rewriting, Live, Alone, Replacing, Locked, Installing,
    Handling, Alive
<1>LockShared. CASE LockShared(p)  BY <1>LockShared DEF LockShared
<1>Check. CASE Check(p)  BY <1>Check DEF Check, Unshared
<1>LockExclusive. CASE LockExclusive(p)  BY <1>LockExclusive DEF LockExclusive
<1>LockBusy. CASE LockBusy(p)  BY <1>LockBusy DEF LockBusy
<1>Recheck. CASE Recheck(p)  BY <1>Recheck DEF Recheck, Unlocked
<1>HardStop. CASE HardStop(p)
  <2>1. pc[p] = "hardstop" /\ file[p] \in File /\ UNCHANGED <<file, home, orphaned>>
    BY <1>HardStop DEF HardStop
  <2>2. Live(q)' => Live(q)
    BY <1>HardStop, <2>1 DEF HardStop
  <2>3. CASE r # p
    BY <1>HardStop, <2>1, <2>2, <2>3 DEF HardStop
  <2>4. CASE r = p
    <3>1. pc'[p] \in Replacing => ~ Alive(stale[p])
      BY <1>HardStop, <2>1 DEF HardStop
    <3>2. home[q] = file[p] /\ Live(q) => q = stale[p]
      BY <2>1
    <3> QED BY <2>1, <2>2, <2>4, <3>1, <3>2
  <2> QED BY <2>3, <2>4
<1>Term. CASE Term(p)  BY <1>Term DEF Term, Die, LostBy, Unlocked, Unshared
<1>Wait. CASE Wait(p)  BY <1>Wait DEF Wait
<1>Stopped. CASE Stopped(p)  BY <1>Stopped DEF Stopped, Unlocked
<1>Build. CASE Build(p)  BY <1>Build DEF Build
<1>Truncate. CASE Truncate(p)  BY <1>Truncate DEF Truncate
<1>WriteMyself. CASE WriteMyself(p)
  <2>1. CASE r = p /\ q = p
    BY <1>WriteMyself, <2>1 DEF WriteMyself
  <2>2. CASE r = p /\ q # p
    BY <1>WriteMyself, <2>2 DEF WriteMyself
  <2>3. CASE r # p /\ q = p
    BY <1>WriteMyself, <2>3 DEF WriteMyself
  <2>4. CASE r # p /\ q # p
    BY <1>WriteMyself, <2>4 DEF WriteMyself
  <2> QED BY <2>1, <2>2, <2>3, <2>4
<1>Start. CASE Start(p)  BY <1>Start DEF Start, StartProcessing, Unlocked
<1>SetHandlers. CASE SetHandlers(p)  BY <1>SetHandlers DEF SetHandlers
<1>Fail. CASE Fail(p)  BY <1>Fail DEF Fail, Unlocked
<1>Unwind. CASE Unwind(p)  BY <1>Unwind DEF Unwind
<1>WaitThread. CASE WaitThread(p)  BY <1>WaitThread DEF WaitThread, StopProcessing
<1>Leave. CASE Leave(p)  BY <1>Leave DEF Leave, OpenFile, Opened
<1>StopLock. CASE StopLock(p)  BY <1>StopLock DEF StopLock
<1>Cleanup. CASE Cleanup(p)  BY <1>Cleanup DEF Cleanup
<1>Empty. CASE Empty(p)  BY <1>Empty DEF Empty
<1>Rewrite. CASE Rewrite(p)  BY <1>Rewrite DEF Rewrite, Unlocked, NewProc
<1>Begin. CASE Begin(p)  BY <1>Begin DEF Begin, OpenFile, Opened
<1>Kill. CASE Kill(p)
  <2>1. CASE r = p /\ q = p
    BY <1>Kill, <2>1 DEF Kill, Die, LostBy, Unlocked, Unshared
  <2>2. CASE r = p /\ q # p
    BY <1>Kill, <2>2 DEF Kill, Die, LostBy, Unlocked, Unshared
  <2>3. CASE r # p /\ q = p
    BY <1>Kill, <2>3 DEF Kill, Die, LostBy, Unlocked, Unshared
  <2>4. CASE r # p /\ q # p
    BY <1>Kill, <2>4 DEF Kill, Die, LostBy, Unlocked, Unshared
  <2> QED BY <2>1, <2>2, <2>3, <2>4
<1>Crash. CASE Crash(p)  BY <1>Crash DEF Crash, Die, LostBy, Unlocked, Unshared
<1>Shutdown. CASE Shutdown(p)  BY <1>Shutdown DEF Shutdown
<1>StartRPC. CASE StartRPC(p)  BY <1>StartRPC DEF StartRPC, StartProcessing
<1>StopRPC. CASE StopRPC(p)  BY <1>StopRPC DEF StopRPC, StopProcessing
<1> QED BY <1>LockShared, <1>Check, <1>LockExclusive, <1>LockBusy, <1>Recheck, <1>HardStop,
    <1>Term, <1>Wait, <1>Stopped, <1>Build, <1>Truncate, <1>WriteMyself, <1>Start,
    <1>SetHandlers, <1>Fail, <1>Unwind, <1>WaitThread, <1>Leave, <1>StopLock, <1>Cleanup,
    <1>Empty, <1>Rewrite, <1>Begin, <1>Kill, <1>Crash, <1>Shutdown, <1>StartRPC, <1>StopRPC
    DEF Act, Step


(* A name stays found when p takes or gives up a lock, or changes another  *)
(* file.                                                                   *)
LEMMA NamedElsewhere ==
  ASSUME Types, NEW p \in Proc, NEW q \in Proc, Named(q), home'[q] = home[q],
         Live(q)' => Live(q) /\ content'[home[q]] = content[home[q]], pc[p] # "rewrite",
         \A f \in File : excl[f] \notin {Free, p} => excl'[f] = excl[f],
         \A r \in Proc : r # p => pc'[r] = pc[r] /\ stale'[r] = stale[r]
  PROVE  Named(q)'
<1> SUFFICES ASSUME Live(q)' PROVE content'[home'[q]] = q \/ Rewriting(q)'
  BY DEF Named
<1>1. CASE content[home[q]] = q
  BY <1>1
<1>2. CASE Rewriting(q)
  <2>1. home[q] \in File /\ excl[home[q]] \in Proc \ {p}
    BY <1>2 DEF Rewriting, Live, Types, ServerTypes, File
  <2>2. excl'[home'[q]] = excl[home[q]]
    BY <2>1, PSingletonAssumption
  <2> QED BY <1>2, <2>1, <2>2 DEF Rewriting
<1> QED BY <1>1, <1>2 DEF Named


(* A process that dies while it writes a name back orphans that server.    *)
LEMMA NamedAfterDeath ==
  ASSUME Types, NEW s \in Proc, NEW q \in Proc, Named(q), Die(s), UNCHANGED <<content, stale, home>>,
         pc' \in [Proc -> PC], pc'[s] = "exit", \A r \in Proc \ {s} : pc'[r] # pc[r] =>
           pc[r] \in {"term", "wait"} /\ pc'[r] # "exit"
  PROVE  Named(q)'
<1> USE PSingletonAssumption DEF Types, FileTypes, LockTypes, PcTypes, ProcTypes, ServerTypes
<1> SUFFICES ASSUME Live(q)' PROVE content'[home'[q]] = q \/ Rewriting(q)'
  BY DEF Named
<1>1. q # s /\ Live(q) /\ q \notin LostBy(s)
  BY DEF Live, Alive, Die
<1>2. CASE content[home[q]] = q
  BY <1>2
<1>3. CASE Rewriting(q)
  <2>1. excl[home[q]] # s
    BY <1>1, <1>3 DEF Rewriting, LostBy, Live
  <2>2. excl' = [f \in File |-> IF excl[f] = s THEN Free ELSE excl[f]] /\ home[q] \in File
    BY <1>1 DEF Die, Unlocked, Live, File
  <2>3. excl'[home[q]] = excl[home[q]]
    BY <2>1, <2>2
  <2>4. pc'[excl[home[q]]] = "rewrite"
    BY <1>3, <2>1 DEF Rewriting
  <2> QED BY <1>3, <2>3, <2>4 DEF Rewriting
<1> QED BY <1>1, <1>2, <1>3 DEF Named

(* A live server stays named, or its name is being written back.           *)
LEMMA NamedKept ==
  ASSUME IInv, NEW p \in Proc, Act(p),
         NEW q \in Proc
  PROVE  Named(q)'
<1>h. Types /\ HasFile(p) /\ NameRead(p) /\ Placed(p) /\ Placed(q) /\ Named(q) /\ Alone(p, q)
      /\ (pc[p] # "idle" => LockOf(p, file[p]))
      /\ (home[q] # 0 => home[q] \in File /\ LockOf(p, home[q]))
  BY DEF IInv, HasFile, Types, ServerTypes, File
<1> USE <1>h, PSingletonAssumption DEF Goto, fileVars, lockVars, procVars, servVars, Types,
    FileTypes, ProcTypes, PcTypes, LockTypes, ServerTypes, HasFile, LockOf, NameRead,
    Placed, Installed, Named, Rewriting, Live, Alone, Replacing, Locked, Installing,
    Handling, Alive
<1>LockShared. CASE LockShared(p)  BY <1>LockShared DEF LockShared
<1>Check. CASE Check(p)  BY <1>Check DEF Check, Unshared
<1>LockExclusive. CASE LockExclusive(p)
  <2> HIDE DEF Named, Rewriting, Live, Types
  <2>1. /\ pc[p] # "rewrite" /\ UNCHANGED <<content, home, orphaned>>
        /\ \A f \in File : excl[f] \notin {Free, p} => excl'[f] = excl[f]
        /\ \A r \in Proc : r # p => pc'[r] = pc[r] /\ stale'[r] = stale[r]
    BY <1>LockExclusive DEF LockExclusive, Types
  <2>2. Live(q)' => Live(q)
    BY <1>LockExclusive, <2>1 DEF LockExclusive, Live, Types
  <2> QED BY ONLY <1>h, <2>1, <2>2, NamedElsewhere
<1>LockBusy. CASE LockBusy(p)  BY <1>LockBusy DEF LockBusy
<1>Recheck. CASE Recheck(p)
  <2> HIDE DEF Named, Rewriting, Live, Types
  <2>1. /\ pc[p] # "rewrite" /\ UNCHANGED <<content, home, orphaned>>
        /\ \A f \in File : excl[f] \notin {Free, p} => excl'[f] = excl[f]
        /\ \A r \in Proc : r # p => pc'[r] = pc[r] /\ stale'[r] = stale[r]
    BY <1>Recheck DEF Recheck, Unlocked, Types
  <2>2. Live(q)' => Live(q)
    BY <1>Recheck, <2>1 DEF Recheck, Live, Types
  <2> QED BY ONLY <1>h, <2>1, <2>2, NamedElsewhere
<1>HardStop. CASE HardStop(p)  BY <1>HardStop DEF HardStop
<1>Term. CASE Term(p)
  <2> HIDE DEF Named, Rewriting, Live, Types
  <2>1. CASE Alive(stale[p]) /\ pc[stale[p]] \notin Handling /\ Die(stale[p])
             /\ pc' = [pc EXCEPT ![p] = "wait", ![stale[p]] = "exit"] /\ UNCHANGED <<state, home>>
    <3>1. /\ stale[p] \in Proc /\ UNCHANGED <<content, stale, home>>
          /\ pc' \in [Proc -> PC] /\ pc'[stale[p]] = "exit"
          /\ \A r \in Proc \ {stale[p]} : pc'[r] # pc[r] => pc[r] \in {"term", "wait"} /\ pc'[r] # "exit"
      BY <1>Term, <2>1, PcTyped DEF Term, Types
    <3> QED BY ONLY <1>h, <2>1, <3>1, NamedAfterDeath
  <2>2. CASE Goto(p, "wait") /\ UNCHANGED <<lockVars, grpc, backends, home, orphaned>>
    <3>1. pc[p] = "term" /\ UNCHANGED <<content, stale>>
      BY <1>Term DEF Term
    <3>2. /\ Live(q)' => Live(q)
          /\ \A r \in Proc : r # p => pc'[r] = pc[r]
      BY <2>2, <3>1 DEF Live, Types
    <3> QED BY ONLY <1>h, <2>2, <3>1, <3>2, NamedElsewhere DEF lockVars
  <2> QED BY <1>Term, <2>1, <2>2 DEF Term
<1>Wait. CASE Wait(p)  BY <1>Wait DEF Wait
<1>Stopped. CASE Stopped(p)
  <2> HIDE DEF Named, Rewriting, Live, Types
  <2>1. /\ pc[p] = "stopped" /\ file[p] \in File /\ UNCHANGED <<home, orphaned>>
        /\ \A f \in File : f # file[p] => content'[f] = content[f]
    BY <1>Stopped DEF Stopped, Types
  <2>2. /\ \A f \in File : excl[f] \notin {Free, p} => excl'[f] = excl[f]
        /\ \A r \in Proc : r # p => pc'[r] = pc[r] /\ stale'[r] = stale[r]
    <3>1. /\ excl' = excl \/ excl' = Unlocked(p)
          /\ UNCHANGED stale /\ \E l \in PC : pc' = [pc EXCEPT ![p] = l]
      BY <1>Stopped DEF Stopped, PC
    <3> QED BY <3>1 DEF Unlocked, Types
  <2>3. Live(q)' => Live(q)
    BY <1>Stopped, <2>1 DEF Stopped, Live, Types
  <2>4. Live(q) => home[q] \in File \ {file[p]}
    BY <2>1 DEF Live
  <2> QED BY ONLY <1>h, <2>1, <2>2, <2>3, <2>4, NamedElsewhere
<1>Build. CASE Build(p)  BY <1>Build DEF Build
<1>Truncate. CASE Truncate(p)
  <2> HIDE DEF Named, Rewriting, Live, Types
  <2>1. /\ pc[p] = "truncate" /\ file[p] \in File /\ UNCHANGED <<home, orphaned>>
        /\ \A f \in File : f # file[p] => content'[f] = content[f]
    BY <1>Truncate DEF Truncate, Types
  <2>2. /\ \A f \in File : excl[f] \notin {Free, p} => excl'[f] = excl[f]
        /\ \A r \in Proc : r # p => pc'[r] = pc[r] /\ stale'[r] = stale[r]
    BY <1>Truncate DEF Truncate, Types
  <2>3. Live(q)' => Live(q)
    BY <1>Truncate, <2>1 DEF Truncate, Live, Types
  <2>4. Live(q) => home[q] \in File \ {file[p]}
    BY <2>1 DEF Live
  <2> QED BY ONLY <1>h, <2>1, <2>2, <2>3, <2>4, NamedElsewhere
<1>WriteMyself. CASE WriteMyself(p)
  <2> HIDE DEF Named, Rewriting, Live, Types
  <2>1. /\ pc[p] = "write" /\ file[p] \in File /\ UNCHANGED <<excl, orphaned, stale>>
        /\ \A r \in Proc : r # p => pc'[r] = pc[r]
    BY <1>WriteMyself DEF WriteMyself, Types
  <2>2. CASE UNCHANGED <<content, home>> /\ Goto(p, "fail")
    <3>1. Live(q)' => Live(q)
      BY <1>WriteMyself, <2>2 DEF WriteMyself, Live, Types
    <3> QED BY ONLY <1>h, <2>1, <2>2, <3>1, NamedElsewhere
  <2>3. CASE q = p /\ content' = [content EXCEPT ![file[p]] = p]
             /\ home' = [home EXCEPT ![p] = file[p]]
    BY <2>1, <2>3 DEF Named, Types
  <2>4. CASE q # p /\ content' = [content EXCEPT ![file[p]] = p]
             /\ home' = [home EXCEPT ![p] = file[p]]
    <3>1. home'[q] = home[q] /\ (Live(q)' => Live(q))
      BY <2>1, <2>4 DEF Live, Types
    <3>2. Live(q) => content'[home[q]] = content[home[q]]
      BY <2>1, <2>4 DEF Live, Types
    <3> QED BY ONLY <1>h, <2>1, <3>1, <3>2, NamedElsewhere
  <2> QED BY <1>WriteMyself, <2>2, <2>3, <2>4 DEF WriteMyself
<1>Start. CASE Start(p)
  <2> HIDE DEF Named, Rewriting, Live, Types
  <2>1. /\ pc[p] # "rewrite" /\ UNCHANGED <<content, home, orphaned>>
        /\ \A f \in File : excl[f] \notin {Free, p} => excl'[f] = excl[f]
        /\ \A r \in Proc : r # p => pc'[r] = pc[r] /\ stale'[r] = stale[r]
    BY <1>Start DEF Start, StartProcessing, Unlocked, Types
  <2>2. Live(q)' => Live(q)
    BY <1>Start, <2>1 DEF Start, Live, Types
  <2> QED BY ONLY <1>h, <2>1, <2>2, NamedElsewhere
<1>SetHandlers. CASE SetHandlers(p)  BY <1>SetHandlers DEF SetHandlers
<1>Fail. CASE Fail(p)
  <2> HIDE DEF Named, Rewriting, Live, Types
  <2>1. /\ pc[p] # "rewrite" /\ UNCHANGED <<content, home, orphaned>>
        /\ \A f \in File : excl[f] \notin {Free, p} => excl'[f] = excl[f]
        /\ \A r \in Proc : r # p => pc'[r] = pc[r] /\ stale'[r] = stale[r]
    BY <1>Fail DEF Fail, Unlocked, Types
  <2>2. Live(q)' => Live(q)
    BY <1>Fail, <2>1 DEF Fail, Live, Types
  <2> QED BY ONLY <1>h, <2>1, <2>2, NamedElsewhere
<1>Unwind. CASE Unwind(p)  BY <1>Unwind DEF Unwind
<1>WaitThread. CASE WaitThread(p)  BY <1>WaitThread DEF WaitThread, StopProcessing
<1>Leave. CASE Leave(p)  BY <1>Leave DEF Leave, OpenFile, Opened
<1>StopLock. CASE StopLock(p)
  <2> HIDE DEF Named, Rewriting, Live, Types
  <2>1. /\ pc[p] # "rewrite" /\ UNCHANGED <<content, home, orphaned>>
        /\ \A f \in File : excl[f] \notin {Free, p} => excl'[f] = excl[f]
        /\ \A r \in Proc : r # p => pc'[r] = pc[r] /\ stale'[r] = stale[r]
    BY <1>StopLock DEF StopLock, Types
  <2>2. Live(q)' => Live(q)
    BY <1>StopLock, <2>1 DEF StopLock, Live, Types
  <2> QED BY ONLY <1>h, <2>1, <2>2, NamedElsewhere
<1>Cleanup. CASE Cleanup(p)  BY <1>Cleanup DEF Cleanup
<1>Empty. CASE Empty(p)
  <2> HIDE DEF Named, Rewriting, Live, Types
  <2>1. /\ pc[p] = "empty" /\ file[p] \in File /\ excl[file[p]] = p
        /\ content' = [content EXCEPT ![file[p]] = NoName] /\ pc' = [pc EXCEPT ![p] = "rewrite"]
        /\ UNCHANGED <<home, orphaned, excl, stale>>
    BY <1>Empty DEF Empty, Types
  <2>2. CASE home[q] = file[p]
    BY <2>1, <2>2 DEF Named, Rewriting, Live, Types
  <2>3. CASE home[q] # file[p]
    <3>1. /\ Live(q)' => Live(q) /\ content'[home[q]] = content[home[q]]
          /\ \A r \in Proc : r # p => pc'[r] = pc[r]
      BY <2>1, <2>3 DEF Live, Types
    <3> QED BY ONLY <1>h, <2>1, <3>1, NamedElsewhere
  <2> QED BY <2>2, <2>3
<1>Rewrite. CASE Rewrite(p)
  <2>1. /\ pc[p] = "rewrite" /\ file[p] \in File /\ excl[file[p]] = p /\ content[file[p]] = NoName
        /\ content' = [content EXCEPT ![file[p]] = NewProc(p)]
        /\ pc' = [pc EXCEPT ![p] = "exit"] /\ UNCHANGED <<home, orphaned, stale>>
        /\ \A f \in File : excl[f] # p => excl'[f] = excl[f]
    BY <1>Rewrite DEF Rewrite, Unlocked
  <2>2. Live(q)' => Live(q) /\ q # p
    BY <2>1
  <2>3. CASE home[q] = file[p]
    BY <2>1, <2>2, <2>3 DEF NewProc
  <2>4. CASE home[q] # file[p]
    <3>1. Live(q) => excl[home[q]] # p
      BY <2>1, <2>4
    <3> QED BY <2>1, <2>2, <2>4, <3>1
  <2> QED BY <2>3, <2>4
<1>Begin. CASE Begin(p)  BY <1>Begin DEF Begin, OpenFile, Opened
<1>Kill. CASE Kill(p)
  <2> HIDE DEF Named, Rewriting, Live, Types
  <2>1. /\ stale[p] \in Proc /\ Die(stale[p]) /\ UNCHANGED <<content, stale, home>>
        /\ pc' \in [Proc -> PC] /\ pc'[stale[p]] = "exit"
        /\ \A r \in Proc \ {stale[p]} : pc'[r] # pc[r] => pc[r] \in {"term", "wait"} /\ pc'[r] # "exit"
    BY <1>Kill, PcTyped DEF Kill, Types
  <2> QED BY ONLY <1>h, <2>1, NamedAfterDeath
<1>Crash. CASE Crash(p)
  <2> HIDE DEF Named, Rewriting, Live, Types
  <2>1. /\ Die(p) /\ UNCHANGED <<content, stale, home>>
        /\ pc' \in [Proc -> PC] /\ pc'[p] = "exit" /\ \A r \in Proc \ {p} : pc'[r] = pc[r]
    BY <1>Crash, PcTyped DEF Crash, Types
  <2> QED BY ONLY <1>h, <2>1, NamedAfterDeath
<1>Shutdown. CASE Shutdown(p)  BY <1>Shutdown DEF Shutdown
<1>StartRPC. CASE StartRPC(p)  BY <1>StartRPC DEF StartRPC, StartProcessing
<1>StopRPC. CASE StopRPC(p)  BY <1>StopRPC DEF StopRPC, StopProcessing
<1> QED BY <1>LockShared, <1>Check, <1>LockExclusive, <1>LockBusy, <1>Recheck, <1>HardStop,
    <1>Term, <1>Wait, <1>Stopped, <1>Build, <1>Truncate, <1>WriteMyself, <1>Start,
    <1>SetHandlers, <1>Fail, <1>Unwind, <1>WaitThread, <1>Leave, <1>StopLock, <1>Cleanup,
    <1>Empty, <1>Rewrite, <1>Begin, <1>Kill, <1>Crash, <1>Shutdown, <1>StartRPC, <1>StopRPC
    DEF Act, Step

-----------------------------------------------------------------------------
LEMMA InitInv == Init => IInv
<1> SUFFICES ASSUME Init PROVE IInv
  OBVIOUS
<1> USE PSingletonAssumption
<1>1. PICK s \in Starts : mode = s.mode /\ last = s.last
  BY DEF Init
<1>2. s \in [mode : [Proc -> {"None", "Normal", "ForcedSeizure", "Halt"}],
             last : 0..(MaxFiles - 1)]
  BY <1>1
<1>3. mode \in [Proc -> {"None", "Normal", "ForcedSeizure", "Halt"}] /\ last \in 0..MaxFiles
  BY <1>1, <1>2
<1>4. Types
  <2>1. FileTypes /\ LockTypes
    BY <1>3 DEF Init, FileTypes, LockTypes
  <2>2. PcTypes /\ ProcTypes
    BY <1>3 DEF Init, PcTypes, ProcTypes, PC
  <2>3. ServerTypes
    BY DEF Init, ServerTypes, State
  <2> QED BY <2>1, <2>2, <2>3 DEF Types
<1>5. /\ \A p \in Proc : HasFile(p) /\ Placed(p) /\ NameRead(p) /\ Named(p)
      /\ \A f \in File : Exclusive(f)
      /\ \A p, q \in Proc : Alone(p, q)
  BY DEF Init, HasFile, Placed, NameRead, Named, Live, Exclusive, Alone, Replacing
<1>6. \A p \in Proc, f \in File : LockOf(p, f)
  BY DEF Init, LockOf, Locked, Installing
<1> QED BY <1>4, <1>5, <1>6 DEF IInv

(* The name of the lock file tells nothing of the files.                   *)
LEMMA LinkInv ==
  ASSUME IInv, linked' \in BOOLEAN, UNCHANGED <<last, content>>,
         UNCHANGED <<lockVars, pc, procVars, servVars, orphaned>>
  PROVE  IInv'
<1> USE DEF lockVars, procVars, servVars
<1>1. Types'
  BY DEF IInv, Types, FileTypes, LockTypes, PcTypes, ProcTypes, ServerTypes
<1>2. ASSUME NEW p \in Proc
      PROVE  (HasFile(p) /\ Placed(p) /\ NameRead(p))'
  BY DEF IInv, HasFile, Placed, NameRead
<1>3. ASSUME NEW p \in Proc PROVE (Live(p) <=> Live(p)') /\ (Rewriting(p) <=> Rewriting(p)')
  BY DEF Live, Alive, Rewriting
<1>4. ASSUME NEW p \in Proc PROVE Named(p)'
  BY <1>3 DEF IInv, Named
<1>5. ASSUME NEW f \in File PROVE Exclusive(f)'
  BY DEF IInv, Exclusive, File
<1>6. ASSUME NEW p \in Proc, NEW f \in File PROVE LockOf(p, f)'
  BY DEF IInv, LockOf, File
<1>7. ASSUME NEW p \in Proc, NEW q \in Proc PROVE Alone(p, q)'
  BY <1>3 DEF IInv, Alone
<1> QED BY <1>1, <1>2, <1>4, <1>5, <1>6, <1>7 DEF IInv, File

LEMMA NextInv == IInv /\ [Next]_vars => IInv'
<1> SUFFICES ASSUME IInv, [Next]_vars PROVE IInv'
  OBVIOUS
<1>1. ASSUME NEW p \in Proc, Act(p) PROVE IInv'
  <2>1. Types'
    <3>1. ProcTypes'
      BY <1>1, ProcsTyped
    <3> QED BY <1>1, <3>1, FilesTyped, LocksTyped, PcTyped, ServersTyped DEF Types
  <2>2. ASSUME NEW q \in Proc
        PROVE  (HasFile(q) /\ Placed(q) /\ NameRead(q) /\ Named(q))'
    BY <1>1, ProcsTyped, PlacedKept, NamesKept, NamedKept
  <2>3. ASSUME NEW q \in Proc, NEW f \in File PROVE (LockOf(q, f) /\ Exclusive(f))'
    BY <1>1, LockKept
  <2>4. ASSUME NEW f \in File PROVE Exclusive(f)'
    BY <1>1, <2>3
  <2>5. ASSUME NEW r \in Proc, NEW q \in Proc PROVE Alone(r, q)'
    BY <1>1, AloneKept
  <2> QED BY <2>1, <2>2, <2>3, <2>4, <2>5 DEF IInv, File
<1>2. CASE Remove
  BY <1>2, LinkInv DEF Remove
<1>3. CASE UNCHANGED vars
  <2>1. linked' \in BOOLEAN
    BY <1>3 DEF IInv, Types, FileTypes, vars, fileVars
  <2> QED BY <1>3, <2>1, LinkInv DEF vars, fileVars
<1> QED BY <1>1, <1>2, <1>3 DEF Next, Act

(* The inductive invariant: who holds a lock, what was read under it, and  *)
(* whose name is in the file.                                              *)
THEOREM Invariant == Spec => []IInv
BY InitInv, NextInv, PTL DEF Spec

(* What the variables hold; a lock has one owner, at a step that locks.    *)
LEMMA TypesFollow == IInv => PSingletonTypeOK
<1> SUFFICES ASSUME IInv PROVE PSingletonTypeOK
  OBVIOUS
<1>1. Types
  BY DEF IInv
<1>2. ASSUME NEW f \in File, excl[f] # Free
      PROVE  pc[excl[f]] \in Locked /\ file[excl[f]] = f /\ shared[f] = {}
  <2>1. excl[f] \in Proc
    BY <1>1, <1>2 DEF Types, LockTypes
  <2>2. LockOf(excl[f], f) /\ Exclusive(f)
    BY <2>1 DEF IInv
  <2> QED BY <1>2, <2>2 DEF LockOf, Exclusive
<1> QED BY <1>1, <1>2
        DEF PSingletonTypeOK, Types, FileTypes, LockTypes, PcTypes, ProcTypes, ServerTypes

THEOREM TypesHold == Spec => []PSingletonTypeOK
BY Invariant, TypesFollow, PTL

LEMMA OneServerFollows == IInv => OneServer
<1> SUFFICES ASSUME IInv, NEW p \in backends, NEW q \in backends, p # q, home[p] = home[q],
                    p \notin orphaned, q \notin orphaned
             PROVE  FALSE
  BY DEF OneServer
<1>1. p \in Proc /\ q \in Proc
  BY DEF IInv, Types, ServerTypes
<1>2. Live(p) /\ Live(q)
  BY <1>1 DEF IInv, Placed, Installed, Live, Alive
<1>3. (content[home[p]] = p \/ Rewriting(p)) /\ (content[home[p]] = q \/ Rewriting(q))
  BY <1>1, <1>2 DEF IInv, Named
<1>4. home[p] \in File
  BY <1>1, <1>2 DEF IInv, Types, ServerTypes, Live, File
<1> DEFINE r == excl[home[p]]
<1>5. ASSUME r \in Proc, pc[r] = "rewrite"
      PROVE  content[home[p]] = NoName
  <2>1. file[r] = home[p]
    BY <1>4, <1>5 DEF IInv, LockOf
  <2>2. NameRead(r)
    BY <1>5 DEF IInv
  <2> QED BY <1>5, <2>1, <2>2 DEF NameRead
<1> QED BY <1>1, <1>3, <1>5, PSingletonAssumption DEF Rewriting

(* No two processes run the back ends of one lock file, but those whose    *)
(* name a dying process has lost.                                          *)
THEOREM OneServerHolds == Spec => []OneServer
BY Invariant, OneServerFollows, PTL

LEMMA FindableFollows == IInv => Findable
<1> SUFFICES ASSUME IInv, NEW p \in Proc, Serving(p), home[p] # 0, p \notin orphaned
             PROVE  content[home[p]] = p \/ excl[home[p]] # Free
  BY DEF Findable
<1>1. Live(p)
  BY DEF Serving, Live
<1>2. Named(p)
  BY DEF IInv
<1> QED BY <1>1, <1>2, PSingletonAssumption DEF Named, Rewriting

(* The name of a server that answers is in its file, or the file is locked. *)
THEOREM FindableHolds == Spec => []Findable
BY Invariant, FindableFollows, PTL

=============================================================================
