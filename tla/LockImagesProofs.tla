-------------------------- MODULE LockImagesProofs --------------------------
(***************************************************************************)
(* Proofs about LockImages, for every set of threads, windows and faults   *)
(* and every capacity of the table.  They go in four layers, each one      *)
(* inductive on top of the ones before it:                                 *)
(*                                                                         *)
(*   Typed      the types, and the width of the operand of ++ and --       *)
(*   Owned      a thread that got the lock belongs to the process that     *)
(*              holds it                                                   *)
(*   OnPath     where each command may be, and that it has the lock there  *)
(*   Sound      the table, and what the thread inside knows about it       *)
(*                                                                         *)
(* The last three need processes with one thread each, since a file lock   *)
(* keeps out other processes only, and the last two need that lock_shm     *)
(* does not fail: when it does, commands go on without the lock, and two   *)
(* locks may store at the same index and both report success.              *)
(*                                                                         *)
(* The last part is the refinement of LockRegistry: what the table holds   *)
(* is a bag, and every step changes it as a command does, or not at all.   *)
(***************************************************************************)
EXTENDS LockImages, FiniteSetTheorems, TLAPS

\* File locks belong to processes, so only one thread of each may use them.
OneThreadPerProcess ==
  \A s, t \in Thread : ProcessOf[s] = ProcessOf[t] => s = t

LockNeverFails == "lock_shm" \notin Faults

-----------------------------------------------------------------------------
(* Types. *)

\* The operand of ++ and -- fits the counter it came from.
OperandFits ==
  \A t \in Thread :
    pc[t] = "write" =>
      /\ op[t] \in Writers => reg[t] \in 0 .. CountMod - 1
      /\ op[t] = "changed_bg" => reg[t] \in 0 .. IdMod - 1

Typed == TypeOK /\ OperandFits

LEMMA UpFits ==
  ASSUME NEW mod \in Nat \ {0}, NEW n \in 0 .. mod - 1
  PROVE  Up(n, mod) \in 0 .. mod - 1 /\ Down(n, mod) \in 0 .. mod - 1
BY DEF Up, Down

LEMMA WidthsPositive == CountMod \in Nat \ {0} /\ IdMod \in Nat \ {0}
BY TableAssumption

LEMMA TypedInit == Init => Typed
<1> SUFFICES ASSUME Init PROVE Typed
  OBVIOUS
<1>1. TypeOK
  <2>1. lockFd \in [Thread -> BOOLEAN]
    BY Zenon DEF Init
  <2>2. 0 \in 0 .. CountMod - 1 /\ 0 \in 0 .. IdMod - 1
    BY WidthsPositive
  <2>3. pc \in [Thread -> Label] /\ op \in [Thread -> Command] /\ wid \in [Thread -> Values]
    BY DEF Init, Label, Command, Values
  <2> QED BY <2>1, <2>2, <2>3 DEF Init, TypeOK, Values
<1>2. OperandFits
  BY DEF Init, OperandFits
<1> QED BY <1>1, <1>2 DEF Typed

LEMMA TypedSyscall ==
  ASSUME Typed, NEW t \in Thread, Syscall(t)
  PROVE  Typed'
<1> USE WidthsPositive, TableAssumption, ProcessAssumption
    DEF Typed, TypeOK, OperandFits, Label, table, locals, Goto, Return, Values
<1>1. CASE ShmOpen(t)
  BY <1>1 DEF ShmOpen, Command
<1>2. CASE ShmCreate(t)
  BY <1>2 DEF ShmCreate, Command
<1>3. CASE Truncate(t)
  BY <1>3 DEF Truncate
<1>4. CASE LockShm(t)
  BY <1>4 DEF LockShm
<1>5. CASE LockShmFails(t)
  BY <1>5 DEF LockShmFails, Command
<1>6. CASE Mmap(t)
  BY <1>6 DEF Mmap, Command
<1>7. CASE Unlock(t)
  BY <1>7 DEF Unlock, Command
<1> QED BY Syscall(t), <1>1, <1>2, <1>3, <1>4, <1>5, <1>6, <1>7 DEF Syscall

LEMMA TypedAccess ==
  ASSUME Typed, NEW t \in Thread, Access(t)
  PROVE  Typed'
<1> USE WidthsPositive, TableAssumption, ProcessAssumption
    DEF Typed, TypeOK, OperandFits, Label, table, locals, Goto, Touchable
<1>1. CASE BusError(t)
  BY <1>1 DEF BusError, Die
<1>2. CASE SetMagic(t)
  BY <1>2 DEF SetMagic
<1>3. CASE TestMagic(t)
  BY <1>3 DEF TestMagic, FirstStep, Command, Writers
<1>4. CASE TestFull(t)
  BY <1>4 DEF TestFull
<1>5. CASE StoreWindow(t)
  BY <1>5 DEF StoreWindow, Write
<1>6. CASE Scan(t)
  BY <1>6 DEF Scan
<1>7. CASE Swap(t)
  <2>1. PICK v \in Values : Write(reg[t], v)
    BY <1>7 DEF Swap, Read, Values
  <2> QED BY <1>7, <2>1 DEF Swap, Write
<1>8. CASE OutOfPage(t)
  BY <1>8 DEF OutOfPage, Die
<1>9. CASE Load(t)
  BY <1>9 DEF Load, Writers
<1>10. CASE WriteBack(t)
  <2>1. count' \in 0 .. CountMod - 1
    BY <1>10, UpFits DEF WriteBack, Writers
  <2>2. lockImageId' \in 0 .. IdMod - 1
    BY <1>10, UpFits DEF WriteBack, Writers
  <2> QED BY <1>10, <2>1, <2>2 DEF WriteBack
<1>11. CASE ZeroId(t)
  BY <1>11 DEF ZeroId
<1>12. CASE ZeroCount(t)
  BY <1>12 DEF ZeroCount
<1>13. CASE Memset(t)
  BY <1>13 DEF Memset, Values
<1>14. CASE ReadId(t)
  BY <1>14 DEF ReadId
<1>15. CASE ReadCount(t)
  BY <1>15 DEF ReadCount
<1>16. CASE Show(t)
  BY <1>16 DEF Show
<1> QED BY Access(t), <1>1, <1>2, <1>3, <1>4, <1>5, <1>6, <1>7, <1>8, <1>9, <1>10,
           <1>11, <1>12, <1>13, <1>14, <1>15, <1>16 DEF Access

LEMMA TypedNext ==
  ASSUME Typed, [Next]_vars
  PROVE  Typed'
<1>1. CASE UNCHANGED vars
  BY <1>1 DEF Typed, TypeOK, OperandFits, vars, table, locals
<1>2. CASE Next
  <2>1. PICK t \in Thread :
          \/ \E c \in Command, w \in Values : Start(t, c, w)
          \/ Syscall(t) \/ Access(t) \/ NoTitle(t) \/ Kill(t) \/ Respawn(t)
          \/ Grab(t) \/ Ungrab(t)
    BY <1>2 DEF Next
  <2>2. CASE \E c \in Command, w \in Values : Start(t, c, w)
    BY <2>2 DEF Start, Typed, TypeOK, OperandFits, Label, Goto, table, locals
  <2>3. CASE NoTitle(t) \/ Kill(t)
    BY ZenonT(40), <2>3, ProcessAssumption
    DEF Kill, NoTitle, Die, Typed, TypeOK, OperandFits, Label, table, locals
  <2>4. CASE Respawn(t)
    BY <2>4, WidthsPositive
    DEF Respawn, Return, Goto, Typed, TypeOK, OperandFits, Label, Command, Values, table
  <2>5. CASE Grab(t) \/ Ungrab(t)
    BY <2>5 DEF Grab, Ungrab, Typed, TypeOK, OperandFits, table, locals
  <2> QED BY <2>1, <2>2, <2>3, <2>4, <2>5, TypedSyscall, TypedAccess
<1> QED BY <1>1, <1>2

\* Every variable keeps its type, and no counter leaves its width, under any
\* faults and with any threads.
THEOREM TypeCorrect == Spec => []TypeOK
<1>1. Spec => []Typed
  <2>1. Typed /\ [Next]_vars => Typed'
    BY TypedNext
  <2> QED BY TypedInit, <2>1, PTL DEF Spec
<1>2. Typed => TypeOK
  BY DEF Typed
<1> QED BY <1>1, <1>2, PTL

-----------------------------------------------------------------------------
(* The file lock. *)

\* Whoever got the lock still has it: nobody of another process can take it
\* away, and nobody of the same process is there to drop it.
Owned == \A t \in Thread : lockFd[t] => fcntlOwner = ProcessOf[t]

LEMMA OwnedNext ==
  ASSUME OneThreadPerProcess, Typed, Owned, [Next]_vars
  PROVE  Owned'
<1> USE ProcessAssumption DEF Owned, Typed, TypeOK
<1>1. CASE UNCHANGED vars
  BY <1>1 DEF vars, table, locals
<1>2. CASE Next
  <2>1. PICK t \in Thread :
          \/ \E c \in Command, w \in Values : Start(t, c, w)
          \/ Syscall(t) \/ Access(t) \/ NoTitle(t) \/ Kill(t) \/ Respawn(t)
          \/ Grab(t) \/ Ungrab(t)
    BY <1>2 DEF Next
  <2>2. CASE UNCHANGED <<fcntlOwner, lockFd>>
    BY <2>2
  <2>3. CASE LockShm(t)
    BY <2>3 DEF LockShm, OneThreadPerProcess
  <2>4. CASE Unlock(t) \/ LockShmFails(t)
    BY <2>4 DEF Unlock, LockShmFails, OneThreadPerProcess
  <2>5. CASE BusError(t) \/ OutOfPage(t) \/ NoTitle(t) \/ Kill(t)
    <3>1. Die(t, "sigbus") \/ Die(t, "dead")
      BY <2>5 DEF BusError, OutOfPage, NoTitle, Kill
    <3> QED BY ZenonT(40), <3>1 DEF Die
  <2>6. \/ UNCHANGED <<fcntlOwner, lockFd>>
        \/ LockShm(t) \/ LockShmFails(t) \/ Unlock(t) \/ BusError(t) \/ OutOfPage(t)
        \/ NoTitle(t) \/ Kill(t)
    BY <2>1 DEF Syscall, Access, Start, Respawn, ShmOpen, ShmCreate, Truncate,
                Mmap, SetMagic, TestMagic, TestFull, StoreWindow, Scan, Swap, Load, WriteBack,
                ZeroId, ZeroCount, Memset, ReadId, ReadCount, Show,
                Grab, Ungrab
  <2> QED BY <2>2, <2>3, <2>4, <2>5, <2>6
<1> QED BY <1>1, <1>2

LEMMA OwnedExcludes ==
  ASSUME Owned
  PROVE  MutualExclusion
BY DEF Owned, MutualExclusion

\* lock_shm .. unlock_shm is a critical section, whichever calls fail and
\* whoever is killed, when no process uses it from two threads.
THEOREM CriticalSection ==
  ASSUME OneThreadPerProcess
  PROVE  Spec => []MutualExclusion
<1>1. Init => Owned
  BY DEF Init, Owned
<1>2. Typed /\ Owned /\ [Next]_vars => Typed' /\ Owned'
  BY TypedNext, OwnedNext
<1>3. Owned => MutualExclusion
  BY OwnedExcludes
<1> QED BY TypedInit, <1>1, <1>2, <1>3, PTL DEF Spec

-----------------------------------------------------------------------------
(* Where each command may be. *)

\* Before the first access to the table.
Outside == {"idle", "open", "create", "truncate", "lock", "map", "magic"}

\* Between lock_shm and unlock_shm.
Inside == {"magic", "full", "store", "scan", "swap", "load", "write", "zero_id", "zero_count",
           "memset", "read_id", "read_count", "show", "unlock"}

Path(t) ==
  /\ pc[t] \in Inside \/ (pc[t] = "map" /\ op[t] \in Writers) => lockFd[t]
  /\ pc[t] \in {"full", "store"} => op[t] = "lock"
  /\ pc[t] \in {"scan", "swap"} => op[t] = "unlock"
  /\ pc[t] \in {"load", "write"} => op[t] \in {"lock", "unlock", "changed_bg"}
  /\ pc[t] \in {"zero_id", "zero_count", "memset"} => op[t] = "reset"
  /\ pc[t] = "read_id" => op[t] = "query"
  /\ pc[t] = "read_count" => op[t] \in {"query", "list", "poll"}
  /\ pc[t] = "show" => op[t] \in {"list", "poll"}
  /\ op[t] \in Writers => wid[t] \in Windows
  /\ pc[t] \in Outside => ret[t] = 0 /\ idOut[t] = 0

OnPath == \A t \in Thread : Path(t)

LEMMA OnPathInit == Init => OnPath
BY DEF Init, OnPath, Path, Inside, Outside, Writers

LEMMA OnPathSyscall ==
  ASSUME LockNeverFails, Typed, OnPath, NEW t \in Thread, Syscall(t)
  PROVE  OnPath'
<1> USE DEF Typed, TypeOK, OnPath, Path, Inside, Outside, table, locals, Goto, Return, Writers
<1>1. CASE ShmOpen(t)
  BY <1>1 DEF ShmOpen
<1>2. CASE ShmCreate(t)
  BY <1>2 DEF ShmCreate
<1>3. CASE Truncate(t)
  BY <1>3 DEF Truncate
<1>4. CASE LockShm(t)
  BY <1>4 DEF LockShm
<1>5. CASE LockShmFails(t)
  BY <1>5 DEF LockShmFails, LockNeverFails
<1>6. CASE Mmap(t)
  BY <1>6 DEF Mmap
<1>7. CASE Unlock(t)
  BY <1>7 DEF Unlock
<1> QED BY Syscall(t), <1>1, <1>2, <1>3, <1>4, <1>5, <1>6, <1>7 DEF Syscall

LEMMA OnPathAccess ==
  ASSUME Typed, OnPath, NEW t \in Thread, Access(t)
  PROVE  OnPath'
<1> USE DEF Typed, TypeOK, OnPath, Path, Inside, Outside, table, locals, Goto, Touchable, Writers
<1>1. CASE BusError(t)
  BY <1>1 DEF BusError, Die
<1>2. CASE SetMagic(t)
  BY <1>2 DEF SetMagic
<1>3. CASE TestMagic(t)
  BY <1>3 DEF TestMagic, FirstStep, Command
<1>4. CASE TestFull(t)
  BY <1>4 DEF TestFull
<1>5. CASE StoreWindow(t)
  BY <1>5 DEF StoreWindow
<1>6. CASE Scan(t)
  BY <1>6 DEF Scan
<1>7. CASE Swap(t)
  BY <1>7 DEF Swap
<1>8. CASE OutOfPage(t)
  BY <1>8 DEF OutOfPage, Die
<1>9. CASE Load(t)
  BY <1>9 DEF Load
<1>10. CASE WriteBack(t)
  BY <1>10 DEF WriteBack
<1>11. CASE ZeroId(t)
  BY <1>11 DEF ZeroId
<1>12. CASE ZeroCount(t)
  BY <1>12 DEF ZeroCount
<1>13. CASE Memset(t)
  BY <1>13 DEF Memset
<1>14. CASE ReadId(t)
  BY <1>14 DEF ReadId
<1>15. CASE ReadCount(t)
  BY <1>15 DEF ReadCount
<1>16. CASE Show(t)
  BY <1>16 DEF Show
<1> QED BY Access(t), <1>1, <1>2, <1>3, <1>4, <1>5, <1>6, <1>7, <1>8, <1>9, <1>10,
           <1>11, <1>12, <1>13, <1>14, <1>15, <1>16 DEF Access

LEMMA OnPathNext ==
  ASSUME LockNeverFails, Typed, OnPath, [Next]_vars
  PROVE  OnPath'
<1>1. CASE UNCHANGED vars
  BY <1>1 DEF OnPath, Path, vars, table, locals
<1>2. CASE Next
  <2>1. PICK t \in Thread :
          \/ \E c \in Command, w \in Values : Start(t, c, w)
          \/ Syscall(t) \/ Access(t) \/ NoTitle(t) \/ Kill(t) \/ Respawn(t)
          \/ Grab(t) \/ Ungrab(t)
    BY <1>2 DEF Next
  <2> USE DEF Typed, TypeOK, OnPath, Path, Inside, Outside, table, locals, Goto, Writers
  <2>2. CASE \E c \in Command, w \in Values : Start(t, c, w)
    BY <2>2 DEF Start
  <2>3. CASE NoTitle(t) \/ Kill(t)
    <3>1. Die(t, "dead")
      BY <2>3 DEF NoTitle, Kill
    <3> QED BY <3>1 DEF Die
  <2>4. CASE Respawn(t)
    BY <2>4 DEF Respawn, Return
  <2>5. CASE Grab(t) \/ Ungrab(t)
    BY <2>5 DEF Grab, Ungrab
  <2> QED BY <2>1, <2>2, <2>3, <2>4, <2>5, OnPathSyscall, OnPathAccess
<1> QED BY <1>1, <1>2

-----------------------------------------------------------------------------
(* The table. *)

\* Nothing is counted before the magic is set; no slot is counted before it
\* holds a window.
TableSound ==
  /\ ~magic => count = 0 /\ lockImageId = 0
  /\ CountBounded
  /\ EntriesAreWindows

\* What the thread inside knows about the table.
Knows(t) ==
  /\ pc[t] \in {"full", "store", "scan", "swap", "load", "write"} => magic
  /\ pc[t] = "store" => count < MaxLockImages
  /\ pc[t] \in {"load", "write"} /\ op[t] = "lock" =>
       count < MaxLockImages /\ data[count] = wid[t]
  /\ pc[t] = "swap" => reg[t] < count /\ data[reg[t]] = wid[t]
  /\ pc[t] \in {"load", "write"} /\ op[t] = "unlock" =>
       /\ count > 0
       /\ data[count - 1] # wid[t] => \E i \in Slot : i < count - 1 /\ data[i] = data[count - 1]
  /\ pc[t] = "write" /\ op[t] \in Writers => reg[t] = count
  /\ pc[t] = "write" /\ op[t] = "changed_bg" => reg[t] = lockImageId
  /\ pc[t] = "memset" => count = 0
  /\ pc[t] = "read_count" /\ op[t] = "query" => idOut[t] = lockImageId
  /\ pc[t] = "unlock" /\ op[t] = "query" => ret[t] = count /\ idOut[t] = lockImageId
  /\ pc[t] = "unlock" /\ op[t] = "lock" /\ ret[t] = 1 => wid[t] \in Entries

Sound == TableSound /\ \A t \in Thread : Knows(t)

Inv == Typed /\ Owned /\ OnPath /\ Sound

\* A step of t leaves the locals of the other threads alone.
Frame(t) ==
  \A s \in Thread \ {t} :
    /\ pc'[s] = pc[s] /\ op'[s] = op[s] /\ wid'[s] = wid[s]
    /\ reg'[s] = reg[s] /\ ret'[s] = ret[s] /\ idOut'[s] = idOut[s]

LEMMA Alone ==
  ASSUME OneThreadPerProcess, Inv, NEW s \in Thread, NEW t \in Thread,
         pc[s] \in Inside, pc[t] \in Inside
  PROVE  s = t
BY DEF OneThreadPerProcess, Inv, Owned, OnPath, Path

\* A step of t disturbs what the others know only if it changes the table
\* from outside the critical section.
LEMMA OthersKnow ==
  ASSUME OneThreadPerProcess, Inv, NEW t \in Thread, Frame(t),
         UNCHANGED table \/ pc[t] \in Inside,
         NEW s \in Thread \ {t}
  PROVE  Knows(s)'
<1>1. CASE UNCHANGED table
  BY <1>1 DEF Inv, Sound, Knows, Frame, table, Entries
<1>2. CASE pc[t] \in Inside
  <2>1. pc[s] \notin Inside
    BY <1>2, Alone
  <2>2. pc'[s] \notin Inside
    BY <2>1 DEF Frame
  <2> QED BY <2>2 DEF Knows, Inside
<1> QED BY <1>1, <1>2

LEMMA SoundStep ==
  ASSUME OneThreadPerProcess, Inv, NEW t \in Thread, Frame(t),
         UNCHANGED table \/ pc[t] \in Inside,
         TableSound', Knows(t)'
  PROVE  Sound'
BY OthersKnow DEF Sound

LEMMA SoundSyscall ==
  ASSUME OneThreadPerProcess, LockNeverFails, Inv, NEW t \in Thread, Syscall(t)
  PROVE  Sound'
<1>1. UNCHANGED table
  BY Syscall(t) DEF Syscall, ShmOpen, ShmCreate, Truncate, LockShm, LockShmFails, Mmap, Unlock
<1>2. TableSound'
  BY <1>1 DEF Inv, Sound, TableSound, CountBounded, EntriesAreWindows, table
<1>3. Frame(t) /\ Knows(t)'
  <2> USE <1>1 DEF Inv, Typed, TypeOK, OnPath, Path, Outside, Sound, Knows, Frame, table, locals,
                   Goto, Return, Writers
  <2>1. CASE ShmOpen(t)
    BY <2>1 DEF ShmOpen
  <2>2. CASE ShmCreate(t)
    BY <2>2 DEF ShmCreate
  <2>3. CASE Truncate(t)
    BY <2>3 DEF Truncate
  <2>4. CASE LockShm(t)
    BY <2>4 DEF LockShm
  <2>5. CASE LockShmFails(t)
    BY <2>5 DEF LockShmFails, LockNeverFails
  <2>6. CASE Mmap(t)
    BY <2>6 DEF Mmap
  <2>7. CASE Unlock(t)
    BY <2>7 DEF Unlock
  <2> QED BY Syscall(t), <2>1, <2>2, <2>3, <2>4, <2>5, <2>6, <2>7 DEF Syscall
<1> QED BY <1>1, <1>2, <1>3, SoundStep

\* A process that dies leaves a sound table, wherever it was.
LEMMA SoundDie ==
  ASSUME OneThreadPerProcess, Inv, NEW t \in Thread, NEW how \in {"sigbus", "dead"}, Die(t, how)
  PROVE  Sound'
<1>1. UNCHANGED table /\ UNCHANGED <<op, wid, reg, ret, idOut>>
  BY DEF Die, locals
<1>2. TableSound'
  BY <1>1 DEF Inv, Sound, TableSound, CountBounded, EntriesAreWindows, table
<1>3. Frame(t)
  BY <1>1 DEF Die, Frame, OneThreadPerProcess
<1>4. Knows(t)'
  BY DEF Die, Knows
<1> QED BY <1>1, <1>2, <1>3, <1>4, SoundStep

\* The accesses that leave the table as it is.
Reading(t) ==
  \/ TestMagic(t) \/ TestFull(t) \/ Scan(t) \/ Load(t) \/ ReadId(t) \/ ReadCount(t) \/ Show(t)

LEMMA SoundReading ==
  ASSUME OneThreadPerProcess, Inv, NEW t \in Thread, Reading(t)
  PROVE  Sound'
<1>1. UNCHANGED table /\ UNCHANGED <<op, wid>>
  BY Reading(t)
  DEF Reading, TestMagic, TestFull, Scan, Load, ReadId, ReadCount, Show, locals, table
<1>2. TableSound'
  BY <1>1 DEF Inv, Sound, TableSound, CountBounded, EntriesAreWindows, table
<1>3. Frame(t) /\ Knows(t)'
  <2> USE <1>1 DEF Inv, Typed, TypeOK, OnPath, Path, Outside, Sound, TableSound, Knows, Frame,
                   table, locals, Goto, Writers
  <2>1. CASE TestMagic(t)
    BY <2>1 DEF TestMagic, FirstStep, Touchable, Command
  <2>2. CASE TestFull(t)
    BY <2>2, TableAssumption DEF TestFull
  <2>3. CASE Scan(t)
    <3>1. CASE reg[t] >= count
      BY <2>3, <3>1 DEF Scan
    <3>2. CASE reg[t] < count
      <4>1. reg[t] \in Slot
        BY <3>2, TableAssumption DEF CountBounded, Slot
      <4>2. Read(reg[t]) = {data[reg[t]]}
        BY <4>1 DEF Read
      <4> QED BY <2>3, <3>2, <4>2 DEF Scan
    <3> QED BY <3>1, <3>2
  <2>4. CASE Load(t)
    BY <2>4 DEF Load
  <2>5. CASE ReadId(t)
    BY <2>5 DEF ReadId
  <2>6. CASE ReadCount(t)
    BY <2>6 DEF ReadCount
  <2>7. CASE Show(t)
    BY <2>7 DEF Show
  <2> QED BY Reading(t), <2>1, <2>2, <2>3, <2>4, <2>5, <2>6, <2>7 DEF Reading
<1> QED BY <1>1, <1>2, <1>3, SoundStep

\* The accesses that change the table.
Writing(t) ==
  \/ SetMagic(t) \/ StoreWindow(t) \/ Swap(t) \/ WriteBack(t)
  \/ ZeroId(t) \/ ZeroCount(t) \/ Memset(t)

LEMMA WritingFrame ==
  ASSUME Inv, NEW t \in Thread, Writing(t)
  PROVE  Frame(t) /\ pc[t] \in Inside
BY DEF Inv, Typed, TypeOK, Writing, SetMagic, StoreWindow, Swap, WriteBack, ZeroId, ZeroCount, Memset,
       Touchable, Inside, Frame, Goto, locals

LEMMA StoreWindowSound ==
  ASSUME Inv, NEW t \in Thread, StoreWindow(t)
  PROVE  TableSound' /\ Knows(t)'
<1> USE TableAssumption DEF StoreWindow, locals, Goto, Inv, Typed, TypeOK, Slot
<1>1. count \in Slot /\ magic /\ op[t] = "lock" /\ wid[t] \in Windows
  BY DEF Sound, Knows, OnPath, Path, Writers
<1>2. data' = [data EXCEPT ![count] = wid[t]]
  BY <1>1 DEF Write
<1>3. TableSound'
  BY <1>1, <1>2 DEF Sound, TableSound, CountBounded, EntriesAreWindows
<1>4. Knows(t)'
  BY <1>1, <1>2 DEF Knows, Writers
<1> QED BY <1>3, <1>4

\* What Swap does, said without the reads beyond the table.
LEMMA SwapEffect ==
  ASSUME Inv, NEW t \in Thread, Swap(t)
  PROVE  /\ op[t] = "unlock" /\ magic
         /\ reg[t] \in 0 .. count - 1 /\ count - 1 \in Slot
         /\ data[reg[t]] = wid[t]
         /\ data' = [data EXCEPT ![reg[t]] = data[count - 1]]
<1> USE TableAssumption DEF Swap, Inv, Typed, TypeOK, Slot
<1>1. /\ op[t] = "unlock" /\ magic
      /\ reg[t] \in 0 .. count - 1 /\ data[reg[t]] = wid[t]
  BY DEF Sound, Knows, OnPath, Path
<1>2. count - 1 \in Slot /\ reg[t] \in Slot
  BY <1>1 DEF Sound, TableSound, CountBounded
<1>3. Read(count - 1) = {data[count - 1]}
  BY <1>2 DEF Read
<1> QED BY <1>1, <1>2, <1>3 DEF Write

LEMMA SwapSound ==
  ASSUME Inv, NEW t \in Thread, Swap(t)
  PROVE  TableSound' /\ Knows(t)'
<1>1. /\ op[t] = "unlock" /\ magic
      /\ reg[t] \in 0 .. count - 1 /\ count - 1 \in Slot
      /\ data[reg[t]] = wid[t]
      /\ data' = [data EXCEPT ![reg[t]] = data[count - 1]]
  BY SwapEffect
<1>2. count \in Nat /\ data \in [Slot -> Values] /\ TableSound
  BY DEF Inv, Typed, TypeOK, Sound
<1>3. /\ pc'[t] = "load" /\ reg[t] \in Slot
      /\ UNCHANGED <<magic, lockImageId, count, op, wid, reg, ret, idOut>>
  BY <1>1, <1>2, TableAssumption DEF Swap, Goto, locals, Inv, Typed, TypeOK, Slot
<1>4. data'[count - 1] = data[count - 1] /\ data'[reg[t]] = data[count - 1]
  BY <1>1, <1>2, <1>3
<1>5. TableSound'
  BY <1>1, <1>2, <1>3, TableAssumption
  DEF TableSound, CountBounded, EntriesAreWindows, Slot
<1>6. data'[count - 1] # wid[t] =>
        \E i \in Slot : i < count - 1 /\ data'[i] = data'[count - 1]
  BY <1>1, <1>2, <1>3, <1>4
<1>7. Knows(t)'
  BY <1>1, <1>2, <1>3, <1>6 DEF Knows, Writers
<1> QED BY <1>5, <1>7

LEMMA WriteBackSound ==
  ASSUME Inv, NEW t \in Thread, WriteBack(t)
  PROVE  TableSound' /\ Knows(t)'
<1> USE TableAssumption DEF WriteBack, locals, Goto, Inv, Typed, TypeOK
<1>1. magic /\ magic' = magic /\ data' = data
  BY DEF Sound, Knows
<1>2. CASE op[t] = "lock"
  <2>1. count < MaxLockImages /\ data[count] = wid[t] /\ reg[t] = count /\ wid[t] \in Windows
    BY <1>2 DEF Sound, Knows, OnPath, Path, Writers
  <2>2. count' = count + 1
    BY <1>2, <2>1 DEF Up
  <2>3. TableSound'
    BY <1>1, <2>1, <2>2 DEF Sound, TableSound, CountBounded, EntriesAreWindows, Slot
  <2>4. wid[t] \in Entries'
    BY <1>1, <2>1, <2>2 DEF Entries, Slot
  <2> QED BY <1>2, <2>3, <2>4 DEF Knows
<1>3. CASE op[t] = "unlock"
  <2>1. count > 0 /\ reg[t] = count
    BY <1>3 DEF Sound, Knows, Writers
  <2>2. count' = count - 1
    BY <1>3, <2>1 DEF Down
  <2>3. TableSound'
    BY <1>1, <2>1, <2>2 DEF Sound, TableSound, CountBounded, EntriesAreWindows, Slot
  <2> QED BY <1>3, <2>3 DEF Knows
<1>4. CASE op[t] = "changed_bg"
  <2>1. TableSound'
    BY <1>1, <1>4 DEF Sound, TableSound, CountBounded, EntriesAreWindows
  <2> QED BY <1>4, <2>1 DEF Knows
<1> QED BY <1>2, <1>3, <1>4 DEF OnPath, Path

LEMMA SoundWriting ==
  ASSUME OneThreadPerProcess, Inv, NEW t \in Thread, Writing(t)
  PROVE  Sound'
<1>1. TableSound' /\ Knows(t)'
  <2> USE DEF Inv, Typed, TypeOK, OnPath, Path, Sound, TableSound, CountBounded, EntriesAreWindows,
              Knows, locals, Goto
  <2>1. CASE SetMagic(t)
    BY <2>1 DEF SetMagic, Writers
  <2>2. CASE ZeroId(t)
    BY <2>2 DEF ZeroId
  <2>3. CASE ZeroCount(t)
    BY <2>3, TableAssumption DEF ZeroCount, Slot
  <2>4. CASE Memset(t)
    BY <2>4 DEF Memset, Slot
  <2> QED BY Writing(t), <2>1, <2>2, <2>3, <2>4, StoreWindowSound, SwapSound, WriteBackSound DEF Writing
<1> QED BY <1>1, WritingFrame, SoundStep

LEMMA InvNext ==
  ASSUME OneThreadPerProcess, LockNeverFails, Inv, [Next]_vars
  PROVE  Inv'
<1>1. Typed' /\ Owned' /\ OnPath'
  BY TypedNext, OwnedNext, OnPathNext DEF Inv
<1>2. Sound'
  <2>1. CASE UNCHANGED vars
    BY <2>1 DEF Inv, Sound, TableSound, CountBounded, EntriesAreWindows, Knows, Entries, vars, table, locals
  <2>2. CASE Next
    <3>1. PICK t \in Thread :
            \/ \E c \in Command, w \in Values : Start(t, c, w)
            \/ Syscall(t) \/ Access(t) \/ NoTitle(t) \/ Kill(t) \/ Respawn(t)
          \/ Grab(t) \/ Ungrab(t)
      BY <2>2 DEF Next
    <3>2. CASE (\E c \in Command, w \in Values : Start(t, c, w)) \/ Respawn(t)
      <4>1. UNCHANGED table /\ Frame(t) /\ Knows(t)'
        BY <3>2 DEF Start, Respawn, Return, Goto, Frame, Knows, locals, Inv, Typed, TypeOK, Writers
      <4>2. TableSound'
        BY <4>1 DEF Inv, Sound, TableSound, CountBounded, EntriesAreWindows, table
      <4> QED BY <4>1, <4>2, SoundStep
    <3>3. CASE Kill(t) \/ NoTitle(t) \/ BusError(t) \/ OutOfPage(t)
      <4>1. \E how \in {"sigbus", "dead"} : Die(t, how)
        BY <3>3 DEF Kill, NoTitle, BusError, OutOfPage
      <4> QED BY <4>1, SoundDie
    <3>4. Access(t) => Reading(t) \/ Writing(t) \/ BusError(t) \/ OutOfPage(t)
      BY DEF Access, Reading, Writing
    <3>5. CASE Grab(t) \/ Ungrab(t)
      BY <3>5 DEF Grab, Ungrab, Inv, Sound, TableSound, CountBounded, EntriesAreWindows, Knows,
                  Entries, table, locals
    <3> QED BY <3>1, <3>2, <3>3, <3>4, <3>5, SoundSyscall, SoundReading, SoundWriting
  <2> QED BY <2>1, <2>2
<1> QED BY <1>1, <1>2 DEF Inv

LEMMA InvInit == Init => Inv
<1> SUFFICES ASSUME Init PROVE Inv
  OBVIOUS
<1>1. Owned
  BY DEF Init, Owned
<1>2. Sound
  BY TableAssumption DEF Init, Sound, TableSound, CountBounded, EntriesAreWindows, Knows, Slot
<1> QED BY <1>1, <1>2, TypedInit, OnPathInit DEF Inv

\* What holds of the table at every moment, whoever is killed where.
THEOREM TableIsSound ==
  ASSUME OneThreadPerProcess, LockNeverFails
  PROVE  Spec => [](CountBounded /\ EntriesAreWindows)
<1>1. Inv /\ [Next]_vars => Inv'
  BY InvNext
<1>2. Inv => CountBounded /\ EntriesAreWindows
  BY DEF Inv, Sound, TableSound
<1> QED BY InvInit, <1>1, <1>2, PTL DEF Spec

\* Every entry below count is the id of a window, also while a command that
\* was killed half-way has left its store behind.
THEOREM TableHoldsWindows ==
  ASSUME OneThreadPerProcess, LockNeverFails
  PROVE  Spec => []EntriesAreWindows
<1>1. CountBounded /\ EntriesAreWindows => EntriesAreWindows
  OBVIOUS
<1> QED BY TableIsSound, <1>1, PTL

\* A query answers with one instant of the table.
THEOREM QueriesAreSnapshots ==
  ASSUME OneThreadPerProcess, LockNeverFails
  PROVE  Spec => []SnapshotConsistent
<1>1. Inv /\ [Next]_vars => Inv'
  BY InvNext
<1>2. Inv => SnapshotConsistent
  BY DEF Inv, Sound, Knows, SnapshotConsistent
<1> QED BY InvInit, <1>1, <1>2, PTL DEF Spec

\* A lock command that reports success has put its window into the table.
THEOREM LockedIsListed ==
  ASSUME OneThreadPerProcess, LockNeverFails
  PROVE  Spec => []SuccessMeansListed
<1>1. Inv /\ [Next]_vars => Inv'
  BY InvNext
<1>2. Inv => SuccessMeansListed
  BY DEF Inv, Sound, Knows, SuccessMeansListed
<1> QED BY InvInit, <1>1, <1>2, PTL DEF Spec

LEMMA OnlyTargetStep ==
  ASSUME OneThreadPerProcess, LockNeverFails, Inv, [Next]_vars
  PROVE  OnlyTargetLeaves \/ UNCHANGED vars
<1>1. SUFFICES ASSUME Next PROVE OnlyTargetLeaves
  OBVIOUS
<1>2. PICK t \in Thread :
        \/ \E c \in Command, w \in Values : Start(t, c, w)
        \/ Syscall(t) \/ Access(t) \/ NoTitle(t) \/ Kill(t) \/ Respawn(t)
          \/ Grab(t) \/ Ungrab(t)
  BY <1>1 DEF Next
<1>3. CASE UNCHANGED <<count, data>>
  BY <1>3 DEF OnlyTargetLeaves, Entries
<1> USE TableAssumption DEF OnlyTargetLeaves, Entries
<1>4. CASE StoreWindow(t)
  BY <1>4 DEF StoreWindow, Write, Slot, Inv, Typed, TypeOK
<1>5. CASE Swap(t)
  <2>1. /\ op[t] = "unlock" /\ reg[t] \in 0 .. count - 1 /\ count - 1 \in Slot
        /\ data[reg[t]] = wid[t] /\ data' = [data EXCEPT ![reg[t]] = data[count - 1]]
        /\ count' = count /\ pc[t] = "swap"
    BY <1>5, SwapEffect DEF Swap
  <2>2. \A k \in Slot : k < count /\ k # reg[t] => data[k] \in Entries'
    BY <2>1 DEF Inv, Typed, TypeOK
  <2> QED BY <2>1, <2>2 DEF Leaves
<1>6. CASE WriteBack(t)
  <2>1. CASE op[t] = "lock"
    <3>1. count' = count + 1 /\ data' = data
      BY <1>6, <2>1 DEF WriteBack, Up, Inv, Typed, TypeOK, Sound, Knows, Writers
    <3>2. \A k \in Slot : k < count => k < count + 1
      BY DEF Slot, Inv, Typed, TypeOK
    <3> QED BY <3>1, <3>2
  <2>2. CASE op[t] = "unlock"
    <3>1. count' = count - 1 /\ data' = data /\ count \in Nat /\ pc[t] = "write"
      BY <1>6, <2>2 DEF WriteBack, Down, Inv, Typed, TypeOK, Sound, Knows, Writers
    <3>2. data[count - 1] # wid[t] => \E i \in Slot : i < count - 1 /\ data[i] = data[count - 1]
      BY <2>2, <3>1 DEF Inv, Sound, Knows
    <3>3. \A k \in Slot : k < count /\ data[k] \notin Entries' => data[k] = wid[t]
      BY <3>1, <3>2 DEF Slot
    <3> QED BY <2>2, <3>1, <3>3 DEF Leaves
  <2>3. CASE op[t] = "changed_bg"
    BY <1>6, <2>3 DEF WriteBack
  <2> QED BY <1>6, <2>1, <2>2, <2>3 DEF WriteBack, Inv, OnPath, Path
<1>7. CASE ZeroCount(t)
  BY <1>7 DEF ZeroCount, Leaves, Inv, OnPath, Path
<1>8. CASE Memset(t)
  BY <1>8 DEF Memset, Inv, Sound, Knows, Slot
<1> QED BY <1>2, <1>3, <1>4, <1>5, <1>6, <1>7, <1>8
  DEF Start, Syscall, Access, Kill, Respawn, ShmOpen, ShmCreate, Truncate, LockShm, LockShmFails,
      Mmap, Unlock, BusError, OutOfPage, Die, SetMagic, TestMagic, TestFull, Scan, Load, ZeroId,
      ReadId, ReadCount, Show, NoTitle, Grab, Ungrab, table

\* A window leaves the table only by its own unlock or by a reset.
THEOREM NoOtherWindowLost ==
  ASSUME OneThreadPerProcess, LockNeverFails
  PROVE  Spec => OnlyTargetRemoved
<1>1. Inv /\ [Next]_vars => Inv'
  BY InvNext
<1>2. Inv /\ [Next]_vars => [OnlyTargetLeaves]_vars
  BY OnlyTargetStep
<1> QED BY InvInit, <1>1, <1>2, PTL DEF Spec, OnlyTargetRemoved

-----------------------------------------------------------------------------
(***************************************************************************)
(* LockImages implements LockRegistry: every step of a field-by-field      *)
(* command is a step of the table seen as a bag of windows, or changes     *)
(* nothing there, or kills a command at one of the two places where it has *)
(* been carried out by half.                                               *)
(*                                                                         *)
(* The argument rests on the invariant above.  At most one thread is       *)
(* inside the critical section, so it alone decides what count is in       *)
(* effect; five of its steps change the bag, and for each one a lemma      *)
(* about the sets of indices at which a window stands.                     *)
(***************************************************************************)

-----------------------------------------------------------------------------
(* The places of a window in an array. *)

Places(d, n, v) == {k \in 0 .. n - 1 : d[k] = v}

LEMMA PlacesFinite ==
  ASSUME NEW d, NEW n \in Nat, NEW v
  PROVE  IsFiniteSet(Places(d, n, v)) /\ Cardinality(Places(d, n, v)) \in Nat
<1>1. IsFiniteSet(0 .. n - 1)
  BY FS_Interval
<1>2. Places(d, n, v) \subseteq 0 .. n - 1
  BY DEF Places
<1> QED BY <1>1, <1>2, FS_Subset, FS_CardinalityType

\* One more entry is counted.
LEMMA PlacesPush ==
  ASSUME NEW d, NEW n \in Nat, NEW v
  PROVE  Cardinality(Places(d, n + 1, v)) =
           IF d[n] = v THEN Cardinality(Places(d, n, v)) + 1 ELSE Cardinality(Places(d, n, v))
<1>1. CASE d[n] = v
  <2>1. n \notin Places(d, n, v) /\ Places(d, n + 1, v) = Places(d, n, v) \cup {n}
    BY <1>1 DEF Places
  <2> QED BY <1>1, <2>1, PlacesFinite, FS_AddElement
<1>2. CASE d[n] # v
  <2>1. Places(d, n + 1, v) = Places(d, n, v)
    BY <1>2 DEF Places
  <2> QED BY <1>2, <2>1
<1> QED BY <1>1, <1>2

\* The last entry goes into the place of entry r, and is counted no more.
LEMMA PlacesSwap ==
  ASSUME NEW d, NEW e, NEW n \in Nat \ {0}, NEW r \in 0 .. n - 1, NEW v,
         e[r] = d[n - 1], \A k \in 0 .. n - 1 : k # r => e[k] = d[k]
  PROVE  Cardinality(Places(e, n - 1, v)) =
           IF d[r] = v THEN Cardinality(Places(d, n, v)) - 1 ELSE Cardinality(Places(d, n, v))
<1> DEFINE old == Places(d, n, v)
           new == Places(e, n - 1, v)
<1>1. IsFiniteSet(old) /\ Cardinality(old) \in Nat
  BY PlacesFinite
<1>2. CASE d[r] = v /\ d[n - 1] = v
  <2>1. n - 1 \in old /\ new = old \ {n - 1}
    BY <1>2 DEF Places
  <2> QED BY <1>1, <1>2, <2>1, FS_RemoveElement
<1>3. CASE d[r] = v /\ d[n - 1] # v
  <2>1. r \in old /\ new = old \ {r}
    BY <1>3 DEF Places
  <2> QED BY <1>1, <1>3, <2>1, FS_RemoveElement
<1>4. CASE d[r] # v /\ d[n - 1] = v
  <2> DEFINE rest == old \ {n - 1}
  <2>1. n - 1 \in old /\ r \notin rest /\ new = rest \cup {r}
    BY <1>4 DEF Places
  <2>2. IsFiniteSet(rest) /\ Cardinality(rest) = Cardinality(old) - 1
    BY <1>1, <2>1, FS_RemoveElement
  <2>3. Cardinality(new) = Cardinality(rest) + 1
    BY <2>1, <2>2, FS_AddElement
  <2> QED BY <1>1, <1>4, <2>2, <2>3
<1>5. CASE d[r] # v /\ d[n - 1] # v
  <2>1. new = old
    BY <1>5 DEF Places
  <2> QED BY <1>5, <2>1
<1> QED BY <1>2, <1>3, <1>4, <1>5

LEMMA NoPlaces ==
  ASSUME NEW d, NEW v
  PROVE  Cardinality(Places(d, 0, v)) = 0
<1>1. Places(d, 0, v) = {}
  BY DEF Places
<1> QED BY <1>1, FS_EmptySet

-----------------------------------------------------------------------------
(* The bag as the thread inside makes it. *)

Held     == [w \in Windows |-> Occurrences(w)]
AnswerOf(t) == IF op[t] = "query" /\ pc[t] = "unlock"
               THEN [count |-> ret[t], id |-> idOut[t]] ELSE NoAnswer
Answers  == [t \in Thread |-> AnswerOf(t)]
Bag      == <<Held, EffectiveCount, lockImageId, Answers>>

\* An unlock that has yet to count down, and a reset that has yet to drop the
\* count.
Removing(t) == op[t] = "unlock" /\ pc[t] \in {"load", "write"}
Clearing(t) == op[t] = "reset" /\ pc[t] = "zero_count"

CountSeen(t) == IF Removing(t) THEN count - 1 ELSE IF Clearing(t) THEN 0 ELSE count

LEMMA BagOfRegistry == Registry!vars = Bag /\ (Registry!vars)' = Bag'
BY DEF Registry!vars, Bag, Held, Answers, AnswerOf

LEMMA HeldPlaces ==
  ASSUME NEW w \in Windows
  PROVE  Held[w] = Cardinality(Places(data, EffectiveCount, w))
BY DEF Held, Occurrences, Places

LEMMA HeldPlacesAfter ==
  ASSUME NEW w \in Windows
  PROVE  Held'[w] = Cardinality(Places(data', EffectiveCount', w))
BY DEF Held, Occurrences, Places

LEMMA SeenInside ==
  ASSUME OneThreadPerProcess, Inv, NEW t \in Thread, pc[t] \in Inside
  PROVE  EffectiveCount = CountSeen(t)
<1>1. \A s \in Thread : Removing(s) \/ Clearing(s) => s = t
  BY Alone DEF Removing, Clearing, Inside
<1> QED BY <1>1 DEF EffectiveCount, At, CountSeen, Removing, Clearing

LEMMA SeenAfter ==
  ASSUME OneThreadPerProcess, Inv, NEW t \in Thread, pc[t] \in Inside, Frame(t)
  PROVE  EffectiveCount' = CountSeen(t)'
<1>1. \A s \in Thread : s # t => pc[s] \notin Inside
  BY Alone
<1>2. \A s \in Thread : Removing(s)' \/ Clearing(s)' => s = t
  BY <1>1 DEF Removing, Clearing, Inside, Frame
<1> QED BY <1>2 DEF EffectiveCount, At, CountSeen, Removing, Clearing

LEMMA AnswersAfter ==
  ASSUME NEW t \in Thread, Frame(t)
  PROVE  Answers' = [Answers EXCEPT ![t] = AnswerOf(t)']
BY DEF Frame, Answers, AnswerOf

\* A step that leaves the table, its place among those that remove or clear
\* and its answer as they are does not change the bag.
LEMMA Silent ==
  ASSUME NEW t \in Thread, Frame(t), UNCHANGED <<lockImageId, count, data>>,
         Removing(t)' <=> Removing(t), Clearing(t)' <=> Clearing(t), AnswerOf(t)' = AnswerOf(t)
  PROVE  UNCHANGED Bag
<1>1. \A s \in Thread : (Removing(s)' <=> Removing(s)) /\ (Clearing(s)' <=> Clearing(s))
  BY DEF Frame, Removing, Clearing
<1>2. EffectiveCount' = EffectiveCount
  BY <1>1 DEF EffectiveCount, At, Removing, Clearing
<1>3. Held' = Held
  BY <1>2 DEF Held, Occurrences
<1>4. Answers' = Answers
  BY DEF Frame, Answers, AnswerOf
<1> QED BY <1>2, <1>3, <1>4 DEF Bag

-----------------------------------------------------------------------------
(* The steps of LockRegistry, said of the bag. *)

LEMMA BagRegister ==
  ASSUME NEW w \in Windows, EffectiveCount < MaxLockImages,
         Held' = [Held EXCEPT ![w] = @ + 1], EffectiveCount' = EffectiveCount + 1,
         lockImageId' = lockImageId, Answers' = Answers
  PROVE  Registry!Next
<1>1. Registry!Register(w)
  BY DEF Registry!Register, Held, Answers, AnswerOf
<1> QED BY <1>1 DEF Registry!Next

LEMMA BagDeregister ==
  ASSUME NEW w \in Windows, Held[w] > 0,
         Held' = [Held EXCEPT ![w] = @ - 1], EffectiveCount' = EffectiveCount - 1,
         lockImageId' = lockImageId, Answers' = Answers
  PROVE  Registry!Next
<1>1. Registry!Deregister(w)
  BY DEF Registry!Deregister, Held, Answers, AnswerOf
<1> QED BY <1>1 DEF Registry!Next

LEMMA BagReset ==
  ASSUME Held' = [w \in Windows |-> 0], EffectiveCount' = 0, lockImageId' = 0, Answers' = Answers
  PROVE  Registry!Next
<1>1. Registry!Reset
  BY DEF Registry!Reset, Held, Answers, AnswerOf
<1> QED BY <1>1 DEF Registry!Next

LEMMA BagChange ==
  ASSUME Held' = Held, EffectiveCount' = EffectiveCount, Answers' = Answers,
         lockImageId' = (lockImageId + 1) % IdMod
  PROVE  Registry!Next
<1>1. Registry!ChangeImage
  BY DEF Registry!ChangeImage, Held, Answers, AnswerOf
<1> QED BY <1>1 DEF Registry!Next

LEMMA BagAnswer ==
  ASSUME NEW t \in Thread, AnswerOf(t) = NoAnswer, Held' = Held, EffectiveCount' = EffectiveCount,
         lockImageId' = lockImageId, Frame(t),
         AnswerOf(t)' = [count |-> EffectiveCount, id |-> lockImageId]
  PROVE  Registry!Next
<1>1. Answers[t] = NoAnswer /\ Answers' = [Answers EXCEPT ![t] = [count |-> EffectiveCount, id |-> lockImageId]]
  BY AnswersAfter DEF Answers
<1>2. Registry!Answer(t)
  BY <1>1 DEF Registry!Answer, Held, Answers, AnswerOf
<1> QED BY <1>2 DEF Registry!Next

LEMMA BagForget ==
  ASSUME NEW t \in Thread, AnswerOf(t) # NoAnswer, Held' = Held, EffectiveCount' = EffectiveCount,
         lockImageId' = lockImageId, Frame(t), AnswerOf(t)' = NoAnswer
  PROVE  Registry!Next
<1>1. Answers[t] # NoAnswer /\ Answers' = [Answers EXCEPT ![t] = NoAnswer]
  BY AnswersAfter DEF Answers
<1>2. Registry!Forget(t)
  BY <1>1 DEF Registry!Forget, Held, Answers, AnswerOf
<1> QED BY <1>2 DEF Registry!Next

-----------------------------------------------------------------------------
(* The commands. *)

\* lock: the entry written before counts when the count is stored.
LEMMA RefRegister ==
  ASSUME OneThreadPerProcess, Inv, NEW t \in Thread, WriteBack(t), op[t] = "lock"
  PROVE  Registry!Next
<1> DEFINE w == wid[t]
<1>1. /\ Frame(t) /\ pc[t] \in Inside /\ pc[t] = "write" /\ pc'[t] = "unlock" /\ op'[t] = "lock"
  BY WritingFrame DEF Writing, WriteBack, Goto, Inv, Typed, TypeOK
<1>2. /\ w \in Windows /\ count \in Nat /\ count < MaxLockImages /\ data[count] = w
      /\ count' = count + 1 /\ data' = data /\ lockImageId' = lockImageId
  <2>1. count < MaxLockImages /\ data[count] = w /\ reg[t] = count /\ count \in Nat
    BY <1>1 DEF Inv, Sound, Knows, Typed, TypeOK, Writers
  <2>2. w \in Windows
    BY DEF Inv, OnPath, Path, Writers
  <2> QED BY <2>1, <2>2, TableAssumption DEF WriteBack, Up
<1>3. EffectiveCount = count /\ EffectiveCount' = count + 1
  BY <1>1, <1>2, SeenInside, SeenAfter DEF CountSeen, Removing, Clearing
<1>4. Held' = [Held EXCEPT ![w] = @ + 1]
  <2>1. ASSUME NEW v \in Windows PROVE Held'[v] = [Held EXCEPT ![w] = @ + 1][v]
    <3>1. Held[v] = Cardinality(Places(data, count, v)) /\ Held'[v] = Cardinality(Places(data, count + 1, v))
      BY <1>2, <1>3, HeldPlaces, HeldPlacesAfter
    <3>2. Held'[v] = IF v = w THEN Held[v] + 1 ELSE Held[v]
      BY <1>2, <3>1, PlacesPush
    <3> QED BY <3>2 DEF Held
  <2> QED BY <2>1 DEF Held
<1>5. Answers' = Answers
  BY <1>1 DEF Frame, Answers, AnswerOf
<1> QED BY <1>2, <1>3, <1>4, <1>5, BagRegister

\* unlock: the entry is gone when the last one has been copied over it.
LEMMA RefDeregister ==
  ASSUME OneThreadPerProcess, Inv, NEW t \in Thread, Swap(t)
  PROVE  Registry!Next
<1> DEFINE w == wid[t]
           r == reg[t]
<1>1. /\ Frame(t) /\ pc[t] \in Inside /\ pc[t] = "swap" /\ pc'[t] = "load" /\ op'[t] = op[t]
      /\ count' = count /\ lockImageId' = lockImageId
  BY WritingFrame DEF Writing, Swap, Goto, Inv, Typed, TypeOK
<1>2. /\ op[t] = "unlock" /\ w \in Windows
      /\ r \in 0 .. count - 1 /\ count \in Nat \ {0} /\ count - 1 \in Slot
      /\ data[r] = w /\ data' = [data EXCEPT ![r] = data[count - 1]] /\ data \in [Slot -> Values]
  BY SwapEffect DEF Inv, Typed, TypeOK, OnPath, Path, Writers
<1>3. EffectiveCount = count /\ EffectiveCount' = count - 1
  BY <1>1, <1>2, SeenInside, SeenAfter DEF CountSeen, Removing, Clearing
<1>4. ASSUME NEW v \in Windows
      PROVE  Held'[v] = IF v = w THEN Held[v] - 1 ELSE Held[v]
  <2>1. Held[v] = Cardinality(Places(data, count, v)) /\ Held'[v] = Cardinality(Places(data', count - 1, v))
    BY <1>3, HeldPlaces, HeldPlacesAfter
  <2>2. data'[r] = data[count - 1] /\ \A k \in 0 .. count - 1 : k # r => data'[k] = data[k]
    <3>1. 0 .. count - 1 \subseteq Slot
      BY <1>2, TableAssumption DEF Slot
    <3> QED BY <1>2, <3>1
  <2>3. Cardinality(Places(data', count - 1, v)) =
          IF data[r] = v THEN Cardinality(Places(data, count, v)) - 1 ELSE Cardinality(Places(data, count, v))
    <3>1. count \in Nat \ {0} /\ r \in 0 .. count - 1
      BY <1>2
    <3> HIDE DEF r
    <3> QED BY <3>1, <2>2, PlacesSwap
  <2> QED BY <1>2, <2>1, <2>3
<1>5. Held' = [Held EXCEPT ![w] = @ - 1]
  BY <1>4 DEF Held
<1>6. Held[w] > 0
  <2>1. r \in Places(data, count, w)
    BY <1>2 DEF Places
  <2> QED BY <1>2, <1>3, <2>1, HeldPlaces, PlacesFinite, FS_EmptySet
<1>7. Answers' = Answers
  BY <1>1 DEF Frame, Answers, AnswerOf
<1> QED BY <1>1, <1>2, <1>3, <1>5, <1>6, <1>7, BagDeregister

\* reset: nothing counts any more after its first store.
LEMMA RefReset ==
  ASSUME OneThreadPerProcess, Inv, NEW t \in Thread, ZeroId(t)
  PROVE  Registry!Next
<1>1. /\ Frame(t) /\ pc[t] \in Inside /\ pc[t] = "zero_id" /\ pc'[t] = "zero_count"
      /\ op[t] = "reset" /\ op'[t] = op[t] /\ lockImageId' = 0
  BY WritingFrame DEF Writing, ZeroId, Goto, Inv, Typed, TypeOK, OnPath, Path
<1>2. EffectiveCount' = 0
  BY <1>1, SeenAfter DEF CountSeen, Removing, Clearing
<1>3. Held' = [w \in Windows |-> 0]
  BY <1>2, HeldPlacesAfter, NoPlaces DEF Held
<1>4. Answers' = Answers
  BY <1>1 DEF Frame, Answers, AnswerOf
<1> QED BY <1>1, <1>2, <1>3, <1>4, BagReset

\* changed_bg.
LEMMA RefChange ==
  ASSUME OneThreadPerProcess, Inv, NEW t \in Thread, WriteBack(t), op[t] = "changed_bg"
  PROVE  Registry!Next
<1>1. /\ Frame(t) /\ pc[t] \in Inside /\ pc[t] = "write" /\ pc'[t] = "unlock" /\ op'[t] = op[t]
      /\ data' = data /\ count' = count
  BY WritingFrame DEF Writing, WriteBack, Goto, Inv, Typed, TypeOK
<1>2. lockImageId' = (lockImageId + 1) % IdMod
  <2>1. reg[t] = lockImageId /\ lockImageId \in 0 .. IdMod - 1
    BY <1>1 DEF Inv, Sound, Knows, Typed, TypeOK
  <2>2. lockImageId' = Up(lockImageId, IdMod)
    BY <2>1 DEF WriteBack
  <2> QED BY <2>1, <2>2, WidthsPositive DEF Up
<1>3. EffectiveCount' = EffectiveCount
  BY <1>1, SeenInside, SeenAfter DEF CountSeen, Removing, Clearing
<1>4. Held' = Held /\ Answers' = Answers
  BY <1>1, <1>3 DEF Frame, Held, Occurrences, Answers, AnswerOf
<1> QED BY <1>2, <1>3, <1>4, BagChange

\* A step inside that changes neither count, nor image number, nor what is in
\* effect of the count.
LEMMA SameBagInside ==
  ASSUME OneThreadPerProcess, Inv, NEW t \in Thread, pc[t] \in Inside, Frame(t),
         UNCHANGED <<count, data>>, CountSeen(t)' = CountSeen(t)
  PROVE  EffectiveCount' = EffectiveCount /\ Held' = Held
<1>1. EffectiveCount' = EffectiveCount
  BY SeenInside, SeenAfter
<1> QED BY <1>1 DEF Held, Occurrences

\* query: answered when the count has been read, or, for a table without its
\* magic, with zero at once.
LEMMA RefAnswer ==
  ASSUME OneThreadPerProcess, Inv, NEW t \in Thread, op[t] = "query",
         ReadCount(t) \/ (TestMagic(t) /\ ~magic)
  PROVE  Registry!Next
<1> USE DEF Inv, Typed, TypeOK
<1>1. /\ Frame(t) /\ pc[t] \in {"read_count", "magic"} /\ pc[t] \in Inside
      /\ pc'[t] = "unlock" /\ op'[t] = "query"
      /\ UNCHANGED <<count, data, lockImageId>>
  BY DEF ReadCount, TestMagic, Touchable, Goto, Inside, Frame, table, locals
<1>2. AnswerOf(t) = NoAnswer
  BY <1>1 DEF AnswerOf
<1>3. CountSeen(t) = count /\ CountSeen(t)' = count
  BY <1>1 DEF CountSeen, Removing, Clearing
<1>4. EffectiveCount = count /\ EffectiveCount' = EffectiveCount /\ Held' = Held
  BY <1>1, <1>3, SeenInside, SameBagInside
<1>5. ret'[t] = count /\ idOut'[t] = lockImageId
  <2>1. CASE ReadCount(t)
    BY <2>1 DEF ReadCount, Sound, Knows
  <2>2. CASE TestMagic(t) /\ ~magic
    BY <2>2 DEF TestMagic, Touchable, locals, Sound, TableSound, OnPath, Path, Outside
  <2> QED BY <2>1, <2>2
<1>6. AnswerOf(t)' = [count |-> EffectiveCount, id |-> lockImageId]
  BY <1>1, <1>4, <1>5 DEF AnswerOf
<1> HIDE DEF Inv, Typed, TypeOK
<1> QED BY <1>1, <1>2, <1>4, <1>6, BagAnswer

\* The caller has its answer, or dies with it.
LEMMA AnswerIsOne ==
  ASSUME Inv, NEW t \in Thread, op[t] = "query", pc[t] = "unlock"
  PROVE  AnswerOf(t) # NoAnswer
<1>1. AnswerOf(t).count = ret[t] /\ ret[t] \in Nat
  BY DEF AnswerOf, Inv, Typed, TypeOK
<1>2. NoAnswer.count = -1
  BY DEF NoAnswer
<1> QED BY <1>1, <1>2

LEMMA RefForget ==
  ASSUME OneThreadPerProcess, Inv, NEW t \in Thread, op[t] = "query", pc[t] = "unlock",
         Frame(t), UNCHANGED <<count, data, lockImageId>>, pc'[t] \in {"idle", "sigbus", "dead"}
  PROVE  Registry!Next
<1>1. CountSeen(t)' = CountSeen(t)
  BY DEF CountSeen, Removing, Clearing
<1>2. EffectiveCount' = EffectiveCount /\ Held' = Held
  BY <1>1, SameBagInside DEF Inside
<1>3. AnswerOf(t)' = NoAnswer
  BY DEF AnswerOf
<1> QED BY <1>2, <1>3, AnswerIsOne, BagForget

\* The other half of an unlock and of a reset, and the first of a lock.
LEMMA RefHalf ==
  ASSUME OneThreadPerProcess, Inv, NEW t \in Thread,
         \/ StoreWindow(t) \/ ZeroCount(t) \/ Memset(t)
         \/ WriteBack(t) /\ op[t] = "unlock"
  PROVE  UNCHANGED Bag
<1>1. Frame(t) /\ pc[t] \in Inside
  BY WritingFrame DEF Writing
<1>2. Answers' = Answers
  <2>1. op[t] # "query" /\ op'[t] = op[t]
    BY DEF StoreWindow, ZeroCount, Memset, WriteBack, Inv, OnPath, Path
  <2> QED BY <1>1, <2>1 DEF Frame, Answers, AnswerOf
<1>3. lockImageId' = lockImageId
  BY DEF StoreWindow, ZeroCount, Memset, WriteBack
<1>4. CASE StoreWindow(t)
  <2>1. /\ pc[t] = "store" /\ pc'[t] = "load" /\ op[t] = "lock" /\ op'[t] = op[t]
        /\ count' = count /\ count \in Slot /\ data' = [data EXCEPT ![count] = wid[t]]
        /\ data \in [Slot -> Values]
    BY <1>4, TableAssumption DEF StoreWindow, Goto, Inv, Typed, TypeOK, OnPath, Path, Sound, Knows, Write, Slot
  <2>2. EffectiveCount = count /\ EffectiveCount' = count
    BY <1>1, <2>1, SeenInside, SeenAfter DEF CountSeen, Removing, Clearing
  <2>3. \A k \in 0 .. count - 1 : data'[k] = data[k]
    BY <2>1 DEF Slot
  <2>4. \A w \in Windows : Places(data', count, w) = Places(data, count, w)
    BY <2>3 DEF Places
  <2>5. Held' = Held
    BY <2>2, <2>4, HeldPlaces, HeldPlacesAfter DEF Held
  <2> QED BY <1>2, <1>3, <2>2, <2>5 DEF Bag
<1>5. CASE WriteBack(t) /\ op[t] = "unlock"
  <2>1. /\ pc[t] = "write" /\ pc'[t] = "unlock" /\ op'[t] = op[t]
        /\ count' = count - 1 /\ data' = data
    BY <1>5 DEF WriteBack, Down, Goto, Inv, Typed, TypeOK, Sound, Knows, Writers
  <2>2. EffectiveCount' = EffectiveCount
    BY <1>1, <1>5, <2>1, SeenInside, SeenAfter DEF CountSeen, Removing, Clearing
  <2> QED BY <1>2, <1>3, <2>1, <2>2 DEF Bag, Held, Occurrences
<1>6. CASE ZeroCount(t) \/ Memset(t)
  <2>1. /\ op[t] = "reset" /\ op'[t] = op[t] /\ count' = 0
        /\ \/ pc[t] = "zero_count" /\ pc'[t] = "memset"
           \/ pc[t] = "memset" /\ pc'[t] = "unlock" /\ count = 0
    BY <1>6 DEF ZeroCount, Memset, Goto, Inv, Typed, TypeOK, OnPath, Path, Sound, Knows
  <2>2. EffectiveCount = 0 /\ EffectiveCount' = 0
    BY <1>1, <2>1, SeenInside, SeenAfter DEF CountSeen, Removing, Clearing
  <2>3. Held' = Held
    BY <2>2, HeldPlaces, HeldPlacesAfter, NoPlaces DEF Held
  <2> QED BY <1>2, <1>3, <2>2, <2>3 DEF Bag
<1> QED BY <1>4, <1>5, <1>6

\* The death of a process.
LEMMA RefDie ==
  ASSUME OneThreadPerProcess, Inv, NEW t \in Thread,
         Die(t, "dead") \/ (Die(t, "sigbus") /\ pc[t] = "magic")
  PROVE  Registry!Next \/ Interrupted \/ UNCHANGED Bag
<1>1. /\ Frame(t) /\ pc'[t] \in {"dead", "sigbus"} /\ op'[t] = op[t]
      /\ UNCHANGED <<count, data, lockImageId>>
      /\ pc[t] # "magic" => pc'[t] = "dead"
  BY DEF Die, Frame, OneThreadPerProcess, table, locals, Inv, Typed, TypeOK
<1>2. CASE Removing(t) \/ Clearing(t)
  BY <1>1, <1>2 DEF Interrupted, Removing, Clearing
<1>3. CASE op[t] = "query" /\ pc[t] = "unlock"
  BY <1>1, <1>3, RefForget
<1>4. CASE ~Removing(t) /\ ~Clearing(t) /\ ~(op[t] = "query" /\ pc[t] = "unlock")
  <2>1. ~Removing(t)' /\ ~Clearing(t)' /\ AnswerOf(t) = NoAnswer /\ AnswerOf(t)' = NoAnswer
    BY <1>1, <1>4 DEF Removing, Clearing, AnswerOf
  <2> QED BY <1>1, <1>4, <2>1, Silent
<1> QED BY <1>2, <1>3, <1>4

\* The steps that leave the bag alone.
LEMMA RefSilent ==
  ASSUME LockNeverFails, Inv, NEW t \in Thread,
         \/ \E c \in Command, w \in Values : Start(t, c, w)
         \/ ShmOpen(t) \/ ShmCreate(t) \/ Truncate(t) \/ LockShm(t) \/ LockShmFails(t) \/ Mmap(t)
         \/ Unlock(t) /\ op[t] # "query"
         \/ SetMagic(t) \/ TestFull(t) \/ Scan(t) \/ Load(t) \/ ReadId(t) \/ Show(t)
         \/ TestMagic(t) /\ (magic \/ op[t] # "query")
         \/ ReadCount(t) /\ op[t] # "query"
         \/ Respawn(t) \/ Grab(t) \/ Ungrab(t)
  PROVE  UNCHANGED Bag
<1> USE DEF Inv, Typed, TypeOK, Goto, table, locals
<1>1. Frame(t) /\ UNCHANGED <<lockImageId, count, data>>
  <2>1. CASE (\E c \in Command, w \in Values : Start(t, c, w)) \/ Respawn(t) \/ Grab(t) \/ Ungrab(t)
    BY <2>1 DEF Start, Respawn, Return, Grab, Ungrab, Frame
  <2>2. CASE ShmOpen(t) \/ ShmCreate(t) \/ Truncate(t) \/ LockShm(t) \/ LockShmFails(t) \/ Mmap(t) \/ Unlock(t)
    BY <2>2 DEF ShmOpen, ShmCreate, Truncate, LockShm, LockShmFails, Mmap, Unlock, Return, Frame
  <2>3. CASE SetMagic(t) \/ TestFull(t) \/ Scan(t) \/ Load(t) \/ ReadId(t) \/ Show(t) \/ TestMagic(t) \/ ReadCount(t)
    BY <2>3 DEF SetMagic, TestFull, Scan, Load, ReadId, Show, TestMagic, ReadCount, Touchable, Frame
  <2> QED BY <2>1, <2>2, <2>3
<1>2. /\ Removing(t)' <=> Removing(t)
      /\ Clearing(t)' <=> Clearing(t)
      /\ AnswerOf(t)' = AnswerOf(t)
  <2> USE DEF Removing, Clearing, AnswerOf, OnPath, Path
  <2>1. CASE (\E c \in Command, w \in Values : Start(t, c, w)) \/ Respawn(t) \/ Grab(t) \/ Ungrab(t)
    BY <2>1 DEF Start, Respawn, Return, Grab, Ungrab, Alive
  <2>2. CASE ShmOpen(t) \/ ShmCreate(t) \/ Truncate(t)
    BY <2>2 DEF ShmOpen, ShmCreate, Truncate, Return, Writers
  <2>3. CASE LockShm(t) \/ LockShmFails(t) \/ Mmap(t)
    BY <2>3 DEF LockShm, LockShmFails, Mmap, Return, Writers
  <2>4. CASE Unlock(t) /\ op[t] # "query"
    BY <2>4 DEF Unlock, Return
  <2>5. CASE SetMagic(t) \/ TestFull(t) \/ Scan(t) \/ Load(t)
    BY <2>5 DEF SetMagic, TestFull, Scan, Load, Touchable, Writers
  <2>6. CASE ReadId(t) \/ Show(t) \/ (ReadCount(t) /\ op[t] # "query")
    BY <2>6 DEF ReadId, Show, ReadCount
  <2>7. CASE TestMagic(t) /\ (magic \/ op[t] # "query")
    BY <2>7 DEF TestMagic, Touchable, FirstStep, Writers, Command
  <2> QED BY <2>1, <2>2, <2>3, <2>4, <2>5, <2>6, <2>7
<1> QED BY <1>1, <1>2, Silent

-----------------------------------------------------------------------------
(* The refinement. *)

LEMMA RefInit == Init => Registry!Init
<1> SUFFICES ASSUME Init PROVE Registry!Init
  OBVIOUS
<1>1. EffectiveCount = 0 /\ lockImageId = 0
  BY DEF Init, EffectiveCount, At
<1>2. \A w \in Windows : Occurrences(w) = 0
  BY <1>1, NoPlaces DEF Occurrences, Places
<1>3. \A t \in Thread : ~(op[t] = "query" /\ pc[t] = "unlock")
  BY DEF Init
<1> QED BY <1>1, <1>2, <1>3 DEF Registry!Init

LEMMA RefStep ==
  ASSUME OneThreadPerProcess, LockNeverFails, Inv, [Next]_vars
  PROVE  [Registry!Next \/ Interrupted]_(Registry!vars)
<1> SUFFICES Registry!Next \/ Interrupted \/ UNCHANGED Bag
  BY BagOfRegistry
<1>1. CASE UNCHANGED vars
  BY <1>1 DEF vars, table, locals, Bag, Held, Occurrences, EffectiveCount, At, Answers, AnswerOf
<1>2. CASE Next
  <2>1. PICK t \in Thread :
          \/ \E c \in Command, w \in Values : Start(t, c, w)
          \/ Syscall(t) \/ Access(t) \/ NoTitle(t) \/ Kill(t) \/ Respawn(t)
          \/ Grab(t) \/ Ungrab(t)
    BY <1>2 DEF Next
  <2>2. CASE NoTitle(t) \/ Kill(t) \/ BusError(t) \/ OutOfPage(t)
    BY <2>2, RefDie DEF NoTitle, Kill, BusError, OutOfPage
  <2>3. CASE Unlock(t) /\ op[t] = "query"
    <3>1. /\ Frame(t) /\ UNCHANGED <<count, data, lockImageId>>
          /\ pc[t] = "unlock" /\ pc'[t] = "idle"
      BY <2>3 DEF Unlock, Return, Goto, Frame, table, Inv, Typed, TypeOK
    <3> QED BY <2>3, <3>1, RefForget
  <2>4. CASE (ReadCount(t) \/ (TestMagic(t) /\ ~magic)) /\ op[t] = "query"
    BY <2>4, RefAnswer
  <2>5. CASE WriteBack(t)
    <3>1. op[t] \in {"lock", "unlock", "changed_bg"}
      BY <2>5 DEF WriteBack, Inv, OnPath, Path
    <3> QED BY <2>5, <3>1, RefRegister, RefChange, RefHalf
  <2>6. CASE Swap(t) \/ ZeroId(t) \/ StoreWindow(t) \/ ZeroCount(t) \/ Memset(t)
    BY <2>6, RefDeregister, RefReset, RefHalf
  <2>7. CASE \/ \E c \in Command, w \in Values : Start(t, c, w)
             \/ ShmOpen(t) \/ ShmCreate(t) \/ Truncate(t) \/ LockShm(t) \/ LockShmFails(t) \/ Mmap(t)
             \/ Unlock(t) /\ op[t] # "query"
             \/ SetMagic(t) \/ TestFull(t) \/ Scan(t) \/ Load(t) \/ ReadId(t) \/ Show(t)
             \/ TestMagic(t) /\ (magic \/ op[t] # "query")
             \/ ReadCount(t) /\ op[t] # "query"
             \/ Respawn(t) \/ Grab(t) \/ Ungrab(t)
    BY <2>7, RefSilent
  <2> QED BY <2>1, <2>2, <2>3, <2>4, <2>5, <2>6, <2>7 DEF Syscall, Access
<1> QED BY <1>1, <1>2

(***************************************************************************)
(* RegistrySpec: lock_window and the queries change and read the table as  *)
(* if each of their commands were one indivisible step on a bag of         *)
(* windows, whatever else fails and whoever is killed, but for the two     *)
(* places where a kill leaves an unlock or a reset half done.              *)
(***************************************************************************)
THEOREM TableImplementsRegistry ==
  ASSUME OneThreadPerProcess, LockNeverFails
  PROVE  Spec => RegistrySpec
<1>1. Inv /\ [Next]_vars => Inv'
  BY InvNext
<1>2. Inv /\ [Next]_vars => [Registry!Next \/ Interrupted]_(Registry!vars)
  BY RefStep
<1> QED BY InvInit, RefInit, <1>1, <1>2, PTL DEF Spec, RegistrySpec
=============================================================================
