----------------------------- MODULE LockImages -----------------------------
(***************************************************************************)
(* The table of locked windows, struct LOCK_IMAGES in the POSIX shared     *)
(* memory object /lock_image, and the commands that use it:                *)
(*                                                                         *)
(*   lock, unlock, reset, changed_bg, list    lock_window.cpp              *)
(*   query    isProhibitScreenshot of prohibit_screenshot.h, which the     *)
(*            patched XGetImage, XShmGetImage and XShmCreatePixmap call    *)
(*   poll     isProhibitScreenshot of lock_server.cpp                      *)
(*                                                                         *)
(* Every command opens and maps the object, takes the fcntl write lock on  *)
(* /tmp/lock_image and then reads and writes single fields.  A step here   *)
(* is one system call or one such access, so commands of different         *)
(* processes interleave the way the kernel schedules them.  The programs   *)
(* that write are built without optimisation (bld.sh), so stores happen in *)
(* program order, and x++ is a load and a store.                           *)
(*                                                                         *)
(* With the file lock in its hands, list asks the X server for the title   *)
(* of each window.  A client of that server may have it grabbed, and the   *)
(* server then answers nobody else; its XGetImage is a query.              *)
(***************************************************************************)
EXTENDS Integers, FiniteSets

CONSTANTS
  Thread,          \* threads of control
  Process,         \* operating system processes
  ProcessOf,       \* ProcessOf[t]: the process thread t runs in
  CommandsOf,      \* CommandsOf[t]: the commands thread t runs
  Windows,         \* window ids
  MaxLockImages,   \* MAX_LOCK_IMAGES_SIZE
  CountMod,        \* 2^16, the width of the field count
  IdMod,           \* 2^32, the width of the field lock_image_id
  Faults,          \* which calls may fail, and whether a process may be killed
  Grabbers,        \* threads of X clients that grab the server at times
  NoClient,        \* the server is not grabbed
  NoWindow,        \* the value zero in data[]
  NoProcess        \* nobody holds the file lock

Writers == {"lock", "unlock"}       \* the two commands of LockWindow()
Command == Writers \cup {"reset", "changed_bg", "list", "query", "poll"}
Fault   == {"shm_open", "ftruncate", "mmap", "lock_shm", "title", "kill"}

ASSUME ProcessAssumption ==
  /\ ProcessOf \in [Thread -> Process]
  /\ CommandsOf \in [Thread -> SUBSET Command]
  /\ NoProcess \notin Process
  /\ Faults \subseteq Fault
  /\ Grabbers \subseteq Thread /\ NoClient \notin Thread

ASSUME TableAssumption ==
  /\ NoWindow \notin Windows
  /\ MaxLockImages \in Nat \ {0}
  /\ CountMod \in Nat /\ MaxLockImages < CountMod
  /\ IdMod \in Nat \ {0}

VARIABLES
  shmSize,         \* the object: "absent", "empty" (size zero) or "full" (one LOCK_IMAGES)
  magic,           \* magic = LOCK_IMAGES_MAGIC
  lockImageId,     \* lock_image_id
  count,           \* count
  data,            \* data[0 .. MAX_LOCK_IMAGES_SIZE-1]
  fcntlOwner,      \* the process that holds the lock on LOCK_FILE_NAME
  grabber,         \* the thread whose client has the X server grabbed
  pc,              \* pc[t]: where thread t is; "idle" between commands
  op,              \* op[t]: the command it runs
  wid,             \* wid[t]: the window it locks or unlocks
  lockFd,          \* lockFd[t]: lock_shm returned a descriptor, not -1
  reg,             \* reg[t]: the loop index, then the loaded operand of ++ or --
  ret,             \* ret[t]: the value the command is to return
  idOut            \* idOut[t]: *lock_image_id of a query

table  == <<magic, lockImageId, count, data>>
locals == <<reg, ret, idOut>>
vars   == <<shmSize, table, fcntlOwner, grabber, pc, op, wid, lockFd, locals>>

Slot   == 0 .. MaxLockImages - 1
Values == Windows \cup {NoWindow}
Alive(t) == pc[t] \notin {"sigbus", "dead"}

Init ==
  /\ shmSize = "absent"
  /\ magic = FALSE
  /\ lockImageId = 0
  /\ count = 0
  /\ data = [k \in Slot |-> NoWindow]
  /\ fcntlOwner = NoProcess
  /\ grabber = NoClient
  /\ pc = [t \in Thread |-> "idle"]
  /\ op = [t \in Thread |-> "query"]
  /\ wid = [t \in Thread |-> NoWindow]
  /\ lockFd = [t \in Thread |-> FALSE]
  /\ reg = [t \in Thread |-> 0]
  /\ ret = [t \in Thread |-> 0]
  /\ idOut = [t \in Thread |-> 0]

-----------------------------------------------------------------------------
(* Control flow. *)

Goto(t, label) == pc' = [pc EXCEPT ![t] = label]

\* The command ends; its locals go with its stack frame.
Return(t) ==
  /\ Goto(t, "idle")
  /\ op' = [op EXCEPT ![t] = "query"]
  /\ wid' = [wid EXCEPT ![t] = NoWindow]
  /\ reg' = [reg EXCEPT ![t] = 0]
  /\ ret' = [ret EXCEPT ![t] = 0]
  /\ idOut' = [idOut EXCEPT ![t] = 0]

\* The process of t dies: all its threads stop, the kernel drops its lock and
\* the X server its grab.
Die(t, how) ==
  LET gone == {s \in Thread : ProcessOf[s] = ProcessOf[t]}
  IN  /\ pc' = [s \in Thread |-> IF s \in gone THEN how ELSE pc[s]]
      /\ lockFd' = [s \in Thread |-> IF s \in gone THEN FALSE ELSE lockFd[s]]
      /\ fcntlOwner' = IF fcntlOwner = ProcessOf[t] THEN NoProcess ELSE fcntlOwner
      /\ grabber' = IF grabber \in gone THEN NoClient ELSE grabber
      /\ UNCHANGED <<shmSize, table, op, wid, locals>>

\* A new command starts: main() has picked the command and the window.
Start(t, c, w) ==
  /\ pc[t] = "idle"
  /\ c \in CommandsOf[t]
  /\ c \notin Writers => w = NoWindow
  /\ c \in Writers => w \in Windows
  /\ Goto(t, "open")
  /\ op' = [op EXCEPT ![t] = c]
  /\ wid' = [wid EXCEPT ![t] = w]
  /\ UNCHANGED <<shmSize, table, fcntlOwner, grabber, lockFd, locals>>

-----------------------------------------------------------------------------
(* System calls around the critical section. *)

\* shm_open without O_CREAT.  LockWindow locks before it maps, the others
\* map before they lock.
ShmOpen(t) ==
  /\ pc[t] = "open"
  /\ UNCHANGED <<shmSize, table, fcntlOwner, grabber, lockFd>>
  /\ \/ /\ shmSize # "absent"
        /\ Goto(t, IF op[t] \in Writers THEN "lock" ELSE "map")
        /\ UNCHANGED <<op, wid, locals>>
     \/ /\ shmSize = "absent" \/ "shm_open" \in Faults
        /\ op[t] \in Writers
        /\ Goto(t, "create")
        /\ UNCHANGED <<op, wid, locals>>
     \/ /\ shmSize = "absent" \/ "shm_open" \in Faults
        /\ op[t] \notin Writers
        /\ Return(t)

\* shm_open with O_CREAT: a new object has size zero, an old one is opened.
ShmCreate(t) ==
  /\ pc[t] = "create"
  /\ UNCHANGED <<table, fcntlOwner, grabber, lockFd>>
  /\ \/ /\ shmSize' = IF shmSize = "absent" THEN "empty" ELSE shmSize
        /\ Goto(t, "truncate")
        /\ UNCHANGED <<op, wid, locals>>
     \/ /\ "shm_open" \in Faults
        /\ Return(t)
        /\ UNCHANGED shmSize

\* ftruncate, whose result nobody checks.  Setting the size it already has
\* leaves the contents alone.
Truncate(t) ==
  /\ pc[t] = "truncate"
  /\ shmSize' \in {"full"} \cup (IF "ftruncate" \in Faults THEN {shmSize} ELSE {})
  /\ Goto(t, "lock")
  /\ UNCHANGED <<table, fcntlOwner, grabber, op, wid, lockFd, locals>>

\* Mutant of LockShm: a shared lock (F_RDLCK), which waits for nobody.
LockShmShared(t) ==
  /\ pc[t] = "lock"
  /\ fcntlOwner' = ProcessOf[t]
  /\ lockFd' = [lockFd EXCEPT ![t] = TRUE]
  /\ Goto(t, IF op[t] \in Writers THEN "map" ELSE "magic")
  /\ UNCHANGED <<shmSize, table, grabber, op, wid, locals>>

\* lock_shm: waits for every other process, never for a thread of its own.
LockShm(t) ==
  /\ pc[t] = "lock"
  /\ fcntlOwner \in {NoProcess, ProcessOf[t]}
  /\ fcntlOwner' = ProcessOf[t]
  /\ lockFd' = [lockFd EXCEPT ![t] = TRUE]
  /\ Goto(t, IF op[t] \in Writers THEN "map" ELSE "magic")
  /\ UNCHANGED <<shmSize, table, grabber, op, wid, locals>>

\* lock_shm returns -1: a query gives up and answers zero, everybody else
\* goes on without the lock.  When it is fcntl that failed, the descriptor is
\* closed, which drops the lock of any thread of the process.
LockShmFails(t) ==
  /\ pc[t] = "lock"
  /\ "lock_shm" \in Faults
  /\ fcntlOwner' \in {fcntlOwner} \cup (IF fcntlOwner = ProcessOf[t] THEN {NoProcess} ELSE {})
  /\ lockFd' = [lockFd EXCEPT ![t] = FALSE]
  /\ UNCHANGED <<shmSize, table, grabber>>
  /\ IF op[t] = "query"
     THEN Return(t)
     ELSE /\ Goto(t, IF op[t] \in Writers THEN "map" ELSE "magic")
          /\ UNCHANGED <<op, wid, locals>>

\* Mutant of Mmap: a query goes on to the table without lock_shm.
MmapQueryUnlocked(t) ==
  /\ pc[t] = "map"
  /\ Goto(t, IF op[t] \in Writers \cup {"query"} THEN "magic" ELSE "lock")
  /\ UNCHANGED <<shmSize, table, fcntlOwner, grabber, op, wid, lockFd, locals>>

\* mmap; LockWindow gives the lock back when it fails.
Mmap(t) ==
  /\ pc[t] = "map"
  /\ UNCHANGED <<shmSize, table, fcntlOwner, grabber, lockFd>>
  /\ \/ /\ Goto(t, IF op[t] \in Writers THEN "magic" ELSE "lock")
        /\ UNCHANGED <<op, wid, locals>>
     \/ /\ "mmap" \in Faults
        /\ op[t] \in Writers
        /\ Goto(t, "unlock")
        /\ UNCHANGED <<op, wid, locals>>
     \/ /\ "mmap" \in Faults
        /\ op[t] \notin Writers
        /\ Return(t)

\* unlock_shm and the clean-up after it.  F_UNLCK and close drop the lock of
\* the whole process, whichever thread calls them.
Unlock(t) ==
  /\ pc[t] = "unlock"
  /\ fcntlOwner' = IF lockFd[t] /\ fcntlOwner = ProcessOf[t] THEN NoProcess ELSE fcntlOwner
  /\ lockFd' = [lockFd EXCEPT ![t] = FALSE]
  /\ Return(t)
  /\ UNCHANGED <<shmSize, table, grabber>>

-----------------------------------------------------------------------------
(* Accesses to the mapped table. *)

\* The first access faults when nobody has given the object its size yet.
Touchable(t) == pc[t] = "magic" /\ shmSize = "full"

BusError(t) ==
  /\ pc[t] = "magic"
  /\ shmSize = "empty"
  /\ Die(t, "sigbus")

\* LockWindow stores the magic, so its own test of it always succeeds.
SetMagic(t) ==
  /\ Touchable(t)
  /\ op[t] \in Writers
  /\ magic' = TRUE
  /\ ret' = [ret EXCEPT ![t] = 1]
  /\ Goto(t, IF op[t] = "lock" THEN "full" ELSE "scan")
  /\ UNCHANGED <<shmSize, lockImageId, count, data, fcntlOwner, grabber, op, wid, lockFd, reg, idOut>>

FirstStep == [reset |-> "zero_id", changed_bg |-> "load", query |-> "read_id",
              list |-> "read_count", poll |-> "read_count"]

\* Mutant of TestMagic: returns at once when there is no magic.
TestMagicKeepsLock(t) ==
  /\ Touchable(t)
  /\ op[t] \notin Writers
  /\ IF magic
     THEN Goto(t, FirstStep[op[t]]) /\ UNCHANGED <<op, wid, locals>>
     ELSE Return(t)
  /\ UNCHANGED <<shmSize, table, fcntlOwner, grabber, lockFd>>

TestMagic(t) ==
  /\ Touchable(t)
  /\ op[t] \notin Writers
  /\ Goto(t, IF magic THEN FirstStep[op[t]] ELSE "unlock")
  /\ UNCHANGED <<shmSize, table, fcntlOwner, grabber, op, wid, lockFd, locals>>

\* What a read of data[k] may return.  Slot -1 is the word that holds count and
\* size, zero when count is; what lies beyond the table is anything.
Read(k) ==
  CASE k \in Slot -> {data[k]}
    [] k = -1     -> {NoWindow}
    [] OTHER      -> Values

Write(k, v) == data' = IF k \in Slot THEN [data EXCEPT ![k] = v] ELSE data

\* Mutant of TestFull: count > MAX_LOCK_IMAGES_SIZE.
TestFullOffByOne(t) ==
  /\ pc[t] = "full"
  /\ IF count > MaxLockImages
     THEN Goto(t, "unlock") /\ ret' = [ret EXCEPT ![t] = 0]
     ELSE Goto(t, "store") /\ UNCHANGED ret
  /\ UNCHANGED <<shmSize, table, fcntlOwner, grabber, op, wid, lockFd, reg, idOut>>

\* lock: refuse when full, else data[count] = wid.
TestFull(t) ==
  /\ pc[t] = "full"
  /\ IF count >= MaxLockImages
     THEN Goto(t, "unlock") /\ ret' = [ret EXCEPT ![t] = 0]
     ELSE Goto(t, "store") /\ UNCHANGED ret
  /\ UNCHANGED <<shmSize, table, fcntlOwner, grabber, op, wid, lockFd, reg, idOut>>

\* Mutant of StoreWindow: data[count + 1] = wid.
StoreWindowOffByOne(t) ==
  /\ pc[t] = "store"
  /\ Write(count + 1, wid[t])
  /\ Goto(t, "load")
  /\ UNCHANGED <<shmSize, magic, lockImageId, count, fcntlOwner, grabber, op, wid, lockFd, locals>>

StoreWindow(t) ==
  /\ pc[t] = "store"
  /\ Write(count, wid[t])
  /\ Goto(t, "load")
  /\ UNCHANGED <<shmSize, magic, lockImageId, count, fcntlOwner, grabber, op, wid, lockFd, locals>>

\* unlock: one turn of the search loop.
Scan(t) ==
  /\ pc[t] = "scan"
  /\ \/ /\ reg[t] >= count
        /\ Goto(t, "unlock")
        /\ UNCHANGED reg
     \/ /\ reg[t] < count
        /\ \E v \in Read(reg[t]) :
             IF v = wid[t]
             THEN Goto(t, "swap") /\ UNCHANGED reg
             ELSE UNCHANGED pc /\ reg' = [reg EXCEPT ![t] = @ + 1]
  /\ UNCHANGED <<shmSize, table, fcntlOwner, grabber, op, wid, lockFd, ret, idOut>>

\* Mutant of Swap: data[i] = data[count].
SwapOffByOne(t) ==
  /\ pc[t] = "swap"
  /\ \E v \in Read(count) : Write(reg[t], v)
  /\ Goto(t, "load")
  /\ UNCHANGED <<shmSize, magic, lockImageId, count, fcntlOwner, grabber, op, wid, lockFd, locals>>

\* Mutant of Swap: the last entry is not copied into the gap.
SwapNoCopy(t) ==
  /\ pc[t] = "swap"
  /\ Goto(t, "load")
  /\ UNCHANGED <<shmSize, table, fcntlOwner, grabber, op, wid, lockFd, locals>>

\* unlock: data[i] = data[count - 1].
Swap(t) ==
  /\ pc[t] = "swap"
  /\ \E v \in Read(count - 1) : Write(reg[t], v)
  /\ Goto(t, "load")
  /\ UNCHANGED <<shmSize, magic, lockImageId, count, fcntlOwner, grabber, op, wid, lockFd, locals>>

\* An access beyond the table leaves the single page that is mapped, which may
\* kill the process.
OutOfPage(t) ==
  /\ \/ pc[t] = "store" /\ count \notin Slot
     \/ pc[t] = "scan" /\ reg[t] < count /\ reg[t] \notin Slot
     \/ pc[t] = "swap" /\ (reg[t] \notin Slot \/ count - 1 \notin Slot \cup {-1})
     \/ pc[t] = "show" /\ reg[t] < ret[t] /\ reg[t] \notin Slot
  /\ Die(t, "dead")

\* count++, count-- and lock_image_id++: load, then store one more or one less.
Load(t) ==
  /\ pc[t] = "load"
  /\ reg' = [reg EXCEPT ![t] = IF op[t] = "changed_bg" THEN lockImageId ELSE count]
  /\ Goto(t, "write")
  /\ UNCHANGED <<shmSize, table, fcntlOwner, grabber, op, wid, lockFd, ret, idOut>>

\* Mutant of Up: a counter without its width.
UpUnbounded(n, mod) == n + 1

Up(n, mod)   == IF n + 1 = mod THEN 0 ELSE n + 1
Down(n, mod) == IF n = 0 THEN mod - 1 ELSE n - 1

WriteBack(t) ==
  /\ pc[t] = "write"
  /\ count' = CASE op[t] = "lock"   -> Up(reg[t], CountMod)
                [] op[t] = "unlock" -> Down(reg[t], CountMod)
                [] OTHER            -> count
  /\ lockImageId' = IF op[t] = "changed_bg" THEN Up(reg[t], IdMod) ELSE lockImageId
  /\ Goto(t, "unlock")
  /\ UNCHANGED <<shmSize, magic, data, fcntlOwner, grabber, op, wid, lockFd, locals>>

\* Mutant of ZeroId: reset wipes the array while the entries still count.
ZeroIdWipesFirst(t) ==
  /\ pc[t] = "zero_id"
  /\ lockImageId' = 0
  /\ data' = [k \in Slot |-> NoWindow]
  /\ Goto(t, "zero_count")
  /\ UNCHANGED <<shmSize, magic, count, fcntlOwner, grabber, op, wid, lockFd, locals>>

\* reset: three stores, the array last.
ZeroId(t) ==
  /\ pc[t] = "zero_id"
  /\ lockImageId' = 0
  /\ Goto(t, "zero_count")
  /\ UNCHANGED <<shmSize, magic, count, data, fcntlOwner, grabber, op, wid, lockFd, locals>>

ZeroCount(t) ==
  /\ pc[t] = "zero_count"
  /\ count' = 0
  /\ Goto(t, "memset")
  /\ UNCHANGED <<shmSize, magic, lockImageId, data, fcntlOwner, grabber, op, wid, lockFd, locals>>

Memset(t) ==
  /\ pc[t] = "memset"
  /\ data' = [k \in Slot |-> NoWindow]
  /\ Goto(t, "unlock")
  /\ UNCHANGED <<shmSize, magic, lockImageId, count, fcntlOwner, grabber, op, wid, lockFd, locals>>

\* query: *lock_image_id, then the count.
ReadId(t) ==
  /\ pc[t] = "read_id"
  /\ idOut' = [idOut EXCEPT ![t] = lockImageId]
  /\ Goto(t, "read_count")
  /\ UNCHANGED <<shmSize, table, fcntlOwner, grabber, op, wid, lockFd, reg, ret>>

ReadCount(t) ==
  /\ pc[t] = "read_count"
  /\ ret' = [ret EXCEPT ![t] = count]
  /\ Goto(t, IF op[t] = "query" THEN "unlock" ELSE "show")
  /\ UNCHANGED <<shmSize, table, fcntlOwner, grabber, op, wid, lockFd, reg, idOut>>

\* list and poll print the entries one by one, with the lock held; list asks
\* the X server for each title.
AsksServer(t) == pc[t] = "show" /\ op[t] = "list" /\ reg[t] < ret[t]

Show(t) ==
  /\ pc[t] = "show"
  /\ AsksServer(t) => grabber = NoClient
  /\ IF reg[t] < ret[t]
     THEN reg' = [reg EXCEPT ![t] = @ + 1] /\ UNCHANGED pc
     ELSE Goto(t, "unlock") /\ UNCHANGED reg
  /\ UNCHANGED <<shmSize, table, fcntlOwner, grabber, op, wid, lockFd, ret, idOut>>

\* No title: XOpenDisplay, called for each entry and never followed by an
\* XCloseDisplay, gives NULL at the server's limit, which get_window_title does
\* not survive; or the window is gone, and the BadWindow error ends list.
NoTitle(t) ==
  /\ AsksServer(t) /\ grabber = NoClient
  /\ "title" \in Faults
  /\ Die(t, "dead")

-----------------------------------------------------------------------------
(* The X server, as far as it is grabbed. *)

Grab(t) ==
  /\ t \in Grabbers /\ pc[t] = "idle"
  /\ grabber = NoClient
  /\ grabber' = t
  /\ UNCHANGED <<shmSize, table, fcntlOwner, pc, op, wid, lockFd, locals>>

Ungrab(t) ==
  /\ grabber = t /\ pc[t] = "idle"
  /\ grabber' = NoClient
  /\ UNCHANGED <<shmSize, table, fcntlOwner, pc, op, wid, lockFd, locals>>

-----------------------------------------------------------------------------
(* Crashes, and the specification. *)

\* The process is killed in the middle of a command.
Kill(t) ==
  /\ "kill" \in Faults
  /\ Alive(t) /\ pc[t] # "idle"
  /\ Die(t, "dead")

\* The command is run again, by a new process.
Respawn(t) ==
  /\ ~Alive(t)
  /\ Return(t)
  /\ UNCHANGED <<shmSize, table, fcntlOwner, grabber, lockFd>>

Syscall(t) ==
  \/ ShmOpen(t) \/ ShmCreate(t) \/ Truncate(t)
  \/ LockShm(t) \/ LockShmFails(t) \/ Mmap(t) \/ Unlock(t)

Access(t) ==
  \/ BusError(t) \/ SetMagic(t) \/ TestMagic(t)
  \/ TestFull(t) \/ StoreWindow(t) \/ Scan(t) \/ Swap(t) \/ OutOfPage(t)
  \/ Load(t) \/ WriteBack(t)
  \/ ZeroId(t) \/ ZeroCount(t) \/ Memset(t)
  \/ ReadId(t) \/ ReadCount(t) \/ Show(t)

Next ==
  \E t \in Thread :
    \/ \E c \in Command, w \in Values : Start(t, c, w)
    \/ Syscall(t)
    \/ Access(t)
    \/ NoTitle(t)
    \/ Kill(t)
    \/ Respawn(t)
    \/ Grab(t)
    \/ Ungrab(t)

Spec == Init /\ [][Next]_vars

\* A thread that has begun a command is scheduled again and again.  Nothing is
\* assumed about who gets the file lock next, and a thread that waits for it
\* cannot count on lock_shm to fail.  A grab is given back, and the server
\* serves who waits even if it is grabbed over and over again.
Progress(t) ==
  \/ ShmOpen(t) \/ ShmCreate(t) \/ Truncate(t) \/ LockShm(t) \/ Mmap(t) \/ Unlock(t)
  \/ Access(t)

Fairness ==
  \A t \in Thread : WF_vars(Progress(t)) /\ SF_vars(Show(t)) /\ WF_vars(Ungrab(t))
FairSpec == Spec /\ Fairness

-----------------------------------------------------------------------------
(* Properties. *)

Label ==
  {"idle", "open", "create", "truncate", "lock", "map", "magic", "full", "store",
   "scan", "swap", "load", "write", "zero_id", "zero_count", "memset",
   "read_id", "read_count", "show", "unlock", "sigbus", "dead"}

\* Every variable has its type; the two counters stay within their widths.
TypeOK ==
  /\ shmSize \in {"absent", "empty", "full"}
  /\ magic \in BOOLEAN
  /\ lockImageId \in 0 .. IdMod - 1
  /\ count \in 0 .. CountMod - 1
  /\ data \in [Slot -> Values]
  /\ fcntlOwner \in Process \cup {NoProcess}
  /\ grabber \in Grabbers \cup {NoClient}
  /\ pc \in [Thread -> Label]
  /\ op \in [Thread -> Command]
  /\ wid \in [Thread -> Values]
  /\ lockFd \in [Thread -> BOOLEAN]
  /\ reg \in [Thread -> Nat]
  /\ ret \in [Thread -> Nat]
  /\ idOut \in [Thread -> 0 .. IdMod - 1]

\* Two commands that both got the lock are never inside lock_shm ..
\* unlock_shm together, unless they run in the same process.
MutualExclusion ==
  \A s, t \in Thread : lockFd[s] /\ lockFd[t] => ProcessOf[s] = ProcessOf[t]

\* isProhibitScreenshot returns a count and an image number that the table
\* holds together at one instant, whatever lock_window does meanwhile.
SnapshotConsistent ==
  \A t \in Thread :
    pc[t] = "unlock" /\ op[t] = "query" => ret[t] = count /\ idOut[t] = lockImageId

\* The test for a full table is still right when the count is stored, so that
\* no interleaving and no killed process pushes the count past the array.
CountBounded == count <= MaxLockImages

\* Every slot below the count holds a window, also after a process was killed
\* between two stores: an entry is written before it is counted, and reset
\* drops the count before it wipes the array.
EntriesAreWindows == \A k \in Slot : k < count => data[k] \in Windows

Entries == {data[k] : k \in {k \in Slot : k < count}}

\* When LockWindow reports that it locked a window, the window is in the table.
SuccessMeansListed ==
  \A t \in Thread :
    pc[t] = "unlock" /\ op[t] = "lock" /\ ret[t] = 1 => wid[t] \in Entries

\* A window leaves the table only by an unlock of that window or by a reset:
\* moving the last entry into the gap never loses it, not even for an instant
\* or when the process is killed half-way.
Leaves(w, t) ==
  \/ op[t] = "unlock" /\ wid[t] = w /\ pc[t] \in {"swap", "write"}
  \/ op[t] = "reset" /\ pc[t] = "zero_count"
OnlyTargetLeaves  == \A w \in Entries \ Entries' : \E t \in Thread : Leaves(w, t)
OnlyTargetRemoved == [][OnlyTargetLeaves]_vars

\* When no new command starts any more, every command that has started comes to
\* its end: nobody ends, fails or dies with the file lock in its hands, and no
\* two commands wait for each other.  That goes for list, too, which waits for
\* the X server with the file lock in its hands, as long as no client takes a
\* picture while it has the server grabbed: such a client waits for list, and
\* list for it.
NoPictureUnderGrab == [](\A t \in Grabbers : grabber = t => pc[t] = "idle")

AllCommandsEnd ==
  NoPictureUnderGrab /\ <>[][\A t \in Thread : pc[t] = "idle" => pc'[t] = "idle"]_vars
    => \A t \in Thread : <>[](pc[t] = "idle" \/ ~Alive(t))

\* What the program says and does not keep (see the run that refutes it).

\* Opening the table and reading it never kills the reader or the writer.
NoBusError == \A t \in Thread : pc[t] # "sigbus"

-----------------------------------------------------------------------------
(* The table implements LockRegistry: a lock or an increment of the image      *)
(* number takes effect when its counter is stored, an unlock when the last     *)
(* entry has been copied, a reset with its first store, and a query when it    *)
(* has read the count.                                                         *)

At(c, l) == \E t \in Thread : op[t] = c /\ pc[t] \in l

EffectiveCount ==
  IF At("unlock", {"load", "write"}) THEN count - 1
  ELSE IF At("reset", {"zero_count"}) THEN 0
  ELSE count

Occurrences(w) == Cardinality({k \in 0 .. EffectiveCount - 1 : data[k] = w})

NoAnswer == [count |-> -1, id |-> -1]

Registry == INSTANCE LockRegistry WITH
  held    <- [w \in Windows |-> Occurrences(w)],
  used    <- EffectiveCount,
  imageId <- lockImageId,
  answer  <- [t \in Thread |->
                IF op[t] = "query" /\ pc[t] = "unlock"
                THEN [count |-> ret[t], id |-> idOut[t]] ELSE NoAnswer]

\* An unlock is killed before it has counted down, and the entry it has
\* overwritten counts twice; or a reset is killed before it drops the count.
Interrupted ==
  \E t \in Thread :
    /\ \/ op[t] = "unlock" /\ pc[t] \in {"load", "write"}
       \/ op[t] = "reset" /\ pc[t] = "zero_count"
    /\ pc'[t] = "dead"

\* The field-by-field commands implement the indivisible ones.  A process may
\* be killed anywhere: but for those two places, its command has then been
\* carried out as a whole or not at all.
RegistrySpec == Registry!Init /\ [][Registry!Next \/ Interrupted]_(Registry!vars)
=============================================================================
