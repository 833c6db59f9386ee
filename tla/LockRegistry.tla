---------------------------- MODULE LockRegistry ----------------------------
(***************************************************************************)
(* What the lock-image table in shared memory promises its users: a bag of *)
(* locked windows of bounded size and an image number, changed by one      *)
(* indivisible command at a time, and queries that are answered with the   *)
(* state of one instant.  The table is a bag: lock_window registers a      *)
(* window once more each time it is locked, and removes one registration   *)
(* when it is unlocked (LockWindow in lock_window.cpp).                    *)
(*                                                                         *)
(* LockImages implements this specification with reads and writes of       *)
(* single fields under a file lock.                                        *)
(***************************************************************************)
EXTENDS Naturals

CONSTANTS
  Thread,          \* the threads that may ask whether screenshots are prohibited
  Windows,         \* window ids
  MaxLockImages,   \* capacity of the table, MAX_LOCK_IMAGES_SIZE
  IdMod,           \* image numbers are taken modulo this (2^32 for uint32_t)
  NoAnswer         \* the thread has no answer pending

VARIABLES
  held,            \* held[w]: how many registrations window w has
  used,            \* how many registrations there are
  imageId,         \* the number of the current lock image
  answer           \* answer[t]: what thread t was told, or NoAnswer

vars == <<held, used, imageId, answer>>

Init ==
  /\ held = [w \in Windows |-> 0]
  /\ used = 0
  /\ imageId = 0
  /\ answer = [t \in Thread |-> NoAnswer]

\* lock_window lock: refused when the table is full.
Register(w) ==
  /\ used < MaxLockImages
  /\ held' = [held EXCEPT ![w] = @ + 1]
  /\ used' = used + 1
  /\ UNCHANGED <<imageId, answer>>

\* lock_window unlock: one registration of w goes, every other one stays.
Deregister(w) ==
  /\ held[w] > 0
  /\ held' = [held EXCEPT ![w] = @ - 1]
  /\ used' = used - 1
  /\ UNCHANGED <<imageId, answer>>

\* lock_window reset: the registrations and the image number go together.
Reset ==
  /\ held' = [w \in Windows |-> 0]
  /\ used' = 0
  /\ imageId' = 0
  /\ UNCHANGED answer

\* lock_window changed_bg.
ChangeImage ==
  /\ imageId' = (imageId + 1) % IdMod
  /\ UNCHANGED <<held, used, answer>>

\* isProhibitScreenshot: the count and the image number of the same instant.
Answer(t) ==
  /\ answer[t] = NoAnswer
  /\ answer' = [answer EXCEPT ![t] = [count |-> used, id |-> imageId]]
  /\ UNCHANGED <<held, used, imageId>>

\* The caller has taken the answer.
Forget(t) ==
  /\ answer[t] # NoAnswer
  /\ answer' = [answer EXCEPT ![t] = NoAnswer]
  /\ UNCHANGED <<held, used, imageId>>

Next ==
  \/ \E w \in Windows : Register(w) \/ Deregister(w)
  \/ Reset
  \/ ChangeImage
  \/ \E t \in Thread : Answer(t) \/ Forget(t)

Spec == Init /\ [][Next]_vars
=============================================================================
