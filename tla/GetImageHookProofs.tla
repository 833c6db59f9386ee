------------------------- MODULE GetImageHookProofs -------------------------
(***************************************************************************)
(* Proofs about GetImageHook: what the order of taking the pixels and      *)
(* asking the table gives, for any clients with any number of threads, any *)
(* commands of the administrator (reset included) and queries that may     *)
(* fail.                                                                   *)
(***************************************************************************)
EXTENDS GetImageHook, FiniteSetTheorems, TLAPS

\* Where a thread may be in each kind of call, and whether it has a picture.
CallPath ==
  \A t \in Thread :
    /\ pc[t] \in {"pixmap_check", "create"} => call[t] = "pixmap"
    /\ pc[t] \in {"capture", "check", "test", "free", "load", "read", "set_id", "paint"} =>
         call[t] \in ImageCalls
    /\ pc[t] \in {"idle", "capture", "pixmap_check", "create"} => picture[t] = NoPicture

\* lockedSince is true only while some window is locked.
SinceLocked == \A t \in Thread : lockedSince[t] => used > 0

HookTypes ==
  /\ pc \in [Thread -> Label] /\ call \in [Thread -> Call] /\ picture \in [Thread -> Int]
  /\ lockedSince \in [Thread -> BOOLEAN] /\ failed \in [Thread -> BOOLEAN]

HookInv ==
  HookTypes /\ CallPath /\ SinceLocked /\ ReplacedWhileLocked /\ PixmapRefused

LEMMA HookInit == Init => HookInv
<1> SUFFICES ASSUME Init PROVE HookInv
  OBVIOUS
<1> USE DEF Init
<1>1. lockedSince \in [Thread -> BOOLEAN] /\ failed \in [Thread -> BOOLEAN]
  BY Zenon
<1>2. pc \in [Thread -> Label] /\ call \in [Thread -> Call] /\ picture \in [Thread -> Int]
  <2>1. NoPicture \in Int
    BY DEF NoPicture
  <2>2. "XGetImage" \in Call /\ "idle" \in Label
    BY Zenon DEF Call, ImageCalls, Label
  <2> QED BY <2>1, <2>2
<1>3. CallPath /\ SinceLocked
  BY DEF CallPath, SinceLocked
<1>4. ReplacedWhileLocked /\ PixmapRefused
  BY DEF ReplacedWhileLocked, PixmapRefused
<1> QED BY <1>1, <1>2, <1>3, <1>4 DEF HookInv, HookTypes

LEMMA HookAdmin ==
  ASSUME HookInv, Admin
  PROVE  HookInv'
BY DEF HookInv, HookTypes, CallPath, SinceLocked, ReplacedWhileLocked, PixmapRefused, Admin

\* The steps of a call that leave the number of locked windows alone.
LEMMA UsedUnchanged ==
  ASSUME NEW t \in Thread, Step(t)
  PROVE  used' = used
BY DEF Step, Begin, Capture, Check, Test, Free, Open, Read, SetId, Paint, PixmapCheck, CopyArea, Return,
       Ask, AskFails, Registry!Answer, Registry!Forget, registry

LEMMA HookStep ==
  ASSUME HookInv, NEW t \in Thread, Step(t)
  PROVE  HookInv'
<1>0. used' = used
  BY UsedUnchanged
<1> USE <1>0
    DEF Label, HookInv, HookTypes, CallPath, SinceLocked, ReplacedWhileLocked, PixmapRefused, Goto,
        history
<1>1. CASE \E c \in Call : Begin(t, c)
  BY <1>1 DEF Begin, Call, ImageCalls
<1>2. CASE Capture(t)
  <2>1. CASE Take(t) /\ Goto(t, "check")
    BY <1>2, <2>1 DEF Capture, Take, Real
  <2>2. CASE Goto(t, "done") /\ UNCHANGED <<picture, lockedSince>>
    BY <1>2, <2>2 DEF Capture, Real, NoPicture
  <2> QED BY <1>2, <2>1, <2>2 DEF Capture
<1>3. CASE Check(t)
  BY <1>3 DEF Check, Ask, AskFails
<1>4. CASE Test(t)
  BY <1>4 DEF Test
<1>5. CASE Free(t)
  BY <1>5 DEF Free
<1>6. CASE Open(t)
  BY <1>6 DEF Open, NoImage
<1>12. CASE Read(t)
  BY <1>12 DEF Read
<1>7. CASE SetId(t)
  BY <1>7 DEF SetId
<1>8. CASE Paint(t)
  BY <1>8 DEF Paint, Real
<1>9. CASE PixmapCheck(t)
  BY ZenonT(40), <1>9 DEF PixmapCheck, Ask, AskFails, ImageCalls
<1>10. CASE CopyArea(t)
  BY <1>10 DEF CopyArea, Take, Real, ImageCalls
<1>11. CASE Return(t)
  BY <1>11 DEF Return, NoPicture, Call, ImageCalls
<1> QED BY Step(t), <1>1, <1>2, <1>3, <1>4, <1>5, <1>6, <1>7, <1>8, <1>9, <1>10, <1>11, <1>12 DEF Step

LEMMA HookNext ==
  ASSUME HookInv, [Next]_vars
  PROVE  HookInv'
<1>1. CASE UNCHANGED vars
  BY <1>1 DEF vars, thread, history, registry, HookInv, HookTypes, CallPath, SinceLocked,
              ReplacedWhileLocked, PixmapRefused
<1>2. CASE ReplaceImage
  BY <1>2 DEF ReplaceImage, thread, history, registry, HookInv, HookTypes, CallPath, SinceLocked,
              ReplacedWhileLocked, PixmapRefused
<1> QED BY <1>1, <1>2, HookAdmin, HookStep DEF Next

\* A picture taken while a window was locked is replaced, or the lock was
\* lifted before the table was asked, or the query failed.
THEOREM NoLockedPicture == Spec => []ReplacedWhileLocked
<1>1. HookInv /\ [Next]_vars => HookInv'
  BY HookNext
<1>2. HookInv => ReplacedWhileLocked
  BY DEF HookInv
<1> QED BY HookInit, <1>1, <1>2, PTL DEF Spec

\* No pixmap is created by a call during which some window was always locked.
THEOREM NoPixmapWhileLocked == Spec => []PixmapRefused
<1>1. HookInv /\ [Next]_vars => HookInv'
  BY HookNext
<1>2. HookInv => PixmapRefused
  BY DEF HookInv
<1> QED BY HookInit, <1>1, <1>2, PTL DEF Spec

-----------------------------------------------------------------------------
(* The types.  That used stays in its range is a fact about the whole bag  *)
(* of registrations: used is their number, so a window that is registered  *)
(* means that used is positive.                                            *)

Registrations == {r \in Windows \X Nat : 1 <= r[2] /\ r[2] <= held[r[1]]}

Counted ==
  /\ held \in [Windows -> Nat]
  /\ IsFiniteSet(Registrations) /\ Cardinality(Registrations) = used

Asked == {"test", "free", "load", "read", "set_id", "paint"}

HookTyped ==
  /\ TypeOK
  /\ Counted
  /\ \A t \in Thread : pc[t] \in Asked => answer[t] # NoAnswer

LEMMA RegisterCounted ==
  ASSUME Counted, NEW w \in Windows, Registry!Register(w)
  PROVE  Counted'
<1> DEFINE r == <<w, held[w] + 1>>
<1>1. held' = [held EXCEPT ![w] = held[w] + 1] /\ used' = used + 1 /\ held \in [Windows -> Nat]
  BY DEF Registry!Register, Counted
<1>2. held' \in [Windows -> Nat]
  BY <1>1
<1>3. r \notin Registrations /\ Registrations' = Registrations \cup {r}
  BY <1>1 DEF Registrations
<1>4. IsFiniteSet(Registrations') /\ Cardinality(Registrations') = Cardinality(Registrations) + 1
  BY <1>3, FS_AddElement DEF Counted
<1> QED BY <1>1, <1>2, <1>4 DEF Counted

LEMMA DeregisterCounted ==
  ASSUME Counted, NEW w \in Windows, Registry!Deregister(w)
  PROVE  Counted' /\ used > 0
<1> DEFINE r == <<w, held[w]>>
<1>1. /\ held' = [held EXCEPT ![w] = held[w] - 1] /\ used' = used - 1
      /\ held \in [Windows -> Nat] /\ held[w] > 0
  BY DEF Registry!Deregister, Counted
<1>2. held' \in [Windows -> Nat]
  BY <1>1
<1>3. r \in Registrations /\ Registrations' = Registrations \ {r}
  BY <1>1 DEF Registrations
<1>4. IsFiniteSet(Registrations') /\ Cardinality(Registrations') = Cardinality(Registrations) - 1
  BY <1>3, FS_RemoveElement DEF Counted
<1>5. Cardinality(Registrations) > 0
  BY <1>3, FS_EmptySet, FS_CardinalityType DEF Counted
<1> QED BY <1>1, <1>2, <1>4, <1>5 DEF Counted

LEMMA NothingCounted ==
  ASSUME NEW h, h = [w \in Windows |-> 0]
  PROVE  /\ h \in [Windows -> Nat]
         /\ {r \in Windows \X Nat : 1 <= r[2] /\ r[2] <= h[r[1]]} = {}
OBVIOUS

LEMMA EvenBelow ==
  ASSUME NEW n \in Nat
  PROVE  n % 2 \in {0, 1} /\ n - (n % 2) \in 0 .. n /\ (n - (n % 2)) % 2 = 0
OBVIOUS

LEMMA AdminTyped ==
  ASSUME HookTyped, Admin
  PROVE  HookTyped'
<1> USE DEF HookTyped, TypeOK
<1>1. /\ lockedSince' \in [Thread -> BOOLEAN]
      /\ UNCHANGED <<file, image, imageIdCurr, pc, call, picture, header, due, failed, loadFailed>>
  BY DEF Admin, cache
<1>2. answer' = answer
  BY DEF Admin, LockTable, UnlockTable, ResetTable, ChangedBg, Registry!Register, Registry!Deregister,
         Registry!Reset, Registry!ChangeImage
<1>3. announced' \in 0 .. file
  BY EvenBelow DEF Admin
<1>4. imageId' \in 0 .. IdMod - 1
  <2>1. CASE ChangedBg
    BY <2>1, HookAssumption DEF ChangedBg, Registry!ChangeImage
  <2>2. CASE ~ChangedBg
    BY <2>2, HookAssumption DEF Admin, LockTable, UnlockTable, ResetTable, Registry!Register, Registry!Deregister,
       Registry!Reset
  <2> QED BY <2>1, <2>2
<1>5. Counted' /\ used' \in 0 .. MaxLockImages
  <2>1. CASE LockTable
    <3>1. PICK w \in Windows : Registry!Register(w)
      BY <2>1 DEF LockTable
    <3>2. used < MaxLockImages /\ used' = used + 1
      BY <3>1 DEF Registry!Register
    <3> QED BY <3>1, <3>2, RegisterCounted, HookAssumption
  <2>2. CASE UnlockTable
    <3>1. PICK w \in Windows : Registry!Deregister(w)
      BY <2>2 DEF UnlockTable
    <3>2. used' = used - 1
      BY <3>1 DEF Registry!Deregister
    <3> QED BY <3>1, <3>2, DeregisterCounted, HookAssumption
  <2>3. CASE ResetTable
    <3>1. held' = [w \in Windows |-> 0] /\ used' = 0
      BY <2>3 DEF ResetTable, Registry!Reset
    <3>2. held' \in [Windows -> Nat] /\ Registrations' = {}
      BY <3>1, NothingCounted DEF Registrations
    <3> QED BY <3>1, <3>2, FS_EmptySet, HookAssumption DEF Counted
  <2>4. CASE ChangedBg
    BY <2>4 DEF ChangedBg, Registry!ChangeImage, Counted, Registrations
  <2> QED BY <2>1, <2>2, <2>3, <2>4 DEF Admin
<1> QED BY <1>1, <1>2, <1>3, <1>4, <1>5

\* The steps of the clients leave the registrations alone.
LEMMA StepRegistry ==
  ASSUME NEW t \in Thread, Step(t)
  PROVE  UNCHANGED <<held, used, imageId, file, announced>>
BY DEF Step, Begin, Capture, Check, Test, Free, Open, Read, SetId, Paint, PixmapCheck, CopyArea, Return,
       Ask, AskFails, Registry!Answer, Registry!Forget, registry

LEMMA StepAnswer ==
  ASSUME HookTyped, NEW t \in Thread, Step(t)
  PROVE  /\ answer' \in [Thread -> [count : 0 .. MaxLockImages, id : 0 .. IdMod - 1] \cup {NoAnswer}]
         /\ due' \in [Thread -> 0 .. MaxVersion]
         /\ \A s \in Thread : pc'[s] \in Asked => answer'[s] # NoAnswer
<1> USE DEF HookTyped, TypeOK, Goto
<1>1. CASE Check(t) \/ PixmapCheck(t)
  <2>1. \/ /\ answer' = [answer EXCEPT ![t] = [count |-> used, id |-> imageId]]
           /\ due' = [due EXCEPT ![t] = announced]
           /\ \E l \in Label : pc' = [pc EXCEPT ![t] = l]
        \/ /\ answer' = answer /\ due' = due
           /\ \E l \in {"done", "create"} : pc' = [pc EXCEPT ![t] = l]
    BY <1>1 DEF Check, PixmapCheck, Ask, AskFails, Registry!Answer, registry, Label
  <2>2. [count |-> used, id |-> imageId] # NoAnswer
    BY DEF NoAnswer
  <2> QED BY <2>1, <2>2, HookAssumption DEF Asked
<1>2. CASE Return(t)
  BY <1>2, HookAssumption DEF Return, Registry!Forget, registry, Asked
<1>3. CASE ~Check(t) /\ ~PixmapCheck(t) /\ ~Return(t)
  <2>1. answer' = answer /\ due' = due
    BY <1>3, Step(t)
    DEF Step, Begin, Capture, Test, Free, Open, NoImage, Read, SetId, Paint, CopyArea, registry, history
  <2>2. /\ \A s \in Thread \ {t} : pc'[s] = pc[s]
        /\ pc'[t] \in Asked => pc[t] \in Asked
    BY <1>3, Step(t) DEF Step, Begin, Capture, Test, Free, Open, NoImage, Read, SetId, Paint, CopyArea, Asked
  <2> QED BY <2>1, <2>2
<1> QED BY <1>1, <1>2, <1>3

LEMMA StepCache ==
  ASSUME HookTyped, NEW t \in Thread, Step(t)
  PROVE  /\ image' \in [Copy -> Freed .. MaxVersion]
         /\ imageIdCurr' \in [Copy -> 0 .. IdMod - 1]
<1> USE HookAssumption DEF HookTyped, TypeOK
<1>1. CopyOf(t) \in Copy
  BY DEF CopyOf, Copy, Library
<1>2. CASE Free(t)
  <2>1. Freed \in Freed .. MaxVersion
    BY DEF Freed
  <2> QED BY <1>2, <2>1 DEF Free
<1>3. CASE Open(t)
  <2>1. /\ image' = image \/ image' = [image EXCEPT ![CopyOf(t)] = None]
        /\ imageIdCurr' = imageIdCurr
    BY <1>3 DEF Open, NoImage
  <2>2. None \in Freed .. MaxVersion
    BY DEF None, Freed
  <2> QED BY <2>1, <2>2
<1>4. CASE Read(t)
  <2>1. PICK v : v = (IF header[t] = file THEN file ELSE file - 1 + (file % 2))
    OBVIOUS
  <2>2. v \in Freed .. MaxVersion
    BY <2>1, EvenBelow DEF Freed
  <2>3. image' = [image EXCEPT ![CopyOf(t)] = v] /\ imageIdCurr' = imageIdCurr
    BY <1>4, <2>1 DEF Read
  <2> QED BY <2>2, <2>3
<1>5. CASE SetId(t)
  <2>1. answer[t].id \in 0 .. IdMod - 1
    BY <1>5 DEF SetId, Asked
  <2> QED BY <1>5, <2>1 DEF SetId
<1>6. CASE ~Free(t) /\ ~Open(t) /\ ~Read(t) /\ ~SetId(t)
  <2>1. UNCHANGED cache
    BY <1>6, Step(t) DEF Step, Begin, Capture, Check, Test, Paint, PixmapCheck, CopyArea, Return
  <2> QED BY <2>1 DEF cache
<1> QED BY <1>2, <1>3, <1>4, <1>5, <1>6

\* Where a thread goes.
LEMMA StepGoes ==
  ASSUME NEW t \in Thread, Step(t)
  PROVE  \E l \in Label : Goto(t, l)
BY DEF Step, Begin, Capture, Check, Test, Free, Open, Read, SetId, Paint, PixmapCheck, CopyArea, Return,
       Ask, AskFails, NoImage, Label

LEMMA StepThread ==
  ASSUME HookTyped, NEW t \in Thread, Step(t)
  PROVE  /\ pc' \in [Thread -> Label] /\ call' \in [Thread -> Call]
         /\ header' \in [Thread -> 0 .. MaxVersion]
         /\ picture' \in [Thread -> NoPicture .. MaxVersion]
         /\ lockedSince' \in [Thread -> BOOLEAN] /\ failed' \in [Thread -> BOOLEAN]
         /\ loadFailed' \in [Thread -> BOOLEAN]
<1> USE DEF HookTyped, TypeOK
<1>1. pc' \in [Thread -> Label]
  BY StepGoes DEF Goto
<1>2. call' \in [Thread -> Call]
  BY DEF Step, Begin, Capture, Check, Test, Free, Open, NoImage, Read, SetId, Paint, PixmapCheck, CopyArea, Return,
         Call, ImageCalls
<1>3. header' \in [Thread -> 0 .. MaxVersion]
  BY HookAssumption DEF Step, Begin, Capture, Check, Test, Free, Open, NoImage, Read, SetId, Paint, PixmapCheck,
     CopyArea, Return, history
<1>4. picture' \in [Thread -> NoPicture .. MaxVersion]
  BY HookAssumption DEF Step, Begin, Capture, Check, Test, Free, Open, NoImage, Read, SetId, Paint, PixmapCheck,
     CopyArea, Return, Take, Real, NoPicture, history
<1>5. lockedSince' \in [Thread -> BOOLEAN]
  <2>1. \/ lockedSince' = lockedSince
        \/ lockedSince' = [lockedSince EXCEPT ![t] = used > 0]
        \/ lockedSince' = [lockedSince EXCEPT ![t] = FALSE]
    BY DEF Step, Begin, Capture, Check, Test, Free, Open, NoImage, Read, SetId, Paint, PixmapCheck, CopyArea, Return,
           Take, history
  <2>2. (used > 0) \in BOOLEAN /\ FALSE \in BOOLEAN /\ lockedSince \in [Thread -> BOOLEAN]
    OBVIOUS
  <2> QED BY Zenon, <2>1, <2>2
<1>6. failed' \in [Thread -> BOOLEAN]
  BY DEF Step, Begin, Capture, Check, Test, Free, Open, NoImage, Read, SetId, Paint, PixmapCheck, CopyArea, Return,
         Ask, AskFails, history
<1>7. loadFailed' \in [Thread -> BOOLEAN]
  <2>1. \/ loadFailed' = loadFailed
        \/ loadFailed' = [loadFailed EXCEPT ![t] = file # 0]
        \/ loadFailed' = [loadFailed EXCEPT ![t] = FALSE]
    BY DEF Step, Begin, Capture, Check, Test, Free, Open, NoImage, Read, SetId, Paint, PixmapCheck,
           CopyArea, Return, history
  <2>2. (file # 0) \in BOOLEAN /\ FALSE \in BOOLEAN /\ loadFailed \in [Thread -> BOOLEAN]
    OBVIOUS
  <2> QED BY Zenon, <2>1, <2>2
<1> QED BY <1>1, <1>2, <1>3, <1>4, <1>5, <1>6, <1>7

LEMMA HookTypedNext ==
  ASSUME HookTyped, [Next]_vars
  PROVE  HookTyped'
<1>1. CASE Admin
  BY <1>1, AdminTyped
<1>2. CASE ReplaceImage
  BY <1>2, HookAssumption
  DEF ReplaceImage, HookTyped, TypeOK, Counted, Registrations, registry, cache, thread, history
<1>3. CASE \E t \in Thread : Step(t)
  <2>1. PICK t \in Thread : Step(t)
    BY <1>3
  <2>2. Counted'
    BY <2>1, StepRegistry DEF HookTyped, Counted, Registrations
  <2> QED BY <2>1, <2>2, StepRegistry, StepAnswer, StepCache, StepThread DEF HookTyped, TypeOK
<1>4. CASE UNCHANGED vars
  BY <1>4 DEF vars, HookTyped, TypeOK, Counted, Registrations, registry, cache, thread, history
<1> QED BY <1>1, <1>2, <1>3, <1>4 DEF Next

LEMMA HookTypedInit == Init => HookTyped
<1> SUFFICES ASSUME Init PROVE HookTyped
  OBVIOUS
<1>1. Counted
  <2>1. held = [w \in Windows |-> 0] /\ used = 0
    BY DEF Init, Registry!Init
  <2>2. held \in [Windows -> Nat] /\ Registrations = {}
    BY <2>1, NothingCounted DEF Registrations
  <2> QED BY <2>1, <2>2, FS_EmptySet DEF Counted
<1>2. TypeOK
  BY HookAssumption
  DEF Init, Registry!Init, TypeOK, Label, Call, ImageCalls, None, Freed, NoPicture
<1>3. \A t \in Thread : pc[t] \notin Asked
  BY DEF Init, Asked
<1> QED BY <1>1, <1>2, <1>3 DEF HookTyped

LEMMA HookTypedHolds == Spec => []HookTyped
<1>1. HookTyped /\ [Next]_vars => HookTyped'
  BY HookTypedNext
<1> QED BY HookTypedInit, <1>1, PTL DEF Spec

\* TypeOK: every variable keeps its type: the count of the table is never
\* negative and never beyond its capacity, and a library only remembers an
\* image number it was told.
THEOREM TypesCorrect == Spec => []TypeOK
<1>1. HookTyped => TypeOK
  BY DEF HookTyped
<1> QED BY HookTypedHolds, <1>1, PTL

-----------------------------------------------------------------------------
(* ImageFresh.  Each client has one thread, and reset, which takes the     *)
(* image number back to zero, is not in use (the run GetImageHook_stale    *)
(* shows what becomes of it otherwise).  Then a number stands for what was *)
(* announced under it, for the caches as for the answers.                  *)

OneThreadEach == \A s, t \in Thread : ProcessOf[s] = ProcessOf[t] => s = t
NeverReset    == "reset" \notin AdminCommands

\* Copy c of the lock image is being loaded by t.
Loads(t, c) == pc[t] \in {"load", "read", "set_id"} /\ CopyOf(t) = c

\* A copy that bears the current number shows what has been announced, or
\* there is none, for the load under that number has failed.
CopyCurrent(t) ==
  \A l \in Library :
    LET c == <<ProcessOf[t], l>>
    IN  /\ imageIdCurr[c] <= imageId
        /\ imageIdCurr[c] = imageId => image[c] >= announced \/ image[c] = None \/ Loads(t, c)

\* The answer of the table bears the number of what was announced then.
AnswerCurrent(t) ==
  /\ due[t] <= announced
  /\ pc[t] \in Asked =>
       answer[t].id <= imageId /\ (answer[t].id = imageId => due[t] = announced)

\* From the answer to the picture: the image is due, or will be.
OnTheWay(t) ==
  LET c == CopyOf(t)
  IN  /\ pc[t] = "check" => picture[t] = Real
      /\ pc[t] = "test" /\ imageIdCurr[c] = answer[t].id => image[c] >= due[t] \/ image[c] = None
      /\ pc[t] = "read" => due[t] <= header[t] /\ header[t] <= file
      /\ pc[t] \in {"set_id", "paint"} =>
           image[c] >= due[t] \/ (image[c] = None /\ loadFailed[t])
      /\ pc[t] = "done" /\ picture[t] >= BackgroundOnly =>
           picture[t] >= due[t] \/ (picture[t] = BackgroundOnly /\ loadFailed[t])

Fresh(t) == CopyCurrent(t) /\ AnswerCurrent(t) /\ OnTheWay(t)

FreshInv ==
  /\ HookTyped /\ HookInv
  /\ announced % 2 = 0
  /\ \A t \in Thread : Fresh(t)

LEMMA FreshAdmin ==
  ASSUME NeverReset, FreshInv, Admin
  PROVE  announced' % 2 = 0 /\ \A t \in Thread : Fresh(t)'
<1> USE DEF FreshInv, HookTyped, TypeOK
<1>1. /\ UNCHANGED <<file, image, imageIdCurr, pc, call, picture, header, due, answer, loadFailed>>
      /\ ~ResetTable
  BY DEF Admin, cache, LockTable, UnlockTable, ResetTable, ChangedBg, Registry!Register,
         Registry!Deregister, Registry!Reset, Registry!ChangeImage, NeverReset
<1>2. CASE (LockTable \/ UnlockTable) /\ UNCHANGED announced
  <2>1. UNCHANGED <<announced, imageId>>
    BY <1>2 DEF LockTable, UnlockTable, Registry!Register, Registry!Deregister
  <2> SUFFICES ASSUME NEW t \in Thread PROVE Fresh(t)'
    BY <2>1
  <2>2. CopyCurrent(t)' /\ AnswerCurrent(t)'
    BY <1>1, <2>1 DEF Fresh, CopyCurrent, AnswerCurrent, Loads, CopyOf
  <2>3. OnTheWay(t)
    BY DEF Fresh
  <2>4. OnTheWay(t)'
    <3> HIDE DEF FreshInv, HookTyped, TypeOK
    <3> QED BY <1>1, <2>1, <2>3 DEF OnTheWay, CopyOf
  <2> QED BY <2>2, <2>4 DEF Fresh
<1>3. CASE ChangedBg /\ announced' = file - (file % 2)
  <2>1. imageId' = imageId + 1
    <3>1. imageId' = (imageId + 1) % IdMod /\ imageId + 1 \in 0 .. IdMod - 1
      BY <1>3, HookAssumption DEF ChangedBg, Registry!ChangeImage
    <3>2. IdMod \in Nat \ {0}
      BY HookAssumption
    <3>3. (imageId + 1) % IdMod = imageId + 1
      <4> HIDE DEF FreshInv, HookTyped, TypeOK
      <4> QED BY <3>1, <3>2
    <3> QED BY <3>1, <3>3
  <2>2. announced' % 2 = 0 /\ announced <= announced'
    BY SMTT(30), <1>3, EvenBelow
  <2> SUFFICES ASSUME NEW t \in Thread PROVE Fresh(t)'
    BY <2>2
  <2>3. CopyCurrent(t)'
    <3>1. \A l \in Library : /\ imageIdCurr[<<ProcessOf[t], l>>] \in 0 .. IdMod - 1
                             /\ imageIdCurr[<<ProcessOf[t], l>>] <= imageId
      BY HookAssumption DEF Fresh, CopyCurrent, Copy
    <3>2. \A l \in Library : /\ imageIdCurr[<<ProcessOf[t], l>>] <= imageId + 1
                             /\ imageIdCurr[<<ProcessOf[t], l>>] # imageId + 1
      BY <3>1
    <3> QED BY <1>1, <2>1, <3>2 DEF CopyCurrent
  <2>4. AnswerCurrent(t)'
    <3>1. pc[t] \in Asked => answer[t].id <= imageId /\ answer[t].id \in 0 .. IdMod - 1
      BY DEF Fresh, AnswerCurrent
    <3>2. due[t] <= announced /\ due[t] \in 0 .. MaxVersion
      BY DEF Fresh, AnswerCurrent
    <3> QED BY <1>1, <2>1, <2>2, <1>3, <3>1, <3>2, EvenBelow DEF AnswerCurrent
  <2>5. OnTheWay(t)'
    BY <1>1 DEF Fresh, OnTheWay, CopyOf
  <2> QED BY <2>3, <2>4, <2>5 DEF Fresh
<1>4. \/ (LockTable \/ UnlockTable) /\ UNCHANGED announced
      \/ ChangedBg /\ announced' = file - (file % 2)
  BY <1>1 DEF Admin
<1> QED BY Zenon, <1>2, <1>3, <1>4

LEMMA FreshReplace ==
  ASSUME FreshInv, ReplaceImage
  PROVE  announced' % 2 = 0 /\ \A t \in Thread : Fresh(t)'
<1> USE DEF FreshInv, HookTyped, TypeOK
<1>1. /\ file' = file + 1
      /\ UNCHANGED <<announced, imageId, answer, image, imageIdCurr, pc, call, picture, header, due,
                     loadFailed>>
  BY DEF ReplaceImage, registry, cache, thread, history
<1> SUFFICES ASSUME NEW t \in Thread PROVE Fresh(t)'
  BY <1>1
<1>2. CopyCurrent(t)' /\ AnswerCurrent(t)'
  BY <1>1 DEF Fresh, CopyCurrent, AnswerCurrent, Loads, CopyOf
<1>3. OnTheWay(t)'
  <2>1. OnTheWay(t) /\ file \in Nat /\ header \in [Thread -> Nat]
    BY HookAssumption DEF Fresh
  <2> HIDE DEF FreshInv, HookTyped, TypeOK
  <2> QED BY <1>1, <2>1 DEF OnTheWay, CopyOf
<1> QED BY <1>2, <1>3 DEF Fresh

\* A step of s changes what is its own: its registers, its answer and the
\* copies of its process.
LEMMA StepOwn ==
  ASSUME HookTyped, NEW s \in Thread, Step(s), NEW t \in Thread, t # s
  PROVE  /\ pc'[t] = pc[t] /\ call'[t] = call[t] /\ picture'[t] = picture[t] /\ header'[t] = header[t]
         /\ due'[t] = due[t] /\ answer'[t] = answer[t] /\ loadFailed'[t] = loadFailed[t]
<1> USE DEF HookTyped, TypeOK
<1>1. pc'[t] = pc[t] /\ call'[t] = call[t]
  BY DEF Step, Begin, Capture, Check, Test, Free, Open, NoImage, Read, SetId, Paint, PixmapCheck, CopyArea, Return,
         Ask, AskFails, Goto, history
<1>2. picture'[t] = picture[t] /\ header'[t] = header[t]
  BY DEF Step, Begin, Capture, Check, Test, Free, Open, NoImage, Read, SetId, Paint, PixmapCheck, CopyArea, Return,
         Take, history
<1>3. due'[t] = due[t] /\ answer'[t] = answer[t]
  BY DEF Step, Begin, Capture, Check, Test, Free, Open, NoImage, Read, SetId, Paint, PixmapCheck, CopyArea, Return,
         Ask, AskFails, Registry!Answer, Registry!Forget, registry, history
<1>4. loadFailed'[t] = loadFailed[t]
  BY DEF Step, Begin, Capture, Check, Test, Free, Open, NoImage, Read, SetId, Paint, PixmapCheck, CopyArea,
         Return, history
<1> QED BY <1>1, <1>2, <1>3, <1>4

LEMMA StepCopies ==
  ASSUME HookTyped, NEW s \in Thread, Step(s), NEW c \in Copy, c # CopyOf(s)
  PROVE  image'[c] = image[c] /\ imageIdCurr'[c] = imageIdCurr[c]
BY DEF HookTyped, TypeOK, Step, Begin, Capture, Check, Test, Free, Open, NoImage, Read, SetId, Paint, PixmapCheck,
       CopyArea, Return, cache

LEMMA FreshOther ==
  ASSUME OneThreadEach, FreshInv, NEW s \in Thread, Step(s), NEW t \in Thread, t # s
  PROVE  Fresh(t)'
<1> USE DEF FreshInv
<1>1. UNCHANGED <<imageId, file, announced>>
  BY StepRegistry
<1>2. /\ pc'[t] = pc[t] /\ call'[t] = call[t] /\ picture'[t] = picture[t] /\ header'[t] = header[t]
      /\ due'[t] = due[t] /\ answer'[t] = answer[t] /\ loadFailed'[t] = loadFailed[t]
  BY StepOwn
<1>3. \A l \in Library : /\ image'[<<ProcessOf[t], l>>] = image[<<ProcessOf[t], l>>]
                         /\ imageIdCurr'[<<ProcessOf[t], l>>] = imageIdCurr[<<ProcessOf[t], l>>]
  BY StepCopies, HookAssumption DEF OneThreadEach, Copy, CopyOf
<1>4. CopyOf(t)' = CopyOf(t) /\ \E l \in Library : CopyOf(t) = <<ProcessOf[t], l>>
  BY <1>2 DEF CopyOf, Library
<1>5. CopyCurrent(t)'
  BY <1>1, <1>2, <1>3, <1>4 DEF Fresh, CopyCurrent, Loads
<1>6. AnswerCurrent(t)'
  BY <1>1, <1>2 DEF Fresh, AnswerCurrent
<1>7. OnTheWay(t)'
  BY <1>1, <1>2, <1>3, <1>4 DEF Fresh, OnTheWay
<1> QED BY <1>5, <1>6, <1>7 DEF Fresh

\* The copy of the library a call uses is the only one a step of it touches.
LEMMA OtherCopy ==
  ASSUME FreshInv, NEW t \in Thread, Step(t), NEW l \in Library, <<ProcessOf[t], l>> # CopyOf(t),
         ~Loads(t, <<ProcessOf[t], l>>)
  PROVE  LET c == <<ProcessOf[t], l>>
         IN  imageIdCurr'[c] <= imageId' /\ (imageIdCurr'[c] = imageId' => image'[c] >= announced' \/ image'[c] = None)
<1> DEFINE c == <<ProcessOf[t], l>>
<1>1. c \in Copy
  BY HookAssumption DEF Copy
<1>2. image'[c] = image[c] /\ imageIdCurr'[c] = imageIdCurr[c]
  BY <1>1, StepCopies DEF FreshInv
<1>3. imageIdCurr[c] <= imageId /\ (imageIdCurr[c] = imageId => image[c] >= announced \/ image[c] = None)
  BY DEF FreshInv, Fresh, CopyCurrent
<1> QED BY <1>2, <1>3, StepRegistry

\* The steps before and after the lock image is handled.
LEMMA FreshOutside ==
  ASSUME FreshInv, NEW t \in Thread,
         \/ \E x \in Call : Begin(t, x)
         \/ Capture(t) \/ Check(t) \/ PixmapCheck(t) \/ CopyArea(t) \/ Return(t)
  PROVE  Fresh(t)'
<1> USE DEF FreshInv, HookInv, HookTypes, HookTyped, TypeOK, Goto
<1>0. Step(t)
  BY DEF Step
<1>1. UNCHANGED <<imageId, file, announced, image, imageIdCurr>>
  BY <1>0, StepRegistry DEF Begin, Capture, Check, PixmapCheck, CopyArea, Return, cache
<1>2. \A c : ~Loads(t, c) /\ ~Loads(t, c)'
  BY DEF Loads, Begin, Capture, Check, PixmapCheck, CopyArea, Return, Ask, AskFails
<1>3. CopyCurrent(t)'
  BY <1>1, <1>2 DEF Fresh, CopyCurrent
<1>4. CASE Check(t)
  <2>1. CASE Ask(t, "test", "done")
    <3>1. /\ answer'[t] = [count |-> used, id |-> imageId] /\ due'[t] = announced
          /\ pc'[t] \in {"test", "done"} /\ picture'[t] = picture[t] /\ call'[t] = call[t]
          /\ picture[t] = Real
      BY <1>4, <2>1 DEF Check, Ask, Registry!Answer, Fresh, OnTheWay
    <3>2. \E l \in Library : CopyOf(t)' = <<ProcessOf[t], l>>
      BY DEF CopyOf, Library
    <3>3. imageIdCurr[CopyOf(t)'] = imageId =>
            image[CopyOf(t)'] >= announced \/ image[CopyOf(t)'] = None
      BY <1>2, <3>2 DEF Fresh, CopyCurrent
    <3>4. AnswerCurrent(t)'
      BY <1>1, <3>1 DEF AnswerCurrent
    <3>5. OnTheWay(t)'
      BY <1>1, <3>1, <3>3 DEF OnTheWay, Real, BackgroundOnly
    <3> QED BY <1>3, <3>4, <3>5 DEF Fresh
  <2>2. CASE AskFails(t, "done")
    <3>1. /\ due'[t] = due[t] /\ pc'[t] = "done" /\ picture'[t] = Real
      BY <1>4, <2>2 DEF Check, AskFails, Fresh, OnTheWay
    <3>2. AnswerCurrent(t)' /\ OnTheWay(t)'
      BY <1>1, <3>1 DEF Fresh, AnswerCurrent, OnTheWay, Real, BackgroundOnly, Asked
    <3> QED BY <1>3, <3>2 DEF Fresh
  <2> QED BY <1>4, <2>1, <2>2 DEF Check
<1>5. CASE PixmapCheck(t)
  <2>1. /\ pc'[t] \in {"done", "create"} /\ picture'[t] = NoPicture
        /\ due'[t] = announced \/ due'[t] = due[t]
    BY <1>5 DEF PixmapCheck, Ask, AskFails, CallPath
  <2>2. AnswerCurrent(t)' /\ OnTheWay(t)'
    BY SMTT(30), <1>1, <2>1 DEF Fresh, AnswerCurrent, OnTheWay, NoPicture, BackgroundOnly, Asked
  <2> QED BY <1>3, <2>2 DEF Fresh
<1>6. CASE Return(t)
  <2>1. pc'[t] = "idle" /\ due'[t] = 0
    BY <1>6 DEF Return
  <2>2. AnswerCurrent(t)' /\ OnTheWay(t)'
    BY <1>1, <2>1 DEF AnswerCurrent, OnTheWay, Asked
  <2> QED BY <1>3, <2>2 DEF Fresh
<1>7. CASE (\E x \in Call : Begin(t, x)) \/ Capture(t) \/ CopyArea(t)
  <2>1. /\ due'[t] = due[t]
        /\ \/ pc'[t] \in {"pixmap_check", "capture"}
           \/ pc'[t] = "check" /\ picture'[t] = Real
           \/ pc'[t] = "done" /\ picture'[t] \in {Real, NoPicture}
    BY <1>7 DEF Begin, Capture, CopyArea, Take, CallPath
  <2>2. AnswerCurrent(t)' /\ OnTheWay(t)'
    BY <1>1, <2>1 DEF Fresh, AnswerCurrent, OnTheWay, NoPicture, Real, BackgroundOnly, Asked
  <2> QED BY <1>3, <2>2 DEF Fresh
<1> QED BY <1>4, <1>5, <1>6, <1>7

\* The steps that handle the lock image.  The copy in use is loaded, or its
\* number and its contents go together.
LEMMA FreshInside ==
  ASSUME FreshInv, NEW t \in Thread,
         Test(t) \/ Free(t) \/ Open(t) \/ Read(t) \/ SetId(t) \/ Paint(t)
  PROVE  Fresh(t)'
<1> USE DEF FreshInv, HookTyped, TypeOK, Goto
<1> DEFINE c == CopyOf(t)
<1>0. Step(t) /\ pc[t] \in Asked
  BY DEF Step, Asked, Test, Free, Open, Read, SetId, Paint
<1>1. /\ UNCHANGED <<imageId, file, announced, answer, due, call>>
      /\ CopyOf(t)' = c /\ c \in Copy /\ \E l \in Library : c = <<ProcessOf[t], l>>
  BY <1>0, StepRegistry, HookAssumption
  DEF Test, Free, Open, Read, SetId, Paint, registry, history, NoImage, CopyOf, Copy, Library
<1>2. AnswerCurrent(t)'
  BY <1>0, <1>1 DEF Fresh, AnswerCurrent
<1>3. /\ due[t] <= announced /\ announced <= file /\ due[t] \in Nat
      /\ answer[t].id \in Nat /\ answer[t].id <= imageId
      /\ answer[t].id = imageId => due[t] = announced
  BY <1>0 DEF Fresh, AnswerCurrent
<1>4. /\ imageIdCurr[c] <= imageId
      /\ imageIdCurr[c] = imageId => image[c] >= announced \/ image[c] = None \/ Loads(t, c)
  BY <1>1 DEF Fresh, CopyCurrent
<1> DEFINE InUse == /\ imageIdCurr'[c] <= imageId
                    /\ imageIdCurr'[c] = imageId => image'[c] >= announced \/ image'[c] = None \/ Loads(t, c)'
<1>5. ASSUME Test(t) PROVE InUse /\ OnTheWay(t)'
  <2>1. /\ image' = image /\ imageIdCurr' = imageIdCurr
        /\ pc[t] = "test" /\ ~Loads(t, c)
        /\ \/ pc'[t] \in {"load", "free"}
           \/ pc'[t] = "paint" /\ imageIdCurr[c] = answer[t].id /\ image[c] # None
    BY <1>5 DEF Test, cache, Loads
  <2>2. InUse
    BY <1>4, <2>1
  <2>3. OnTheWay(t)'
    BY <1>1, <2>1 DEF Fresh, OnTheWay
  <2> QED BY <2>2, <2>3
<1>6. ASSUME Free(t) PROVE InUse /\ OnTheWay(t)'
  <2>1. pc'[t] = "load" /\ imageIdCurr' = imageIdCurr
    BY <1>6 DEF Free
  <2>2. InUse
    BY <1>1, <1>4, <2>1 DEF Loads
  <2>3. OnTheWay(t)'
    BY <2>1 DEF OnTheWay
  <2> QED BY <2>2, <2>3
<1>7. ASSUME Open(t) PROVE InUse /\ OnTheWay(t)'
  <2>0. imageIdCurr' = imageIdCurr
    BY <1>7 DEF Open
  <2>1. \/ /\ pc'[t] = "set_id" /\ image'[c] = None
           /\ file = 0 \/ loadFailed'[t]
        \/ pc'[t] = "read" /\ header'[t] = file
    <3>1. loadFailed \in [Thread -> BOOLEAN]
      OBVIOUS
    <3>2. CASE NoImage(t)
      <4>1. pc' = [pc EXCEPT ![t] = "set_id"] /\ image' = [image EXCEPT ![c] = None]
        BY <3>2 DEF NoImage
      <4>2. loadFailed'[t] = (file # 0)
        BY <3>1, <3>2, Zenon DEF NoImage
      <4> QED BY <1>1, <4>1, <4>2
    <3>3. CASE ~NoImage(t)
      BY <1>1, <1>7, <3>3 DEF Open
    <3> QED BY <3>2, <3>3
  <2>2. InUse
    BY <1>1, <1>4, <2>0, <2>1 DEF Loads
  <2>3. OnTheWay(t)'
    BY <1>1, <1>3, <2>1 DEF OnTheWay, None
  <2> QED BY <2>2, <2>3
<1>8. ASSUME Read(t) PROVE InUse /\ OnTheWay(t)'
  <2>1. /\ imageIdCurr' = imageIdCurr /\ pc'[t] = "set_id"
        /\ image'[c] = IF header[t] = file THEN file ELSE file - 1 + (file % 2)
        /\ due[t] <= header[t] /\ header[t] <= file
    BY <1>1, <1>8 DEF Read, Fresh, OnTheWay
  <2>2. image'[c] >= due[t]
    BY <1>3, <2>1, EvenBelow
  <2>3. InUse
    BY <1>1, <1>4, <2>1 DEF Loads
  <2>4. OnTheWay(t)'
    BY <1>1, <2>1, <2>2 DEF OnTheWay
  <2> QED BY <2>3, <2>4
<1>9. ASSUME SetId(t) PROVE InUse /\ OnTheWay(t)'
  <2>1. /\ imageIdCurr'[c] = answer[t].id /\ image' = image /\ pc'[t] = "paint"
        /\ loadFailed' = loadFailed
        /\ image[c] >= due[t] \/ (image[c] = None /\ loadFailed[t])
    BY <1>1, <1>9 DEF SetId, Fresh, OnTheWay, history
  <2>2. InUse
    BY <1>3, <2>1
  <2>3. OnTheWay(t)'
    BY <1>1, <2>1 DEF OnTheWay
  <2> QED BY <2>2, <2>3
<1>10. ASSUME Paint(t) PROVE InUse /\ OnTheWay(t)'
  <2>1. /\ image' = image /\ imageIdCurr' = imageIdCurr /\ pc'[t] = "done" /\ ~Loads(t, c)
        /\ loadFailed' = loadFailed
        /\ image[c] >= due[t] \/ (image[c] = None /\ loadFailed[t])
        /\ image[c] # Freed => picture'[t] = image[c]
    BY <1>1, <1>10 DEF Paint, cache, Loads, Fresh, OnTheWay, history
  <2>2. picture'[t] = image[c]
    BY <1>3, <2>1, <1>1 DEF Freed, None
  <2>3. InUse
    BY <1>4, <2>1
  <2>4. OnTheWay(t)'
    BY <1>1, <2>1, <2>2 DEF OnTheWay, None, BackgroundOnly
  <2> QED BY <2>3, <2>4
<1>11. InUse /\ OnTheWay(t)'
  BY <1>5, <1>6, <1>7, <1>8, <1>9, <1>10
<1>12. CopyCurrent(t)'
  <2> HIDE DEF FreshInv, HookTyped, TypeOK, Goto
  <2> SUFFICES ASSUME NEW l \in Library
               PROVE  LET d == <<ProcessOf[t], l>>
                      IN  /\ imageIdCurr'[d] <= imageId'
                          /\ imageIdCurr'[d] = imageId' => image'[d] >= announced' \/ image'[d] = None \/ Loads(t, d)'
    BY DEF CopyCurrent
  <2>1. CASE <<ProcessOf[t], l>> = c
    BY <1>1, <1>11, <2>1
  <2>2. CASE <<ProcessOf[t], l>> # c
    <3>1. ~Loads(t, <<ProcessOf[t], l>>)
      BY <2>2 DEF Loads
    <3> QED BY <1>0, <2>2, <3>1, OtherCopy
  <2> QED BY <2>1, <2>2
<1> QED BY <1>2, <1>11, <1>12 DEF Fresh

LEMMA FreshInit == Init => FreshInv
<1> SUFFICES ASSUME Init PROVE FreshInv
  OBVIOUS
<1>1. announced % 2 = 0
  BY DEF Init
<1>2. ASSUME NEW t \in Thread PROVE Fresh(t)
  <2>1. /\ pc[t] = "idle" /\ due[t] = 0 /\ announced = 0 /\ imageId = 0
        /\ \A l \in Library : image[<<ProcessOf[t], l>>] = 0 /\ imageIdCurr[<<ProcessOf[t], l>>] = 0
    BY HookAssumption DEF Init, Registry!Init, Copy, None
  <2> QED BY <2>1 DEF Fresh, CopyCurrent, AnswerCurrent, OnTheWay, Asked
<1> QED BY <1>1, <1>2, HookInit, HookTypedInit DEF FreshInv

LEMMA FreshNext ==
  ASSUME OneThreadEach, NeverReset, FreshInv, [Next]_vars
  PROVE  FreshInv'
<1>1. HookTyped' /\ HookInv'
  BY HookTypedNext, HookNext DEF FreshInv
<1>2. announced' % 2 = 0 /\ \A t \in Thread : Fresh(t)'
  <2>1. CASE Admin
    BY <2>1, FreshAdmin
  <2>2. CASE ReplaceImage
    BY <2>2, FreshReplace
  <2>3. CASE \E s \in Thread : Step(s)
    <3>1. PICK s \in Thread : Step(s)
      BY <2>3
    <3>2. Fresh(s)'
      BY <3>1, FreshOutside, FreshInside DEF Step
    <3>3. \A t \in Thread : t # s => Fresh(t)'
      BY <3>1, FreshOther
    <3> QED BY <3>1, <3>2, <3>3, StepRegistry DEF FreshInv
  <2>4. CASE UNCHANGED vars
    BY <2>4 DEF vars, FreshInv, Fresh, CopyCurrent, AnswerCurrent, OnTheWay, Loads, CopyOf,
                registry, cache, thread, history
  <2> QED BY <2>1, <2>2, <2>3, <2>4 DEF Next
<1> QED BY <1>1, <1>2 DEF FreshInv

\* ImageFresh: whoever is shown a lock image is shown the one announced when
\* the table was asked, or a newer one, for any number of clients of one
\* thread each, however the file is rewritten meanwhile, whatever table
\* queries fail and whatever loads fail, as long as nobody resets the table.
\* A call whose own load of an existing file fails shows the background; a
\* later call does not, though the number is remembered as loaded.
THEOREM ShownImageIsFresh ==
  ASSUME OneThreadEach, NeverReset
  PROVE  Spec => []ImageFresh
<1>1. FreshInv /\ [Next]_vars => FreshInv'
  BY FreshNext
<1>2. FreshInv => ImageFresh
  BY DEF FreshInv, Fresh, OnTheWay, ImageFresh
<1> QED BY FreshInit, <1>1, <1>2, PTL DEF Spec
=============================================================================
