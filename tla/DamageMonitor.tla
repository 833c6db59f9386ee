---------------------------- MODULE DamageMonitor ----------------------------
(***************************************************************************)
(* screen_capture: waits for damage events of the X server and saves a     *)
(* picture of every rectangle that has changed.                            *)
(*                                                                         *)
(* The server collects what changes in the damage region and announces     *)
(* each new part with an event (XDamageReportDeltaRectangles).  In a round *)
(* the client has the server move the damage into a region of its own,     *)
(* fetches the rectangles, takes a picture of each, and empties the damage *)
(* once more.  Requests without a reply stay in the client's buffer until  *)
(* a request with a reply, or an XNextEvent that has no event at hand,     *)
(* flushes it; then the server serves them when it likes.                  *)
(*                                                                         *)
(* The screen is a set of disjoint rectangles, each damaged as a whole.    *)
(* The program frees the array of rectangles after each picture; what a    *)
(* read of the freed array, or a second XFree, does is undefined, so here  *)
(* the program crashes or goes on with any part of the screen.             *)
(***************************************************************************)
EXTENDS Naturals, Sequences, FiniteSets, SequencesExt

CONSTANTS
  Rects,           \* the rectangles of the screen
  MaxChanges       \* bound: how often the screen changes

ASSUME ScreenAssumption == IsFiniteSet(Rects) /\ MaxChanges \in Nat

VARIABLES
  changes,         \* how often the screen has changed
  dirty,           \* rectangles no picture has been taken of since they changed
  damage,          \* the damage region
  events,          \* damage events the client has not taken yet
  buffer,          \* requests in the buffer of the client
  queue,           \* requests the server has not served yet
  region,          \* the region made by XFixesCreateRegion
  pc,              \* where the client is
  area,            \* the array of rectangles from XFixesFetchRegion
  areaState,       \* that array: "none", "live" or "freed"
  i,               \* the loop index
  missed,          \* history: rectangles whose picture, or the fetch of whose region, failed
  misread,         \* history: rectangles lost to a read of the freed array
  collecting,      \* history: damage reported now is emptied unseen
  late             \* history: rectangles that changed while collecting

screen  == <<changes, dirty>>
server  == <<damage, events, queue, region>>
array   == <<area, areaState, i>>
history == <<missed, misread, collecting, late>>
vars    == <<screen, server, buffer, pc, array, history>>

\* The server reports the visible part of the window when the damage object
\* is created.
Init ==
  /\ changes = 0
  /\ damage \in SUBSET Rects
  /\ dirty = damage
  /\ events = Cardinality(damage)
  /\ buffer = <<>> /\ queue = <<>>
  /\ region = {}
  /\ pc = "wait"
  /\ area = <<>> /\ areaState = "none" /\ i = 1
  /\ missed = {} /\ misread = {} /\ collecting = FALSE /\ late = {}

-----------------------------------------------------------------------------
(* The X server and the screen. *)

Change(r) ==
  /\ changes < MaxChanges
  /\ changes' = changes + 1
  /\ dirty' = dirty \cup {r}
  /\ damage' = damage \cup {r}
  /\ events' = IF r \in damage THEN events ELSE events + 1
  /\ late' = IF collecting THEN late \cup {r} ELSE late \ {r}
  /\ missed' = missed \ {r} /\ misread' = misread \ {r}
  /\ UNCHANGED <<queue, region, buffer, pc, array, collecting>>

\* Mutant of ServeSubtract: the parts go nowhere.
ServeSubtractNone ==
  /\ queue # <<>> /\ Head(queue) = "subtract"
  /\ queue' = Tail(queue)
  /\ damage' = {}
  /\ collecting' = TRUE
  /\ UNCHANGED <<screen, events, region, buffer, pc, array, missed, misread, late>>

\* XDamageSubtract(damage, None, region).
ServeSubtract ==
  /\ queue # <<>> /\ Head(queue) = "subtract"
  /\ queue' = Tail(queue)
  /\ region' = damage
  /\ damage' = {}
  /\ collecting' = TRUE
  /\ UNCHANGED <<screen, events, buffer, pc, array, missed, misread, late>>

\* XDamageSubtract(damage, None, None).
ServeEmpty ==
  /\ queue # <<>> /\ Head(queue) = "empty"
  /\ queue' = Tail(queue)
  /\ damage' = {}
  /\ collecting' = FALSE
  /\ UNCHANGED <<screen, events, region, buffer, pc, array, missed, misread, late>>

Serve == ServeSubtract \/ ServeEmpty

-----------------------------------------------------------------------------
(* The client. *)

\* Mutant of NextEvent: the event is taken for another one.
NextEventIgnored ==
  /\ pc = "wait" /\ events > 0
  /\ events' = events - 1
  /\ UNCHANGED <<screen, damage, queue, region, buffer, pc, array, history>>

\* XNextEvent takes an event; the requests of the round go into the buffer.
NextEvent ==
  /\ pc = "wait" /\ events > 0
  /\ events' = events - 1
  /\ buffer' = Append(buffer, "subtract")
  /\ pc' = "fetch"
  /\ UNCHANGED <<screen, damage, queue, region, array, history>>

\* XNextEvent has no event at hand: it flushes the buffer and waits.
NextEventWaits ==
  /\ pc = "wait" /\ events = 0 /\ buffer # <<>>
  /\ queue' = queue \o buffer
  /\ buffer' = <<>>
  /\ UNCHANGED <<screen, damage, events, region, pc, array, history>>

\* Mutant of Fetch: the requests stay in the buffer.
FetchUnflushed ==
  /\ pc = "fetch"
  /\ pc' = "fetching"
  /\ UNCHANGED <<screen, server, buffer, array, history>>

\* XFixesFetchRegion flushes the buffer, too, and waits for its reply.
Fetch ==
  /\ pc = "fetch"
  /\ queue' = queue \o buffer
  /\ buffer' = <<>>
  /\ pc' = "fetching"
  /\ UNCHANGED <<screen, damage, events, region, array, history>>

\* The array holds the rectangles of the region in some order.
Fetched ==
  /\ pc = "fetching" /\ queue = <<>>
  /\ area' \in SetToSeqs(region)
  /\ areaState' = "live"
  /\ i' = 1
  /\ pc' = "rects"
  /\ UNCHANGED <<screen, server, buffer, history>>

\* NULL: the region is neither fetched nor destroyed.
FetchFails ==
  /\ pc = "fetching" /\ queue = <<>>
  /\ missed' = missed \cup region
  /\ buffer' = Append(buffer, "empty")
  /\ pc' = "wait"
  /\ UNCHANGED <<screen, server, array, misread, collecting, late>>

\* Mutant of InLoop: the last rectangle is left out.
InLoopShort == pc = "rects" /\ i < Len(area)

InLoop == pc = "rects" /\ i <= Len(area)

\* What area[i] names, of a live or freed array.
Named == IF areaState = "live" THEN {{area[i]}} ELSE SUBSET Rects

\* XFree(area), and the next turn of the loop.
FreeArea ==
  /\ areaState' = "freed"
  /\ i' = i + 1
  /\ UNCHANGED area

\* XGetImage and the PNG file.
Picture ==
  /\ InLoop
  /\ \E taken \in Named :
       /\ dirty' = dirty \ taken
       /\ missed' = missed \ taken
       /\ misread' = (misread \cup {area[i]}) \ taken
  /\ FreeArea
  /\ UNCHANGED <<changes, server, buffer, pc, collecting, late>>

\* XGetImage returns NULL, for the rectangle or for what was read instead.
PictureFails ==
  /\ InLoop
  /\ \E named \in Named :
       IF area[i] \in named
       THEN missed' = missed \cup {area[i]} /\ UNCHANGED misread
       ELSE misread' = misread \cup {area[i]} /\ UNCHANGED missed
  /\ FreeArea
  /\ UNCHANGED <<screen, server, buffer, pc, collecting, late>>

\* An X error of XGetImage ends the program; so may the freed array.
Ends(how) ==
  /\ InLoop
  /\ how = "crashed" => areaState = "freed"
  /\ pc' = how
  /\ UNCHANGED <<screen, server, buffer, array, history>>

\* XFixesDestroyRegion, and the damage is emptied.
RoundEnds ==
  /\ pc = "rects" /\ ~InLoop
  /\ buffer' = Append(buffer, "empty")
  /\ pc' = "wait"
  /\ UNCHANGED <<screen, server, array, history>>

Client ==
  \/ NextEvent \/ NextEventWaits \/ Fetch \/ Fetched \/ FetchFails
  \/ Picture \/ PictureFails \/ Ends("exited") \/ Ends("crashed") \/ RoundEnds

Next ==
  \/ \E r \in Rects : Change(r)
  \/ Serve
  \/ Client

Spec == Init /\ [][Next]_vars

\* The server serves what it has been sent, and the client runs.
FairSpec == Spec /\ WF_vars(Serve) /\ WF_vars(Client)

-----------------------------------------------------------------------------
(* Properties. *)

Running == pc \notin {"exited", "crashed"}
Request == {"subtract", "empty"}

\* Every variable has its type; at most two requests wait.
TypeOK ==
  /\ changes \in 0 .. MaxChanges
  /\ dirty \subseteq Rects /\ damage \subseteq Rects /\ region \subseteq Rects
  /\ events \in 0 .. MaxChanges + Cardinality(Rects)
  /\ buffer \in Seq(Request) /\ queue \in Seq(Request) /\ Len(queue) + Len(buffer) <= 2
  /\ pc \in {"wait", "fetch", "fetching", "rects", "exited", "crashed"}
  /\ area \in Seq(Rects) /\ areaState \in {"none", "live", "freed"}
  /\ i \in 1 .. Cardinality(Rects) + 1
  /\ missed \subseteq Rects /\ misread \subseteq Rects /\ late \subseteq Rects
  /\ collecting \in BOOLEAN

Sent == queue \o buffer
Pending(request) == \E k \in 1 .. Len(Sent) : Sent[k] = request

\* The rectangles of this round the loop has still to come to.
Remaining ==
  CASE pc \in {"fetch", "fetching"} -> IF Pending("subtract") THEN {} ELSE region
    [] pc = "rects"                 -> {area[k] : k \in i .. Len(area)}
    [] OTHER                        -> {}

\* A rectangle without a picture of what it shows that this round and the
\* server's damage leave out is one of four, until it changes again: XGetImage
\* returned NULL for it; XFixesFetchRegion did for its region; the loop came to
\* it when the array was freed and took something else; it changed between the
\* two XDamageSubtract of a round, and the second emptied the damage unseen.
Excepted == missed \cup misread \cup late

\* No damage is forgotten: a rectangle that has changed is in the damage of the
\* server, or in what the round has still to come to, or excepted.
NothingForgotten == Running => dirty \subseteq damage \cup Remaining \cup Excepted

\* Damage never lies in the server unannounced: there is an event to come for
\* it, or a request on its way that takes it.
DamageAnnounced ==
  Running /\ damage # {} => events > 0 \/ Pending("subtract") \/ Pending("empty")

\* When the screen comes to rest, the monitor catches up with it: every
\* rectangle that is not excepted has its picture.
CatchesUp == <>[](Running => dirty \subseteq Excepted)
=============================================================================
