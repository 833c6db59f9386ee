# prohibit_screenshot in TLA+

`prohibit_screenshot` keeps windows of an X11 desktop out of screenshots. An
administrator registers windows with `lock_window`; patched versions of libX11 and
libXext ask a table in shared memory after they have taken a picture of the screen, and
paint a lock image over the picture when a window is registered. This directory models
that program in TLA+, checks the models with TLC on small instances and proves the most
important facts with TLAPS for every instance. Paths below are relative to the
repository.

## 1. The system

| Part | Source | State it keeps | Operations |
|---|---|---|---|
| lock table | `lock_window.cpp`, `prohibit_screenshot.h`, `lock_server.cpp` | `LOCK_IMAGES` in the shared memory object `/lock_image`: `magic`, `lock_image_id`, `count`, `data[1000]`; the fcntl lock on `/tmp/lock_image` | `lock`, `unlock`, `reset`, `changed_bg`, `list`, the query `isProhibitScreenshot`, the poll of `lock_server` |
| screenshot hooks | `libx11-1.6.12.1/src/GetImage.c`, `libxext-1.3.3.1/src/XShm.c` | `static lock_image` and `lock_image_id_curr`, one copy in each library of each process | `XGetImage`, `XGetSubImage`, `XShmGetImage`, `XShmCreatePixmap` |
| painting the lock image | the same two files | the `XImage` of the caller | filling with the background, centred copy of the lock image |
| lock image file | `png2image.c`, `loadImage` of `prohibit_screenshot.h` | `/etc/lock.image` | writing it in place, loading it |
| capture programs | `screenshot.cpp`, `capture.cpp` | shared segment, images, pixmap | `-s`, `-shm`, `-shm-pixmap` |
| damage monitor | `screen_capture.cpp` | damage region on the X server, array of rectangles | event loop that captures what has changed |
| window picking | `lock_window.cpp`, `screenshot.cpp`, `screen_capture.cpp` | none | list of top-level windows, prompt for an index |
| PNG conversion | `save_png.cpp`, `image2png.c` | none | calls of libpng |
| build script | `bld.sh` | none | compiles everything |
| libX11 request core | `libx11-1.6.12.1/src/xcb_io.c`, `NextEvent.c`, `Sync.c`, `GetWAttrs.c`, `locking.c` | pending requests, the event in hand, the event queue, who waits in libxcb | `_XReply`, `_XReadEvents`, `_XEventsQueued`, asynchronous handlers |
| rest of libX11 and libXext | the vendored trees | — | unchanged |

How they interact:

- The administrator's commands and the clients' queries meet in the table. Every command
  opens and maps the object, takes the file lock, reads and writes single fields and
  releases the lock. Nothing else synchronises them: creating the object happens outside
  the lock, and the lock belongs to a process, not to a thread.
- A hook first lets the X server deliver the pixels and asks the table afterwards. With a
  positive answer it compares the image number of the answer with the number under which
  it loaded its lock image, reloads `/etc/lock.image` when they differ, and overwrites the
  picture. `XShmCreatePixmap` asks first and refuses.
- `lock_window list` asks the X server for titles while it holds the file lock; an X client
  whose hook asks the table may have that server grabbed.
- `XGetImage`, `XGetWindowAttributes` and `XSync` all end in `_XReply`, where the threads of
  a client share one connection: a thread reads whatever arrives and hands it on.
- The monitor and the X server share the damage: the server collects it, the monitor takes
  it over in rounds, with requests that wait in a buffer and in a queue.
- `png2image` (or `cp`) rewrites `/etc/lock.image` in place, unsynchronised with
  `loadImage`; `lock_window changed_bg` is what makes the clients load it again.

What is hard about it:

- *Interleaving and failure in the table.* Two administrators and any number of clients
  run at once; a process may be killed between any two stores; every system call may
  fail, and most results are not looked at.
- *Order in the hooks.* Windows are locked and unlocked between taking the pixels, asking,
  loading and painting; the loaded image is a cache that is invalidated by number only.
- *A server that lags behind.* The capture programs share a segment with the X server;
  most requests are only queued, and an X error ends the program where it next waits.
- *Damage while damage is handled.* The screen changes at any point of a round, and events
  announce only new damage.
- *Threads in one connection.* While one thread waits in libxcb without the display lock,
  another sends, or waits for something earlier or later.
- *Arithmetic in the painting.* `put_pixel` and the index into the lock image check no
  bounds; four clipping cases along each axis.

What makes each part correct is stated by the properties of section 3; the places where
each could go wrong are the `hazards` of `PROJECT.json`, each at its line.

## 2. The modules

| Module | Role |
|---|---|
| `LockRegistry` | What the table promises: a bounded bag of windows and an image number, changed by indivisible commands, and queries answered with the state of one instant |
| `LockImages` | The table as the code has it: one step for each system call or field access |
| `MCLockImages` | Instances of it: who runs which commands in which process |
| `LockImagesProofs` | Theorems about `LockImages`, and that it implements `LockRegistry` |
| `GetImageHook` | The hooks, the lock image file and the administrator, on top of `LockRegistry` |
| `MCGetImageHook` | Instances of it |
| `GetImageHookProofs` | Theorems about `GetImageHook` |
| `LockImagePaint` | Filling and copying, pixel by pixel |
| `LockImagePaintProofs` | Theorems about `LockImagePaint` |
| `CaptureClient` | One run of `screenshot` with its three capture functions, and the X server that serves its requests |
| `CaptureClientProofs` | Theorems about `CaptureClient` |
| `DamageMonitor` | The event loop of `screen_capture` and the X server that collects damage |
| `DamageMonitorProofs` | Theorems about `DamageMonitor` |
| `XlibReply` | How the threads of a client share replies, errors and events in libX11 |
| `MCXlibReply` | Instances of it |
| `XlibReplyProofs` | Theorems about `XlibReply`: the pending requests and the threads that wait |
| `XlibOrderProofs` | continued: the stream of messages and their numbers |
| `XlibAnswersProofs` | continued: what the calls with a reply return |

`GetImageHook` composes with the table through the abstract specification: it calls
`Registry!Register`, `Registry!Answer` and so on, and `LockImages` implements these steps
(`RegistrySpec`, checked in the run `crash` and proved). That is valid for clients with one thread
per process, as the refinement is; the one run of `GetImageHook` with a two-threaded
client (`image_race`) refutes a property that does not depend on what queries answer.

### LockImages

`shmSize` is the size of the shared memory object (it exists with size zero between
`shm_open(O_CREAT)` and `ftruncate`), `magic`, `lockImageId`, `count` and `data` are the
fields, `fcntlOwner` is the process that holds the file lock. `pc[t]`, `op[t]`, `wid[t]`,
`lockFd[t]`, `reg[t]`, `ret[t]`, `idOut[t]` are the program counter and the locals of the
command thread `t` runs; `idOut` is where a query puts the image number.

| Code | Actions |
|---|---|
| `main`: a command and a window are chosen | `Start` |
| `shm_open`, `shm_open(O_CREAT)`, `ftruncate`, `mmap` | `ShmOpen`, `ShmCreate`, `Truncate`, `Mmap` |
| `lock_shm`, its failure, `unlock_shm` and clean-up | `LockShm`, `LockShmFails`, `Unlock` |
| first access to the mapping | `SetMagic`, `TestMagic`, `BusError` |
| `lock` | `TestFull`, `StoreWindow`, `Load`, `WriteBack` |
| `unlock` | `Scan`, `Swap`, `Load`, `WriteBack` |
| `reset` | `ZeroId`, `ZeroCount`, `Memset` |
| `changed_bg` | `Load`, `WriteBack` |
| query | `ReadId`, `ReadCount` |
| `list`, `lock_server` | `ReadCount`, `Show`, `NoTitle` |
| another client grabs the X server and lets it go | `Grab`, `Ungrab` |
| access outside `data[]` by `lock`, `unlock`, `list` or `lock_server`, after the lock has failed | `OutOfPage`, or an arbitrary value of `Read` |
| killed; run again | `Kill`, `Respawn` |

`LockWindow` takes the lock before it maps the object, every other command after; a query
that gets no lock answers zero, everybody else goes on without it. When `lock_shm` fails
in `fcntl` it closes its descriptor, which drops whatever lock the process had
(`LockShmFails`); with one thread per process there is none. `count++`, `count--`
and `lock_image_id++` are a load and a store, and the programs that write are built
without optimisation, so their stores come in program order. Memory is sequentially
consistent in the model: commands that hold the lock are ordered by it, and for commands
without it this is one of the outcomes of the data race in the code. `reset` wipes the
array in one step; no one reads it meanwhile, since `count` is zero by then.

`list` holds the file lock while it asks the X server for the title of each entry
(`AsksServer`). `grabber` is the thread whose client has that server grabbed; `Show` then
waits, and a query of the same client waits for the file lock. `NoTitle` is the end of
`list` without a title: it calls `XOpenDisplay` for each entry and closes no connection, so
at the limit of the server it gets `NULL`, which `get_window_title` does not survive; or the
window has been closed, and the default error handler ends the program.

### GetImageHook

`held`, `used`, `imageId`, `answer` are the table (`LockRegistry`). `file` is the state of
`/etc/lock.image`: 0 before it exists, odd while it is being written, even when complete.
`image[c]` and `imageIdCurr[c]` are the two static variables of the copy `c`, a process
and a library. `header[t]` is what `loadImage` has read so far; `picture[t]` is what the
caller would see: the screen, the background, or a state of the file. Five history
variables serve the properties: `announced` (the last complete file at the last
`changed_bg`), `due[t]` (`announced` when `t` asked), `lockedSince[t]` (some window was
locked ever since the pixels were taken), `failed[t]` (the query failed) and
`loadFailed[t]` (`fopen` failed on a file that is there).

| Code | Actions |
|---|---|
| `lock_window lock`, `unlock`, `reset`, `changed_bg` | `LockTable`, `UnlockTable`, `ResetTable`, `ChangedBg`, joined in `Admin` |
| `png2image`: truncates, then completes the file | `ReplaceImage` |
| call of a hook, pixels arrive or the request fails | `Begin`, `Capture` |
| `isProhibitScreenshot`, or its failure | `Check` (`Ask`, `AskFails`) |
| compare the image number | `Test` |
| `free(lock_image)`, `loadImage`, `lock_image_id_curr = ...` | `Free`, `Open`, `Read`, `SetId` |
| painting | `Paint`, one step; its inside is `LockImagePaint` |
| `XShmCreatePixmap`, then `XCopyArea` of `capture_screen_shm_pixmap` | `PixmapCheck`, `CopyArea` |
| return to the caller | `Return` |

`XGetSubImage` is `XGetImage` and a copy of its result, so it is the call `"XGetImage"`.
`loadImage` reads through a stdio buffer: `Open` opens the file and reads the first part,
`Read` the rest. `fopen` may fail at any time, for want of a file or for another reason
(`NoImage`): the copy then holds no image, under the new number all the same. If the file has
changed in between, or was half-written, the image is torn and carries an odd number.

### LockImagePaint

One step writes one pixel or ends a row. A pixel is known by where it comes from: the
screen, the background, or the index `_y * lock_image->width + _x` in the lock image, so
a property can say which pixel shows where. `XGetImage` and `XShmGetImage` hold the same
loops. Colour values, pixel formats and byte order play no part. The caller's width and
height are those of the image (`_XGetImage` creates it so).

### CaptureClient

`pc` is where the program is, from the first line of a capture function to the end of
`main`. `queue` holds the requests the X server has not served yet; the server takes them
in order, each whenever it likes, and `error` says that it has refused one. `Wait` is
`XSync` or the wait for a reply: it needs an empty queue, and ends the program when there
was an error, as the default handler of Xlib does. `segment`, `users` and `pixmap` are the
shared segment, who has attached it, and the pixmap made of it; `image`, `pixels` and
`result` are the `XImage`, what it shows, and what the function returns. Another program
may close the window at any time.

| Code | Actions |
|---|---|
| `XShmQueryExtension`, `XGetWindowAttributes` | `NoExtension`, `GetAttributes` |
| `XGetImage` of `capture_screen_normal` | `GetImage` |
| `XShmCreateImage`, `shmget` and `shmat` | `CreateImage`, `GetSegment` |
| `XShmAttach`, `XSync` | `Attach`, `SyncAttach` |
| `XShmGetImage` of `capture_screen_shm` | `ShmGetImage`, `Reply` |
| `XShmCreatePixmap` refused by the hook, or sent | `Refused`, `CreatePixmap` and `SyncCreate` |
| `XCreateGC`, `XCopyArea`, each with its `XSync` | `CreateGC`, `SyncGC`, `CopyArea`, `SyncCopy` |
| `malloc`, the loop with `get_pixel`, `destroy_image` | `Malloc`, `CopyOut`, `Destroy` |
| `XFreePixmap`, `XShmDetach`, `shmdt`, `shmctl(IPC_RMID)` | `FreePixmap`, `Detach`, `Shmdt`, `Rmid` |
| `XCloseDisplay` | `Close` |

`shmget`, `shmat`, `malloc` and the creation of the image may fail; when `shmat` fails
after `shmget`, the segment exists and nobody has attached it. What happens after the
second `destroy_image` of one image is undefined; the model lets the program crash there.
The hooks inside the calls are those of `GetImageHook`: here a lock image is a picture
like any other, and the refusal of a pixmap is a choice.

### DamageMonitor

The screen is a set of disjoint rectangles. `dirty` are those that have changed since their
last picture, `damage` is the damage region of the server, `region` the one made by
`XFixesCreateRegion`, `events` counts the damage events not yet taken. `buffer` and `queue`
hold the requests without a reply, in the client and on their way, together never more
than two; `area`, `areaState` and `i` are the array and the loop index. The server lists
the rectangles of the region in an order of its own, so `Fetched` takes any.

| Code | Actions |
|---|---|
| something is drawn | `Change` |
| `XDamageSubtract(damage, None, region)`, `XDamageSubtract(damage, None, None)`, served | `ServeSubtract`, `ServeEmpty` |
| `XNextEvent`, with an event at hand or not | `NextEvent`, `NextEventWaits` |
| `XFixesFetchRegion`: sent, answered, failed | `Fetch`, `Fetched`, `FetchFails` |
| a turn of the loop: picture, no picture, X error | `Picture`, `PictureFails`, `Ends` |
| `XFixesDestroyRegion`, `XDamageSubtract` | `RoundEnds` |

Every turn frees the array. What a read of it yields then is undefined: the model lets the
program crash or go on with any rectangle (`Named`). The history variables `missed`,
`misread` and `late` name the exceptions of the properties (`Excepted`), four in all: the
picture of a rectangle failed, or `XFixesFetchRegion` did for its region (both `missed`);
the loop came to it on the freed array and took something else (`misread`); it was damaged
between the two `XDamageSubtract` of a round (`late`, with the help of `collecting`). An
exception ends when the rectangle changes again; the first three also end when a picture of
it is taken.

### XlibReply

The state is that of `struct _X11XCBPrivate` and `Display`: `pending` is `pending_requests`
with `reply_waiter` of each, `nextEvent`, `eventWaiter`, `queue` and `serial` are
`next_event`, `event_waiter`, the event queue and `next_event_serial_num`; `lastRead` is
`last_request_read`. libxcb is modelled by what it promises: it reads the connection when
some thread wants something it does not have (`Reading`), and keeps events and errors
(`xcbEvents`) and replies (`replies`) until they are asked for. `Read` takes any number of
messages off the wire, and keeps the events and errors among them in their order
(`InOrder`).

| Code | Actions |
|---|---|
| `_XReply` for one request or for the two of `XGetWindowAttributes` | `RoundTrip`, `ReplyLoop`, `ReplyArrived`, `AwaitEventReader`, `HandOn`, `ReturnReply`, `ReturnRefused`, `ReplyEnds` |
| `XNextEvent`, `_XReadEvents` | `NextEvent`, `ReadEvents`, `EventArrived`, `Done` |
| `XFlush` after a request without a reply, `_XEventsQueued` | `Send` |
| `poll_for_event`, `handle_response` | `Due`, `Kept`, `TakeEvent` |
| `poll_for_response` | `PollForReply`, `PolledReply`, `PolledNothing`, `NoResponse` |

A step ends where the thread looks at libxcb again, or gives the display lock away
(`xcb_wait_for_event`, `xcb_wait_for_reply64`, `ConditionWait`). The two looks of
`poll_for_response` are two steps, since another thread in `xcb_wait_for_reply64` may have
libxcb read in between. The error handler is the default one and exits. When
`poll_for_response` has nothing, `_XReadEvents` asks the first pending request who waits for
it without looking whether there is one: `NoResponse` ends the process by a null pointer
(`"crashed"`) or by `_XIOError`.

## 3. What is checked

All runs check deadlock, except those of `LockImagePaint`, `CaptureClient`, `DamageMonitor`
and `XlibReply`: a program ends there, the screen comes to rest, or the bound on requests is
reached.

### Runs that pass

| Run | Instance | Properties |
|---|---|---|
| `crash` | two administrators with `lock`, `unlock`, `reset`, `changed_bg`, one client with queries; two windows, capacity two; `mmap` and `shm_open` may fail, any process may be killed at any step and is started again | `TypeOK`, `MutualExclusion`, `SnapshotConsistent`, `CountBounded`, `EntriesAreWindows`, `SuccessMeansListed`, `OnlyTargetRemoved`, `RegistrySpec` |
| `failures` | `lock_window` with all its commands, and a client with queries and `lock` that may grab the X server; every system call may fail, `lock_shm` too, a title may not be had, any process may be killed | `MutualExclusion`, `AllCommandsEnd` |
| `calls` | two clients, `XGetImage` in one, `XShmGetImage` and the pixmap in the other; `lock`, `unlock`, `changed_bg`; the file written twice; queries may fail | `TypeOK`, `ReplacedWhileLocked`, `PixmapRefused`, `ImageFresh` |
| `capture` | the three methods, with and without MIT-SHM, every failure and every delay of the server | `TypeOK`, `PictureArrived`, `AttachedBeforeRemoved`, `NothingLeft` |
| `paint` | every picture and lock image from 1x1 to 5x5 | `PaintInBounds`, `NoScreenLeft`, `CentredWhenItFits`, `LostRightAndBelow` |
| `damage` | two rectangles, any of which is damaged at the start, four changes | `TypeOK`, `NothingForgotten`, `DamageAnnounced`, `CatchesUp` |
| `xlib` | two threads, one with a round trip, `XNextEvent` and `XFlush`, the other with `XGetWindowAttributes` and `XNextEvent`; three requests, two events | `TypeOK`, `OneReader`, `NoFalseAlarm`, `RefusedComesBack`, `EventsInOrder`, `OwnAnswers`, `EventsBeforeReplies`, `AttributesFilled`, `ReplyReturns` |

- `MutualExclusion`: two commands that got the file lock are not inside together, unless
  they run in one process.
- `SnapshotConsistent`: a query returns a count and an image number that the table held
  together at one instant.
- `CountBounded`, `EntriesAreWindows`: the count never passes the array, and every counted
  slot holds a window, even after a kill between two stores.
- `SuccessMeansListed`: when `lock` reports success, the window is in the table.
- `OnlyTargetRemoved`: a window leaves the table only by its own `unlock` or by `reset`.
- `RegistrySpec`: the commands are indivisible to an observer. A `lock` takes effect when
  the count is stored, an `unlock` when the last entry has been copied into the gap, a
  `reset` with its first store, a query when it has read the count. The mapping subtracts
  the entry that is already gone but still counted (`EffectiveCount`). A kill breaks this
  in two places only, which `Interrupted` names: in an `unlock` after that copy, and in a
  `reset` after its first store.
- `AllCommandsEnd`: once no new command starts, every command that has started ends,
  `list` too, although it waits for the X server with the file lock in
  its hands. A path that kept the lock, or two commands waiting for each other, would break
  it. The premise is a real one: a client that takes a picture while it has the server
  grabbed waits for `list`, and `list` for it.
- `ReplacedWhileLocked`: a picture taken while a window was locked never reaches the
  caller as a picture of the screen, unless the last window was unlocked before the table
  was asked or the query failed. The code does not promise more: with an unlock between
  the two it returns the picture, and a query that fails counts as permission.
- `PixmapRefused`: no pixmap is created by a call during which some window was always
  locked. The model's call ends with the copy; a pixmap that outlives the call is not
  covered, since the code asks only at its creation.
- `ImageFresh`: after `changed_bg` no caller is shown an older lock image than the one
  announced, nor a torn form of it, nor the bare background in its place. Before that a torn
  image may be shown. The one exception is the background in the very call in which `fopen`
  failed on a file that is there: the next call has to try again, although the number it
  compares is the right one by then.
- `PaintInBounds`, `NoScreenLeft`, `CentredWhenItFits`: all accesses are in bounds, no
  pixel of the screen is left, and a lock image that fits is shown whole and centred.
- `LostRightAndBelow`: the picture, pixel by pixel, for any two sizes: the centred lock
  image, but for what the early end of the loops leaves out. They end at the size of the
  picture, not at the offset plus that size, so of a larger lock image as much is missing
  at the right and below as was clipped left and above, and an image three times as large
  is not shown at all. That this is not what the comment in the code says is the run
  `paint_larger`.
- `PictureArrived`: when the program reads the pixels, the server has written them. It is
  stated for servers that have MIT-SHM: without it `-shm` saves an empty segment.
- `AttachedBeforeRemoved`: the client does not remove the segment while the server still
  has to attach it.
- `NothingLeft`: a run that reaches its regular end leaves no segment and no image behind.
  A run that ends in an X error or a signal may leave the segment.

- `NothingForgotten`: every rectangle without a picture is still in the damage region or
  ahead of the loop, or is one of the four exceptions of section 2 (`Excepted`). The program
  loses damage in these four ways: what failed is not tried again, the array is freed too
  early, and the second `XDamageSubtract` of a round empties what has come since the first.
  The property says that there is no fifth. That the array is read, and freed again, after
  `XFree` in every round with two rectangles is a bug of the program, which every way through
  the model with two rectangles shows; no run of its own refutes it.
- `DamageAnnounced`: damage on the server has an event to come, or a request on its way that
  takes it. Events are sent only for new damage, so a lost one would leave it there.
- `CatchesUp`: once the screen is at rest every rectangle gets its picture, with the same
  four exceptions.
- `OneReader`: one thread at most is in `xcb_wait_for_event` and one in
  `xcb_wait_for_reply64`, and the request waited for stays the first pending one.
- `NoFalseAlarm`: responses are processed in order, no assertion on their numbers fails,
  no thread takes the connection for broken and none looks for the waiter of a request when
  no request is pending. The numbers wrap in the run (`NumberMod`).
- `RefusedComesBack`, `OwnAnswers`: an error or a reply reaches the call it belongs to,
  whichever thread reads it.
- `EventsInOrder`: no event is lost, repeated or moved.
- `EventsBeforeReplies`: when a call returns, all events sent before its answer are queued.
- `AttributesFilled`: `XGetWindowAttributes` reports success only when the handler has
  copied the reply to its first request.
- `ReplyReturns`: a call with a reply returns, unless a thread waits for an event for ever.
  The premise is what the FIXME at `xcb_io.c` 626-628 admits.

`NoFalseAlarm`, `EventsBeforeReplies` and `AttributesFilled` hold as long as no answer has
overtaken an event in `poll_for_response`; the run `sequence` shows that one may.

### Runs that refute what the program says

| Run | Refuted | What happens |
|---|---|---|
| `buserror` | `NoBusError` | a query maps the object before the first `lock` has given it a size, and dies of SIGBUS |
| `stale` | `ImageFresh` | `reset` sets the image number back to zero; a client that loaded an image under an earlier use of the number keeps it |
| `image_race` | `NoUseAfterFree` | two threads of a client reload the static lock image: one uses or frees what the other has freed |
| `paint_larger` | `AlwaysCentred` | a lock image larger than the picture is copied from the offset to the size of the picture: the right and lower parts are missing |
| `sequence` | `InSequence` | `poll_for_response` finds no event, an event and a reply arrive, and it takes the reply first. Later the number of the event is widened wrongly and the client aborts, or a thread takes the connection for broken, or `XGetWindowAttributes` succeeds with nothing copied |

Each has an entry under `findings` of `PROJECT.json` that quotes the line of the
repository it disagrees with.

### Bounds, and why they are enough

- Two administrators and one client: a conflict over the table is between a pair of
  commands, and a third process sees its effect. The administrators are symmetric, and so
  are the windows (`AdminSymmetry`, used in `crash`, whose
  properties are invariants and action properties).
- Two windows and a capacity of two: full, empty, removal of the first and of the last
  entry, and a window registered twice all occur. `failures` needs one window,
  since it looks at the two locks, the file lock and the grab.
- `CountMod` is 8 (or 3) instead of 2^16 and `IdMod` 2 instead of 2^32: the image number
  wraps in the runs, the count would if it were decremented at zero.
- `MaxVersion` 4: the file is written twice, so there is an older and a newer complete
  image and a torn one of each. `IdMod` 3 with the guard of `ChangedBg` keeps the number
  from wrapping in `calls` and `stale`; coming back after 2^32 changes is left out.
- `MaxLockImages` 1 in `GetImageHook`: the hooks only tell zero from non-zero.
- Sizes up to five: along one axis the lock image is smaller, equal, larger by an odd and
  by an even number, and so much larger that nothing of it is shown. The proofs cover all
  sizes. Sizes up to three are enough for `paint_larger`.
- Four changes in `damage`: one for each phase of a round and one after it; two rectangles
  make a second turn of the loop, on the freed array.
- Three requests and two events in `xlib`: `XGetWindowAttributes` and a request of the other
  thread, an event before and one after each answer. `FirstRequest` 14 and `NumberMod` 16
  make the numbers wrap. The calls are split between the threads (`Apart`) to keep the run
  small; every pair of a call with a reply and a call that reads events still meets. In
  `sequence` both threads make all calls.
- `CaptureClient` has one client and needs no bound: it is at most two requests ahead of
  the server.

### Fairness

`AllCommandsEnd` assumes weak fairness of `Progress(t)` for every thread: a process that can
run is scheduled, as the kernel does. `Progress` leaves out `LockShmFails`, or a thread that
waits for a lock nobody gives back could rely on an error to wake it. Nothing is assumed
about who gets the file lock next, so the property has a premise: from some moment on no new
command starts. Without it `F_SETLKW` may starve a process. `Kill`, `Respawn` and `Start` are
not fair. A client gives a grab back in the end (`WF` of `Ungrab`), and the server serves
`list` when it is ungrabbed again and again (`SF` of `Show`); it may be grabbed again in
between.

`CatchesUp` assumes that the server serves requests and the client runs; `Change` is not
fair, its bound is the screen coming to rest. `ReplyReturns` assumes that the server
answers, that what it sends is read when somebody wants it, and that each thread inside a
call goes on; nobody is assumed to make a call, and no event is assumed to come.

## 4. What is proved

All theorems are about the specifications the runs check, for all values of the
constants.

| Theorem | Module | Says | Assumes |
|---|---|---|---|
| `TypeCorrect` | `LockImagesProofs` | `TypeOK` | nothing beyond the constants' types |
| `CriticalSection` | `LockImagesProofs` | `MutualExclusion`, whatever fails and whoever is killed | one thread per process |
| `TableIsSound` | `LockImagesProofs` | `CountBounded`, and with it `EntriesAreWindows` | one thread per process, `lock_shm` does not fail |
| `TableHoldsWindows` | `LockImagesProofs` | `EntriesAreWindows` | the same |
| `QueriesAreSnapshots` | `LockImagesProofs` | `SnapshotConsistent` | the same |
| `LockedIsListed` | `LockImagesProofs` | `SuccessMeansListed` | the same |
| `NoOtherWindowLost` | `LockImagesProofs` | `OnlyTargetRemoved` | the same |
| `TableImplementsRegistry` | `LockImagesProofs` | `RegistrySpec`, the refinement of `LockRegistry` | the same |
| `TypesCorrect` | `GetImageHookProofs` | `TypeOK` | nothing |
| `NoLockedPicture` | `GetImageHookProofs` | `ReplacedWhileLocked`, with any threads and with `reset` | nothing |
| `NoPixmapWhileLocked` | `GetImageHookProofs` | `PixmapRefused` | nothing |
| `ShownImageIsFresh` | `GetImageHookProofs` | `ImageFresh`, however often the file is rewritten and whatever queries fail | one thread per process, nobody uses `reset` |
| `InBounds` | `LockImagePaintProofs` | `PaintInBounds` | sizes are positive |
| `ScreenIsCovered` | `LockImagePaintProofs` | `NoScreenLeft` | the same |
| `FittingImageIsCentred` | `LockImagePaintProofs` | `CentredWhenItFits` | the same |
| `OnlyRightAndBelowLost` | `LockImagePaintProofs` | `LostRightAndBelow` | the same |
| `TypesCorrect` | `CaptureClientProofs` | `TypeOK`, with the bound of two on the queue | nothing |
| `PictureBeforeRead` | `CaptureClientProofs` | `PictureArrived` | nothing |
| `AttachedFirst` | `CaptureClientProofs` | `AttachedBeforeRemoved` | nothing |
| `GivenBackAtEnd` | `CaptureClientProofs` | `NothingLeft` | nothing |
| `TypesCorrect` | `DamageMonitorProofs` | `TypeOK`, with the bounds on requests, events and the loop index | finitely many rectangles |
| `NoDamageForgotten` | `DamageMonitorProofs` | `NothingForgotten` | the same |
| `DamageStaysAnnounced` | `DamageMonitorProofs` | `DamageAnnounced` | the same |
| `OneThreadReads` | `XlibReplyProofs` | `OneReader` | nothing |
| `EventsKeepTheirOrder` | `XlibOrderProofs` | `EventsInOrder` | nothing |
| `TypesCorrect` | `XlibAnswersProofs` | `TypeOK` | nothing |
| `CallsGetTheirOwn` | `XlibAnswersProofs` | `OwnAnswers` | fewer than 2^32 requests on the connection |
| `RefusalsComeBack` | `XlibAnswersProofs` | `RefusedComesBack` | the same |
| `RepliesComeLast` | `XlibAnswersProofs` | `EventsBeforeReplies` | the same |
| `AlarmsAreTrue` | `XlibAnswersProofs` | `NoFalseAlarm` | the same |
| `AttributesAreFilled` | `XlibAnswersProofs` | `AttributesFilled` | the same |

The two assumptions of `LockImagesProofs` are needed. An fcntl lock excludes other
processes only, so two threads of one process are inside together; and when `lock_shm`
fails, two `lock` commands store at the same index and both print success. `ImageFresh`
needs its two as well: the run `stale` shows what `reset` does, and with two threads in one
process one may paint while the other has freed the image. "Nothing" means: not
more than the named assumptions of the module on its constants. The assumption on the
number of requests is `FewRequests` (`MaxRequests < NumberMod`). Requests may start at any
number and the numbers may wrap, as they do in the run `xlib`; what must not happen is that
two requests have the same number. Xlib compares numbers of 32 bits that it widens by the
last one seen, and no bound on the distance follows from the code.

*The table.* The invariant `Inv` has four layers, each inductive with the ones before it.
`Typed` adds to `TypeOK` that the loaded operand of `++` and `--` fits its counter.
`Owned` says that a thread with a descriptor from `lock_shm` is of the process that holds
the file lock; with one thread per process this is exclusion. `OnPath` says which command
can be at which label and that it has the lock from there on. `Sound` is about the table:
`TableSound` holds at every step, also after a kill, and `Knows(t)` is what the thread
inside may rely on: between `store` and `write` of a `lock` the slot at `count` already
holds the window, between `swap` and `write` of an `unlock` the entry at `count - 1` is
the window itself or is also somewhere before it. That last fact is why nothing is lost
when the count drops, and neither `EntriesAreWindows` nor `OnlyTargetRemoved` is
inductive without it. A step of the thread inside leaves the locals of the others alone
(`Frame`), and what they know is about labels only one thread can be at (`Alone`).

*The refinement.* The state of the registry is what the mapping makes of the table: how
often each window stands below `EffectiveCount`, that count, the image number, and the
answers of queries past `ReadCount`. Only the thread inside the critical section decides
which count is in effect (`SeenInside`, `SeenAfter`), so a step is looked at with that
thread alone. A `lock` takes effect with its `WriteBack`, an `unlock` with its `Swap`, a
`reset` with `ZeroId`, `changed_bg` with its `WriteBack` and a query with `ReadCount`; for
the first three there is a lemma about the set of indices at which a window stands
(`PlacesPush`: one more entry is counted; `PlacesSwap`: the last entry is moved into a gap;
`NoPlaces`). All other steps leave the bag as it is, `Kill` outside `Interrupted` included.

*The hooks.* `HookInv` adds to the two properties which labels belong to which call and
when there is a picture at all (`CallPath`), and that `lockedSince` implies that the table
is not empty (`SinceLocked`): a query that answers zero then proves that the window was
not locked all the time.

`HookTyped` is the invariant behind the types. That `used` stays within the table is a fact
about the whole bag: it is the number of registrations (`Counted`), so `unlock` of a
registered window cannot bring it below zero. `FreshInv` is what `ImageFresh` rests on. A
copy never bears a number later than the table's, and one that bears the current number shows
what has been announced, unless it is being loaded (`CopyCurrent`). An answer with the
current number was given for what is announced now (`AnswerCurrent`). A copy may also hold no
image under the current number, when `fopen` has failed; `Test` then goes to `Open`. From
there `OnTheWay` follows the thread: equal numbers at `Test` mean the image is due already,
if there is one, otherwise what `Open` and `Read` find in the file is as new. `announced`
being even is part of it: a torn image, which is odd and at least as new, then is strictly
newer.

*The painting.* `PaintInv` bounds the two loop variables from below and says that all
pixels before the current one are overwritten; the bounds of source and target follow
axis by axis (`AxisInBounds`), the index from `IndexInArray`. `ShownInv` adds what the
picture shows so far: the pixels the fill has passed are background (`FilledSoFar`), those
the copy has passed are what they will be at the end, the others still background
(`CopiedSoFar`). `LostRightAndBelow` is its last instance, and `CentredWhenItFits` follows
from it, since nothing is lost of a lock image that fits.

*The capture functions.* `ClientInv` says which requests may be outstanding at each point
(`Outstanding`): the one the client waits for, or at the end any number of those it does
not wait for. From that follows what is true once a wait has ended without an error
(`Written`), and what has been given back (`GivenBack`).

*The damage monitor.* `DamageInv` says which requests can be under way at each point of a
round (`Outstanding`): the second `XDamageSubtract` of a round may still be on its way when
the first of the next is sent, never more than that. From the first to the second all
damage on the server is noted in `late` (`Collected`); that makes `NothingForgotten`
inductive, since the second request empties the damage region. The types need counting:
an event is sent only when the damage region was empty, and an array lists every rectangle
of the region once (`ArrayHoldsRegion`).

*The request core* takes three modules. `ReaderInv` is about the pending requests and the
threads: the request a thread wants is pending and marked by it alone (`Wanted`), the one
waited for in libxcb is the first and wanted by no other thread (`Waiting`), and the loops
that poll keep the display locked (`Locked`), so that nothing moves between their steps.
`OneReader` follows.

`FlowInv` is about messages and numbers. What libxcb has kept and what is on the wire are
one stream, sorted as it was sent (`Stream`); `CountInv` says that the events given to the
program, those queued and those in the stream are all there are, without a gap, and
`EventsInOrder` is a consequence. `Slot` is the fact that makes it inductive: while a thread
waits for an event the slot `nextEvent` is empty and nobody polls, so an event that comes in
cannot pass the one in hand. `ServerInv` relates the numbers of requests, answers and what
libxcb has read, without which nothing can be said about `completed`.

The last module follows an answer from the server to the caller. `Responses`: what
`xcb_wait_for_reply64` has given to a thread is what was answered to its request, and is
there only once. `Refusals`: for each refusal on its way, and each request that may be
refused, there is a thread that wants it; so `Due` sends it there and not to the handler.
`InSeq`: as long as nothing has been overtaken, numbers come in order and Xlib is not ahead
of libxcb, which gives `EventsBeforeReplies`. A thread takes the connection for broken when
it gets neither a reply nor an error, or no event, so `NoFalseAlarm` also needs `Owed`
(whatever a thread wants is still to be answered, on the wire, kept, or an error on its way)
and `Having` (a loop that polls for events has one, or has queued one). `AttributesFilled`
rests on `Copied`: until the second request returns, the reply to the first has been copied
or has still to pass its handler.

`OneReader` and `EventsInOrder` need no assumption: they hold also when an answer overtakes
an event and when two requests have the same number.

Every invariant and every action property of the passing runs is stated by a theorem, and
so is the refinement. Only model-checked: `AllCommandsEnd`, `CatchesUp` and `ReplyReturns`,
since liveness under fairness is beyond the prover, and the properties the other five runs
refute.

## 5. What is not modelled

- The X server, beyond the requests of `CaptureClient` and `DamageMonitor`. In
  `GetImageHook` a request for pixels is one step that may fail.
- Decoding and encoding PNG files, the prompt for a window and the titles (no state).
- Destroyed, minimised or remapped windows and several screens: the program does not
  consider them (`readme.md` 25-26); only `list` meets a closed window, as
  `NoTitle`, and `CaptureClient` the one it captures.
- What a `lock_window` that got no file lock does to the table of the others: the steps are
  in the run `failures`, but no property speaks of the table there, since the code promises
  nothing. Nor is there a run about the table with two threads in one process.
- A window locked after `XShmCreatePixmap` has been let through: `PixmapRefused` is about
  windows locked all through the call.
- Overflow of `width * height * 3` and failures of `malloc` in `loadImage`.
- What the processor does with a torn lock image beyond showing something wrong: its size
  may be an uninitialised value.
- In libX11's request core: `XLockDisplay`, an event queue owned by XCB
  (`XSetEventQueueOwner`, which no program here calls), requests that stay in the output
  buffer, resource ids, other error handlers than the default one, and what `_XReply` does
  after the connection has failed.
- The rest of libX11 and libXext: by far most of the lines of the repository. They are the
  unchanged upstream libraries (input methods, character set tables, resources, colour
  management, drawing requests); what the programs and the hooks rely on is the request
  core, `GetImage.c` and `XShm.c`.

## 6. Plan

1. Two theorems assume more than their runs need: how far the assumptions of
   `LockImagesProofs` can be weakened (a `lock_shm` that fails does no harm to a query), and
   `ImageFresh` with several threads in a client whose calls are in different libraries.
2. The safety half of `AllCommandsEnd`: a thread at a label inside never waits for the file
   lock, and whoever holds the lock can take a step or waits for a grab.
3. A bound on the distance of two pending requests instead of `FewRequests`, if the number
   of requests a thread may leave unanswered becomes part of the model.
