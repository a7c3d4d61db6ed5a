# A TLA+ model of the VirtIO GPU driver

This directory holds TLA+ modules for `virtiogpu.chip`, the AmigaOS 4 driver
for the VirtIO GPU of QEMU, the TLC configurations that check them on small
instances, and proofs checked by TLAPS. The reference is the code; where a
comment of the code promises something the code does not keep, it is said below.

## The system

The driver is a chip library that `rtg.library` and `graphics.library` call
through the vtable of `BoardInfo`. Everything it knows is in one
`ChipGPUState`. Several tasks are inside it at once: whatever tasks draw, the
task that sets modes, the tasks that wait for the vertical blank, and the
driver's own flush task. An interrupt handler interrupts them all.

| Part | State | Operations | Talks to |
|---|---|---|---|
| Board memory allocator, `chip_alloc.c` | slot table, `board_alloc_offset`, `alloc_mutex` | `AllocCardMem`, `FreeCardMem` | called by any task |
| Virtqueue, `virtqueue.c` | descriptors, avail and used ring, free list, cookies, indirect tables | `Allocate`, `AddBuf`, `GetBuf` | shared memory with the device |
| Command submission, `chip_gpu_cmds.c`, `chip_gpu_3d.c` | one command and one response buffer per queue, `io_lock`, `cursor_lock`, the published waiter | `chip_do_io`, `chip_wait_ctrlq`, `chip_cursor_send` | virtqueue, interrupt handler |
| Interrupt handler, `chip_irq.c` | reads the published waiters | `chip_InterruptHandler` | signals the waiting tasks |
| Flush task, `chip_flush.c` | `flush_task`, `flush_sig_mask`, `ITimer`, `vsync_phase` | its loop, `chip_flush_signal_activity` | drawing callbacks, `timer.device`, vblank waiters |
| Vertical sync and power, `chip_p96.c` | `wait_vsync_task/mask`, `dpms_level` | `WaitVerticalSync`, `GetCurrentY`, `SetDPMSLevel` | flush task |
| Mode setting, `chip_p96.c`, `chip_init.c` | active mode, framebuffer memory, resource numbers | `SetGC`, `chip_resize_fb_to_mode`, `SetPanning` | command submission; the flush task reads its fields |
| Hardware cursor, `chip_p96.c`, `chip_gpu_cmds.c` | cursor resource, position, `cursor_needs_refresh` | sprite callbacks | command submission |
| Modes and hot-plug, `chip_modes.c` | resolution list of `BoardInfo`, DisplayID slots | `chip_register_modes`, `chip_handle_display_change` | EDID, display info |
| Virgl, `chip_virgl_2d.c`, `chip_virgl.c`, `chip_gpu_3d.c` | context, resources, handles, `virgl_ctx_error` | init, submit, recover | command submission, flush task |
| Compositing, `chip_composite.c` | temporary texture, handle counter, hook | `CompositeTagList` hook | virgl |
| Drawing, `chip_blit.c` | none of its own | fills, blits, templates | ends in `chip_flush_signal_activity` |
| Initialisation, `chip_init.c`, `chip_lib.c`, `chip_board.c` | everything, once | `chip_InitCard_C` and its failure ladder | all |

What is hard here: the device and the driver share rings without a lock, in
opposite byte orders; a command can be given up on and answered later; the
interrupt handler reads two fields a task writes one by one; the flush task and
the mode setting task share the framebuffer fields with no lock at all;
memory the device can read has to be freed in the right order; one slot serves
all vblank waiters; the allocator works in 32-bit arithmetic on a table of
bounded size. What makes each part correct:

- allocator: the slots tile the board, no block is handed out twice, no hole
  stays split, a request is refused only if it must be;
- virtqueue: descriptors are never lost or linked twice, the device sees only
  complete chains in the caller's order, each request comes back with its own
  cookie, no interrupt is lost;
- submission: a caller gets the answer to its own command, a buffer is not
  rewritten while the device reads it, no wake-up is lost, every call returns;
- flush task: what was drawn is shown, a waiter is woken, pointers taken back
  are not used any more;
- mode setting: no freed memory is used by driver or device, failures leave
  the old display in place and nothing behind, the screen ends up showing what
  was asked for;
- initialisation: every way to fail gives back what was acquired and nothing
  else, nothing is published before it is complete;
- modes: the list is sound at every moment somebody may walk it, what the
  monitor and the host ask for is in it;
- cursor: driver and device agree on the cursor resource, the device shows
  what the driver believes it shows;
- virgl and compositing: no command goes to an object that is gone, no object
  is forgotten, a poisoned context is replaced;
- drawing: copies are exact however rectangles overlap, no byte outside the
  target changes, what shows is announced to the flush task.

## Modules

| Module | Models |
|---|---|
| `CardMem` | what the allocator promises: disjoint blocks inside the board |
| `BoardAlloc` | `chip_alloc.c`, implements `CardMem` |
| `RequestQueue` | what `VirtQueue_AddBuf` and `VirtQueue_GetBuf` promise: a queue of requests |
| `VirtQueue` | `virtqueue.c` against a device, implements `RequestQueue` |
| `QueueIO` | `chip_do_io`, `chip_wait_ctrlq`, `chip_cursor_send`, the interrupt handler |
| `FlushTask` | the flush task and the callbacks that talk to it |
| `Display` | mode setting, cursor creation and presentation |
| `InitCard` | `chip_board.c`, `chip_pci.c`, `chip_init.c`: from `board_init` to the end of `chip_InitCard_C` |
| `Modes` | EDID timings, the resolution list, display changes |
| `Cursor` | the sprite callbacks on the cursor queue |
| `Virgl` | the virgl context, the compositing hook, recovery and resize |
| `Blit` | the drawing callbacks on shared memory |
| `MC*` | instances for TLC |
| `*Proofs` | theorems about the module of that name |

Each module stands at one level of the driver and takes what is below it in
the form the level below guarantees: `QueueIO` sees a queue as its requests,
because `VirtQueue` implements `RequestQueue`, where they come back one by one
with their cookies; `Display` sees a command as one step, because `QueueIO` shows
that under `io_lock` a caller gets its own answer or gives up; `FlushTask` sees a
flush as "what was drawn reaches the host", which is what `Display` looks into.

### BoardAlloc

`board_allocs` is the table up to `num_board_allocs`. A call is the entry
(`AllocCall`, `FreeCall`: the mutex), the scan (`AllocScan`) and what the scan
decides (`AllocReuse`, `AllocExtend`, `AllocFail`; `FreeMark`, `FreeCoalesce`,
`FreeUnknown`). `live` is a history variable: the blocks clients hold. Sums are
taken modulo `Word`, as uint32 sums are. Clients free pointers they hold and
pointers they do not.

### VirtQueue

`desc`, `avail` and `used` hold the fields as they lie in memory; `vr16` and
`vr32` swap when the queue is `modern`. `AddBuf` is `AddBufDirect` (or
`AddBufIndirect`), one `AddBufLoop` per descriptor, `AddBufRing` and
`AddBufIdx`; `GetBuf` takes the entry (`GetBufTake`, or `GetBufBogus`), frees
the chain descriptor by descriptor (`GetBufLoop`) and ends with `used_event`
(`GetBufDone`). The device (`DevFetch`, `DevWalk`, `DevComplete`, `DevBogus`)
moves between any two of these. The compiler and `eieio` barriers keep the
stores in program order, so one store is one step. The device never returns
more entries than it was given, apart from the bogus ones.

`RequestQueue` is what the callers rely on: `given`, submitted and not fetched,
oldest first; `working`, with the device; `done`, finished and not returned;
`returned`, what GetBuf is about to return. It knows neither rings nor
descriptors. The mapping is at the end of `VirtQueue`: `given` and `done` are what
the two windows of the rings say (`AvailAt`, `UsedAt`), read in the byte order of
the queue and modulo its size. A request in `given` carries what was submitted,
one the device has read what it read, so a step of the device from one to the
other is a step of `RequestQueue` only if both agree. A request is submitted by
the store to `avail.idx`, and returned when GetBuf has taken its entry, although
`last_used_idx` moves only after the chain is freed (`Passing`).

### QueueIO

A task obtains the queue's lock, fills the command buffer, submits, publishes
itself as the waiter in two steps, and loops over GetBuf and Wait; after the
last attempt it drains the ring. `Irq = FALSE` and a failing `AllocSignal` give
the polling loop. `InterruptHandler` is one step: AmigaOS 4 runs on one
processor and a task cannot run during a handler; it can of course run between
a task's two stores. The cursor queue uses the same steps with its own buffer
and lock and with a drain before the submission.

### FlushTask

`fpc` is where the task is: start, publish, arm the timer, wait, clear the
signals, skip (display off), phase, claim the waiter, signal it, convert,
transfer. Versions stand for pixels: a drawing client increments `drawn`, the
conversion takes the current version, the transfer shows it. rtg.library calls
SetDisplay and SetSwitch from one task at a time, so the creation of the task is
not raced.

### Display

`gs` is the record of the fields both tasks use. The resize assigns the fields
of the new framebuffer in the order of the code, one step each
(`Assignments`); `chip_flush_all` reads the dimensions before it enters
`io_lock`, then its destination, then source, format and stride, then the
dimensions again. The device is an operator (`Accepts`, `Execute`) over its
resources, its scanout and the picture shown. A command that is given up on
goes to `late`; the device carries those out in order before anything newer.
Pixels are reduced to surface, format and rectangle; source stride and panning
offsets are left out.

### InitCard

One action per acquisition or command of the sequence, in its order; `pc`
names the step that comes next, or the label of the failure ladder that is
next (`Ladder`, `Unwind`). `held` is what was acquired, `mapped` the buffers
between `StartDMA` and `EndDMA`, which the device may reach. Virtio
capabilities are a set of register windows that may or may not be found;
negotiation may end in every outcome the code tells apart, among them
`FEATURES_OK` refused. `pci.slots` are the six BAR slots as the driver finds
them, and `Repaired` is the walk that clears the sizing pattern from the high
halves of 64-bit BARs. `why` remembers the step that failed.

### Modes

An EDID is reduced to its length, its descriptors and its extension blocks;
`reads` keeps the byte offsets the parser looks at. `chip_add_mode` is begun,
builds its `Resolution` and appends it in one step, for nobody sees the entry
before `AddTail` (memory may run out at any of its depths, and an entry that got
at least one is kept); other tasks walk `list` at any moment, so what holds of `list`
holds in every state. The host changes its display when it likes and raises an
event; the flush task polls, clears the event and asks for the display info in
separate steps.

### Cursor

Two tasks, one in `SetSpriteImage`, `SetGC` and panning, one in
`SetSpritePosition`, with the cursor queue, its single command buffer and
`cursor_lock` between them. `chip_cursor_send` is the lock with the drain
(`SendBegin`), the buffer and the submission (`SendSubmit`, which also drops the
command if the queue is full), the publication of the waiter (`SendArm`), and
then one `GetBuf` for each wakeup: `SendDone` if it returns the own cookie,
`SendMiss` if it returns nothing or the completion of a call that gave up,
`SendWake` when `Wait` returns and the signal is cleared again, `SendTimeout`
when the attempts are used up. The device takes commands up in order and raises
the interrupt, whose bit the control queue raises too (`DeviceControl`).
An entry of the available ring says whether the buffer has held its command ever
since (`intact`).

`chip_CursorUpdate` stores the position it sent by reading the field a second
time, which is a step of its own (`record`); `chip_CursorMove` has it in a local
and stores it after the command (`moved`). In this version all formats are in
`SoftSpriteFlags` (`chip_init.c:1466`), so rtg.library draws the pointer itself and
does not call these callbacks; they are wired into the vtable all the same.

### Virgl

The flush task runs `chip_virgl_init_2d`, then its cycle: recover if a stream
was refused, convert and transfer. Another task is in the hook, from the look
at `virgl_2d_ready` to the release of `io_lock`; a third resizes. A command
stream is submitted to a context number, a context that refuses one goes into
error and refuses the rest, and `virgl_ctx_error` makes the driver look for a
new one. `chip_init.c:1612` leaves the context switched off in this version and
`chip_comp_install_hook` is never called: the module is about the code from a
call of `chip_virgl_init_2d` on.

### Blit

A cell of memory is a byte, and its content is the set of initial bytes it is
the exclusive-or of; a copy that reads what it wrote shows in the result. A
call is its entry (directions, early returns), one `Row` per row in the order
the code takes them, with the longwords and bytes of a row inside it, or one
`LinePixel` per pixel, and `Flush`, the call that wakes the flush task or
drops the rectangle. Each bitmap has its own `BytesPerRow` at each depth. The
bits of a template, a pattern or a line pattern are any bits. The two planar
conversions are left out.

`Shown(pan)` are the bytes the conversion reads when the display is panned to
`pan`, bounded as `chip_convert_rect` bounds it. `chip_flush` clips as if the
display were at the bitmap's origin, so on a bitmap larger than the display a
fill can show and not be announced: `Signalled` leaves that case out, and
`MCBlitPanned.cfg` shows it. The flush task's timer presents such a drawing at
its next turn.

## Runs

| Run | Instance | Shows |
|---|---|---|
| `board_alloc` | 4 slots, 6 granules, requests of a 32-value word that cannot wrap, two tasks | `TableSound`, `Coalesced`, `UsedAreLive`, `RefusalJustified`, `ImplementsCardMem` (refinement) |
| `virtqueue` | 2 descriptors, indices modulo 4, swapped byte order, indirect tables with the direct fallback, `used_event`, one bogus entry | `RingIntact`, `RequestsIntact`, `NoLostInterrupt`, `RequestsReturn` (liveness), `ImplementsRequestQueue` (refinement) |
| `queue_io` | three tasks, one command each, one of them on either queue, no timeouts | `ResponseMatches`, `ExchangeSound`, `CallsReturn` (liveness) |
| `queue_io_timeout` | two tasks, two commands each, two attempts, polling when no signal bit is free, late answers, a device that may stop | `WaitersClean`, `PollersReturn` (liveness) |
| `flush_task` | a waiter and a client that draws twice and switches the power twice; start may fail, the task may be broken | `NothingForgotten`, `PixelsShown`, `WaitersWake` (the last two liveness) |
| `display` | two calls of any callback; every step may be refused, or given up on and carried out later; plain or blob framebuffer | `NothingDangling`, `NothingLeaked`, `ModeKept`, `PictureSettles` |
| `init_card` | four layouts of the BARs, every step may fail, two commands may be answered late | `UnwindSafe`, `NothingLeaked`, `PublishedComplete`, `BarsDecodable`, no deadlock before one of the three ends |
| `modes` | five monitors, a table of four, three changes of the host, two failures | `ListSound`, `MonitorServed`, `HostModeListed` (liveness) |
| `cursor` | two modes, two origins, a queue of two, two waits given up, one failure | `CursorKnown`, `ShowsLast`, `CallsReturn` (liveness) |
| `virgl` | two strips, two operators, two refusals, a composite and a resize | `SubmitsLive`, `ResourcesTracked`, `Reacquired`, `HookReturns` (the last two liveness) |
| `blit` | every rectangle and line of two bitmaps of 4 by 3, one and two bytes per pixel | `CopiesExact`, `InsideOnly`, `LineFollows`, `Signalled` |
| `flush_task_two_waiters` | a second waiter, display on | `WaitersWake` fails |

`NothingDangling`, `ModeKept`, `RingIntact`, `RequestsIntact`, `ExchangeSound`,
`WaitersClean`, `NothingForgotten`, `MonitorServed` and `CursorKnown` are
conjunctions of named parts, each stated with its comment in the module. The
type invariant of a module is a part of one of them.

Definitions marked *Mutant* in the comments, next to the ones they vary, are
the faults each property was tried against: replacing the definition by the
variant makes the property fail under the same configuration.

### The bounds

- Allocator: four slots are the least at which splitting, merging with both
  neighbours and a full table all happen; the board of six granules lets memory
  run out before and after the table does. `NoWrapSmall` states that no request
  of `board_alloc` wraps, the hypothesis of the theorems.
- Virtqueue: the index range is twice the ring, as small as the ratio can be,
  so every behaviour of the wrap is reached. Two descriptors hold two requests
  of one descriptor (indirect, or single buffers) or one direct chain of two,
  so the ring is full, the free list is threaded in either order, and the
  fallback is refused. The driver itself sets `use_indirect` and
  `use_event_idx` to FALSE (`chip_init.c:695`): its setting is the direct
  fallback of this run, which also covers the code the setting leaves out.
- QueueIO: `Attempts = 7` exceeds the number of interrupts the other commands
  of these instances can cause, so no call of `queue_io` times out;
  `queue_io_timeout` uses two.
- FlushTask: two drawings let one be under way while the other is announced;
  two power switches are off and on again.
- Display: modes that differ in width, height and format; two calls are enough
  for a change on top of the remains of a failed one, and for a power switch on
  top of a change. `MaxLate = 2` lets a command be given up on while another is
  still outstanding.
- InitCard: the sequence runs once, so nothing is bounded but the commands the
  device still holds; two let the resource and its backing both be late.
- Modes: the table has one size besides the two that are skipped, a monitor
  that is cut off, one that repeats timings, an extension that runs into the
  end of its block, and more timings than `DtdMax = 3` keeps. Two hot-plug
  numbers and three changes let the numbers come round.
- Cursor: a queue of two entries. One wait given up leaves a completion that
  comes ahead of the next sender's own, two fill the queue, so that a command is
  dropped. One coordinate: with modes of two and three pixels, an origin of zero
  or three and the mouse at two, the sprite is off the left edge or on the
  screen, and the position is the same in both modes.
- Virgl: two refusals are one in the context and one in its recovery; two
  strips are a first and a last.
- Blit: three rows and four columns have an inside, two edges, every overlap of
  two rectangles and lines of slope one half, one third and two thirds.
  With longwords of two bytes a row may begin on a longword or off it and end in
  an odd tail; the screen's rows have no slack (`chip_CalculateBytesPerRow`), the
  other bitmap's rows do. The display shows three by two pixels, so it can be
  panned by one either way. Only one call is made: drawing keeps no state
  between calls.

`CHECK_DEADLOCK FALSE` stands where the instance ends when its calls are used
up (`QueueIO`, `Blit`, `Modes`), when the flush task has been broken
(`FlushTask`) or when the display is left powered off or the device has too
many late commands (`Display`).

### Instances outside the runs

Eleven configurations belong to no run. Each checks a sentence of the code's
comments, or a property without the condition the run states it with, and ends
in a counterexample; the tables of disagreements below refer to them.

| Configuration | Violates |
|---|---|
| `MCBoardAllocHuge.cfg` | `SlotTableSorted` |
| `MCQueueIOStale.cfg` | `ResponseMatches` |
| `MCDisplayTorn.cfg` | `NoOverrun` |
| `MCInitCardLadder.cfg` | `FailureReleasesAll` |
| `MCModesIDs.cfg` | `DisplayIDsUnique` |
| `MCCursorStale.cfg` | `CallsAlwaysReturn` |
| `MCCursorDrift.cfg` | `LastSentShown` |
| `MCVirglFallback.cfg` | `FallbackShows` |
| `MCVirglSession.cfg` | `TwoDForTheSession` |
| `MCBlitOverlap.cfg` | `CallerGuarantee` |
| `MCBlitPanned.cfg` | `SignalledPanned` |

### Fairness

- Tasks: weak fairness. exec schedules ready tasks by priority; the flush task
  sleeps between frames, so lower priorities run.
- Mutexes: strong fairness of the steps that take one (`Obtain` of `QueueIO`,
  `SendBegin` of `Cursor`, `CompObtain` of `Virgl`). exec queues waiters in
  order, so a waiting task gets the lock although others keep taking it.
- The interrupts of the control queue wake a sender on the cursor queue too;
  nothing is assumed of them in `Cursor` (`DeviceControl` is not fair), so that no
  call is saved by one.
- The device answers what it was given, and interrupts are delivered: weak
  fairness of the device's steps in `FairSpec`. `StallSpec` of `QueueIO`
  (`queue_io_timeout`) leaves it out: there the device may stop at any point.
  Strong fairness of each completion in `VirtQueue` says that the device does
  not starve one request for ever.
- `VirtQueue`'s caller keeps polling (strong fairness of `GetBufTake`).
- `Modes`: weak fairness of the driver's one task; the host need not change
  anything.
- No fairness is assumed for anything a client starts: drawing, mode changes,
  power switches, breaking the task, moving the mouse, composites and resizes;
  nor for late answers.

## Proofs

Each theorem holds for every value of the constants that satisfies the named
assumption of its module, which TLC evaluates on every run. None of the
invariants is inductive alone; what follows says what had to be added and why.

### BoardAllocProofs

For every size of board, table, granule and word, every set of tasks and every
set of requests that cannot wrap (`NoWrap`, a hypothesis of each theorem
because the code does not ensure it):

- `AllocTypeOK` and `AllocTiling`, joined in `AllocTableSound`,
  `AllocCoalesced` and `AllocUsedAreLive`: the invariants the run `board_alloc`
  checks;
- `AllocImplementsCardMem`: the allocator implements `CardMem`;
- `AllocRefusalJustified`: the action property `RefusalJustified`, that a request
  is refused only if the table is full or no gap is large enough.

The inductive invariant is

    IInv == TypeOK /\ MutexInv /\ TableInv /\ CallInv

`MutexInv` says that a task inside a call holds the mutex. `TableInv` is the
tiling, which holds at every step. Coalescing and "used slots are the live
blocks" hold only between calls, so `CallInv` says what is true at each label
of the one call under way: which slot the scan found, that only the slot
marked last may have free neighbours, which block has been counted but not yet
entered. The lemmas come in three layers: what the table operations do to the
table (`MergeShape`, `SplitShape`, ...), to the tiling and the holes
(`TableFacts`, `CoalesceResult`) and to the blocks in use (`HeldSetUsed`,
`HeldCoalesce`, ...); then one lemma per action (`AllocCallStep` to
`FreeUnknownStep`), joined in `NextIInv`. For the refusals, `NothingFits` says
that the result of the scan still holds when the table is to be extended, and
`RefusedNoGap` that a gap, had there been one, would lie in a hole that is too
small and has a block behind it.

### QueueIOProofs

For every set of tasks, number of commands, retry limit and queue capacity:

- `QueueWaitersClean`, with no condition: the interrupt handler signals no bit
  its task does not own, and no waiter outlives its call;
- `QueueExchangeSound` and `QueueResponseMatches`: a command buffer is stable
  while the device may read it, no completion is slept through, and every call
  returns the answer to its own command. Their hypothesis is `[]NoTimeout`, no
  task drains after a timeout. Since what they state is a safety property and
  `Spec` has no fairness, they cover every behaviour up to its first timeout
  (a behaviour cut there and continued by stuttering satisfies the hypothesis).
  After a timeout the properties are false, which the instance `MCQueueIOStale`
  shows: this is the divergence described below.

The waiters need `IInv`: types, the lock belonging to the one task past
`Obtain`, and at which labels a task is published with its task and with its
mask (the order of publication and retraction). The exchange needs `XInv` on
top: a free queue is empty, and the request of the lock's owner is in exactly
one of three states, still queued, with the device, or completed and answered;
a sleeper whose request is completed has been signalled or the handler is on its
way (`Exchange`). The lemmas are one per part of the invariant and, under each, one step
per action that touches the part.

### CursorProofs

For every queue size, screen, set of positions and number of faults:

- `CursorAlwaysKnown`: a cursor counts as created exactly when the device holds a
  resource backed by memory the driver keeps, and, as long as no wait was given
  up, the buffer is not filled again before the device has taken up the command
  in it. Which resource a command names is not part of the model;
- `CursorShowsLast`: with no callback in progress, nothing left to take up and the
  last command not dropped, the device shows the cursor where the last command
  said, whatever was given up. Two further parts have a condition each: the
  position is `cursor_last_sent` unless callbacks overlapped when that was
  recorded (the race of `chip_gpu_cmds.c:864` is excepted, not covered), and the
  picture is the one drawn last unless a wait was given up or a transfer failed.

`IInv` adds types (`Records`), who may be in which call and what its locals say
(`Callers`), that without a given-up wait the ring holds at most one entry, the
lock owner's (`OneEntry`), that what is last in the ring, or was last applied, is
what the buffer holds unless that command was dropped (`Followed`), and that the
overlap of two callbacks is in the history as long as it lasts (`Alone`). For the
two halves of `ShowsLast` it says where position and picture may lag while a call
is under way: between the write of the buffer and its record (`Placed`), and from
the transfer to the take-up of the entry (`Painted`). Given-up waits leave the ring
arbitrary, and the device still ends at the last command, because late entries read
whatever the buffer holds by then: `Followed` needs no condition on `gaveUp`.

### VirglProofs

For every number of strips, blend operators, refused commands, composites and
resizes:

- `VirglSubmitsLive`: no command stream is submitted to a context that recovery
  destroyed;
- `VirglResourcesTracked`: the driver can name every resource the device holds.
  The one exception is the resource an initialisation had created when it gave
  up for good, and there is never a second.

`IInv` has a record type per variable (`Records`), and:

- `Control`: the flush task and the composite are at labels at which each may
  be, given who holds `io_lock`. A composite that has looked at `virgl_2d_ready`
  a second time holds the lock until it is done, so recovery may destroy the
  context before the composite validates it, and get no further while it draws;
- `Contexts`: the context a task uses is the one that exists, label by label:
  between the destruction and the new number `virgl_2d_ready` is off;
- `Owners`: whose number each resource of the device is. A resize remembers
  the number of the resource it makes only once `CREATE` has succeeded, which is
  why `Lost`, the resources nobody can name, subtracts it only at those labels;
- `Tracked`: `Lost` has at most one member, and that only after `GivenUp`.

Most lemmas say what one helper does to the device (`SubmitEffect`,
`AttachedEffect`, `CreatedEffect`, ...), so that the steps need not open it.

### FlushTaskProofs

For every number of clients, assignment of operations to them, draws and power
switches:

- `FlushLosesNoActivity`: with the display on, the flush task does not sleep
  over a drawing that was announced, not shown and not signalled;
  `StaleOnlyAfterExit`, the other half, says that the pointer to the task is
  not used before it has published itself and dangles only after it has gone;
- `FlushNothingForgotten`: the whole of `NothingForgotten`, if at most one
  client waits for vblanks (`OneWaiter`, a hypothesis of this theorem only). The
  code has one slot for a waiter and a second task may overwrite it: the run
  `flush_task_two_waiters` shows that waiters then hang. The hypothesis is met
  by `rtg.library`, which calls `WaitVerticalSync` from one task.

The counters of pixel versions are ordered, `shown <= taken <= drawn`
(`Versions`); what the task has published follows from its label
(`Published`); what was announced and is not shown is signalled, carried or about
to be transferred (`Activity`). With one waiter, the slot holds that waiter with
its mask before the mutex is released (`Waiters`).

### InitCardProofs

For every content of the six BAR slots and any number of commands the device
still holds: `InitUnwindSafe`, `InitNothingLeaked`, `InitPublishedComplete`,
`InitBarsDecodable`, the four invariants of the run `init_card`.

The bring-up is a sequence and a ladder, so `IInv` says for each resource from
which step to which label it is held (`Acquired`; `Optional` for what the driver
can do without) and mapped (`Reachable`), with the rest of the sequence as
nested sets of labels (`FromLocks`, `FromResp`, ...) and the ladder likewise
(`DownResp`, ...). `UnwindSafe` and `NothingLeaked` are read off it. For
`PublishedComplete`, `Shown` has what the device displays: a command it carries
out late must not undo it, and after `SET_SCANOUT` only an
information request or the first transfer can be late, because every command
before it had to be answered. `UnwindCases` writes the ladder out label by label.

`WideAt` walks the slots with a recursive function. `LowHalfDef` shows that the
function the definition picks exists, by writing its six values down, and
`RepairedDecodes` that the repair of the slots does not change which of them are
low halves. `NothingLeaked` names what is left (the interrupt server, the 3D
command buffer); the comment it contradicts is in the next section.

### DisplayProofs

For every set of modes and surfaces and any number of callbacks, refused
commands and commands given up on, with flushes interleaved at every step:

- `DisplayNothingDangling`: a conversion writes into allocated memory, every
  command names a resource that was made, and until a command is given up on no
  resource is backed by memory given back to exec;
- `DisplayNothingLeaked`: between callbacks the driver owns the framebuffer and
  the cursor image and nothing else, also after a resize that failed anywhere;
- `DisplayModeKept`: between callbacks the device scans out the framebuffer, in
  the mode asked for, with the exceptions `KeepsDisplaying` and `ModeApplied` name;
- `DisplayPictureSettles`: one flush that no callback overtook is enough for
  the screen to show the drawn surface.

`IInv` has three parts that hold whatever the device does:

- `Owned`: the allocated buffers are those of the framebuffer, of the cursor
  image, and what the resize has in its hands (`Between`): the new buffer until
  the first of the six assignments, the old one after it;
- `Target`, with `Locked`: between `obtain` and `release` a flush writes into the
  framebuffer, or into the old one while the resize is at an assignment or at
  `unref_old`. The resize cannot free the old one before the flush is over, for
  `unref_old` sends a command, which needs `io_lock`. This is the only reason why
  the assignments are safe, which take no lock;
- `Fresh` and `Named`: a number handed out is not handed out again, and whose it
  is at each label. So a `RESOURCE_UNREF` the device carries out late cannot
  hit the resource of the framebuffer, or the one a resize is about to show.

The others hold until a command has been given up on: `Backed` (each resource
has the memory of its owner), `Sized` (driver and device agree on its size
and kind) and `Scanning`, joined in `Sound`. `Applied` follows the size asked for
through the assignments. `Settling` is about a flush that began after the last
callback: what it has read so far (`Read`) and carried over (`Seen`) is what there
is. A flush that was overtaken is not constrained: the clamping to both sizes
does not save it, as `MCDisplayTorn.cfg` shows.

### VirtQueueProofs

`RingIntact`, `RequestsIntact` and `NoLostInterrupt`, for every number of
descriptors and every range of the ring indices it divides, both byte orders,
with and without indirect descriptors and `used_event`, any set of requests and
any number of bogus entries. The device is the one of the module: it may stop
anywhere in a chain and finish requests in any order, but completes what it was
given once.

None of the three can be proved without the others. `GetBuf` takes the head the
device put into the used ring, and frees whatever is chained there; that this is
a complete chain depends on what the device was able to fetch, that on what
`AddBuf` published, and that on the free list. `IInv` therefore follows a request
the whole way round:

- `Types`. An index lies in memory as the device reads it; `vr16` and `vr32` are
  their own inverses on 16 bits (`Orders`), which is what makes a link or an
  index that was swapped in come back out.
- `Conservation`. Only two moves touch it: from the free list to the end of
  a chain (`ToChain`) and from the front of a chain back (`ToFree`). The lemmas
  show it for the moves, and each action is one of the two or neither.
- `FreeList` and `Counted`: what a call under way still wants of the free list and
  has not yet counted. Inside the loop `free_head` is stale; `add.idx` stands for
  it. As many entries are left as the loop will take, because `num_free` was
  compared with `total` before and nobody else takes any.
- `Chains`. A chain is `Open` while `AddBuf` extends it (its last link leads to the
  descriptor that comes next), complete, or `Taken` apart from the front. Only
  a complete one has to say what the request says, but an open one says it as
  far as it goes.
- `TablesKept`: the table of a head is the one it is meant to have, or, between
  the chain and `AddBufRing`, still in the local variable of `AddBuf`. With
  `Conservation` a descriptor flagged `indirect` is a chain of its own.
- `Calls`: the locals of the two functions.
- `Unfetched`, `Reading`, `HeldRequests` and `Completed`: where a published head is.
  It waits in the available ring, is being read, is held, or waits in the used
  ring, and is in one of these places only. So the head `GetBuf` takes is none
  the device will look at again, and the head `AddBuf` adds is in no slot yet:
  the distinct heads of the window number fewer than `N` (`RoomInRing`, by the
  pigeonhole principle), hence the slot it writes has been read.
- `Events`: `used_event` is `last_used_idx` until a bogus entry is passed over, and
  nothing is drained while `GetBuf` is inside.

Both rings are seen as windows: a length, the distance of two free-running
indices modulo `IdxMod`, and an entry for each place. `Distance`, `StepOfEnd`
and `StepOfStart` say what a step of either index does to the length,
`SlotsDiffer` that `N` places in a row have slots of their own, also across the
wrap, because `N` divides `IdxMod`. With these, each action does one thing to a
window: it drops the first entry (`AvailFetched`, `UsedPassed`), adds one at the
end (`AvailPublished`, `UsedPut`) or writes behind it (`AvailWritten`).

`VirtQueueImplementsRequestQueue` needs nothing more than this `IInv`. Seven
actions are one step each of `RequestQueue` (`SubmitStep` for the store to
`avail.idx`, `StartStep` for the fetch, `FinishStep`, `DisturbStep`, `SkipStep`,
`ReturnStep`, `LeaveStep`); the others, every store of AddBuf before the last, the
device's walk along a chain and the freeing of a chain, change nothing that can
be seen from outside (`InnerStep`). `AvailBecomes` and `UsedBecomes` say what a
step does to the windows entry by entry; `GivenStep`, `WorkingStep` and
`DoneStep` turn that into sequences and sets of requests (`Grown` and `Shrunk`
are what `Append` and `Tail` come to). Two facts carry the argument. A request
means the same as long as its head is published (`TicketKept`). And what is
submitted has a head that is in no ring and not with the device (`IdsPublished`),
so an identifier is not used again before it came back.

### What stays with TLC

- Liveness, that is every property a run checks under `WF_` or `SF_`, and
  `ENABLED`: out of the prover's reach. They are `RequestsReturn`, `CallsReturn`,
  `PollersReturn`, `PixelsShown`, `WaitersWake`, `Reacquired`, `HookReturns` and
  `HostModeListed`.
- What happens outside the theorems' hypotheses: `NoWrap` and `NoTimeout` exclude
  what the code does not exclude, and `MCBoardAllocHuge` and `MCQueueIOStale` show
  what happens then.
- `ListSound` and `MonitorServed` of `Modes`: the list is built by folds over the
  timings, and what a fold computes needs induction over data.
- `CopiesExact`, `InsideOnly`, `LineFollows` and `Signalled` of `Blit`: pixel
  loops, folds again.

Leaves that name a time limit (`ZenonT(60)`, `SMTT(60)`) are those the default
limit might cut short on a slower machine; where one of the two provers is much
faster, it is the one named.

## Where code and comments disagree

A counterexample shows each of these:

| Where | What happens | Run or configuration |
|---|---|---|
| `chip_p96.c:672` | the first of two vblank waiters is never woken ("the first task remains registered and its signal eventually fires", `:639`) | `flush_task_two_waiters` |
| `chip_alloc.c:172` | a request near 2^32 wraps and passes the out-of-memory test; "Slot table is kept sorted by offset" (`:36`) no longer holds | `MCBoardAllocHuge.cfg` |
| `chip_gpu_cmds.c:135` | a late answer is taken for the answer to the next command of the same task, which the drain (`:97`) was to prevent | `MCQueueIOStale.cfg` |
| `chip_flush.c:339` | a conversion mixes old and new framebuffer fields and writes past the end in spite of "Clamp to visible screen dimensions and GPU resource" (`:345`) | `MCDisplayTorn.cfg` |
| `chip_init.c:1629` | the interrupt server is never removed when the bring-up fails, and points to the freed `gs` ("Each label frees resources acquired up to that point"); without memory for the framebuffer `cmd3d_buf` is kept | `MCInitCardLadder.cfg` |
| `chip_gpu_cmds.c:938` | the number "used to encode a unique DisplayID" (`:922`) is taken modulo 64 and counted up for known modes too | `MCModesIDs.cfg` |
| `chip_gpu_cmds.c:697` | a sender looks at one completion for each wakeup: woken by the completion of a call that gave up, it takes that and sleeps with its own answer behind it, until the control queue interrupts, in spite of "Drain any stale responses on timeout to keep the queue healthy" (`:720`); `CallsReturn` of `Cursor` names the case | `MCCursorStale.cfg` |
| `chip_gpu_cmds.c:864` | the position is read again after it was sent, while the other task may have changed it, and `cursor_last_sent` has "drifted from what the GPU is showing" (`:862`); `ShowsLast` not while callbacks overlapped | `MCCursorDrift.cfg` |
| `chip_virgl_2d.c:41` | "no documented way to un-poison a context ... so we simply run in 2D mode for the rest of the session": `chip_virgl_recover_2d` destroys and recreates it, and the flush task calls it (`chip_flush.c:894`); `Reacquired` states what the code does | `MCVirglSession.cfg` |
| `chip_virgl_2d.c:612` | "falling back to 2D-only mode" leaves the scanout disabled | `MCVirglFallback.cfg` |
| `chip_blit.c:62` | "Caller guarantees no per-row overlap": a leftward copy within a row hands `CopyMem` overlapping ranges | `MCBlitOverlap.cfg` |
| `chip_flush.c:400` | only a rectangle that "lay entirely off-screen" (`:395`) is to be skipped, but the clip does not subtract the panned origin, which the conversion adds (`:373`): on a panned screen larger than the display a drawing that shows is not announced | `MCBlitPanned.cfg` |

The following were met while modelling. The modules contain the behaviour
unless it says otherwise, and the properties are stated with the condition that
excludes it:

| Where | What happens | Condition |
|---|---|---|
| `virtqueue.c:269` | a bogus used entry is passed over without moving `used_event` | `NoLostInterrupt` only while there was none |
| `chip_gpu_cmds.c:66` | after a timeout on its queue, a caller sleeps although its answer is in the ring behind a stale one, as on the cursor queue above | `CallsReturn` of `QueueIO` only in an instance without timeouts |
| `chip_flush.c:828` | a vblank waiter sleeps while the display is off | `WaitersWake` only while it is on |
| `chip_flush.c:661`, `chip_p96.c:715` | a signal prepared, or an `ITimer` copied, before the flush task retracted it is used after | `StaleOnlyAfterExit`: only after a shutdown |
| `chip_gpu_cmds.c:402` | `fb_is_blob` stays set after the resize; nothing is transferred any more | `PictureSettles` not after the replacement of a blob |
| `chip_p96.c:350` | a mode whose resize failed cannot be asked for again | `ModeApplied` only until a step fails |
| `chip_init.c:265` | without virgl the framebuffer takes the cursor's resource number | the display run sets `HasVirgl = TRUE` |
| `chip_init.c:283` | rolling back a scanout that was only late destroys the shown resource | `KeepsDisplaying` and `BackingAlive` only until a command is given up on |
| `chip_init.c:1317` | `board_mem` may be an alias of `fb_mem`, which the first mode change frees | `PublishedComplete` says it is there at the end of the bring-up |
| `chip_init.c` | on failure the device is not reset; `board_init` keeps the memory of its patch and `hook_InitBoard` the chip library; `has_virgl` stays set without buffers if the device window is missing; missing notify and isr windows are not noticed; a `RESOURCE_CREATE_BLOB` that is only late makes the `CREATE_2D` with the same number fail | `NothingLeaked` of `InitCard` names what may be left |
| `chip_gpu_cmds.c:288` | a framebuffer in more than 253 fragments has its list cut short | not modelled: a DMA list is whole or absent |
| `chip_modes.c` | "skip the 0/1 dummies", but entry 1 is a real 640x480; a `GET_DISPLAY_INFO` that fails loses the event | `ModesOffered` from entry 2 on, `HostModeListed` only without failures |
| `chip_p96.c:888` | the refresh request of a mode change is cleared by a move already under way | none: `ShowsLast` compares with what was sent |
| `chip_gpu_cmds.c:657` | a command dropped because the queue is full counts as sent | `ShowsLast` not after one (`dropped`) |
| `chip_gpu_cmds.c:816` | a refused backing leaves resource 2, and every later create is refused | none needed for `CreatedMeansBacked`: the cursor counts as absent |
| `chip_p96.c`, sprites | a picture of no size clears without hiding; of a wide one 32 of 64 columns are taken | pixels of the picture are not modelled |
| `chip_virgl_2d.c`, `chip_composite.c` | a shader called "non-fatal" poisons the context and so fails the rest; while the device refuses, the context is recreated every cycle; early returns of a composite leave its blend bound; `comp_alloc_handle` and `next_resource_id` are used by several tasks without a lock; a resize during a recovery can leave a scanout that is not `resource_id` | `ResourcesTracked` and `Reacquired` hold in spite of them; pixels are not modelled |
| `chip_virgl_2d.c:136` | "handled in chip_SetGC by tearing down" the context, which `SetGC` does not do; it recovers because the next transfer fails | `Reacquired` |
| `chip_state.h:157` | `io_lock` is called non-recursive and is created recursive | `MayEnter` lets its owner in |
| `chip_blit.c:10` | "full Minterm decode" stands for five minterms; templates and patterns ignore mask and `INVERSVID`, planar copies the minterm | `Combined` is what the code does |

## Not modelled

- `tools`, `installer`, `minigl`: command line utilities, a script, and a
  library for one task above the encoders, with no state the driver shares.
- The virgl encoders (`chip_virgl.c:60` on) lay out words of a command stream;
  a stream is only whether the device accepts it. `chip_virgl_fill_rect` and
  `chip_virgl_blit_rect` always decline.
- Arithmetic without state: pixel clocks and refresh times (`chip_p96.c:299`,
  `:590`), the CVT timings of a `ModeInfo`, the row converters
  (`chip_flush.c:154`), the planar conversions (`chip_blit.c:166`, `:214`), pens,
  blend factors and vertices.
- Code nothing calls, or that only logs: `chip_virgl_shutdown_2d`,
  `chip_irq_remove`, `chip_CursorHide`, `chip_comp_install_hook`,
  `chip_dump_displayinfobase`. The double-buffer path of `chip_flush_all`
  (`double_buffer = FALSE`, `chip_init.c:1205`).
- The MMU attributes of mappings (`chip_init.c:105`), `chip_ConfigureDisplay`,
  `SetSpriteColor`, the bytes of PCI capabilities.

The coverage of the components follows from this: those called partly modelled
in `PROJECT.json` lack one of the above.

## Plan

The components with state are modelled, and every invariant a run checks is a
theorem but those of `Modes` and `Blit`. What is left:

1. `QueueIO` on top of `RequestQueue` itself: its two queues as instances of the
   specification that `VirtQueue` implements.
2. The virgl path of `chip_flush_all` joined with the picture of `Display`.
