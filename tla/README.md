# Verification of sample-code

TLA+ models of the kernel and user space samples in this repository: the
dma-buf exporters and importers (`src/dma-buf`), the DRM drivers and modeset
applications (`src/drm`), the mmap drivers (`src/mmap`) and the BufferQueue
tests (`src/Android`). The samples are small; what is hard about them is what
other actors do between two of their lines: other threads, the vblank timer,
page faults, the last close of a file, an allocation that fails.

Paths below are relative to `src/`.

## 1. Inventory

| component | state it keeps | operations | interacts through |
|---|---|---|---|
| `dma-buf/09` ION exporter | per buffer a page array and its length (`struct ion_data`); free pages of the machine | `ion_ioctl` (allocate, export, install a descriptor), `ion_release`, kmap, vmap, map, mmap, cpu access | file count of the dma_buf, descriptors, `attachment->priv` |
| `dma-buf/08` importer | nothing between calls; inside a call a reference, a vmap, an attachment | `importer_ioctl` | the same, by descriptor |
| `dma-buf/02`-`08` page exporters | one page in one dma_buf, `dmabuf_exported` | load, unload, `exporter_ioctl`, `exporter_misc_mmap`, `exporter_release` | descriptors, mappings, the exported symbol |
| `dma-buf/02,03,06,07` importers | as above | `importer_init`, `importer_ioctl` | symbol or descriptor |
| `dma-buf/01` | one dma_buf | load | nothing |
| `drm/driver/vkms` `vkms_drv.c`, `vkms_drv_5.c`, `vkms_drv_6.c` | hrtimer, plane and CRTC state, queued event | enable/disable vblank, timer callback, atomic enable/disable/flush, legacy page flip | callbacks of the DRM core, vblank locks, events on the file |
| `vkms_drv_1.c` to `vkms_drv_4.c` | registered objects | load | DRM core |
| `drm/application/modeset-page-flip` | two framebuffers, `terminate`, the static `i` | main loop, flip handler, signal handler | ioctls, events, SIGINT |
| the other modeset applications | framebuffers, dumb buffers, mappings, property blobs | set a mode, a plane, a property, remove everything again | ioctls, keys, SIGINT, the display they share |
| `drm/driver/cma`, `drm/driver/my-gem`, `drm/application/my-gem` | GEM objects, handles, mappings | create, map, destroy a dumb buffer | ioctls, mmap |
| `mmap/mmap1.c` to `mmap4.c`, `test.c` | three pages, allocated at load or on fault | `my_mmap`, `my_fault` | page tables, page counts, mmap_sem |
| `Android/BufferQueue` mytest 1 to 3 | slots of a BufferQueue | connect, dequeue, queue, acquire, release, attach, detach, in one process or as clients of a server | binder, death notices |

Behaviours that are hard, and the properties that make the components correct:

* **Reference counting across threads.** An importer works on a buffer while
  others close and unmap it; the pages go back exactly when the last holder
  leaves. (`RefcountExact`, `AccessWithinBuffer`, `AttachmentsOfUsers`,
  `ImplementsSharedBuffers`)
* **Partial failure.** The n-th page cannot be allocated, the descriptor table
  is full, mapping an attachment fails. (`PagesConserved`, `ExitReclaims`,
  `OkMeansFd`, `AllocFailureReturns`)
* **A reference that is handed out more often than it exists.**
  (`CountsShort`, `UndefinedOnlyIf`, `KeptForGood`, `TestsCanBeRun`)
* **A chain of events that nothing restarts once it breaks**, next to a timer
  that must follow the enabling of vblanks. (`OneFlipOnItsWay`, `NeverBusy`,
  `TimerFollowsVblank`, `ReadReturns`, `TerminatesUp`, `ImplementsFlipChain`)
* **A lock held while waiting for somebody who wants it.** (`Terminates`)
* **Faults that race** for a page of one device. (`RefsExact`, `LossBounded`,
  `SigbusOnlyIf`, `ReadBackUnlessReplaced`, `ProgramEnds`)
* **Programs that test no result and clean up in one place only.** Any call may
  fail, SIGINT may come before the clean-up, and another program uses the same
  display. (`ShownIsPainted`, `LitUnlessFailed`, `LeavesNothing`,
  `MemoryComesBack`)
* **A driver that forgets references** and publishes a handle before the memory
  behind it. (`RefsExact` of `Modeset`, `ForeignOnlyIf`, `ShortOnlyIf`)
* **Clients of a queue that die at any point**, and are noticed late.
  (`AloneReadsOwn`, `DequeueReturns`, `LocalCallsSucceed`)

The complete list, each hazard at its line, is in `PROJECT.json`.

## 2. Modules

```
DmaBuf            dma-buf core and file layer, as the drivers use them
  Importer        importer_ioctl over it
    IonExporter   (EXTENDS DmaBuf) ion_ioctl and the callbacks of dma-buf/09
    IonShare      EXTENDS Importer, IonExporter: one process that uses both
      IonShareProofs
      MCIonShare
    PageExporter  the exporters of dma-buf/02 to 08, with their importers
      PageExporterProofs
      MCPageExporter
SharedBuffers     abstract: who holds which buffer, no counts
Vkms              the display driver and the commits of the DRM core
  PageFlip        the page flip application on it
    PageFlipProofs
FlipChain         abstract: request, show, one event
MmapDev           the four mmap drivers and page faults
  MmapTest        processes that run test.c, with more threads
    MmapTestProofs
    MCMmapTest
DumbBuffers       GEM objects of the drivers cma, my-gem and vkms
  Modeset         the modeset applications and my-gem/dumb.c on them
    ModesetProofs
    MCModeset
BufferQueue       the three BufferQueue tests
  BufferQueueProofs
```

Each component ends with its inductive invariant `IInv`; the theorems about it are
in the module with `Proofs` in its name.

### DmaBuf, Importer, IonExporter, IonShare

`pc[t]` is the point between two calls at which thread `t` stands inside
`ion_ioctl` or `importer_ioctl`; `buf[t]` the dma_buf of that call. `fcount`,
`fdt`, `vma` and `attachments` are the core's file counts, the descriptor table,
the mappings and `dmabuf->attachments`. `IonExporter` adds `pages` and `npages`
(the two fields of `struct ion_data`), the free pages, what an `ion_alloc` still
wants, and `access`: the pages a thread or a mapping reaches at the moment.

Every action is one call of the driver into the core, with everything it changes:
`AllocPage` is a turn of the loop of `ion_alloc`, `IonAllocErr` its whole error
path, `ion_release` is conjoined with each action that drops a reference and puts
all pages when it was the last. A failing call is an action of its own
(`AllocPageFails`, `DmaBufExportFails`, `DmaBufFdFails`, `ImporterAttachFails`,
`ImporterVmapFails`). A NULL or ERR_PTR that is dereferenced kills the thread
(`"oops"`), with the references it held. `lost` is history: buffers whose only
reference was dropped on the floor.

### PageExporter

One module for seven drivers; `stage` is the directory. The stages differ in
three predicates: how others come to the buffer (`HandsOutFds`, `MapsDevice`,
`SymbolImporter`, ...), which tests the importer runs (`CpuTest`, `DmaTest`),
and whether `exporter_release` clears the pointer (`ClearsPointer`).
`exporter_ioctl` calls `dma_buf_fd` without taking a reference, as the code
does; `handed[b]` counts these calls. The ioctl is two steps: it reads
`dmabuf_exported`, without a lock or a reference, and `dma_buf_fd` installs the
descriptor later (thread state `"ioctl"`). A release is two steps as well: the put
that makes the count zero puts the buffer into `dying` (`Fput`), and
`exporter_release` runs when `__fput` does, on the way of that thread back to user
code. In between the file is dead and the pointer still set. `closer[b]` is
history: the thread that dropped the last reference. The first use of a released
dma_buf ends the behaviour in `undef`: nothing can be said of what follows.

### Vkms, PageFlip

The DRM core is external. A commit occupies one of two slots and moves through
queued, (disabled,) flushed, hw_done, waiting, woken; the driver's callbacks are
the transitions the source gives. The vblank timer is `timer` and `callback`;
`lock` is vblank_time_lock, held by the core across `vkms_disable_vblank`.
`HandleVblank` needs the lock and `vkms_disable_vblank` needs the callback to be
over (`hrtimer_cancel`). `smp` is chosen at the start: on one processor the timer
cannot fire while the lock is held with interrupts off, and code that wants the
lock does not run during the callback. `driver` chooses between `vkms_drv.c` and
`vkms_drv_5.c`, which flips and sends the event inside the ioctl.

`PageFlip` is `main` statement by statement from the framebuffers on, and any of
the calls on them may fail, with nobody looking. `fbs` are the framebuffers
that could be made (a buffer without one keeps fb_id 0, which the later calls
refuse), `SetCrtcFails` leaves the display off, and `drmModePageFlip` is refused
for two kinds of reasons: with EBUSY while the last commit is not flushed, which
is the application's own doing, and for any other (no memory, no framebuffer, no
display, the DRM master lost), which `failed` records. A refused flip has no
event. `sigint_handler` may run at any time. A signal does not end a blocked read
(`signal` installs with SA_RESTART).

### MmapDev, MmapTest

`pte[p][i]` is the page table of process `p`, `count` the page counts, `fault[t]`
the progress of a fault. A fault is split where another thread can come between:
the test of `pages[pgoff]`, its store, the insertion. The last read of
`pages[pgoff]` is a data race: the compiler may reload it or use the value it
has, and `Candidates` offers both. `vm_insert_page` returns EBUSY for an entry
that is not empty and ENOMEM when there is no page table to be had, which is
possible in the instances with `shortage`; `mmap2` and `mmap3` make SIGBUS of
both. `finish_fault` gives the reference back instead. `MmapTest`
runs `test.c` in each process; helpers are further threads of a process.

### DumbBuffers, Modeset

`refs[o]` is the reference count of a GEM object; `handle`, `fb` and `vma` say
which object a slot `<<p, b>>`, buffer `b` of process `p`, knows under a handle, a
framebuffer and an address. `memory` are the objects with contiguous memory,
`painted` those a program has filled, `foreign` the mappings that show something
else. The drivers differ in four predicates and actions taken from their tables
and functions: `FreesObjects` (`gem_free_object_unlocked`), `VmaPuts`
(`gem_vm_ops`), how a buffer is made (`drm/driver/cma` publishes the handle, then
calls `dma_alloc_wc`, and keeps a second reference; when `drm_gem_handle_create`
fails it goes on without one; the others use the CMA helpers), and whether there is
a display and atomic modesetting. `dumb_size` is pitch and size in words of
`WordSize` bits.

A program is the sequence of its calls, `todo[p]`: `modeset_create_fb` and
`modeset_destroy_fb` are written once and the programs put together from them as
their `main`s are. A call is an action, and its failure another, after which the
program goes on with the next call, as the code does. A failed mmap kills the
program at the first access. `Exit` may happen at any time (SIGINT), and then the
kernel closes the device: handles, framebuffers, mappings and blobs go, and a
display that shows one of the framebuffers goes off. The first process that has
the device open is its master and only its calls change the display; that, the
rules for a primary plane without atomic modesetting (it must cover the CRTC),
and `drm_framebuffer_remove` are external.

### BufferQueue

`mytest`, `mytest2` and the client of `mytest3` are sequences of calls, too.
`slots[i]` is the state of a slot of the queue, `queue` its frames. libgui is
external, and modelled as far as the tests can tell: synchronous mode with two
slots, one to dequeue and one to acquire; free slots with a buffer are preferred;
`queueBuffer` wants a requested slot; the buffer of a frame is sent once to a
consumer; a producer that has gone disconnects when its death notice arrives,
which frees the slots and makes the frames stale, but leaves them in the queue.
The end of a client and the arrival of the notice (`binderDied`) are two steps,
and the next client may start between them. `dequeueBuffer` is two steps
(`"dequeue"`, `"wait"`), since the connection is not looked at again after the
wait. A client of `mytest3` asks for its two services one after the other, and the
server registers them one after the other, or fails to. A service that is missing
is a null pointer in `nulls`, which kills the client where it is first used: in
`connect`, or in `acquireBuffer`, after it has queued a frame. In `mytest2` the argument of line 61,
`&Slot`, which names nothing, is read as `&slot`.

### Abstract specifications

`SharedBuffers` knows who holds what; pages go back in the step in which the last
holder leaves. `IonShare` implements it with `holders` as descriptors, mappings,
calls and lost references and `held` as the page arrays. `FlipChain` says that a
flip is requested only when none is outstanding, and that the buffer appears and
its one event becomes readable in the same step; only closing the device drops
either. `PageFlip` implements it with the framebuffers of user commits as
`requested`.

## 3. Runs

| run | instance | states | shows |
|---|---|---|---|
| `ion_share_safety` | 2 threads, 2 descriptors, 1 mapping, 3 buffers, 3 pages, at most 2 pages a buffer | 8 732 (with symmetry) | type, exact counts, page conservation, accesses, attachments, refinement of `SharedBuffers` |
| `ion_share_live` | 2 threads, 1 descriptor, 1 mapping, 2 buffers, 2 pages | 14 793 | every driver call returns or its thread is killed; exit gives the pages back |
| `ion_fd_exhausted` | 1 thread, 1 descriptor | violation | ION_IOC_ALLOC returns 0 although no descriptor was installed |
| `ion_alloc_error` | the same | violation | the error branch of `ion_ioctl` is unreachable, the ERR_PTR is dereferenced |
| `page_safety` | stages 2 to 8, 2 threads, 2 descriptors, 1 mapping, 3 buffers | 73 465 (with symmetry) | which calls and which races lead to the use of a released buffer |
| `page_rerun` | stage 8, 1 thread | violation | descriptor, close, descriptor: `exporter_ioctl` uses a released dma_buf |
| `page_flip` | both drivers, one or several processors | 19 030 | the flip chain with any call failing, the timer, termination on one processor, refinement of `FlipChain` |
| `page_flip_smp` | the same | violation | `vkms_disable_vblank` and the timer callback wait for each other |
| `mmap_faults` | four drivers, 2 processes, one with a second thread, 2 offsets, 3 pages | 326 947 | counts, what SIGBUS and lost pages require, every program ends |
| `mmap_race` | `mmap3`, 2 processes of one thread | violation | the second allocation replaces the page the first process has written |
| `modeset_programs` | drivers `vkms_drv`, `vkms_drv_5`, `my-gem`, `cma`; one process that runs any program, one that runs `modeset-atomic-crtc` or `my-gem`; 2 GEM objects; 6-bit words | 159 771 | counts, what the display shows, what is left behind, what a short or foreign buffer requires, memory comes back |
| `buffer_queue` | the three tests, two clients | 635 231 | a client that is alone reads no other's frame and dies only for want of a service, no call of the local tests fails, `dequeueBuffer` returns |

**Why these bounds.** Two threads reach every race in the ION and page drivers:
each hazard involves one thread inside a call and one that closes, unmaps or
allocates. A buffer of two pages lets an allocation fail after a first page, and
three pages let two allocations starve each other. Two descriptors allow one
buffer to be known under both; three buffers allow one released, one held and
one being made at the same time. Reference counts, commits, events and page
counts need no bound of their own: they are limited by the number of holders, of
slots, by the flip chain, and by page table entries. In `mmap_faults` two
offsets, the second only touched by a helper, and three pages let an offset be
allocated twice and the memory be exhausted; the code has three pages, which
behave alike. `Slots` of `Vkms` is two because the core lets a third commit wait
for the first. In `modeset_programs` the second process runs what acts on the
first in different ways: `modeset-atomic-crtc` wants the display and has a blob,
`my-gem` takes memory only. Two objects serve `modeset-double-buffer`, or one
buffer for each process, and run out when both want more. With 6 bits, widths up
to 5 and depths of 4, 12 and 16 bits give rows that overflow, rows that are not a
whole number of bytes, and rows that are neither. In `buffer_queue` two clients
overlap or follow each other any number of times, and can leave more frames in
the queue than it has slots.

`CHECK_DEADLOCK FALSE` is set for `PageExporter`, whose behaviours end with the
first undefined step, and for `Modeset`, where both processes may be stuck behind
mmap_sem in `drm/driver/cma` (`MmapKilled`).

**Fairness.** `ion_share_live`: weak fairness of the rest of a call for each
thread, and of the tear-down of an exiting process: the kernel schedules threads
and the driver code never waits. Nobody is forced to make a call or to exit.
`page_flip`: weak fairness of the application, the timer and the end of a
disable; strong fairness of each commit, because on one processor the timer
interrupts it again and again, for microseconds every 16.7 ms, so a step that
waits for the callback to end is enabled infinitely often, not always.
`mmap_faults`: weak fairness of each program, each fault and the reaping of dead
processes. `modeset_programs`: weak fairness of the next call of each process,
except of the key it waits for. `buffer_queue`: weak fairness of each client, of
the server and of the delivery of a death notice. A client that waits for a slot
may lose it to others as long as new clients come, so `DequeueReturns` speaks of
behaviours in which no more are started. Nobody has to start a program, to press
a key or Ctrl-C.

**What the properties except.** In `drm/driver/cma` no memory comes back: there is
no callback that frees an object, and two references are never put. `RefsExact`
and `MemoryComesBack` therefore speak of the drivers with the CMA helpers.
`ForeignOnlyIf` and `ShortOnlyIf` list what has to happen in `drm/driver/cma` for
a wrong mapping or a short buffer; the programs here ask for 32 bits a pixel at
sizes where neither rounding nor overflow occurs. A second thread that maps a
handle early is a client the driver has to expect, not one of these programs.

`UndefinedOnlyIf` lists the ways to the use of a released buffer. `exporter_ioctl`
uses one in every stage that has it: in stage 8 after a call of the same thread, in
4, 6 and 7 only when another thread dropped the last reference during the call, or
before it and its release has not run. `OneFlipOnItsWay`, `ReadReturns`,
`TerminatesUp` and `Alternates` say what holds until a flip is refused for another
reason than the flips before it, and that nothing is on its way afterwards.
`SigbusOnlyIf` names both ways to SIGBUS, and `LossBounded` speaks of allocations
that succeed. A client that is alone (`AloneReadsOwn`) may lack a service.

**Findings** are the five violations above, quoted line by line in
`PROJECT.json`. On several processors the deadlock of `page_flip_smp` is why
`TerminatesUp` and `ReadReturns` speak of one processor only.

One more defect of `modeset-page-flip.c` has no run of its own, because the model
makes it a choice: lines 84, 124 and 127 (and 48) ignore their results, and any
failure leaves the application in `read` for ever, deaf to SIGINT, also on one
processor (`ReadsForEver`). `OneFlipOnItsWay` proves that nothing is on its way
then, and the other properties of `PageFlip` except that state by name.

## 4. Proofs

Every safety invariant, every action property and both refinements that the
passing runs check are theorems: they hold for all threads, processes, clients,
descriptors, buffers, pages and sizes. Each proof module has a theorem
`Invariance` (`Spec => []IInv`), and the others follow from it.

| module | theorem | property |
|---|---|---|
| `IonShareProofs` | `TypeCorrect` | `TypeOK` |
| | `RefcountsAreExact` | `RefcountExact` |
| | `PagesAreConserved` | `PagesConserved` |
| | `AccessIsSafe` | `AccessWithinBuffer` |
| | `AttachmentsAreOfUsers` | `AttachmentsOfUsers` |
| | `Refinement` | `ImplementsSharedBuffers` |
| `PageExporterProofs` | `TypeCorrect` | `TypeOK` |
| | `CountsAreShort` | `CountsShort` |
| | `UndefinedIsExplained` | `UndefinedOnlyIf` |
| | `BufferIsKept` | `KeptForGood` |
| `PageFlipProofs` | `TypeCorrect` | `TypeOK` |
| | `OneFlipAtATime` | `OneFlipOnItsWay` |
| | `FlipsAreAccepted` | `NeverBusy` |
| | `TimerIsSafe` | `TimerFollowsVblank` |
| | `BuffersAlternate` | `Alternates` |
| | `Refinement` | `ImplementsFlipChain` |
| `MmapTestProofs` | `TypeCorrect` | `TypeOK` |
| | `CountsAreExact` | `RefsExact` |
| | `LossIsBounded` | `LossBounded` |
| | `SigbusIsExplained` | `SigbusOnlyIf` |
| | `WhatIsWrittenIsRead` | `ReadBackUnlessReplaced` |
| `ModesetProofs` | `TypeCorrect` | `TypeOK` |
| | `ReferencesAreExact` | `RefsExact` |
| | `NothingIsLeft` | `LeavesNothing` |
| | `ShownIsFilled` | `ShownIsPainted` |
| | `DisplayStaysLit` | `LitUnlessFailed` |
| | `ForeignIsExplained` | `ForeignOnlyIf` |
| | `ShortIsExplained` | `ShortOnlyIf` |
| `BufferQueueProofs` | `TypeCorrect` | `TypeOK` |
| | `AloneClientsReadTheirOwn` | `AloneReadsOwn` |
| | `LocalCallsAllSucceed` | `LocalCallsSucceed` |

**Assumptions.** They are named, in the modules that declare the constants.
Threads, processes, descriptors, mappings, pages, objects and clients are finite
sets, `None` is in none of them, and threads, descriptors and mappings are
different things (`HolderAssumption`, `NoneAssumption`, `IonAssumption`,
`FiniteAssumption`, `ProcAssumption`, `ObjectAssumption`, `ClientAssumption`): what
holds a buffer is counted by the cardinality of such sets. `StageAssumption`,
`DriverAssumption` and `TestAssumption` name the programs there are. The page flip
application has the two framebuffers 0 and 1 (`FbAssumption`). A thread belongs to
one process, and one thread of it runs `main` (`ThreadAssumption`,
`MainAssumption`). There are at least as many pages as offsets, since `mmap1`,
`mmap2` and `mmap4` allocate one for each when they are loaded (`SlotAssumption`).
`WordAssumption` says that 2^WordSize is a positive number, because the provers
know nothing of `^`. Sizes of a dumb buffer are positive (`RequestAssumption`).

**IonShare.** None of the properties is inductive alone. `RefcountExact`
needs to know that a thread inside a call has a buffer (`Control`) and that a new
dma_buf is known to its creator only (`FreshPrivate`), or the export would not
create a first holder. `PagesConserved` needs that an array being filled belongs
to one thread and has room (`Filling`) and that `npages`, which `ion_release`
counts with, is the length of the array (`ArraysMatch`). `AccessWithinBuffer`
needs that access exists only in the steps that grant it (`AccessInv`), and
`RefcountExact`: pages are put when the count reaches zero, and a thread or
mapping with access is itself a holder. The proof has three layers. First, each
action is classified by its effect on the holders (`HolderAdded`, `HolderDropped`,
`HolderMoved`, or none) and on the pages: `Effect` is the disjunction, and
`NextEffect` shows that every step has one. Then each conjunct of `IInv` is
preserved by an argument over the few effects instead of the many actions. Finally
each effect maps to a step of `SharedBuffers` or to a stutter (`NextRefines`),
which gives the refinement.

**PageExporter.** A count is the number of those who refer to the buffer, plus one
for the exporter, less the descriptors that were handed out without a reference
(`CountsShort`). That is preserved only as long as a released
buffer is referred to by nobody but through a second descriptor (`LeftOver`), and
as long as `dmabuf_exported` is the one live buffer, or one whose release is still
to run, or dangles in stage 8 alone (`PointerInv`, `DyingInv`). The buffer of a
failed load is known to nobody (`LostInv`). `Raced` is about the two who work on a
buffer without a reference, a thread between the read of the pointer and
`dma_buf_fd` and an importer module: when their buffer is released it was another
thread that dropped the last reference, since a thread makes one call at a time and
runs its own releases before it makes the next; but for the ioctl in stage 8. A use of
a released buffer then needs a second descriptor, the pointer of stage 8 or such a
race: `UndefinedOnlyIf`.

**PageFlip.** `TimerInv` ties the callback to the state of the hrtimer, `CommitInv`
says that only the newest commit is before its flush and still owes its event, and
`AppInv` what holds at each position of `main`: no flip before the loop, exactly
one from the first request until the handler runs, and none once one was refused.
`OffInv` says when the display is off and that no commit is left from the time it
was on: a flip on a display that is off must find nothing pending. `Alternates`
needs `LastFlip`, that the buffer `i` of the application is what is shown or about
to be, and with it the refinement of `FlipChain` follows action by action; a flip
that is refused is a stutter.

**MmapTest.** `RefsExact` counts page table entries and faults. It is proved through
the set of references of a page, to which a step adds one, from which it takes one,
or which it leaves alone. `LossBounded` needs that each thread allocates at most
once for an offset while pages are left (`LossInv`), since a thread that finds the
store of another does not allocate. `SigbusOnlyIf` needs that an entry that
appears during a fault is the work of another thread of the process (`RaceInv`);
otherwise `vm_insert_page` fails only in a shortage.
`ReadBackUnlessReplaced` needs that what a driver, a mapping or a fault has for an
offset was allocated for it (`OffsetInv`) and that all of that has the string from
the write on (`WrittenInv`).

**Modeset.** The proof speaks of no program. `InOrder` says what the programs have
in common (a buffer is created once and before it is used, filled before it is
shown; what was done is undone later; a key is read while the display is on). It
is shown once for each program, and once for the rest of a sequence that satisfies
it; everything else follows from it and from the calls that are left. `BufferInv`
says of a buffer that nothing exists before its creation (`Unused`), that whatever
exists has its undoing ahead (`Undone`, from which `LeavesNothing`), and that
handle, framebuffer and mapping are those of one object (`Agree`); `Filled` gives
`ShownIsPainted`. `CountInv` holds for `drm/driver/cma`, too, and keeps an object
that is referred to from being reused. `DisplayInv` is what a program finds between
two keys.

**BufferQueue.** `InProgram` says that a client is at a place of its program. The
rest is what a client that is alone finds there (`Progress`, `MytestQueue`,
`Mytest2Progress`), call by call. To be alone it must have started when nobody
ran and no notice was outstanding, and `Connection` says what the queue is then:
nobody is connected (a connected client runs or has a notice), and so all frames
are stale and no slot is acquired or sent. It also says how far the server has come
while there is no consumer: no service is registered yet, so a client that has the
producer finds a queue it can connect to. A client without the consumer goes through
the same places up to `acquireBuffer`. `Mytest2Progress` follows the slots
through `cancel`, `attach` and `detach`: the new buffer gets the other slot, and so
the second dequeue, which is not followed by a request, gets the slot that was
requested first.

TLC checked each `IInv` as an invariant of the runs' instances before it was proved;
that is also how several of its parts were found.

**Only model-checked:** the liveness properties (`SyscallsReturn`, `ExitReclaims`,
`TerminatesUp`, `ReadReturns`, `ProgramEnds`, `MemoryComesBack`, `DequeueReturns`),
since fairness and `ENABLED` are out of the prover's reach.

## 5. Not modelled

* `dma-buf/01`: nobody can reach its buffer.
* Contents of buffers, except in `MmapTest`, where they are what the test prints.
* Integer widths of `PAGE_ALIGN(size) / PAGE_SIZE`, in an int in `ion_alloc`.
* Loading and unloading of the DRM drivers; `vkms_drv_1.c` to `vkms_drv_4.c` are
  nothing else.
* `vkms_drv_6.c`: it has no `enable_vblank`, and whether the DRM core then refuses
  to wait for a vblank or calls a null pointer depends on its version.
* Queries of the modeset applications (resources, connectors, property ids), which
  are assumed to succeed, and the interior of libgui and of the DRM core, which
  are external.
* Mappings that exceed a device, and partial mappings of a buffer.
* In `PageFlip`, a failed mmap or `drmModeGetResources`, which kills the program
  before it has shown anything (`Modeset` has that end of a program), and a failed
  `drmModeRmFB`: the commit that takes a framebuffer away succeeds.
* VM_FAULT_OOM of `mmap4`, after which the kernel repeats the fault, and a failed
  `remap_pfn_range` of `mmap1`, after which there is no mapping.
* A `dequeueBuffer` of a killed client that is still blocked in a thread of the
  server. Each would at most take one slot for nobody, and `DequeueReturns` already
  allows for slots that are held for clients that have ended.

## 6. Plan

Done in this order, most important first: ION sharing with its proofs, the page
exporters, the vblank timer and the page flip application, the mmap drivers,
dumb buffers with the modeset applications, the buffer queue.

Theorems, in this order: the ION exporter and its refinement, the page exporters,
the page flip chain and its refinement, the mmap drivers, the modeset applications,
the buffer queue.

Next: abstract specifications for the mmap drivers (one page per offset, given once)
and for the GEM objects of the CMA helpers (an object lives as long as somebody
knows it), with their refinements; and the safety half of the liveness properties,
that is, what holds where each of the programs can be blocked.
