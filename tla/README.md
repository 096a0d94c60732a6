# TLA+ models of the linux-kernel-ldd drivers

The repository is a collection of small Linux kernel modules, one directory per
subject, and one user-space KVM host program. They hardly call each other; what
they share is the kernel around them: processes that call their file operations
concurrently, signals, timers, tasklets and work queues that run beside them,
and a user who may unbind, remove or unload them at any time. That is where the
difficulty of this code lies, and what the models are about.

A driver `NN.name` below is `src/linux-device-drivers/NN.name`.

## 1. Inventory

| part | state it keeps | operations | who runs beside whom |
|---|---|---|---|
| 01.kernelnewbies | one kfifo, a writers' and a readers' mutex | open, release, read, write; init, exit | processes |
| 02.chardrvs | a kfifo, its two mutexes, the cached free space `avail` under a third mutex, a wait queue, an open count and its limit | open, release, read, write, ioctl, poll; init, exit, /proc, debugfs, sysfs reports | processes, signals |
| 03.mcdevdrvs | as 01, per minor | as 01 | processes |
| 04.time (jit) | per read: an allocated `jit_data` with a timer, a tasklet, a wait queue; jiffies | reads of jitbusy, jitsched, jitqueue, jitschedto, jitimer, jitasklet, jitasklethi, currentime | readers, timers, tasklets, signals |
| 05.workqueues (jiq) | one static `jiq_data` (seq_file, length, work, delayed work, tasklet, timer), one wait queue | reads of four /proc files; init, cleanup | readers, four contexts, signals, module removal |
| 06.pltdevs_load | two platform devices | init, exit | supplies the devices of 07 and 08 |
| 07, 08, 12 (pltdrv) | per device: node, cdev, fifo, sysfs group, minor; a count of bound devices | probe, remove, init, exit, file operations | bind and unbind of several devices, processes |
| 09.virtbus, 10.virtbusdevs_load | a bus and the devices on it | init, exit, registration of devices | module loading |
| 14.gpio_pulse | `enablepulse`, `pulsetime`, a timer, a pin | probe, remove, attribute stores, timer handler | writers, timer, unbind |
| 15.ds1307 | the clock's registers, one `rtc_info` for all clocks | probe, read and set the time, BCD conversion | the ticking clock, other clocks, transfers that fail |
| 16.virt_tty | `open_count`, a tty pointer, a timer, `virt_tty_prv` | open, close, timer handler, init, exit | tty core, timer, module removal |
| 17.dummy-usb-ttl-drv | none | probe and disconnect print | – |
| 18.usb-ttl-cp2102 | a mutex; the chip's interface, speed, line control and modem lines | open, close, set_termios, tiocmset, tiocmget | processes, USB requests that fail |
| 19.Qemu-pci-dev-creation | two registers, an MSI | BAR reads and writes | the guest driver |
| 20.pci-driver | enabled device, regions, mappings, vectors, irq, attribute files, driver data | probe, remove, show, store, interrupt | processes, bind and unbind, 19 |
| 21.ramdisk_blkdev | an array of sectors, a gendisk | requests, init, exit | several requests at once, module removal |
| kvm/host-kvm-example | a VM, a vcpu, guest memory | set up, copy the image, run, serve exits | sequential, every system call may fail |

The interactions across directories: 10 registers devices on the bus of 09; 06
supplies the devices 07 and 08 drive; 20 drives the device 19 emulates. Two pairs
meet in a name of the kernel without meaning to: 04 and 05 both create
/proc/jitimer, and 07 and 08 both register the class `pltdrv-fifoclass` and the
driver `plt-fifo-dev`.

What makes the parts correct, and is hard to test:

- *chardrvs*: the cached `avail` may never go wrong for good, although every
  refresh happens after the mutex that protects the fifo was dropped; a sleeping
  writer is woken; a write leaves no mutex locked; the open count is exact.
- *fifo drivers*: with one mutex per end, the ring is a queue, through counter
  wrap and through copies that fault half way.
- *jit, jiq*: a callback never works on a read that is over; a read that waits
  for a callback ends, and not before its time.
- *virt_tty, gpio_pulse*: a timer runs exactly while it should, and
  `del_timer`, which waits for nobody, is the only hole.
- *pltdrv, pci_drv*: every step of a probe may fail and is undone; numbers do not
  clash; a file that can be used finds what it needs.
- *cp2102*: what the driver reports is what the chip does, although any request
  may fail with or without effect.
- *ds1307*: a time that is read register by register while the clock ticks is
  never behind; a time that is set is set exactly.
- *ramdisk_blk*: requests, cut into segments in any way and several at a time, do
  what a disk promises, and the memory outlives them.
- *init and exit of all modules*: whichever call fails, what was taken is given
  back, once, and a module that says it is loaded has what it needs.
- *KVM host*: the guest starts with its image, whatever the reads return.

`PROJECT.json` lists the hazards one by one, each at its line, with the
properties that would catch it.

## 2. The modules

Every step of a model is the code between two points at which somebody else can
be seen: taking or dropping a mutex, reading or writing a shared field, waking,
sleeping, calling into the kernel. A variable `pc` (or `phase`, `op`, `cbk`)
says where an actor is; a field of a C structure keeps its name. Operators whose
comment begins with *Mutant* are small mistakes put beside the definition they
distort; the specifications do not use them, and every property is shown to fail
under one.

**CharDrvs** (02). `avail`, `usrs_cnt`, `ref_cntr`, the three mutexes and `wq_f`
are the fields of the device; bytes are counted, not told apart (`used`). A
write is `WriteCall`, `WriteLock`, `WriteWait` (the test of `wait_event`, which
may sleep), `WriteWoken`, `WriteCopy` and `WriteCommit` (the copy fixes its
length, then publishes), `WriteAvailRead` and `WriteAvailStore` (the refresh); a
read is the same with no sleep and with `ReadWake` (the wake-up and the unlock)
before the refresh. `WriteIntr`
is the return of line 89. `kfifo_alloc` rounds the size up, so `Size` may
exceed `fsize`, with which `avail` starts. open and release test the count in
one step and change it in another. `ioctl` sets the limit if the caller has
the capability. An open that is refused and an ioctl that only reports change
nothing and are no actions.

**ChrFifo** (01 and 03, whose file operations are the same code) opens up what
CharDrvs counts: a ring of slots, free-running counters that wrap, a copy byte by
byte that a fault may end anywhere, two mutexes. **BoundedFifo** is what a user
may rely on: a queue to which a step appends an unbroken piece of one buffer, or
from whose head it takes some bytes. ChrFifo is shown to implement it, with
`Contents` (the slots between `out` and `in`) as the queue.

**Jiq** (05). Four contexts (`Run`, `PrintLine`, `PrintAgain`, `PrintOnce`, `Full`) beside
the readers; `jiq_print` reads `len` and `m` in one step, prints in the next and stores
the new `len` in a third, so that two printers may lose each other's sum. Lengths
are counted in lines. `Show...` are the steps of the four reads, which may overlap and
each of which a signal may end (`ShowSignal`), and `Cleanup` is module removal. Setting up
or adding the one timer while it is in use (`ShowClash`) ends the behaviour. The
history variable `disturbed` remembers that reads have overlapped, or that a signal
took a reader away from a context that had lines to print, until a read begins with
everything at rest: most of what can be said of jiq is about who may be to blame.
`SleeperHasWork` and `WorkqueueReadsReturn` do not mention it.

**JitAsync** and **JitDelay** (04). JitAsync has an allocation pool in which a
freed `jit_data` is reused; a callback is three steps (print, count, wake), so
that a reader may free between the last two. JitDelay has a `jiffies` that
wraps, ticking between any two steps.

**VirtTty** (16) and **GpioPulse** (14). Timers are raw, idle or armed; a handler
in progress (in VirtTty two uses of the port and the arming) is separate from the timer, as in the kernel, so `del_timer` may
return while it runs and it may arm the timer again. A step that uses memory
that is not there sets `fault` and the behaviour ends: the properties say how
such a state can, and so how it cannot, be reached.

**PltDrv** (12). One action per registration of `pltdrv_probe`, each of
which may fail into its error label; the increment and the decrement of
`nr_devcs_probed` are a load and a store. `device_create` is three steps, because its
result goes through `prv_drv.device`, which all probes share: the call (`ProbeCreate`), the
store (`ProbeStore`) and the test of the shared field (`ProbeCheck`). A probe that finds
another's result there, and a different one, goes on without a node or leaves its node
behind; the history variable `crossed` remembers it. `device_destroy` removes the node of
its number, whoever created it. 07 and 08 are earlier forms of 12;
what differs, their init, probe, undo, remove and exit, is in Setup.

**PciDrv** composed with **PciEmuDev** (20 and 19). PciEmuDev is the device: its
registers and its interrupt. PciDrv instantiates it; a show or a store is a
reference taken, a driver data pointer read, an access made; a show then prints
what its access returned, in a step of its own, so that stores come between
(`recent` records the numbers stored last during an operation). `WordBits` is the
width of `iowrite32`; `Longs` includes numbers that do not fit.

**Cp2102** (18). A request is taken or not, and reported or not: three outcomes.
Values on the wire are sets of bits. The uninitialised `lctrl` and `mcr` are any
member of `Garbage`. The tty core runs set_termios alone, and the last close of the
file after all of its operations; a hangup (`Hangup`) calls the driver's close beside
a tiocmset or a tiocmget in progress, which may then go on while the port is closed
or open again. `hung` holds the processes that are in such a call. `want` is what the
handshakes that have arrived were asked to make of the two modem lines.

**Ds1307** (15). Each of the seven transfers of `ds1307_get_time` and
`ds1307_set_time` is a step (`ReadReg`, `WriteReg`) in which the transfer may
fail; the chip ticks between any two of them (`Tick`), except when the seconds
register has been written in the set in progress (`fresh`): writing that register, and
no other, starts a new second, within which the rest of the set is over. That the
driver writes it first is therefore what `SetIsExact` depends on. `bcd2bin`,
`bin2bcd` (of unsigned arguments, into which a negative year turns) and the masks are
modelled by what they compute; the chip has its own reading of its
registers (`ChipShows`, `ChipHolds`), against which the driver's is checked. All
chips share `rtc_info`; `clean` records that an operation met neither a failed
transfer nor another chip's operation. `rtc_valid_tm` is the RTC core's test, all that
stands between a caller and `ds1307_set_time`, since the driver names no range: any
year from 1970, any day of the week. `IsTime` is what a chip can show, a time of its
own century. A chip that shows no time may come to any member of `Wild` when it ticks.

**Ramdisk** (21) over **FlatDisk**. A request is submitted with a list of segments
(`Submit`), started (`QueueRq`), copied segment by segment (`Segment`, with
`B_buf`, `B_len` and `Advance` for the code's arithmetic) and ended. Sectors are the
unit. The memory of a request's segments is one buffer, `buf`, laid end to end, and
`ends` says where in it each segment ends; the code walks the same memory with
`rq_for_each_segment`.
`DelGendisk`, `Drained` and `FreeAll` are the exit; freed memory reads as anything and
keeps nothing. FlatDisk is what a user of a disk may rely on: every sector of a
request is moved once, in any portions, and the request ends. The refinement
includes that liveness.

**Setup** (init and exit of 01 to 10 and 21, probe and remove of 07, 08 and 15).
An init function is the sequence of its acquiring calls; each call names what it
takes, what its failure leads to (`err`: undone and reported; `zero`: undone and
reported as success; `ignored`; `sure`; `oops`) and what is released from the
label the code then jumps to. An exit function is a list of releases. The actions
run such a table: `CallSucceeds`, `CallFails`, `Release`, `Return`, `Unload`.
`held` is what a module has taken, `strays` what it released without having it,
`robbed` what it took away from another module.

**KvmHost** (kvm). Every system call is a step that may fail, `cp_guest_img`
reads any number of bytes up to what it asked for, and the guest leaves `KVM_RUN`
for any reason.

The composed MC modules MCJit, MCUnload, MCBus and MCSetup check two or three
modules that share no state in one run: one works while the others rest in an
initial state, so every behaviour of each is explored.

The `MC` modules give model values, symmetry sets and the constants a cfg cannot
write.

## 3. The runs

| run | instance | what it shows |
|---|---|---|
| `chardrvs` | 2 processes, `fsize` 3, `Size` 4, one process with the capability and open to signals | `AvailNotOptimistic`, `AvailNotPessimistic`, `CopyFits`, `RefCountExact`, `LeakOnlyBySignal`, `FullWriteUnlessOvertaking`, `ReadReturns` |
| `chardrvs_wakeup` | 2 processes, no signals | **violation** of `WriterWokenUp` (section 6) |
| `chrfifo` | 3 processes, one ring of 2, counters mod 4 | `IsBoundedFifo`, `ReadsHead` |
| `jiq` | 2 overlapping readers, all four files, signals on all of them, at most 2 reads begun between two moments of rest | `PrintsForReader`, `NeverOverflows`, `QuietAfterCleanup`, `WorkqueueReadsReturn` |
| `jiq_sleep` | one reader, no signals | **violation** of `CompletionEndsSleep` (section 6) |
| `jit` | 2 readers, one killable, 3 allocations, 2 loops; and 2 delayed readers, delay 2, jiffies mod 8 from every start | `FreedAfterLastLine`, `AbandonedOnlyBySignal`, `ReadComplete`, `ReadsEnd`, `DelayKept` |
| `unload` | gpio_pulse: 2 writers, 4 stores of 0, 2 and 4 with ints mod 4; virt_tty: up to 4 files; ramdisk: 3 sectors of 2 values, 2 requests of one or two segments | `PulsesWhileEnabled`, `FreedTimerNeedsRace`, `DisabledComesToRest`, `TimerWhileOpen`, `FaultsNeedOverlap`, `IsFlatDisk` |
| `pltdrv` | 2 devices, one of the tree, 2 processes | `DistinctMinors`, `NothingLeft`, `BoundDeviceWorks` |
| `pcidrv` | 2 processes, 1-bit words, one half-made mapping per BAR | `AccessIsBacked`, `NothingLeft`, `ShowsLastStored`, `RemoveReturns` |
| `bus` | cp2102: 2 processes, 3 speeds, 2 parities, one request that sets RTS and clears DTR, hangups; ds1307: 2 clocks that start at the last second of a year or of 28 February 2024 and are set to that one or to last seconds of 1999 and 2100, 1 tick, 2 operations, 1 failed transfer | `BaudInStep`, `EarlyNeedsFailedEnable`, `ReadNotBehind`, `SetIsExact` |
| `cp2102_lines` | cp2102 as above, with a request for each line alone | **violation** of `LinesAsAsked` (section 6) |
| `setup` | every module alone, jit with jiq, pltdrv with pltdrv_attr; an image of 5 read in chunks of at most 3 | `LeavesNothing`, `LoadedIsComplete`, `UndoesWhatIsThere`, `GuestSeesImage` |

*Why the bounds are enough.* The theorems of section 5 remove the bounds of every
passing run, as far as invariants, action properties and the two refinements (of
FlatDisk the safety part) go. Two processes suffice for every race between a
writer and a reader of chardrvs, and between two openers. ChrFifo needs three (two on
one end, one on the other) and a ring that a request can overfill and whose counters wrap within a
few calls; devices share no state, so one is enough. With IntMod 4 and the value
4, GpioPulse has the long that is zero as an int. In Jiq the second line reaches the
limit, and two reads between moments of rest are an overlap, or a read beside the context
that a signal left behind; more would only add printers of the same kinds. Reads may
follow one another for ever; those of the work queue files return unless new reads keep
resetting `len`, and `WorkqueueReadsReturn` says so. A third probe in PltDrv would
meet the same count as the second. One tick at the end of a year carries through
every register, at any place between the transfers; the two operations of Ds1307
are a set and a read of one clock, or operations of two clocks that overlap. The
times asked for lie in the chip's century and just outside on either side, one of
them with a day of the week that is none; `Wild` has one time and one that is none. The
shapes of Ramdisk, one segment that ends at 1 and two that end at 2 and 3, put a cut
in the middle and a request at either end of the disk, two requests overlapping. The calls of a Setup table
fail at every place and in every combination; `NR_MINOR_DEVCS` is the code's own
2; modules that share no name cannot meet, so the pairs are those that do. Where
the code's counter is unbounded the bound is a constant: `MaxOpens`, `MaxStores`,
`MaxWait`, `MaxReads`, `MaxPartial`, `MaxTicks`, `MaxOps`, `MaxErrors`, `Shapes`, `Together`; the cap of
`jiq_data.len` in Jiq loses nothing, since the code only compares it with 0 and
with `LIMIT`.

*Deadlock.* It is checked in `chrfifo`. The others may really
stop: all of chardrvs's processes can wait for the mutex an interrupted write
left locked; `jiq_cleanup`, `virttty_exit` and a fault end the behaviour; a jit
reader that was killed keeps its allocation; a process that died in an
attribute operation stops the remove of pci_drv; the stores of gpio_pulse and
the operations of ds1307 are bounded; an unloaded module stays away; the KVM host
exits.

*Fairness.* Nobody is obliged to make a call, to bind, to unbind or to send a
signal. What has begun goes on: a runnable process is scheduled (weak fairness
of the steps inside the driver), and the kernel's mutexes hand over in order
(strong fairness of the acquisitions, CharDrvs). Armed timers expire and
scheduled work and tasklets run (weak fairness of the contexts); a request that
the block layer handed over is worked on (Ramdisk). In GpioPulse
a timer that is armed again and again never expires, so fairness is only
meaningful because the stores are bounded. A sleeping process is under no
fairness until something wakes it.

## 4. What is left out

The abstractions, each a simplification of data or of a path without effect:

- `kfifo_avail` reads two counters; CharDrvs reads them in one step, under `lock`.
- 03.mcdevdrvs never initialises its mutexes; they are modelled as initialised.
  Cp2102 keeps the point: a process that has to wait for the uninitialised mutex
  ends the behaviour.
- jiq_data.len and jiq_data.m are read in one step of `jiq_print`. Reading them in two
  matters only when another read begins in between, and then `disturbed` is set.
- A seq_file lives as long as its file is open, a read in Jiq as long as its show
  function: a line printed for a reader that is gone goes into a buffer that the
  reader has copied already, that its next read uses, or that is freed. A read that
  `seq_read` begins again with a larger buffer is a new read.
- When jiq is removed, the function of a work item or of the tasklet that has found the
  limit reached and woken its reader may still have to return. `QuietAfterCleanup` is
  about contexts that have more to do than that.
- Operations without effect on the state: refused opens and stores, reports,
  `virttty_write`, termios and modem calls of virt_tty, `label_show`, the
  `fversion` attribute, `prv_dev->mcr` and `msr`; /proc, debugfs and sysfs reports;
  `currentime`.
- In cp2102, unplugging, and the functions nothing calls (`get_lctrl`, `get_baud`,
  flow control, reset). What tiocmget answers is left out; its request is a step.
- In Setup, what the RTC core and the managed allocations of ds1307 take is one
  thing each; `platform_add_devices` registers all its devices or none. In
  ramdisk_blk, `open` stores a pointer that the exit function reads: its `blkdev_put`
  (line 195) is for a partition, and `open` is given the whole disk. The
  partition scan of `add_disk` opens the disk, and a scan whose open fails, which
  would leave the pointer NULL, is left out. Region
  numbers and major numbers are allotted by the kernel and do not clash.
- The clocks of Ds1307 tick independently and stop before their century ends. A set
  takes less than the second that its first write starts.

Not modelled:

- 17.dummy-usb-ttl-drv: its probe and disconnect print, there is no state.
- Drivers on the bus of 09: nothing in the repository registers one, so
  `virtbus_match` and `register_virtbus_driver` are never reached.
- The creation and hot unplugging of the device of 19 inside QEMU: QEMU's object
  model is not in the repository.
- The guest of the KVM host (a loop that writes a counter to a port; KvmHost leaves
  open what the guest does) and the test program of 02 (its calls are among those
  that CharDrvs's processes make).
- 11, 13, the slides and the build files: no code.

## 5. The proofs

TLAPS checks eight modules of theorems, for every value of the constants that meets
the named assumptions of the modules. Each has the same shape: an inductive
invariant that is a conjunction of named parts, a lemma per action (or per part)
that it is kept, one lemma that it holds always, and a theorem per property.

**CharDrvs_proofs.** The invariant `IndInv` is the conjunction of `TypeOK`,
`CopyFits`, `MutexInv` (who is where holds what: a process between the lock and
the unlock of a mutex owns it, and an owner that is nowhere between them was
interrupted), `RefInv` (a process that is about to decrement has its file in the
count) and `CacheInv`. The cache is the heart of it: `avail` alone is not
inductive, because between a publication and its refresh it is wrong, so
`CacheInv` adds `SeenInv`, about the value the holder of `lock` has read and is
about to store: it is too large only if another writer, too small only if another
reader, has still to refresh after it. From it follow `TypeCorrect`,
`CacheNotOptimistic`, `CacheNotPessimistic`, `FifoSafe`, `RefCounts`,
`OnlySignalsLeak` and the action property `FullWrites`. The assumptions: a finite
set of processes, `None` outside it, `kfifo_alloc`'s rounding, positive counts.

**Refinement_proofs**, ChrFifo. `ImplementsFifo` is the refinement: every behaviour of the
ring is one of `BoundedFifo`, with `Contents` as the queue. `IndInv` says that
the counters are where they should be (`RingInv`: the distance from `out` to `in`,
modulo `CounterMod`, is at most `Size`), and what each end knows: a writer in the
middle of its copy has `done` bytes of its caller's buffer in the slots from `in`
on and room for all of `len` (`WriterInv`), a reader has copied the head of the
queue and there are `len` bytes (`ReaderInv`). Neither part is inductive without
the other: that a writer's bytes do not fall on a reader's slots is the bound on
the distance, and only the mutexes (`CallInv`) say that nobody else moves the same
end. Before them come lemmas about slots: counters that differ by less than `Size`
have different slots, and because `Size` divides `CounterMod` the wrap of a counter
changes no slot. Then a copy step changes no slot of the queue (a stutter),
`WritePublish`, which moves `in`, appends a piece of the buffer, and `ReadPublish`,
which moves `out`, drops the head. `ReadersAtHead` follows from the same invariant. Assumed:
`Size` divides `CounterMod` and is smaller, as `kfifo_alloc`'s powers of two do.

Ramdisk. `ImplementsDisk` is the safety part of the refinement of FlatDisk, for any
requests at once. `DiskInd` says of every request in flight (`Sound`) that it lies on
the disk and that `pos` is as far from its first sector as the segment at hand is
from the beginning of its buffer, and (`ExitInv`) that the exit is past `del_gendisk`
only when there is none. The first makes the cut of `b_len` at the end of the disk
never bite (`SegmentPlace`), so that a `Segment` moves exactly its own sectors, none
of them moved before, as a `Move` of the disk does (`SegmentFlat`), and the end of
the last segment is the end of the request (`EndRequestFlat`). Other requests need
not be mentioned: each step touches one of them, whatever the others do to the same
sectors. Assumed of `Shapes`: a request has a segment, none is empty, and all fit on
the disk, which is what the block layer hands over.

**Jit_proofs**, JitAsync. `IndInv` is `TypeOK`, `OwnInv` (a reader inside a call owns a
live allocation whose `m` is its own), `LoopInv` (an allocation whose callback is
armed or about to count is live and has loops left, and a reader that leaves
without a signal has seen them run out), `AbandonedOnlyBySignal` and `LineInv` (a
read in progress has the lines its callback has counted down, and no others if
it cannot be killed: an earlier, killed read may have left a callback that still
prints), and `WakeInv`: a read with loops left has its callback armed or about to
count, and a sleeper without has its wake-up ahead, although memory may be reused
while an old callback is about to wake. From it follow `NoCallbackAfterFree`,
`OnlySignalsAbandon`, `ReadsComplete` and `NoReaderForgotten`. JitDelay: `DelaysKept`. As long as less than `delay` ticks have
passed, `j1` is exactly the rest of them ahead of `jiffies` on the circle
(`TargetInv`), so that `time_before`, which compares halves of the circle, sees it
ahead; hence the assumption that the delay is less than half the circle.

**Timers_proofs.** GpioPulse: `EnabledInv` extends `PulsesWhileEnabled` to the step of
probe that follows the arming, and `StoppedInv` says what `del_timer` and
`device_unregister` achieve: between them and the free the timer is at rest unless
there was a race, and no store is left. Theorems `EnabledPulses`,
`FreeNeedsRace`. VirtTty: `CountInv` (the open count is the number of files, one less
during a close), `ThereInv` (tty and device are there while a file is) and `QuietInv`
(without an overlap the timer works only for an open port) carry `OpenHasTimer` and
`OnlyOverlapFaults`. Jiq: the theorems are about `JiqSpec`, for any readers, overlaps
and signals. `JiqInd` is `AlwaysInv`, which nothing disturbs (types, `StartedInv`: nobody
prints before `m` is set, `PlaceInv`, `GoneInv`: nobody is inside after the clean-up, and
`SleeperHasWork` itself), and, unless `disturbed`, `CalmInv`: one reader is inside
(`OneAtATime`), a context that has lines to print has a reader of its file that waits
for it (`ServesInv`), what `jiq_print` saw is what is there when it uses it (`PrintInv`),
and from the moment a reader has set it, `m` is that reader, and up to the limit `len` is
at least its `count`, unless a printer has still to add (`ReadInv`). That a read which
begins at rest restores `CalmInv`, and that a signal which comes when the context has
finished keeps it, is what makes `disturbed` as narrow as it is. `NeverOverflows` needs
all of it: `len` bounds `count` only while both belong to the same read. Theorems
`PrintsOnlyForReaders`, `LimitHolds`, `CleanupIsQuiet`, and the half of why a work queue
read returns that is safety: `NoLostWakeup` (a sleeper has its item ahead of it).

**PltDrv_proofs.** `HeldInv` says for each place of probe and remove exactly what a
device holds; `NameInv` that, unless a probe was misled (`crossed`), the nodes belong one
by one to the devices whose own `device_create` succeeded and have different numbers. The
latter, not the count
that the numbers come from, is why minors do not clash: the count may be anything
(its load and store race), but `device_create` refuses a taken name and the cdev
lives shorter than the node. Theorems `MinorsDistinct`, `ProbeLeavesNothing`,
`FilesWorkWhileBound`.

**PciDrv_proofs.** `HeldInv` in the same way, with the mappings counted and the two
ways of reaching the labels of a failed allocation kept apart; `FilesInv` and
`InsideInv` (sysfs lets the remove past the group only when no operation is inside,
and a process with the pointer has it from a bound device); `RegsInv` for the
registers and `ShowInv` for what a show has read. Theorems `AccessesBacked`, `UnboundHoldsNothing`, `ShowsStored`.
`PciAssumption` states that `2^WordBits` is a positive natural, which the provers
do not know.

**Bus_proofs.** Cp2102: `SpeedsAgree` and the action property `OnlyFailedEnable`, from
`CallInv` (a process in a call has the port open, unless a hangup has overtaken it;
set_termios is never overtaken) and `EnabledInv` (an open port is enabled or the
enabling has failed). Ds1307:
`SetsExact` rests on the conversions undoing each other for every number of two
digits (`bcd2bin`, `bin2bcd` and the chip's own reading, case by case; `SendShow` for
times of other centuries) and on
`SetInv`: a clean set has its registers in `rtc_info` and the written ones in the
chip, which has started a new second as soon as one is written. `ReadsNotBehind` rests on `GetInv`: what has been read so far, completed by what
the chip shows of the rest, is never before the start; a tick raises the lowest
register that does not wrap and clears only lower ones, and when those were read
already they keep their old value. The proof attempt corrected the property: as it
stood first, for any chip, it fails with a third operation, because a set that
shares `rtc_info` with another chip's failed read can write registers that are no
time, from which a tick may go anywhere. `ReadNotBehind` now asks that the chip holds
a time when the read begins.

**Setup_proofs.** KvmHost: `GuestStartsRight`; the invariant describes the memory
byte by byte (`ImageInv`: what lies below the position is the image, the rest is
zero) and what the order of the calls guarantees (`OrderInv`). Setup: the three
properties for every choice of modules loaded together and every number of minors.
The proof is in two halves. `Fit` says of one init and its exit what makes them
work: the undo of each call releases everything that the calls before it have taken,
each thing once and nothing else but the excuses the properties name, the exit
likewise, and whatever the code does not check is listed. `Tables` proves `Fit` for
each of the fourteen tables; for mcdevdrvs, whose tables are loops, by reasoning
about lists of numbered things counted up or down (`SinglesRel`, `DoublesRel`), so
for any `NR_MINOR_DEVCS`. The other half takes only `Fit`: `SetupInd` says for each
module, by its stage, how far it is in its table and what it therefore holds
(`InitInv`, `UndoInv`, `ExitInv`, `EndInv`), and that its gaps so far were excused
(`StrayInv`), those of kernelnewbies and mcdevdrvs only if the module had nothing when
its exit began (`Spared`); a step of another module takes away at most what the module does not
check (`StepInd`), which is /proc/jitimer. Theorems `NothingIsLeft`, `LoadedHasAll`,
`UndoIsExact`.

Only model-checked: everything about liveness (`ReadReturns`,
`WorkqueueReadsReturn`, `ReadsEnd`, `DisabledComesToRest`, `RemoveReturns`, and the
fairness conditions in `IsFlatDisk`), which is outside this prover; of
`WorkqueueReadsReturn` and `ReadsEnd` the safety halves are proved. The deadlock
freedom of ChrFifo stays with TLC for the same reason, being about what is enabled.
`TypeOK` of CharDrvs, `SleeperHasCallback` of JitAsync and `SleeperHasWork` of Jiq are
proved and not among the properties of a run.

## 6. Where the code and its comments disagree

- `chardrvs_wakeup`: chardrvs.c:121 wakes the writers ("wake up writer", line
  119) before line 126 refreshes the value they test. A writer that looks in
  between sleeps on, holding `w_f_lock`, with room for its request.
- `jiq_sleep`: the tasklet and timer files of jiq wait for the condition `0`
  ("sleep till completion", jiq.c:211). Every wake-up finds it false; only a
  signal ends the read.
- `cp2102_lines`: the comment of usb_ttl_cp2102.c:161 says what the bits of the word
  do ("bit 0: DTR state", "bit 8: DTR mask, if clear, DTR will not be changed", and
  likewise for RTS). Line 177 sets the bit of RTS under the mask of DTR, so that a
  request to set DTR clears it; and `mcr` begins as whatever is on the stack (line
  154), masks included, so that a line nobody named may move.

The models also show, with no text in the repository to contradict: two opens of
chardrvs at the limit both succeed (chardrvs.c:55); before the first refresh its
`avail` is the unrounded `fsize` (line 42); the interrupted write of line 89
keeps `w_f_lock`; the handler of jit may wake a wait queue that was freed
(jit.c:168); virt_tty can be opened before it is allocated, and its timer, like
that of gpio_pulse, can be armed again after `del_timer`; a failed
`gpiod_direction_output` leaves the attributes behind; one failed `pci_iomap`
leaks the other's mapping; cp2102's open overwrites the result of the enabling
request (usb_ttl_cp2102.c:65) and sends uninitialised bits of line control (line 92);
a hangup lets commands reach its interface after the disabling request; a time of
another century is accepted for ds1307 and not kept (ds1307_rtc.c:111); a probe of pltdrv_attr_dt can take
another's result for its own (pltdrv_attr_dt.c:258); two readers of jiq, or a signal, leave contexts that
print into the wrong seq_file, into one that is gone, or after the module is.

About the set-ups: in kernelnewbies (line 177) and mcdevdrvs (line 143) a failing
`cdev_add` is undone and then reported as success, since the result is in `rc` and
`ret` is returned; the module is loaded with nothing, and its exit releases all of it
again. The undo of mcdevdrvs counts down from one past the last device (line
163). chardrvs tests the debugfs results for NULL, which they never are. jit,
jiq, pltdevs_load, virtbusdevs_load, pltdrv and pltdrv_attr ignore that a
registration failed, and undo it all the same. Whichever of jit and jiq is
unloaded first takes /proc/jitimer away from the other. virtbus never puts a
device whose registration failed. ramdisk_blk uses `blk_prv` before it tests it
(line 178), ignores the result of `register_blkdev`, deletes a disk that was not
added and never puts its gendisk.

About the rest: a time read from ds1307 while it ticks can be as much as a year
ahead; a failed transfer is not noticed, and the low byte of its negative result
looks like a register (-121 is 0x87, the year 2087); operations on two clocks
mix in `rtc_info`. The KVM host compares `mmap` with NULL: for the guest's memory
the next ioctl catches the failure, for `kvm_run` nothing does; a read error cuts
the image short silently; and a failing run loop still returns `E_OK`, its `ret`
being an inner variable.

## 7. State of the plan

The modelling is done: what is still outside is listed in section 4 with its
reason. Every invariant and action property of the passing runs is proved, and so are both
refinements, that of FlatDisk without its fairness. What remains with TLC is
liveness. Should `jiq_data` get a lock, `disturbed` is what the properties of Jiq can
do without.
