# TLA+ specifications of the AR.Drone 2 video capture path

The repository is the open-source part of the AR.Drone 2 firmware: a Linux
2.6.32 kernel with Parrot's board support and drivers, and third-party
userspace packages. The code with the firmware's own core logic is the video
capture path (the OMAP3 ISP driver, `drivers/media/video/isp`, which feeds the
drone's cameras to the flight software) and Parrot's small character drivers.
This project specifies that core, model-checks it on small instances and
proves every safety and action property the runs check for every instance;
liveness is model-checked.

Paths below are relative to `src/sources/linux-2.6.32/linux-2.6.32/`; `isp/`
stands for `drivers/media/video/isp/`.

## Inventory

| Component | State | Operations | What makes it hard |
|---|---|---|---|
| Video buffers queue (`isp/ispqueue.c`) | `count`, `buffers[]` with `state`, `vma_use_count`, `prepared`, the pinned pages; the main queue; `streaming`; mutex `lock`, spinlock `irqlock` | REQBUFS, QUERYBUF, QBUF, DQBUF, STREAMON, STREAMOFF, mmap, munmap, poll, discard_done | several threads on one handle; DQBUF sleeps inside the mutex; the interrupt handler changes buffers under the other lock |
| Video node (`isp/ispvideo.c`) | `streaming`, `queue`, `dmaqueue` (the IRQ queue), `stream_lock`, the pipeline's state bits | open, release, the ioctl wrappers, `buffer_queue`, `buffer_next` | two lists under two locks; an error path after the hardware was started; several handles per node; memory-to-memory pairs |
| CCDC (`isp/ispccdc.c`) | `state`, `underrun`, `stopping`, `error`, enable bit, output address, lens shading table | `ccdc_set_stream`, `ccdc_video_queue`, the VD0, VD1 and LSC interrupt handlers | a stop handshake with the interrupt handler, with a timeout; variables shared by thread and interrupt code without a lock |
| ISP core (`isp/isp.c`) | reference count, clocks, `needs_reset`, `stream_state` | `isp_isr`, pipeline enable/disable/suspend/resume, media-graph power, get/put | partial failure of a chain of modules; rollback of power counts |
| Media graph (`drivers/media/media-entity.c`) | links and their flags; per entity `use_count`, `stream_count`, `pipe`; `graph_mutex` | link setup, graph walk, pipeline start and stop | a walk that marks nothing as visited; counts on both sides of a link that changes |
| Preview, resizer (`isp/isppreview.c`, `isp/ispresizer.c`) | `state`, addresses, the six bits of `pipe->state` | `set_stream`, `video_queue`, DONE interrupts | a pass needs buffers and idle modules at both ends; four actors set and clear the bits; a node is stopped while the other streams |
| Statistics (`isp/ispstat.c`, `isp/isph3a_*.c`, `isp/isphist.c`) | `state`, `buf[]`, `active_buf`, `locked_buf`, `buf_err`, `buf_processing`, `config_counter`; mutex `ioctl_lock`, spinlock `stat_lock` | config, enable, request, `s_stream`, module, DMA and overflow interrupts | one handler run from three places; copies and frees outside the spinlock; errata of the H3A |
| CSI2, CCP2 | as CCDC | as CCDC | CSI2A carries the horizontal camera (soc1040); the vertical one (ov7670) is on the CCDC's parallel port; CCP2 is not connected |
| PWM (`drivers/parrot/char/pwm`) | one timer record per channel, one precision mask for all | request, release, start, stop, frequency, width | shared mask, ignored errors, division by zero |
| GPIO (`drivers/parrot/char/gpio2.c`) | pin and completion per handle | open, release, IRQ init, wait, free, read, write | no lock; completion reinitialised while the interrupt is live |
| `dummy-smsc-usb43340.c`, `acpower.c`, `udevd_init.c` | pins; button state; child process | probe, sysfs callbacks, start-up | error paths of a probe |

The application calls the node's ioctls; the node calls the queue (calls under
`stream_lock` and `queue->lock`) and the modules of the pipeline
(`set_stream`); the queue calls back `buffer_queue` under `irqlock`, which
writes the CCDC's output address; `isp_isr` calls the CCDC's handlers, which
call `omap3isp_video_buffer_next`, which completes a buffer and wakes
sleepers. The kernel is uniprocessor and preemptible (the board's
configuration): threads interleave anywhere outside a spinlock, interrupt
handlers are atomic towards threads.

## Modules

| Module | Models |
|---|---|
| `VideoFifo` | abstract: what a V4L2 streaming queue promises a client |
| `IspQueue` | `ispqueue.c` and the streaming calls of `ispvideo.c`, for one capture handle shared by `Threads`; the pipeline behind it is one bit, `hw` |
| `IspCapture` | `IspQueue` (by `INSTANCE`, the same variables) composed with `ispccdc.c`, pipeline start and stop of `isp.c`, and the CCDC and sensor hardware |
| `IspPower` | open and close of video nodes, use counts, power and ISP references (`isp.c`, `ispvideo.c`), links, graph walk and stream counts (`media-entity.c`, the `link_setup` of the modules) |
| `Pwm` | `pwm.c` and `omap_pwm.c`: channel ownership and the timer arithmetic |
| `IspM2M` | memory-to-memory pipelines: the state bits of `ispvideo.h`, buffer hand-over of `ispvideo.c`, pipeline start and stop of `isp.c`, the interrupt handlers of `isppreview.c` and `ispresizer.c` |
| `IspStat` | `ispstat.c` with the H3A and histogram modules behind it |
| `Gpio2` | `gpio2.c`: a file's interrupt pin and its completion |
| `MCIspQueue`, `MCIspCapture`, `MCIspPower`, `MCPwm`, `MCIspM2M`, `MCIspStat`, `MCGpio2` | instances for TLC (symmetry sets, the board's media graph) |
| `IspQueueProofs` | the inductive invariant of `IspQueue` and its theorems |
| `IspQueueRefines` | the proof that `IspQueue` implements `VideoFifo` |
| `IspCaptureProofs` | `IspCapture` implements `IspQueue`; what the CCDC writes to, when it is off and what it delivers |
| `IspPowerProofs` | use counts, power, clock references and stream counts of `IspPower` for every number of handles, on graphs whose allowed configurations are trees |
| `IspM2MProofs` | what the bits of a memory-to-memory pipeline stand for, for every number of buffers |
| `IspStatProofs` | the active buffer and the truth of the statistics of `IspStat` for every number of clients, buffers and configurations |
| `PwmProofs` | channel ownership and the arithmetic of `Pwm` for every set of files and channels, every clock, register width and width range |
| `Gpio2Proofs` | interrupt ownership and kept edges of `Gpio2` for every set of threads, files and pins |

### IspQueue

Variables are the driver's fields under their names (`state`, `queue`,
`dmaqueue`, `streaming`, ...). `vstreaming` is `video->streaming`. `pinned[b]`
abstracts scatter list, DMA mapping and IOMMU mapping of a buffer to the
memory they refer to ("kernel" for MMAP buffers, a userspace address, or
nothing); `lock` and `stream_lock` hold the owner of the mutexes. `pc[t]` is
the place in the driver where thread `t` can be observed by others, `arg[t]`
the buffer it is there for. A call whose checks fail changes nothing and is
no step.

A step is what nobody can split observably: a section under `queue->lock`
that does not wait for another actor, or a section under `irqlock`. The steps
that are split are the ones other actors see: QBUF releases nothing between
the main queue and the IRQ queue, but an interrupt may come (`Qbuf`,
`QbufToDevice`); DQBUF sleeps (`DqbufWait`, `DqbufWakes`,
`DqbufInterrupted`); STREAMON and STREAMOFF are sequences of steps under
`stream_lock` that take and drop `queue->lock`. `BufferNext` is
`omap3isp_video_buffer_next`, and `Interrupt` the handler that calls it for a
running pipeline (`IspCapture` has a handler of its own); `SuspendResume` is the
discarding of old buffers on system sleep, `Release` the last `close()`. A
REQBUFS that runs out of memory is a REQBUFS for the number of buffers there was
memory for.

`poll()` is the handler of `ispqueue.c` in the loop of `fs/select.c`. `PollWait`
registers the thread on the wait queue of the buffer that is first (place
"poll", the buffer in `arg`). A wake-up of that wait queue (`WakeUp`) does not
end the call: it makes the thread look again (place "repoll"). `PollAgain` looks
at the buffer that is first by then, and because `do_poll` passes no poll table
any more, a thread that sees no event sleeps on where it was registered. A
REQBUFS that frees the buffer leaves the thread asleep with nobody to wake it
(`arg` is then `None`).

A QBUF with a buffer type that is not the node's (`QbufWrongType`) runs only
the unlock of its error path. Two constants enable what the code does on
unusual input: `WrongTypes` (such a QBUF comes while another thread is inside
`queue->lock`; on a free lock it changes nothing and is always allowed) and
`PartialStart` (a module in the chain fails to start and the ones before it
keep running).

### IspCapture

`ccdc_set_stream` is split at each assignment another actor can see
(`CcdcStart` ... `SensorStarts`, `CcdcStop` ... `SensorStops`, place kept in
`step`); the interrupt handler is one step (`CcdcIsr`), VD1 before VD0 as in
`omap3isp_ccdc_isr`. The hardware is external and modelled from how
`ispccdc.c` uses it: PCR.EN and SDR_ADDR are latched at frame start, VD1
fires inside a frame, VD0 at its end, also when the CCDC is disabled (comment
in `ccdc_isr_buffer`). `data[b]` is what a buffer holds since it was queued:
nothing new, part of a frame, or a frame. `ccdc->error` is the choice between
DONE and ERROR. The drone's sensors deliver YUV, for which the lens shading
correction cannot be enabled, so its state stays STOPPED.

Assumptions about time are constants, and runs turn them off to see what
depends on them: `LateIrq` (the hardware may reach the next frame event
before the last interrupt is handled), `SensorStalls` (the sensor may be silent
for the 2 s that `ccdc_disable` waits), `SensorFails` (the sensor's `s_stream`
may fail). Nothing is assumed about how long a stop takes: the sensor is stopped
last, and frames come at every step before. The history variable `overtaken`
remembers that a VD0 was handled between the reset of `stopping` in
`ccdc_disable` and the assignment of STOPPED to `state`; the capture
properties that this window breaks say so by naming it.

### IspPower

The media graph is a constant (`Links`, `Immutable`); `enabled` holds the
links with the ENABLED flag. A section under `graph_mutex` or `isp_mutex` is
one step, and a system call is the sequence of its sections: `Open` takes the
ISP reference, `OpenPowers` or `OpenFails` is `omap3isp_pipeline_pm_use(1)`,
`Release` and `ReleasePuts` are close(); `Streamon` reads `entity.pipe`,
`PipelineStart` assigns it. `EnableLink`, `EnableRefused`, `EnableFails` and
`DisableLink` are the outcomes of `__media_entity_setup_link`, each with its
power notifications and roll-backs.

`WalkFrom` is the driver's walk: depth first, no visited marks, only the
entity it came from is skipped, and bounded by the stack. The order in which
an entity's links are followed depends on the order they were created in; the
model fixes one order, and the counts do not depend on it. The properties do
not use the walk: a pipeline is the smallest set of entities with a given one
that no enabled link leaves (`ClosedSets`, `Connected`). `Allowed` are the
configurations of the links that the modules' `link_setup` lets through.
`BoardGraph` is what they have in common on the board: they are trees, so that a
walk meets each entity of its pipeline once, no link has a way round it, and no
pipeline has two video outputs. TLC evaluates it on the board's graph, for every
allowed configuration.
`PmUseCount`, the sum of the use counts of the nodes a walk meets, is the
number of pairs of a place in the walk and a user there.
`PowerAll` sums the visits of a walk per entity; `PmPowerFailures` is the set
of states after a roll-back, one for each sensor that may be the one to fail.

`input` and `output` are the fields the modules' `link_setup` keeps.
`InputExclusive` (the CCDC) refuses any second input; preview and resizer
refuse a second input of the other kind; `OutputExclusive` (CCDC, preview,
CSI2) refuses a second output. The map points at `ccdc_link_setup`;
`preview_link_setup`, `resizer_link_setup` and `csi2_link_setup` follow the
same rules.

Abstractions: an `s_power(1)` that fails has no side effect. Both sensor
drivers fail that way when their platform data is missing; the board's
`set_power` callbacks never fail, and if one did, the driver would leave the
external clock it has started running (`soc1040.c:1550`), which the model does
not have. A sensor's external clock holds one ISP
reference while it runs (`isp_set_xclk`); an `omap3isp_get` whose clocks
cannot be enabled changes nothing and is no step; formats are an arbitrary
outcome of STREAMON. The statistics modules hang off the CCDC by immutable
links and are powered with it, and `ccp2` is not connected: both are left out.

### Pwm

An ioctl holds `dev->lock` and is one step; `close()` does not take the lock
and is two, up to the free of the timer and after it. `reserved` and `running`
are the state of the OMAP timer, external to the driver; freeing a timer
resets it (`omap_dm_timer_free` in `arch/arm/plat-omap/dmtimer.c`), which
stops the signal although `STOP_ON_EXIT` is not defined. Channel 0 has no
timer and the kernel owns some others (`Unusable`): the request answers
success all the same, and what an ioctl does to such a channel (a NULL
dereference) is not followed. Register width, clock rate and width range are
constants: TLC's integers are 32 bits wide with a sign, the driver multiplies
in 64 bits.

### IspM2M

`chain` is the link configuration (`"preview"`, `"resizer"`, or the preview
engine feeding the resizer) and does not change: links cannot, while a
pipeline streams. `pstate[e]` is the `isp_pipeline` embedded in node `e`;
`pipe` says which of the two is in use. `StartPass` is
`omap3isp_pipeline_set_stream(SINGLESHOT)`, called with interrupts off from
QBUF, STREAMON and the handlers. STREAMOFF is a step for the bits, two per
module (`s_stream(0)`, then the wait) and one for the rest, and everything
else may happen in between. `omap3isp_module_sync_idle` returns at once in
single-shot mode: STREAMOFF has just cleared bits that `isp_pipeline_ready`
needs. The interrupt handlers are whole; `IsrBuffer` is the common part of
`preview_isr_buffer` and `resizer_isr_buffer`, which differ in what they do
when stopped (`PreviewIsr`, `ResizerIsrStopped`). A module's work is external:
it ends by itself and then raises its interrupt. Each node has one thread;
several threads on a node are `IspQueue`'s subject.

### IspStat

One module, of a kind in `Kinds`. `full` is the list of buffers with
`empty = 0` in the order of their frame numbers. `priv` numbers
the configurations, `regs` is the one in the registers (`Recovery` is the one
used after an overflow), and `cap` is what the frame being processed will
leave: with which configuration, whether it is one whole frame in its place,
and whether it was written at all (the magic words of
`isp_stat_buf_insert_magic`). `__stat_isr` is two steps, its section up to the
first unlock (`Enter`) and the rest (`Finish`, four cases), because frames go
on in between; `s_stream(0)` calls it from thread context. External, from how
the driver uses it: a module starts a frame only when enabled, raises its
interrupt at its end, after an SBL overflow the H3A puts the next frame in the
wrong place (comments at `ispstat.c:766` and `:986`), and the histogram adds
frames up until its memory is read. `raced` remembers that a client enabled
the module in the middle of `s_stream(0)`.

### Gpio2

The driver has no lock, but its ioctls are entered under the big kernel lock,
which is given up by sleeping: a call is split at `copy_from_user`,
`request_irq` and the wait. The completion is modelled as the driver uses it:
a count and a list of sleepers, both reset by `init_completion`. `hits`
records that a behaviour has met one of the weaknesses the code's own comments
note: pin 0 as a pin, or overlapping calls on one file.

## Runs

| Run | Instance | Shows |
|---|---|---|
| `IspQueueSafety` | 2 threads, 3 buffers, 2 addresses, 1 mapping each, both DQBUF modes | locks, lists, pinning, the driver contract and `ImplementsFifo` |
| `IspQueueLive` | 2 threads, 2 buffers, non-blocking DQBUF, fairness | `StreamoffTerminates`, `QueuedIsReturned`, `PollReturns` (a `poll()` asleep on the first buffer returns, or that buffer leaves the queue, or the pipeline stops) |
| `IspCaptureSingle` | 1 thread, 3 buffers, wrong buffer types, frames at every step of the stop, fairness | `NoDmaIntoUserMemory`, `DeliveredIsValid`, `StoppedIsDisabled`, `StopCompletes`, `QueuedIsReturned` |
| `IspCaptureRaces` | 2 threads, 2 buffers, every disturbance on | `ImplementsIspQueue`: the composition never does to the queue what `IspQueue` does not allow |
| `IspPowerGraph` | the board's graph, 2 handles, failing sensors | use counts, power, clock references and stream counts are exact; no pipeline has two outputs; a pending reset is carried out before the ISP is reused |
| `PwmOneChannel` | 2 processes, a channel with and one without a timer | `HolderHasTimer`, `StopsWithOwner`, `CompareInPeriod`, `DutyKept` |
| `IspM2MChains` | the 3 chains, 2 buffers per node, fairness | `BusyOnQueued`, `IdleIsIdle`, `StuckOnlyByResizerStop`, `QueuedIsProcessed` |
| `IspStatModules` | H3A and histogram, 1 client, 3 buffers, 2 configurations of 2 sizes, fairness | `HwTargetsActive`, `QueuedIsTrue`, `StopCompletes`, `EnabledRuns` |
| `Gpio2Irq` | 2 threads, 2 files, 3 pins with pin 0, fairness | `HandlersOwned`, `EdgesKept`, `WaitReturns` |
| `IspQueueWrongType` | violation | the stray unlock frees another thread's mutex |
| `IspQueueStuck` | violation, fairness | blocking DQBUF and STREAMOFF wait for each other |
| `IspCaptureStaleUnderrun` | violation, 2 threads | QBUF during STREAMOFF leaves an underrun for the next stream, which writes to memory nobody queued |

The violations are the `findings` of PROJECT.json, with the comment of the
source each one contradicts.

Bounds. Two threads are enough for every pair of calls to interleave, and a
third could only wait for the same two mutexes; the theorems below hold for
any number. Three buffers give a queue with a finished, an active and a
waiting buffer at the same time, so order matters; two suffice where the
property is about an empty or a one-element IRQ queue (underrun, restart).
Two addresses let a USERPTR buffer move. `MaxMaps` is 1: the counter is only
compared with 0. The capture runs use MMAP buffers without mappings
(`Addrs = {}`, `MaxMaps = 0`), since pinning and mapping do not reach the
CCDC and are covered by the queue's runs. `IspPowerGraph` has every link
between the sensors, CSI2A, CCDC, preview and resizer, one memory input and
two memory outputs: two cameras compete for the CCDC, a pipeline can be split
and joined in the middle, and an input and an output node can share one. Two
handles give a count of 2 on one node, one on each of two nodes of a pipeline,
or on two pipelines. `MaxDepth` is the code's 16, which no path reaches.
`PwmOneChannel` scales the registers down (6 bits, a width range of 10, a
clock of 101 Hz) and takes frequencies at both ends of the range, 0 and the
first refused one, and some between: periods from 1 to 50 ticks, shorter and
longer than the width range, so every rounding case occurs. Two files are
enough for an owner and the next one. `IspM2MChains` needs two buffers per node
for a queue that is not empty after a pass. `IspStatModules` has the three
buffers that can be in use at once (active, being copied, full) where the code
has five; a second configuration may be larger than the first, and two
configurations tell a stale counter from a right one. One client and the
STREAMOFF thread already contend for `ioctl_lock`; the safety properties were
also checked with two clients. `Gpio2Irq` has two files so that a pin can
change hands, and `MaxDone` is 2: the completion's count is compared with 0
and decremented, and reset by every wait.

Fairness. `Continue(t)`: a thread inside the driver runs again and gets
`queue->lock` some time; strong fairness, because the mutex is free and taken
in turn (`kernel/mutex.c` serves waiters in FIFO order). `Interrupt`, or in
`IspCapture` the hardware and `CcdcIsr`: a running pipeline delivers frames
and its interrupts are handled. No application call is fair: nobody needs to
call QBUF, STREAMON or STREAMOFF, and no signal or poll timeout is assumed.
A thread woken in `poll()` is inside the driver: its second look is fair.
`IspQueueLive` is restricted to non-blocking DQBUF because of
`IspQueueStuck`. `IspM2M`: a module finishes its frame, its interrupt is
handled, a thread inside the driver goes on; nobody needs to queue buffers.
`IspStat`: interrupts are handled, frames and DMA transfers end, and the
STREAMOFF thread goes on between interrupts (strong fairness: it cannot run
while one is pending); no client call is fair. `Gpio2`: threads that can run do
and every pin has edges for ever, which is the case `WaitReturns` is about; no
signal is assumed.

Deadlock is checked in all runs but `IspStatModules` and `Gpio2Irq`, whose
models end in a state of their own when the kernel would crash (`spc =
"crashed"`, `crashed`).

### Deviations noted without a run

The first three are reproduced by changing one constant of a cfg, the next three
by checking the property named:

- `IspQueueSafety` with `PartialStart = TRUE` violates `DriverContract`.
  `isp_pipeline_enable` stops at the module whose `s_stream` fails and leaves
  the earlier ones running (`isp.c:763`), and STREAMON's error path calls
  `omap3isp_video_queue_streamoff` without stopping them; `ispqueue.c:983`
  says drivers must stop the hardware before calling it.
- `IspCaptureSingle` with a second thread violates `DeliveredIsValid`. A
  QBUF between the test and the clearing of `underrun` in `ccdc_set_stream`
  is lost, and the first VD0 completes its buffer although nothing was
  written to it.
- `PwmOneChannel` with two channels that have timers violates
  `CompareInPeriod`: `pwm_precision_mask` is one variable for all channels,
  so after the frequency of one is set, the width of the other is computed
  for a period it does not have.
- `IspCaptureSingle` violates `DmaInQueuedBuffers`, that is
  `NoDmaIntoUserMemory` without its exception. `ccdc_disable` resets `stopping`
  (`ispccdc.c:1323`) before `ccdc_set_stream` sets `state` to STOPPED, and the
  sensor still runs: a VD0 handled between the two finds a continuous stream, no
  stop request and a buffer, and enables the CCDC again. STREAMOFF gives the
  buffers back, the CCDC stays enabled, and the next STREAMON, which opens its
  write port, makes it write to the old address.
- `IspQueueLive` violates `PollSeesReady`. `poll()` registers on the buffer
  that is first at the call (`ispqueue.c:1138`). If another thread dequeues that
  buffer after its completion and before the second look, the look finds the
  next buffer unfinished and the thread sleeps on, registered on the old one
  (`fs/select.c:757-804`); the completion of the next buffer does not wake it,
  until a signal or its timeout. `Documentation/DocBook/v4l/func-poll.xml:31`
  says that poll() "waits until a buffer has been filled or displayed and can be
  dequeued". `PollReturns` therefore ends when the first buffer changes.
- `IspQueueLive` violates `PollEndsWithStream`.
  `omap3isp_video_queue_streamoff` wakes only sleepers of ACTIVE buffers
  (`ispqueue.c:1004`), while its comment says all: a `poll()` on a buffer that
  is still QUEUED (a start that failed, a stop before the first frame) sleeps
  on, although poll() of an empty queue is POLLERR (`ispqueue.c:1125`).
  `PollReturns` therefore also ends when the pipeline stops.

Video nodes and queue:

- `isp_video_queue_alloc` returns `nbuffers` even when it allocated fewer
  (`ispqueue.c:688`), so REQBUFS may report buffers that do not exist.
- REQBUFS frees the buffers of a queue that does not stream, with their wait
  queues (`ispqueue.c:621`), also while a thread sleeps in `poll()` on one of
  them; when its call ends the thread removes itself from freed memory.
- The first buffer of an empty IRQ queue is written while its state is still
  QUEUED (`ispvideo.c:554`); `NoDmaIntoUserMemory` asks for QUEUED or ACTIVE.
- With `SensorStalls` (a stop that times out) `NoDmaIntoUserMemory`, and with
  `LateIrq` `DeliveredIsValid`, do not hold; `IspCaptureSingle` assumes both
  away.
- `isp_video_streamon` reads `entity.pipe` outside `graph_mutex`
  (`ispvideo.c:982`). In `IspPower` two STREAMONs on the input and the output
  node of one pipeline can both find it NULL; each starts the pipeline with its
  own `isp_pipeline`, and the interrupt handlers see only the bits of the
  second. `media-entity.c:213` wants the pointer identical for nested calls.

Memory-to-memory pipelines:

- A resizer that is stopped in mid-frame by STREAMOFF on one node returns from
  its interrupt at once (`ispresizer.c:1039`): the other node's buffer is not
  completed and no idle bit is set. When the stopped node streams again its own
  idle bit is set, the other one is not, and the pipeline idles with buffers at
  both ends until the other node is stopped as well. `StuckOnlyByResizerStop`
  bounds this; the preview engine, which has no such test, never gets stuck.
- The preview engine's handler needs `video->queue`, which STREAMOFF sets to
  NULL after a wait that gives up after a second (`isp.c:814`).
- With a second thread on a node, a QBUF between the clearing of the bits
  (`ispvideo.c:1118`) and `omap3isp_video_queue_streamoff` sets the QUEUE bit
  again, and the next stream starts with it although nothing is queued.
- `isp_pipeline_resume` (`isp.c:934`) fires a single shot whatever the bits say.

Statistics modules:

- A client that enables a module while `s_stream(0)` is between its steps
  (`ispstat.c:847`, `:864`) makes the call of the handler take it for running.
  A module that never had a buffer then uses `stat->active_buf`, which is NULL,
  with `stat_lock` held (`StreamStopCrash`); otherwise a count of `buf_err` is
  used up too early, or an empty histogram is queued; and STREAMOFF waits its
  second and marks the ISP for a reset. `raced` excludes this from
  `QueuedIsTrue` and `StopCompletes`.
- The counter returned by the configuration call is read outside `stat_lock`
  (`ispstat.c:633`) and is one too high when an interrupt comes in between.
- `hist_setup_regs` assigns the start and then the end of a region to the same
  variable (`isphist.c:111`), so regions always start at 0.

PWM and GPIO:

- PWM_REQUEST programs a timer to no pulse but leaves the width of the previous
  owner in the driver's record (`omap_pwm.c:61`). PWM_GET_WIDTH, "get the
  current duty cycle" (`pwm.c:235`), reports a pulse the timer does not make,
  and the next PWM_SET_FREQ puts it on the pin.
- GPIO_IRQ_INIT registers the handler before it initialises the completion
  (`gpio2.c:202`, `:210`). On a file's first INIT an edge in between finds a
  wait queue of zeroes and crashes (`HandlerCrash`), on a later one it is lost.
- Two GPIO_IRQ_INITs of one file that overlap both succeed, and the first pin
  stays registered for a `gpio_info` that close() frees; a GPIO_IRQ_WAIT that
  ends resets the completion under another waiter ("XXX need a mutex").
- Pin 0 can be taken, but not waited for or freed ("XXX pin 0 may be valid").
- An edge between the end of a wait and the `init_completion` that follows is
  lost, and a wait ended by a signal returns 0 like one ended by an edge
  (`gpio2.c:247`).

## Proofs

The theorems hold for every value of the constants that satisfies the named
assumptions of the modules, and under the hypotheses given here. A module's
assumption fixes types, finiteness and that the markers are none of the other
values; `BoardGraph` (see IspPower) is the only one about the shape of the
system.

| Theorem | Says | Hypotheses |
|---|---|---|
| *`IspQueueProofs`*: `TypeCorrect` | `TypeOK` | no wrong types |
| `QueueLockExcludes` | `QueueLockOwned` | no wrong types |
| `QueueSafety` | the six invariants of `IspQueueSafety`, `StreamLockOwned`, `MappedIsAllocated` | no wrong types, no partial start |
| `ListsNeverDrift`, `DmaTargetsPinned`, `QueueHoldsWhatWasGiven`, `DeviceRunsOnStreams` | `ListsAgree`, `DeviceTargetsPinned`, `MainQueueExact`, `DriverContract` | the same |
| `SleepersNotPassedOver` | `SleepersWoken`: a thread asleep in `poll()` has not missed the completion of the buffer it is registered on | the same |
| *`IspQueueRefines`*: `QueueIsFifo` | `ImplementsFifo`: every step is a step of `VideoFifo` or leaves it unchanged | the same |
| *`IspCaptureProofs`*: `CaptureIsQueueDriver` | `ImplementsIspQueue` | none: any threads, every disturbance on |
| `QueueOfCaptureIsSafe` | the queue's safety with the CCDC behind it | no wrong types, the sensor does not fail |
| `DmaStaysInQueuedBuffers`, `StopLeavesNothing`, `DeliversFrames` | `NoDmaIntoUserMemory`, `StoppedIsDisabled`, `DeliveredIsValid` | one thread, interrupts handled before the next frame event, the sensor neither fails nor stalls (the properties exclude `overtaken`) |
| *`IspPowerProofs`*: `PipelinesHaveOneOutput` | `OneOutputPerPipeline` | none |
| `StreamsAreCounted` | `StreamCountExact` | none |
| `ModulesCountTheirUsers`, `ModulesOnWhileUsed` | `UseCountExact`, `PoweredIffUsed` | none |
| `ClocksFollowUsers`, `ResetWithLastUser` | `ClocksCounted`, `ResetBeforeReuse` | none |
| *`IspM2MProofs`*: `TypeCorrect` | `TypeOK` | none |
| `ModulesWorkOnQueued`, `IdleBitsTrue` | `BusyOnQueued`, `IdleIsIdle` | none |
| `OnlyResizerGetsStuck` | `StuckOnlyByResizerStop` | none |
| *`IspStatProofs`*: `TypeCorrect`, `WritesToActiveBuffer` | `TypeOK`, `HwTargetsActive` | none |
| `StatisticsAreTrue` | `QueuedIsTrue` | none (the property excludes `raced`) |
| *`PwmProofs`*: `ChannelOwnedAlone`, `SignalStopsWithOwner` | `HolderHasTimer`, `StopsWithOwner` | none |
| `TypeCorrect`, `FrequencyKeepsDuty` | `TypeOK`, `DutyKept` | none |
| `OutputTogglesTwice` | `CompareInPeriod` | one channel has a timer |
| *`Gpio2Proofs`*: `InterruptsOwned`, `EdgesAreKept` | `HandlersOwned`, `EdgesKept` | none (`HandlersOwned` excludes pin 0 and overlapping calls) |

Each hypothesis stands for a deviation of the code, without which the run of the
same property fails: wrong types (`IspQueueWrongType`), a partial start, a
second thread on a capture node (`IspCaptureStaleUnderrun`), a stall, a late
interrupt, a second PWM channel (see the deviations above). What a VD0 does in
the last window of a stop is not assumed away: the
properties name it, so the theorems say that this window is the only one.
`SensorFails = TRUE` is a partial start of the capture pipeline: in
`IspCaptureSingle` it violates `StoppedIsDisabled`, the CCDC staying enabled
after the STREAMON that failed.

**Queue.** The inductive invariant `IndInv` is built in layers, each proved on
top of the earlier ones. `LockInv` adds `ArgValid` to types and lock ownership:
what QBUF and DQBUF remember across an interrupt is still the last, or the
first, buffer of the queue, because everything that changes the queue needs the
lock they hold. `FlagsAgree` ties `queue->streaming`, `video->streaming` and the
pipeline together at every place of STREAMON and STREAMOFF; without it a
STREAMON could find a streaming queue and lose its buffers. `MainQueueExact`,
`ListsAgree` and `NothingDoneYet` relate the lists: before STREAMON all
queued buffers are unfinished, so handing over the whole main queue is right.
`PinsValid` extends pinning from the IRQ queue to everything queued, and
`MappedIsAllocated` is inductive on its own. The refinement maps the FIFO to
the main queue, an entry being ready when its buffer is neither QUEUED nor
ACTIVE; in-order completion is exactly `ListsAgree`. `SleepersWoken` rests on
the same lists (`StepSleepers`): a second look that finds the first buffer
unfinished finds all of them unfinished, because the IRQ queue is the tail of
the main queue (`NothingFinished`), so a thread that sleeps on sleeps on a
buffer that is not completed yet, or that userspace has; and from there the
completion of its buffer wakes it.

**Capture.** The refinement needs only that interrupts belong to a started
pipeline (`IrqsOfPipeline`), and makes the queue's theorems hold here. On top of
the queue's invariant, `CcdcInv` describes the CCDC at each place of a start and
a stop. `Handshake` is what the three steps of `ccdc_disable` with VD1 and VD0
amount to: once VD1 has executed the request the CCDC is off, and VD0 of the
same frame is still to come; once VD0 has finished it the CCDC is off and writes
nothing, whatever frames follow, because a VD0 that finds a stop in progress
enables nothing. Once the request is withdrawn only the state of the CCDC says
so: `Stopping` keeps it off to the end of the call unless it is overtaken.
`Timing` fixes which interrupt can be pending in which part of a frame. `Frames`
says that a CCDC
that is enabled, writing or in underrun has a buffer, the first of the IRQ
queue, in its address register; `FirstIsWritten` that the frame under way goes
to that buffer, so VD0 may complete it. The invariant needs both: a buffer that
came after the start of a frame (`underrun`) must not be completed by that
frame. `FirstIsWritten` and `DoneIsFrame` hold only until the stream is being
stopped: a VD0 after the handshake completes buffers nothing was written to,
which the same STREAMOFF takes back before DQBUF can hand them out
(`StopHandsBack`).

**Power.** `LinkInv` says that the `input` and `output` fields know the enabled
links, which is why the modules' refusals keep the configuration in `Allowed`.
A pipeline is a class of connected entities, and a link joins the pipelines of
its ends and leaves the others alone (`PipelinesJoined`). With that and
`BoardGraph`, one walk changes the count of each entity of a pipeline by the
same number and of no other (`Moved`), and `PmUseCount` is the number of open
handles in a pipeline (`PairsCounted`, by a bijection). `PowerInv` holds the use
counts, that modules have power exactly while they are used and that the
references not held by a sensor's clock are one per open handle; a roll-back is
proved to give back the state it started from. `StreamInv` is the same argument
for `stream_count`: links do not change in a pipeline that streams, so the walk
that counts down meets the entities that the walk before counted up.

**Memory to memory.** The invariant says what each of the six bits stands for
(`StreamBits`, `IdleIsIdle`), which node's `isp_pipeline` is in use
(`PipeCounted`), that no pipeline is left ready without a pass being started
(`NeverReady`), and that a module at work has a buffer at every end it serves
(`WorkOnQueued`, with `AddrIsHead`). The hard case is STREAMOFF between its
steps: `WalkStops` says that a module STREAMOFF has waited for does not work
again. `PreviewIdleExact`, the converse of `IdleIsIdle`, holds for the preview
engine only; that it fails for the resizer is the deviation above.

**Statistics.** `HandlersExclude` says who may be in the common handler
(`module`, `dma` or the thread in `s_stream(0)`) and that a disabled module is
quiet; `LockHeld` what a client relies on while it copies or allocates with the
spinlock released; `ActiveBuf` that the active buffer is neither full nor being
copied and is large enough. For the contents, `TrueInv` holds until a client
races with `s_stream(0)`: `Recovers` follows the two frames that `buf_err` skips
after an overflow, `CapturedIsGood` says that what has been captured is a whole
frame with the counted configuration or an error is noted.

**PWM.** `OwnerInv` adds to the two ownership properties what makes them
inductive: a channel that is inactive is not held, an active one is held by one
file only, also while that file is between the two steps of `close()`, and a
timer is reserved exactly as long as its owner has not freed it. The order of
the two assignments in `omap_pwm_set_active` (free the timer, then clear the
flag) is what carries the unlocked `close()`. The arithmetic is three lemmas on
division: an accepted frequency has a period that fits the counter
(`PeriodInRange`), a width scaled to the period stays inside it
(`RatioInPeriod`), and reading the scaled width back loses at most one step of
the precision (`WidthReadBack`).

**GPIO.** `HandlersOwned` says nothing about threads on their way, so its
invariant adds, for behaviours without overlapping calls and without pin 0: one
thread at most is inside a file (`Alone`), and a file has no pin while its
GPIO_IRQ_INIT is under way (`InitFirst`). The second is what a mutex would give
and the early test of `irq_pin` alone does not. `Kept` needs neither: an edge
that came while no call was under way is still counted and nobody is inside the
file.

Only model-checked: all liveness (`StreamoffTerminates`, `QueuedIsReturned`,
`PollReturns`, `StopCompletes`, `QueuedIsProcessed`, `EnabledRuns`,
`WaitReturns`), because fairness and ENABLED are outside the prover; that the
driver's walk meets each entity of a pipeline once (`BoardGraph`: an induction
over the walk), on the board's graph; and what happens outside the hypotheses
above: wrong types, partial starts, late interrupts, stalls and a second
thread.

## Not modelled

QUERYBUF and the format, crop and parameter ioctls (they do not touch the
streaming state); the register context saved and restored with the ISP
clocks, and suspend and resume of a running pipeline; page-table walks,
scatter lists and cache maintenance
inside `isp_video_buffer_prepare` (abstracted to what is pinned); lens
shading and single-shot mode of the CCDC; preview and resizer behind the CCDC
in continuous mode; accumulated histograms and the histogram without DMA;
several handles on a node; the
components listed as not modelled in PROJECT.json. Third-party code, by far
the largest part of the repository, is not modelled.

Places of the code that look fragile and that no module reaches:
`vma_use_count` is changed without `queue->lock`, also by two processes that
share a mapping after fork (`isp/ispqueue.c:1053`); STREAMOFF reads
`entity.pipe` before it takes `stream_lock` (`isp/ispvideo.c:1091`);
`xclk_divisor` is changed outside `isp_mutex` (`isp/isp.c:246`) and soc1040's
`power_count` without a lock; with two enabled links into the resizer,
disabling one resets `res->input` while the other stays
(`isp/ispresizer.c:1607`); PWM_GET_WIDTH before any PWM_SET_FREQ divides by
zero (`omap_pwm.c:201`).

## Plan

Done: `VideoFifo`, `IspQueue`, `IspCapture`, `IspPower`, `Pwm`, `IspM2M`,
`IspStat`, `Gpio2`, and the proofs of the safety and action properties of all
of them. Next, in this order:

1. `IspVideo`: several handles on a node, `entity.pipe` read before
   `stream_lock`, `video->queue`; and `IspLocks`, the lock order with
   `mmap_sem`.
2. `IspCsi2`: the receiver of the horizontal camera writing to memory; sensor
   power through the subdev nodes against the pipeline's power walk
   (`power_count`, `xclk_divisor`).
3. Suspend and resume of a running pipeline, with the statistics modules'
   SUSPENDED state and the single shot of `isp_pipeline_resume`.
