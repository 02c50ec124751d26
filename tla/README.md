# A TLA+ model of DisasVisor

DisasVisor is the BitVisor hypervisor with additions: it receives disaster
messages by UDP while a guest operating system runs, and draws them over the
guest's screen. This directory holds TLA+ modules for the parts of the program
that carry its own logic, the TLC configurations that model-check them, and
proofs that TLAPS checks. Paths below are relative to `src/bitvisor` unless they
start with `src/`.

## 1. The system

The build considered is the default one: 64 bits, several processors
(`THREAD_1CPU` unset), `VPN`, `NET_DRIVER`, `VGA_INTEL_DRIVER`, `IP`, `DBGSH`,
`USE_ADVISOR = 1` and `USE_DISASVISOR = 1` (`Makefile.build`), in-kernel VPN and
storage (`VPN_PD = STORAGE_PD = 0`).

| Component | State | Operations | Talks to | What makes it correct |
|---|---|---|---|---|
| Thread scheduler `core/thread.c`, `core/thread_switch.s` | `td[]`, `td_free`, `td_runnable`, `old_stack`, current thread and stack of each processor | `thread_new`, `schedule`, `thread_will_stop`, `thread_wakeup`, `thread_exit`, initialisation | VM exit loops call `schedule()`; drivers create threads; heap | a thread is in one place; no stack has two users; `thread_exit()` does not return; nobody starves |
| Linked lists `include/core/list.h` | head and tail pointers | add, push, insert, delete, pop | everywhere | list order, no element linked twice |
| Locks `include/core/spinlock.h` | a byte, a word, two tickets | lock, unlock | everywhere | exclusion; the ticket lock is first come first served |
| PRO/1000 driver `drivers/net/pro1000.c` | descriptor rings, registers of the card, `d2->buf` | `receive_physnic`, `send_physnic_sub`, `sendvirt`, emulation of the guest's descriptors | card (concurrently), `recvphys_func`, guest | each good frame once and in order, in all four directions; the card does not write where the driver reads; what the guest sends goes out whole, correctly cut into TCP segments |
| Receive callback `vpn/kernel.c` (`vpn_callback_wrapper`) | none | picks UDP 26666 out of a batch | called by the driver, calls the parser | every message of the batch is handled |
| Message parser `vpn/kernel.c` (`handle_disasvisor_message`) | none | parse | calls the dialog | accepts the format, shows nothing else |
| Dialog `core/vga.c` | `vga_list`, `vga_active` | `vga_is_ready`, `vga_display_*` | graphics drivers | letters inside the dialog, in order, never in the dialog of another message |
| Intermediate server `src/intermediate_server` | `prev_earthquake_info` | poll, compare, send | public web server, network | each change is sent; a restart does no harm |
| Debug shell `core/vmmcall_dbgsh.c` | `s`, `r`, `stopped`, `tid` | exchange of characters guest/VMM | scheduler, processes | no lost wakeup |
| Timers `core/timer.c` | three lists | new, set, free, thread | scheduler, callbacks | expiry order, locks released |
| Processes, messages `core/process.c`, `core/msg.c` | process table, descriptors, generations, names | new, open, send, exit | scheduler, memory | no stale descriptor reaches a new process; no process ends under a thread |
| Start-up and panic `core/ap.c`, `core/panic.c` | counters, barrier, `paniccpu`, messages | start, `sync_all_processors`, panic | all processors | nobody leaves the barrier early; one message; everybody stops |
| Clock `core/time.c` | `lastcputime`, `lastacpitime`, per-processor counters | `get_time` | all processors, timers | time does not go back |
| Memory `core/mm.c` | page structures, lists of free blocks, bitmaps, pools | allocate, free, split, merge | everywhere | nothing handed out twice, nothing lost |
| Log `core/tty.c` | log ring, copies in panic memory | print, copy, recover | everywhere, firmware | the end of what was printed, in order |
| Network glue `ip/net_main.c`, `net/netapi.c` | task queue | enqueue, run | drivers, threads | not modelled, see section 7 |
| Graphics driver `drivers/vga_intel.c` | mapping of video memory | `is_ready`, `fill_rect` | guest's registers | mapping valid while drawing |
| Storage, USB, PCI, other network drivers, VM exits, page tables | device and CPU state | emulation | hardware | not modelled, see section 7 |

Hard to get right, and hard to test: processors interleave in the scheduler and
a thread changes its stack inside a critical section; the card writes into
memory while the driver reads; frames come in batches, bad ones among them;
datagrams are lost, duplicated and reordered; the guest changes its graphics mode
while the VMM draws; the script on the server dies and is restarted; tickets,
ring indices, clocks and unsigned lengths wrap; the machine is reset in the middle
of saving a log; an allocator releases its lock in the middle of an allocation. `PROJECT.json` lists these hazards line
by line, with the properties that cover them.

## 2. Modules

| Module | Models | Uses |
|---|---|---|
| `List1` | `list.h`, LIST1, as sequences | |
| `Thread` | `core/thread.c`, `thread_switch64` | `List1` |
| `Subsequence` | the elements of a sequence that are in a set, in a form proofs can unfold | |
| `Lemmas` | lemmas on lists, sequences, subsequences, iterated functions, remainders, least and greatest elements | `List1`, `Subsequence` |
| `ThreadProofs` | proofs | `Thread`, `Lemmas` |
| `FifoLock` | what `LOCK_LOCK` promises (abstract) | |
| `TicketLock`, `Spinlock`, `RwSpinlock` | the three locks of `spinlock.h` | `TicketLock` refines `FifoLock` |
| `SyncAll` | the barrier of `core/ap.c` | |
| `Panic` | `panic()` on several processors, `core/panic.c` | |
| `Clock` | `get_time()`, `core/time.c` | |
| `MCSmp`, `SmpProofs` | TLC instance of the locks, the barrier, panic and clock; proofs | the six |
| `DisasMessage` | the parser, and the documented format as a reference definition | |
| `Dialog` | text layout of the warning | `Subsequence` |
| `MCWarning`, `DialogProofs` | runs the parser on all small payloads and the dialog on its result; proofs of the parser and the dialog | `DisasMessage`, `Dialog`; `Lemmas` |
| `FrameQueue` | what a network driver promises (abstract) | |
| `RxRing` | reception of the PRO/1000 driver | `Subsequence`; refines `FrameQueue` |
| `TxRing` | transmission of the PRO/1000 driver | refines `FrameQueue` |
| `GuestTx` | transmission by the guest through the PRO/1000 driver | |
| `GuestRx` | reception by the guest through the PRO/1000 driver | |
| `MCPro1000`, `Pro1000Proofs` | TLC instance of the four directions; proofs of all four | `RxRing`, `TxRing`, `GuestTx`, `GuestRx` |
| `Notify` | server, network, receive callback, parser, display | `DisasMessage`, instance of `FrameQueue` |
| `MCNotify`, `NotifyProofs` | TLC instances; proofs | `Notify` |
| `DbgSh` | `core/vmmcall_dbgsh.c` and `tools/dbgsh` | |
| `Timer` | `core/timer.c` | `List1` |
| `Process` | `core/process.c`, `core/msg.c` | |
| `Log` | the log of `core/tty.c` | |
| `MCServices`, `ServicesProofs` | TLC instance of timers, processes, debug shell and log; proofs | the four |
| `PageAlloc` | page allocator of `core/mm.c` | `List1` |
| `AllocList` | small objects, `alloc()` and `free()` of `core/mm.c` | `List1` |
| `MCMemory`, `MemoryProofs` | TLC instance of the two; proofs | `PageAlloc`, `AllocList` |
| `Mempool` | memory pools of `core/mm.c` | `List1` |

The modules `MCSmp`, `MCPro1000`, `MCServices` and `MCMemory` put parts that share no
state side by side: a behaviour chooses one of them at the start, and the others do
not move.

Definitions whose comment begins "A slip" are wrong variants of the definition
that follows them. Nothing uses them; they stand for plausible mistakes in the
code, and each property fails when its variant replaces the original.

### Thread

`state`, `cpunum`, `context`, `stack` are the fields of `td[]`; `td_free` and
`td_runnable` are sequences; `tid` and `stackaddr` belong to `currentcpu`. `rsp`
is the stack a processor really executes on and `heap` the set of free stacks:
they are there to say what can go wrong. A context is represented by the stack it
is saved on. The boot stack of a processor has the processor's name.

One action is one critical section of `thread_lock`, except that `schedule()`
keeps the lock across `thread_switch()`: `schedule_found` (pick, relink),
`thread_switch` (save and load the stack pointer) and `switched` (unlock, now in
the new thread, in `schedule()` or `thread_start1()`) are three steps, during
which other processors may do everything that does not need the lock.
`thread_exit` and `thread_wakeup` take the lock twice and are two steps each. The
roles of threads (`boot`, `server`, `job`) come from their creators: boot threads
run the VM exit loop, `dbgsh_thread` is the only one that stops itself, the others
run to their end or forever. `pid`, `syscallstack` and `process_switch` are saved
and loaded together with `stackaddr` and are left out. Printing is left out. A
failed `ASSERT` or `panic` is a location in which the processor stays, with the
lock held where the code holds it.

### TicketLock, Spinlock, RwSpinlock, FifoLock

One action per locked instruction. In the ticket lock: the first `cmpxchg` that loads `next_ticket`,
the loop that takes a ticket (success and retry), the loop that waits, and the
`addl` of unlock. Tickets have `W` bits. The refinement mapping orders waiting
processors by the distance of their tickets to `now_serving`, modulo `2^W`. In the
reader-writer lock a reader counts itself first and looks at the sign afterwards;
`trylock_ex` is the failing and the succeeding `cmpxchg` of `lock_ex` without the
loop. The `SPINLOCK_DEBUG` variant is not built.

### SyncAll, Panic, Clock

`SyncAll`: what happens under `sync_lock` is one step, the loop behind it another.
`calls` and `returns` count the meetings (history), so that the property can say that
nobody is ahead of anybody by a whole meeting; `sync_id` has one bit in the run and
wraps in every second meeting.

`Panic`: one step per access to what processors share: counting, claiming `paniccpu`
(first try and after spinning), formatting into `panicmsg_tmp`, printing and keeping
the message, releasing, NMIs, the swap of `panic_shell`. `can_send` is what `panic_wakeup_all()`,
which is called once, finds: it returns without an NMI when there is no APIC, the other
processors have not been started, the guest has disabled the APIC or it cannot be mapped
(`core/ap.c:332`). A message is a number, and
`NONE` the empty one of `panic_test()`. A processor may panic again anywhere in its
dump and afterwards; more than `LIMIT` panics freeze it. `EverybodyStops` has three
exceptions that the code has: NMIs that cannot be sent (then a processor in the guest
goes on), a frozen processor, and a second panic of the processor
that has cleared `do_wakeup` (`core/panic.c:544`) and has not sent the NMIs yet, which
then nobody sends.

`Clock`: every processor's counter moves at its own pace; loading the last time,
reading the counter and the `cmpxchg`, whose failure the code ignores, are three
steps. Assumed of the ACPI timer: somebody asks for the time in each of its rounds
(4.7 s), and a call takes less than a round. Two weaknesses are outside of the
property: across a suspend a processor may see a time before its own last one,
because a failed `cmpxchg` has left `lastcputime` behind (`result` is reset in
`time_wakeup`); and between two processors no order is promised.

### DisasMessage

Operators only. The input is the memory the parser really looks at: the payload
and what lies behind it up to a NUL, because the code compares only the keyword
with the payload length. Positions take the place of the pointer `m`; a `return`
is the position `Stop`. Integers are as wide as the variables of the code, and
`detailed_info_len` wraps. `InFormat` and `Meaning` are the reference: the
comment at `vpn/kernel.c:541`, stated by cutting the payload into words.

### Dialog

One action per kind of loop iteration (`DrawLetter`, `StartRow`, `SkipByte`).
`drawn` records the letters with their pixel positions relative to the dialog's
corner. The assumption that the grid fits into the picture holds for the numbers
of the code (26 + 41 * 18 = 764 <= 800, 154 + 12 * 36 = 586 <= 600). `Receive`
chooses the message byte by byte before the loop starts.

### RxRing, FrameQueue

The card (`HwReceive`, `HwReset`; external) writes frames from `head` to `tail`
while `receive_physnic()` runs on the copies `h` and `t`. Registers are read once,
as in the code. `pkt` holds descriptor numbers, because the code passes buffers
by reference: what `recvphys_func` sees is what the buffer holds when it is
called. `FrameQueue` is the promise; the mapping makes the queue out of the
collected descriptors and of the good ones among those filled and not reached.
`recvphys_func` is taken to be set. `d2->lock` makes calls of `receive_physnic()`
exclusive, so there is one at a time.

### TxRing

`send_physnic()` fills descriptors from the `tail` it has read and then writes the
register, while the card (`HwSend`) takes frames out and the guest may reset it
(`HwReset`). No lock is held, so every access to a register is a step: the read of TDLEN
(`send_physnic`), each write of `write_mydesc()`, the reads of head and tail, the write
of tail; `Gone` is the return on a head that reads as all ones. `programmed` says that
TDLEN holds `TDESC_SIZE`, `based` that TDBA holds the address of the ring; a reset clears
both. One that comes after the write to TDBA and before the last one to TDLEN leaves the
card `Astray`: TDLEN looks right, so no later call programs the ring, and the card reads
descriptors from somewhere else until the next reset. `SentInOrder` excepts that time. Not
modelled are a card that vanishes between the reads of head and tail, and the guest
initialising the transmit unit anew (`d2->tctl`).
The mapping to `FrameQueue` counts a frame as queued when it is copied.
The run has one sender. With two, for instance the IP thread and the network tty on
another processor, which do not take `d2->lock`, both fill the same descriptors and
`SentInOrder` fails; the code has no statement against that, so it is a hazard with a
note and not a finding.

### GuestRx

`send_virtnic()` with `sendvirt()`: one step per descriptor, and for an extended one
two, because the done bit is stored before the length. The guest (external) either
polls done bits or reads the head register, which takes `d2->lock`. Cells of a buffer
that were not written are stale. `WholeFrames` compares what the guest has got, and
will get up to the head register, with what was accepted. Left out
(`GuestRxAssumption` and `GuestConfig` in `MCPro1000`), because `WholeFrames` fails there and the repository does
not say that it should hold: extended descriptors whose done bit the guest polls (it
may see the bit before the length, `drivers/net/pro1000.c:470`), and extended
descriptors with frames of several buffers (`rd1->len = pktlen` at line 508, although
only `bufsize` bytes are there). With legacy descriptors and several buffers, a guest
that polls done bits waits at the first one, which is never marked.

### GuestTx

`ring` is the guest's memory; the guest (`Queue`; external) puts the descriptors of
whole packets there and writes the tail register (`WriteTail`), which starts
`guest_is_transmitting()`. The handler is one step per descriptor, and one step per
round of the loop in `process_tdesc()` (`DataLoop`): copy what fits, send a segment
if there is one. Data are counted in cells; the header is the first cell and has the
fields that `tse_first()`, `tse_set_header()`, `tse_set_next_header()` and
`checksum()` read and write. A checksum is right if it was computed from the value
the guest prepared, and wrong if computed on top of an earlier one. `Expected` is
the reference: the segments of a packet, written down directly. `i`, `rest` are
local variables of the code; `queued` and `out` are history variables. `MCPro1000`
exercises one direction of the driver per behaviour. `Tidy` there says which packets
the properties are about: the last descriptor brings only cells of the last segment,
and the buffer does not hold two segments. Otherwise the loop that sends one segment
per round (`drivers/net/pro1000.c:905`) is left while a whole segment is still in the
buffer; the run `pro1000_cut` shows it for the first of the two conditions.

### Notify

The composition. `site` is the public information as an event number; `Poll`,
`ServerDies`, `ServerRestarts` are the script; `net` the network; `q` the receive ring, an instance of `FrameQueue` (which `RxRing`
implements); `batch` the packets `vpn_callback_wrapper()` still has to look at. A
frame is a record of the header fields the code reads, plus the real bytes of its
payload and of what lies behind; `HandlePacket` applies the parser of
`DisasMessage` to them. `ShowPicture` and `ShowText` are two steps, because the
guest may change its graphics mode in between (`GuestGraphics`). `shown` is a
history variable. Texts of this model fit into the dialog, so layout is left to
`Dialog`. The guest changes its graphics mode whenever it likes, and both changes clear
the screen. `vga_active` is stale then (`core/vga.c:125`): if the guest leaves and comes
back between picture and text, the letters are drawn without a dialog. The history
variable `left` records it, and `TextHasDialog` says that this is the only case, and that
letters never get into the dialog of another message.

The frames of others (`Traffic`) are any set of named frames with `TrafficAssumption`:
nobody but the server sends the keyword to port 26666 with a type that has a picture. A
datagram that does is a message, whoever has sent it, and is shown; one that holds the
keyword and little else is parsed on into what an older frame left in the buffer, as in
the finding `notify_blank`. Neither is excluded by the code, and `OnlyPublished` says
nothing of them. The nine frames of the run are one for each way
`vpn_callback_wrapper()` and the parser have to pass a frame over, each with a whole
message, or the rest of one, in or behind it. `env`, chosen at the start
from `Environment`, says which faults the network has, which other frames come, whether
the guest's graphics mode is steady, and how many events and restarts there are; the
properties that need a calm environment say so (`Calm`).

### DbgSh

One step per access to the unlocked variables `s` and `r`, on the thread's and on the
guest's side. The scheduler is reduced to the state of the one thread: will-stop,
stop and wakeup as in `Thread`. The guest program answers a request for input with a
key and everything else with 0, quits on the end mark and is started again.

### Timer

The lists, and per timer the fields the code compares. Every operation is one
critical section of `timer_lock`; the callback runs outside it, while others work on
the lists. `timer_new()` returns with the lock held when no timer is left
(`timer_new_null`); afterwards nothing moves but the time. Each processor has its own
clock, as `Clock` has them: a clock does not go back on its processor (`get_time`),
nothing is promised between two, and after a suspend all go on from a time that may lie
behind any of them (`time_wakeup`). `time - d->settime` is taken modulo `U64`, so a
processor whose clock is behind the `settime` of a running timer takes that one for
expired, and puts the timer it sets behind it. `behind` (history) are the timers set in
such a situation. `ExpiryOrder` lets only them stand behind a timer that expires later;
`Fires` excepts them, because they may have to wait for those in front. Such a processor
may also call the callback of a timer too early, and no property says that it does not.
`Fires` calls a timer due when its time has come on all processors, since any of them may
run the thread.

### Process

A process has no thread: a sender executes its function. `stack` is what each thread
is inside of, innermost last. Everything under `process_lock` or `msg_lock` is one
step, so opening (find the name, then fill a descriptor), sending (read the descriptor,
then check and call) and unregistering (clear the function, without a lock, then remove
the names) are two steps each, and processes may end and be created in between. The
history variable `born`, and `incarnation` in descriptors, tell successive processes
with the same number apart, which the code does by `gen`. Programs can always be
loaded and mapped; buffers of messages, limits and `msgsetfunc` are left out. A
function cleared by `_msgunregister()` may be registered anew by another thread before
`msg_unregister2()` runs, which then removes the new name; no property is about that.

### Log

The ring with its unsigned offset, which goes below zero when an old log is put in
front; copies with key and checksum in panic memory; resets at any time, which damage
any of the copies. Characters are numbered. `said` is what should be in the log. That
nobody else prints while the log is copied is assumed: in a panic the code waits for
the other processors for a time and then does not take `putchar_lock`.

### PageAlloc, AllocList, Mempool

`PageAlloc`: `mm_page_alloc()` recurses for a larger block with `mm_lock` released, so
`call` records on each processor how far up it is and, on the way down, the block it
has; `Pop`, `GoUp` and `Split` are its critical sections. The loop of `mm_page_free()`
is one step per round, under the lock. `PageCount[n]` is `1 << n`. An assertion that fails sets `asserted`; a
processor that runs out of memory stays in its panic, and may free the memory kept for
it. Two things follow from the code and break no property: a processor may report out
of memory while another one has the last large block under way and is about to split
it, and two free buddies can stay unmerged when one of them is put back by `Split`. That a
panic breaks the lock open (`mm_force_unlock()`, called at `core/panic.c:418`) is not
modelled.

`AllocList`: both functions hold `mm_lock2` throughout, so each is a step. `data` is
the bitmap as a set, `full` bit 7 of `p->n`.

`Mempool`: a pool with the lengths as the code keeps them. `mp->keep` is not
initialised by `mempool_new()`, so it starts with any value of `Keep`.

## 3. Runs

| Run | Bounds | Shows |
|---|---|---|
| `thread` | 2 processors, 4 threads, 2 stacks | `OnePlace`, `StackSafety`, `NoBadState`, `BootThreadStays`, and `ReadyThreadRuns`: no starvation in `td_runnable` and no wakeup lost. Two boot threads, two more that stop, wake, exit and are created again; table and heap run out. |
| `smp` | 3 processors; 2-bit tickets, 3-bit word; 4 meetings, 1-bit `sync_id`; 2 panics, limit 2; clock: 2 processors, 2 ticks each, 2-bit timer, 6 ticks, 1 suspend | exclusion of the three locks (`MutualExclusion`, `LocksExclude`); the ticket lock refines `FifoLock` and serves every ticket, and numbers wrap continuously (with `W` bits it supports `2^W - 1` processors, here 3); the byte lock is not left free and a waiting reader is not overtaken by writers (`WaitersGetIn`); `NobodyLeavesEarly`, `EveryCallReturns`; `OneMessage`, `EverybodyStops`; `TimeRight` |
| `warning` | 7 beginnings, 5 more bytes of 6, 3 remains; 2 x 2 cells | `ParsesFormat` against the reference definition, in both directions, with 3- and 4-bit numbers so that they overflow; then the text inside the dialog, in reading order, `TextShown`: 5 bytes overfill the 4 cells in every mixture of letters, newlines and other bytes |
| `pro1000` | reception: 5 descriptors, batches of 2, 2 good frames, 1 bad; transmission: 4 descriptors, 3 packets at a time; guest's transmission: ring of 6, buffer of 4 cells, segments of 2, 2 packets in up to 3 descriptors; guest's reception: ring of 4, 3 frames of 1 to 4 cells, buffers of 2 or 4 | `NoOverwrite`, `DeliversInOrder` (refinement of `FrameQueue`), `KeepsDelivering`; the ring holds two full batches. `SentInOrder` (refinement of `FrameQueue`); the ring gets full. `EveryFrameSent`, `HandlerEnds`; the buffer holds one segment and a part of the next, as 2048 bytes do with segments of 1460; packets are cut such that the last descriptor brings only cells of the last segment, see `pro1000_cut`. `WholeFrames`; frames need up to 2 descriptors and the ring of 3 usable ones wraps and runs out in the middle of one. |
| `notify` | network and ring of 2; three environments (`Weather`): calm, with 3 events and a restart; a network with all faults, 2 kinds of other frames and 2 events; the other 7 kinds and 1 event; the guest changes its graphics mode in the last two | `OnlyPublished`, `TextHasDialog`; where it is calm also `NeverBack`, `EveryMessageShown`, `LatestShown` |
| `services` | 3 timers, 2 intervals, 2 processors with clocks from 0 to 2 each, differences modulo 16; 2 threads, 3 process numbers, 2 descriptors, 2 processes created, depth 2; 3 characters sent; log of 4 characters, 9 printed, 2 copies, 2 resets | `ListsAgree`, `Fires`; `InsideLiving`, `NamesLive`: numbers are used again; `InStep`: nothing is lost, doubled or mistaken although `s` and `r` have no lock; `LogIsTail`: the ring is full and its offset wraps below zero |
| `memory` | 2 processors, 8 pages, blocks of 1, 2 and 4, a page of the image and one for a panic; 3 pages of small objects in 2 sizes | `EachPageOnce`, `FieldsAgree`, `SlotsAccounted`; memory runs out, pages get full |
| `pro1000_cut`, `notify_empty`, `notify_blank`, `dbgsh_lost`, `mempool` | as above, smaller; pool: 2 blocks of 4 units | findings, see below |

Deadlock is checked in the scheduler, which never stops. Elsewhere a behaviour may
come to an end: the parser, the dialog loop and the notification path have no more
input, processors stop in a panic, memory is exhausted, and counted events (frames for
the guest, meetings, ticks, resets) reach their bound.

### Findings

* `pro1000_cut`: `process_tdesc()` sends one TCP segment per round of a loop that is
  left when the descriptor has been copied (`drivers/net/pro1000.c:905`). When the last
  descriptor of a packet is copied completely in a round that sends a segment other
  than the last one, the rest of the packet stays in `d2->buf`, and the next packet is
  appended to it.
* `dbgsh_lost`: `dbgsh_send_to_guest()` tests `r` and `s` outside the lock
  (`core/vmmcall_dbgsh.c:54`). When the guest answers between the test and
  `thread_will_stop()`, the wakeup finds a running thread, the thread then stops, and
  the shell hangs while the guest polls.
* `notify_empty`: `vpn/kernel.c:711` returns from the whole callback on an empty
  payload, so messages behind it in the same batch are not shown; the README of the
  repository says that a received message is displayed.
* `notify_blank`: for a message without detailed info the parser skips blanks
  behind the payload and the unsigned `detailed_info_len` (`vpn/kernel.c:620`)
  wraps; the dialog then shows what an earlier frame left in the buffer. The server
  sends such a message when the page has lost its rows after it had some.
* `mempool`: `mempool_allocmem()` cuts a piece off the beginning of a free one with
  `q->off += len` (`core/mm.c:1201`) and does not reduce `q->len`. Freeing a neighbour
  can then make the free piece as long as the block, which is given back while a caller
  has a piece of it; the code asserts that nobody has (`core/mm.c:1257`).

## 4. Fairness

* `Thread`: every processor starts, every thread calls `schedule()` again and
  again (main loops call it on each VM exit, driver threads poll with it), and a
  processor inside a call goes on. Strong fairness on actions that take
  `thread_lock`: it is a ticket lock, which serves every ticket (`TicketIsServed`).
* `TicketLock`: weak fairness of the spinning loop and of the release. Nothing is
  assumed of the retry loop, so nothing is claimed before a ticket is taken.
* `RxRing`: weak fairness of the driver: the guest's interrupt handler reads the
  cause register, or `poll_physnic()` is called, again and again.
* `GuestTx`: the processor inside the handler goes on.
* `Spinlock`, `RwSpinlock`: spinning processors go on; holders of the byte lock and
  writers leave. Nothing is assumed of readers.
* `DbgSh` (only in `dbgsh_lost`): the guest polls, and a runnable thread runs, which is
  `ReadyThreadRuns` of `Thread`.
* `Timer`: the timer thread, which is scheduled again and again, goes on, on whatever
  processor it is.
* `SyncAll`: all processors execute the same calls of the barrier, and none is stopped.
* `Panic`: a processor inside `panic()` goes on, and an NMI gets a processor out of the
  guest to `panic_test()`. Nothing is assumed of one that gets no NMI.
* `Notify`: the server's loop never ends and an operator restarts it; the network
  does not keep a datagram forever (strong fairness, since the ring may be full in
  between); received frames are fetched and a batch is handled to its end.

## 5. Proofs

Every safety property that a passing run checks is proved for all values of the
constants. Constants are restricted by the named assumptions of the modules, which
hold for the numbers of the code and which TLC evaluates on the instances of the runs;
the few theorems that need more name it as a hypothesis (`Deployed`, `DistinctTexts`,
`Tidy`), and it is discussed below.

`ThreadProofs` proves for any set of processors, any table size and any set of
stacks, from `ThreadAssumption` only (the special values are different):
`TypeCorrect`, `ThreadsInOnePlace`, `StacksSafe`, `ExitNeverReturns` and
`BootThreadAtHand`. None of the properties is inductive alone: that a stack is not
shared needs to know who owns each stack and in which phase of `schedule()` each
processor is; that `thread_exit()` does not return needs that the boot thread is
at hand; and that needs that threads are in one place. The inductive invariant
therefore joins the four with the ownership of stacks (boot threads own the
stack of their processor, others a heap stack, no two the same), the relation of
`rsp`, `context`, `stack` and `stackaddr` in each phase, who holds the lock in
which phase, and the states a thread can have in each place. `Inductive` has one
step per action.

`SmpProofs` proves `TicketLockExcludes`, `TicketLockIsFifo`, `OtherLocksExclude`,
`BarrierHolds`, `PanicKeepsOneMessage` and `ClockIsRight`. The invariant of the ticket
lock says that the tickets given out are the numbers from `now_serving` on, one for
each processor that has one, modulo `2^W`; it needs fewer processors than numbers
(`TicketAssumption`; the code has 32 bits), and with it every step is a step of
`FifoLock` or a stutter. The word of the reader-writer lock is the number of readers,
plus the sign for a writer, so that a reader that has only counted itself cannot be
taken for a writer as long as there are fewer processors than the sign is large. Of
the barrier it is shown that there is always a meeting `m` such that each processor
has come to it and waits, or has left it or not come yet, that the counter is the
number of those that wait, and that the number which wraps tells `m` from `m + 1`
(`SmpAssumption`: one bit is enough). Of the clock, that a time handed out is
below the processor's counter or below the last common time; for the ACPI timer, that
the last time is less than a round behind.

`ServicesProofs` proves `TimerListsAgree`, `ProcessOutlivesItsCalls`,
`NamesOfLivingProcesses`, `ShellInStep` and `LogKeepsTheTail`. `TimerListsAgree` is for
any set of processors with any clocks: a timer that was not set by a clock that lay
behind is put where the list, up to its place, expires no later, because then no
difference of times wraps (`TimerAssumption`: time and interval fit into the width); and
one that was may stand anywhere. `InsideLiving` needs
that a descriptor, and what a sender has read from one, refers to a generation not
newer than the process has, and to the right process if the generation is the same.
`InStep` needs what `s` and `r` hold at each location of the two sides. That the log
is the tail of what was printed needs the same of the copies that are marked valid,
and that the size of the ring divides the range of the offset (`ServAssumption`; both
are powers of two in the code): otherwise the wrap below zero would lose the position.

`NotifyProofs` proves `TextInItsDialog`; `OnlyPublishedShown`, under `Deployed`; and
`ScreenNeverGoesBack`, under `Deployed` and `DistinctTexts`. `Deployed` says that the
numbers have the widths of the code, that a message fits into a datagram, and that the
page of the public server always has rows; without the last one the property is false,
which is the finding `notify_blank`. Of the frames of others only `TrafficAssumption` is
used: that none of them carries the keyword to the port with a type that has a picture.
`DistinctTexts` says that different events have
different texts, without which "older" has no meaning on the screen. Both hold for the
instance of the run `notify`. `TextInItsDialog` needs no assumption: what is on the
screen while a job is between picture and text is either that job's picture or nothing,
and nothing only after the guest has left its mode. The proof of the other two follows the parser through a message of the
server, byte by byte, for any keyword and for anything that lies behind the message in
the buffer. The invariant for the order says that the screen, the job, the batch, the
ring, the network and the site are about events that never decrease along the way.

`Pro1000Proofs` proves `CardKeepsOff` and `RxTypes` of reception, and that `RxRing` and
`TxRing` implement `FrameQueue` (`ReceptionIsQueue`, `TransmissionIsQueue`). Positions in a ring are
compared by their distance from one descriptor; then the descriptors the driver has
collected, those it has still to look at and those of the card follow each other, for
every size of the ring and of a batch. For the refinements, the frames between two
descriptors are a sequence that gets longer at the one end when a frame is stored and
shorter at the other when one is taken out. In transmission a register is written at a
time, so the invariant places the sender between the writes of `write_mydesc()` and says
what head and tail are worth there: until TDBA and TDLEN are both written, or after a
reset in between (`Astray`), the queue is empty. In reception only the good ones of them
count, together with those collected in `pkt`: taking a descriptor moves its frame from
the front of the one part to the end of the other, or drops a bad one that did not
count. `BatchInv` adds that `pkt` never outgrows a batch and is empty outside the loop.
The good ones are taken out with `Only` of `Subsequence`, which is `SelectSeq` written
as a recursive function; `Lemmas` proves that it satisfies its recursion and what one
element more at either end does to it.

`GuestGetsWholeFrames` is `WholeFrames` of `GuestRx`, from `GuestRxAssumption`: a guest
with extended descriptors reads the head register and has buffers that hold a frame
with its CRC. `GrInv` says what lies in the ring between the guest's next descriptor
and `s->head`: descriptors that, read one after the other from the partial frame the
guest has, give exactly the accepted frames it has not got yet (`Behind`); the other
case is a guest that polls done bits and has already read the last descriptor of the
frame being accepted (`Past`). The rest of the frame being copied, the
descriptors written for it and `pktlen` fit together (`WrittenInv`), which is also why
a frame dropped in the middle leaves nothing behind that the guest takes for data; of
several legacy descriptors only the last is marked done (`CleanInv`).

`GuestFramesSent` is `EveryFrameSent` of `GuestTx`, from `GuestTxAssumption` (each
descriptor holds something, packets without TSE fit into `BUFSIZE`, a segment leaves
room in it, checksums are left to the card with TSE, as it requires, and never in
legacy descriptors) and for packets that are `Tidy`. The invariant `GtInv` places the driver: at descriptor `k` of
packet `f` (`Located`: where the packets start in the ring, and what had to be sent
before each), with `s` segments of the packet sent and `m` of its cells taken
(`Spot`). Between descriptors (`Gathered`) `d2->buf` holds the cells of the packet
from the beginning of segment `s` to `m`, behind a header that has been carried on `s`
times, and `dext0_paylen`, `tse_first` and the saved header are what `s` segments leave;
in the middle of one (`Copying`) the rest of the descriptor starts at `m`, too. The
lemmas on segments show that the full segment in the buffer is number `s + 1` of
`Expected`, with its lengths, FIN and checksum, and that the last one is complete
exactly when the packet's last descriptor has been copied; this is where `Tidy` is
needed. One lemma per action then moves the place. `EachRoundCopies`, from the same
invariant, is the part of `HandlerEnds` that needs no fairness: every round of
`DataLoop` takes at least one cell out of the descriptor, so the buffer is never full
at the start of a round and `goto loop` cannot spin.

`MemoryProofs` proves `SmallObjectsAccounted`, `NoPageTwice` and `FieldsTrustworthy`.
For small objects: a page is in the list of its size exactly if it is not marked full,
and its bits are its header's and its objects' (`SlotAssumption`: a page has room for
an object). For pages (`PageAssumption`: the memory is a whole number of largest
blocks, as the code's 128 MB are), the invariant `PageInv` has four parts. `Tiling`:
the pages not kept back are divided into blocks that start at multiples of their size,
do not overlap and leave nothing out, and a page inside a block is an odd multiple of
the size it remembers, which is why a block is later split at the places where it
was merged although `mm_page_alloc()` does not write the size of the upper half.
`Lists`: the list of a size holds the free blocks of that size, once each. `Holding`: an
allocated block is with one caller, or one call is splitting it. `CallsOk`: that call
knows the size of the block it carries. For each part there is one lemma per
change (mark, free, merge, split) and the proof of an action puts them together.
`PageCount` is a recursive function; that it satisfies its recursion is proved by
constructing its finite parts (`PageCountDef`), with an induction by least
counterexample that uses no induction theorem of the library.

`DialogProofs` proves `TypeCorrect`, `LettersInside`, `LettersInOrder` and `MessageShown` for any
grid, letter size and picture that satisfy `DialogAssumption` and for messages of
any length. The strengthening says that `warned` is true exactly when the row
index has left the grid, and that every letter drawn lies before the next cell. For
`MessageShown` it says in addition that the letters before a newline are above the row
of the next cell, and that no beginning of the message has more letters than were drawn.

The same module proves the parser: `ParserMeetsFormat`, about a single call, and
`MessagesParsed`, which is `ParsesFormat`, from `MessageAssumption` (the keyword holds
no delimiter and no NUL) and `PayloadAssumption` (bytes, and lengths that `msg_len` can
hold). The keyword, the widths and the payload are arbitrary, and so is what lies behind
the payload up to a NUL. Both definitions are brought to one form, a `Layout`: the
beginnings and ends of six words. `InFormat` is a layout because the words cut out of the
payload are one; the parser's positions are one because each of its macros moves to the
next beginning or end. The words of a layout are those of the reference definition
(`LayoutWords`), and the number a variable of `w` bits ends up with, digit by digit, is
the value of the numeral modulo `2^w` (`ReadIsValue`).

`Lemmas` holds what several of these need. The recursive functions of the models
(cells up to a descriptor, frames up to a packet, what a guest has got after some
descriptors, values of numerals) are shown to satisfy their recursion by constructing
their finite parts, in most cases through `Iterates` and `IterationExists`: functions of
a sequence can be applied one after the other. `GuestTx` and `GuestRx` say that a
sequence is a beginning of another one with `SubSeq`, a form the provers know.

Only model-checked:

* the liveness properties (`KeepsDelivering`, `HandlerEnds`, `Fires`, `EverybodyStops`
  and the others of the table in section 3): the prover does not treat fairness;
* the findings, which are counterexamples.

## 6. Plan

Done so far: the scheduler, the notification path end to end, the network driver in all
four directions, what processors do to each other (locks, barrier, panic, clock), the
core's services (timers, processes, debug shell, log) and the allocators, with proofs of
all safety properties that the passing runs check. Next, the most important first:

1. `vga_is_ready()` called by two processors, with `drivers/vga_intel.c`.
2. The task queue of `ip/net_main.c`; `List1` at pointer level, shown to implement the
   sequences.
3. Segments smaller than half of `d2->buf`: what `GuestFramesSent` becomes when whole
   segments stay behind in the buffer.

## 7. Not modelled

More than four fifths of the C code in the repository is vendored: `crypto/openssl`, `ip/lwip`,
`edk`, `vpn/lib` and `idman`. None of it is modelled, so the modules cover a small
share of all lines, and a large one of those of `core/thread.c`, `core/timer.c`,
`core/time.c`, `include/core/spinlock.h`, `core/vmmcall_dbgsh.c`, the allocators, the
data path of `drivers/net/pro1000.c` and the code that DisasVisor adds to BitVisor.
Also left out: VM exit handling, shadow paging and instruction emulation (state
machines defined by the processor manuals); register-level emulation of PCI, USB and storage controllers;
pixel data and fonts; the network drivers other than PRO/1000, which offer the same
callback (`FrameQueue` is what they promise); the ADvisor drawing functions of
`core/vga.c`, which have no caller in this configuration.
