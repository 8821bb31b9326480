# WinLib: TLA+ models, checks and proofs

WinLib (`src/winlib.cpp` and `src/src/`) is a C/C++ library for Win32 consoles and
small devices: a protothread scheduler with a command line and a text editor
running on it, timers, ring and circular buffers, active objects, a serial port,
an XModem transfer, a script interpreter, an archiver. This directory models the
parts whose correctness depends on sequences of calls and on interleavings, and
leaves aside the vendored code (dhara, Lua, picoC, term) and plain wrappers of
Win32 calls.

## 1. Inventory

| part | source | state | operations | hard behaviour | correct when |
|---|---|---|---|---|---|
| byte ring | `utils/ringbuf.c` | buffer, read and write index | write, read, peek, advance, flush | wrap, full against empty, overrun | a FIFO of size-1 bytes |
| task message queue | `pts.cpp` 271-383 | one ring per task | `PTS_PutMsg`, `PTS_GetMsg`, `PTS_CntMsg`, `PTS_WaitMsg` | framing by a length byte over wraps, full queue | a FIFO of whole messages |
| scheduler | `pts.cpp`, `pts.hpp` | 32 slots, task count, current task, C stack | add, delete, suspend, resume, restart, kill, `PTS_Process` | tasks change the table while it is walked; nested passes | every task is visited, the count is right, nobody starves |
| timer list | `TIMER.CPP` | delta list from a pool of 48 links | `Schedule`, `Cancel`, `ProcessTimers` | delta arithmetic, equal times, full pool, re-arming | an event fires exactly when its ticks have passed |
| timer API | `TMR.CPP` | the list, a mutex, flags | new, delete, start, stop, delay, event, timer thread | the timer thread takes no lock; a delay keeps the mutex | flags come at the tick asked for, no deleted timer is scheduled, delays end |
| tick counters | `bsp.c` | 32 counters with free/enabled flags | claim, return, reset, get, tick | counters run out | a claimed counter belongs to one owner |
| circular buffer | `CIRCBUF.CPP` | get, put, space | insert, remove, forward, rewind | put and count in separate steps, two threads, no lock | a FIFO, the count says what can be taken |
| editor | `ted.cpp` | list of lines, the line being edited, save flag, file name | keys, save, rename, quit | each line is copied between the list and its buffer, limits of 79, 80 and 82 | no text is lost, the save flag is true |
| command line | `cli.cpp`, `trm.cpp` | line, history, input | get line, `platform_uart_recv` | waits for a key inside a nested pass, hands over to the editor by suspend and resume | one of the two has the keyboard |
| XModem | `winlib.cpp` 1404-1974 | packet number, retry counts, line | receive, send | lost, garbled, late bytes, wrap of the packet number | what is written is a prefix of what was sent, both sides end |
| script | `SCRIPT.CPP`, `winlib.cpp` 228-1070 | records, data space, index, call stack, variables, timer | parse, save, load, 18 record types | room in the data space, jumps, call depth, timeouts, kill | records keep their data, returns follow calls, waits end as they should |
| active objects | `active.cpp`, `Thread.h` | thread handle, dying flag | start, kill, join | kill against run | no use after delete |
| serial port | `comport.cpp`, `winlib.cpp` 50-190 | handles, rx/tx circular buffers, thread | start, stop, read, write | thread and main share a ring and a mutex; delete while the thread runs | bytes in order, nothing after a stop, none forgotten in the driver |
| configuration | `cfg.c` | one struct, a file | set, save, load | partial file | load after save gives it back |
| coder, archive | `CODER.CPP`, `ZAR.CPP` | buffers, counts | encode, decode, append, extract | runs at the limit, end of input | decode undoes encode |
| CBOR, NMP, NLIP | `cbor.c`, `base64.c`, `crc.c`, `winlib.cpp` 2534-4290 | tokens, packet, frames, offset, open handles | write, parse, request, upload, download | noise, lost and late answers, lengths of heads and frames | the pieces tile the image, answers match, everything is closed |
| event dispatcher | `evt.cpp` | as the message queues | `EVT_Process` | never started in the repository | |

How they interact: `main` (`winlib.cpp` 2458-2530) starts the timer thread, lets
it call the tick handler of `bsp.c` through a periodic timer event, and then runs
everything else on one thread, calling `PTS_Process` while there are tasks. The
command line is a task; its `ed` command adds the editor as a second task. Both
wait for keys in `platform_uart_recv`, which calls `PTS_Process` again. The
circular buffer connects the serial port's thread with its clients. Scripts and
XModem are clients of the serial port and of the timers.

## 2. Plan

Order, most important behaviour first; an item in *italics* is not written.

1. `ByteFifo`, `RingBuf`; `MsgFifo`, `MsgQueue`; `RingProofs`.
2. `Pts`, `PtsProofs`.
3. `Deadlines`, `CTimer`; `CTimerThreads`, which implements `CTimer` (and so
   `Deadlines`) on a device and does not in the WIN32 build, with
   `CTimerThreadsProofs`; `Tmr`, the API on top, with `TmrProofs`.
4. `FileTransfer`, `XModem`, `XModemProofs`.
5. `Script`, `XScript`: sources, their records and the thread that runs them.
6. `Codes`, `Cbor`, `CborBuffer`, `NmpHdr`, `Nmp`; `Uploader`, `UploaderProofs`; `Upload`.
7. `CircBuf`, `Serial`, `SerialProofs`: the ring between the port's thread and main.
8. `Ted`: the editor.
9. *`Bsp`*, the tick counters; *`RllCoder`* against a reference decoder; *`Cfg`*;
   *`Console`*, the command line on top of `Pts`'s slots.

What composes what: `MsgQueue` is the ring with the framing of `pts.cpp` on top;
`CTimerThreads` instantiates `CTimer` and `Tmr` extends it; `XScript` extends
`Script`; `Upload` puts `Uploader`, which is `main`, its requests and the line, together
with `Nmp`, which extends `Cbor`, which extends `Codes`, and both know the headers of
`NmpHdr`; `Serial` extends `CircBuf`; `MCUpload` and `MCXScript` give them their
instances. `RingProofs` is about `RingBuf` and `MsgQueue`, which is built on it; it,
`TmrProofs`, `XModemProofs` and `CTimerThreadsProofs` share the lemmas of `SetInduction`.

Theorems that remain: that what is put into a CBOR buffer is parsed and that a captured
upload is put together again, for which `Cbor` and `Nmp` would have to do without their
recursive operators and the prover with inductions over data.

## 3. Modules

### RingBuf and ByteFifo

`buf`, `ReadIndex`, `WriteIndex` are the fields of `tRingBufObject`. Each
function that changes the ring is an action: `Write` and `Read` stand for the
block functions and for the single-byte ones (a block of one), which the C code
also implements as a loop over them. The `ASSERT`s are guards. `got` is what a
call returned and `call` records which call it was, so that the refinement does
not only say that the contents changed like some queue operation but like the one
called for. `ByteFifo` is the promise: a bounded queue with put, take, drop,
clear and a "force" that pushes old bytes out.

### MsgQueue and MsgFifo

The same ring with the framing of `pts.cpp`: `PutMsg` and `GetMsg` are
`PTS_PutMsg` to one task and `PTS_GetMsg`. `PTS_CntMsg` is modelled with the
faulty `RingBufGetAt` it is built on: what a read outside the buffer returns is
any byte. The abstract queue is one of whole messages.

### Pts

The scheduler and its C stack. A frame of `stack` is an active `PTS_Process`
with its loop variables; `Visit` is one round of its loop, up to the call of the
task's `Init` or `Run`; `Return` is the end of that call. In between the task's
code may call any function of the scheduler, including `PTS_Process`. What the
tasks do is left open: every task may do every call at every time, so the
results hold for all tasks. `CONSTANT Careful` says that the slots named in calls
hold tasks, as the library's own code ensures; the `pts` commands do not. A task may be
added without messages (`msglen` 0): its slot then keeps the buffer pointer of the last
task there, which `PTS_DeleteTask` has freed, and its own deletion frees it again. No code
in the repository adds such a task, the interface allows it. `MessagesOwned` says that this
is the only way to misuse a pointer, and that a task with messages is safe from it.

### CTimer and Deadlines

`list` is the chain from `Last->Next` on. `Scheduled` and `Cancelled` are the
delta arithmetic as functions from list to list; `ProcessTimers` is one tick,
re-arming included. A link is in the list or free (`pThis == NULL`), so a full
pool is a list of `MaxEvents` links. `Deadlines` keeps no
order, only how many deadlines each event has at each time: a tick brings them one
nearer, those that reach 0 fire, and periodic ones begin again while there is room.

### CTimerThreads

The same list link by link. `node` is `Links[]` with `Last` at 0, `th` holds what
the timer thread and the caller are doing: a step is one C statement that reads
or writes a link, or one round of a loop. Callers exclude each other with
`TMR_Mutex`, so one stands for all. `MayStart` is `int_disable`: with `Win32`
FALSE a call starts only when no other is under way, and then the pointer code is
shown to implement `CTimer`: `done` records the list, what fired and which call it
was whenever a call returns, and these three are `CTimer`'s variables. With
`Win32` TRUE the `#ifndef WIN32` lines are gone, as in the project's build, and
the timer thread and a caller interleave. The device run has `VIEW LiveState`:
what a free link still holds is not told apart. `Fill` writes every field of a
link before any other statement reads it, so this loses nothing there; the other
run has no view, because there a free link can be read.

### XModem and FileTransfer

`s` and `r` are the locals of `Send::Process` and `Recv::Process`, with `pc` the place
in the code; `toR` and `toS` are `rxbuf` and `txbuf`. A frame is one element of the
line. Its bytes come together and are checked together; when its first byte is damaged,
they come as stray bytes that the receiver takes one by one, as the code does. Where it
looks for a command it may read any of them as an EOT, a CAN or the start of a frame
(`ReadAs`); it then takes what comes as the rest of that frame, whole frames included,
until it has all or a byte does not come in time (`RecvFrame`), and says NAK after a
silence. A frame whose first byte the receiver takes for the second CAN it is waiting
for is left to it as stray bytes (`RecvCanFrame`). What is never read in stray bytes is
a frame whose check fits: that would have to come about by chance, and no check could
tell. `Sends` and `Answers` are `putbyte`: the line carries, loses (the first of the
bytes sent) or damages, up to `MaxFaults` times. Either side may be begun first. The
threads of `main` are joined by two buffers in memory; the class is written for a serial
line (`getbyte` and `putbyte` are virtual), and the retries are there for what such a
line does. An answer that is damaged never becomes another answer. `Tick` lets time pass
up to the next timeout, and only when both sides wait for a byte and none is there;
computing takes no time. The receiver's packet number is the number of blocks written
plus one. This is the code of `winlib.cpp` under `MDM_TESTING`, one of the programs the
file can be built as. `FileTransfer` promises only what is true of every line: blocks in
order, each once, one result for each side.

What the code does not promise was found here. After a refused frame the
receiver waits for 1.5 s of silence before its NAK while the sender repeats every
second: unless a repetition is lost, the NAK is not sent before the sender has
given up (`RefusalIsFatal`). When the packet number has wrapped to 0 the test for
a repetition compares with -1: a lost ACK of block 255 ends the transfer; the other
good frame that is refused is one with a CRC, sent for a "C" that was still in the
line when the receiver had gone on to NAK (`AnswersForgiven`). `--retrans <= 0` is
never true: the sender stops repeating first. The sender takes any ACK for the answer to
the block it sent last (`winlib.cpp` 1880), so after a repetition that was answered twice it
is ahead of the receiver by one, and a block lost then is missing while both sides return as
if the transfer were whole; that the transfer is complete is therefore no property here, and
`FileTransfer` promises the order only.

### Tmr

`TMR_New` to `TMR_Event` with their guards, `Unlocked` being `TMR_Mutex`, over the list
of `CTimer`; `Run` is a turn of the thread, which takes no lock and so is never kept
out. `asked`, `age`, `again` and `owed` are history: they say what a caller may count
on. `owed` are the timers, and the delay, that found a link when they were last started
and were not stopped since; their flag is down until the tick they asked for and up,
once, from then on. Not among it: a timer started again without a stop has two links;
the end of the first start sets its flag, and a delete leaves the second link in the
list with a pointer to freed memory. A start that finds no free link does nothing and
says nothing (the same loses a periodic event that is re-armed while the pool is full),
and a delay then waits for ever. `TMR_Term` deletes the object without stopping its
thread and is not modelled. What one tick does beside a caller inside a call is the
subject of `CTimerThreads`.

### Script and XScript

`Script` reads a source line by line, as `ReadRecFile` does, one operator for each
key word's branch; texts are sequences of bytes and numbers take four cells of the
data space, so that what does not fit, and where a record's data lie, is what the code
makes it. `Savebin` and `Loadbin` turn pointers into offsets and back. `XScript` is
`xScript::Run`: a step is a record, a byte or one turn of a waiting loop, and between
them come ticks, bytes and the client's kill. The result codes are the code's.
`taken` and `waited` are history.

Where the code uses memory that is not its own, the next state is any the build can come
to: `pc` is `wild`, of which nothing is claimed, or the run goes on. So it is when a
`test` adds an offset that leads before the table (`GetNextRec`
checks the upper end only), when the port is used that was never opened or was closed (`com` is
NULL), and when a blank line came before there was a data space. Writes past the end of
the data space are counted in `reach`: the 0 behind a text, and the text of a `buf`
line, which is written from the start of the record before room is asked for. A blank
line makes a record of what stands in the table, of a length nobody has set
(`Leftovers`). A waiting loop that gets bytes looks neither at the timer nor at the kill
until there is no byte left, so a device that never falls silent keeps it for ever:
`WaitsAreBounded` has this exception (`Talks`), and `MaxIn` bounds only how many bytes
are unread at a time, not how many come.

What the code does and the model says: every run that leaves the loop with
`bSuccess` true ends with SUCCESS, the one that was killed between two records and the
one that met `exit 5` included; with a timeout of 0 a wait looks at the flag that an
earlier one has left and may give up at once; a source that runs out of room in a `tx`
line is not loaded, and `Load` returns 0. The model names no element past the end of
a variable; the code does not check.

### Codes, Cbor, CborBuffer, Nmp, Uploader and Upload

`Codes` is base64 and the CRC as the code computes them, `Cbor` the heads of
`cbor_write_*` and the tokens of `cbor_read_token`, `Nmp` the requests' packets, their
frames, and `download`, which puts captured frames together. `CborBuffer` is the program
under `CBOR_TESTING`: items are put into a buffer that may be too small, and what was
kept is parsed. `Uploader` is the program under `COM_TESTING`: `stage` is the place in
`main`, `pc` the place within a request, a step one received symbol, one timeout or one
request sent. The boot loader and the line are external: an answer is carried, lost,
damaged or late, noise may come before it, and the line may send characters without end
(`Babble`, one fault), which keeps `recv_buf_start` in its loop, as its counter is set
anew by each (`PortGivenBack` names this). `opened` are the handles: `COM_Init` opens
the device and two events, or the device alone when its event mask cannot be set, or
nothing; `COM_Term` (`Stopped`) closes the device and the read event of a port that is
connected. The write event, and the device of a port that never came up, stay open
(`ClosedAtExit`). `Uploader` knows how long the image is; what is in it and in the
captured file is added by `Upload`: its steps are those of `Uploader` with `file` and
`d` along, the result of a round of `download` being the one that `Nmp` computes.

What the code does and the model says: the result of a piece and the offset the loader
answers are not looked at, so a lost piece is not sent again and the upload ends as if
it were whole (`FaultlessUploadWhole` is what remains); sequence numbers are not
compared, so after one late answer every request is given the one before
(`AnswersInStep`), and so it would after noise with a carriage return in it, which ends
an answer (`NoiseEndsNothing`, in `UploaderProofs`). Numbers 24 to 31 are written as if
they were small, so an image of such a length cannot be downloaded. A long of 24 to 255
asks for two bytes of room and moves the end of the buffer by four, so it may lead past
the end, and what follows is then written there; `InBuffer` says that nothing else does.
`get_key` finds a key that begins with the one asked for. The capture of a run with a
listing begins with a request that has no "data", which `download` follows as a null
pointer.

### CircBuf and Serial

A byte is put or taken first and counted afterwards; counting is a load and a store,
since `--space` and `++space` of two threads exclude each other by nothing. `thread` is
the place in `ComPort::Run` and `Process`, `main` the place in the caller. `_mutex` is
held by `Process` and `Stop`. `inserted` and `got` are history: the ring is right when
what was inserted is what was taken and what is unread. `torn` says that a store
overwrote a count, after which nothing holds. Up to then the ring is a FIFO, with two
things found here: when the last cell has been filled and not yet been counted, `get ==
put` with `space` 1 is taken for empty, and `COM_recv_char` says -1 although
`COM_recv_count` said there is a byte; and main, whose scripts call `COM_recv_char`
without asking for the count, may take a byte that is put and not yet counted, whereupon
`space` is one more than the ring has cells and the count is -1 until the thread counts
it. When `SetCommMask` fails, `Start` reports failure and leaves the device open, and
`Stop` closes the event of reading and not the one of writing. `COM_Term` deletes the
object and does not end its thread: the step `Wild` stands for everything after that.

### Ted

`lines` is the list, `cmd` and `pos` the line being edited, `stage` where `Cmd_ted` is.
Characters are numbers, each typed once, so none can be lost or doubled unnoticed;
`NL` ends a line in a file. A key is a step, `Leave`, `Enter`, `Join`, `Revert` and `Stop`
with all that `edit` does between two keys. The limits are those of the code in small:
`cmdlen` characters can be typed into a line, `LoadMax` are read at once, `cmd` holds
one more than `cmdlen`.

What the code does not promise was found here, and each property names its
exception: backspace at the start of the first line gives up the edits of that line;
text typed into a buffer without lines is lost unless Enter follows; a line of 79
characters, saved, comes back with an empty line after it, and one of 80 in two; two
lines joined may be longer than the buffer they are then copied into; Ctrl-E changes
the name and writes nothing, and the buffer counts as saved. Each session makes a
task object and takes a tick counter that nothing gives back; after 32 there are none.

## 4. Runs

| run | asks | bounds |
|---|---|---|
| `RingBuf` | is every call the queue operation its name says; do peek and the contiguous blocks tell the truth | 4 cells, blocks up to 4: every pair of indices, the full ring, and overruns of the whole ring occur |
| `MsgQueue` | is the byte ring a queue of whole messages; is the count 0 exactly when it is empty | 5 cells, payloads 0..2: empty messages, two messages at once, every wrap position |
| `Pts` | count, completeness of passes, starvation | 3 slots, nested twice, tasks with messages |
| `PtsBare` | is any pointer misused but that of a task without messages | 2 slots, nested twice, up to 2 tasks without messages: a slot is used by both kinds in turn, and the double free occurs |
| `CTimer` | does the delta list keep every deadline; do timers and delays end at the tick asked for; is a deleted timer ever scheduled | 3 links; a timer, an event and a delay; up to 2 ticks: equal times, events scheduled more than once and the full pool occur |
| `CTimerThreads` | does the pointer code lose no link and implement `CTimer`, with calls that exclude each other | 3 links, 2 events, one of them periodic, delays to 2: insertion at either end and between, a full pool, an event scheduled twice |
| `CTimerThreadsWin` | violated: is every link accounted for when the timer thread takes no lock | same |
| `XModem` | are the blocks written in order, do both sides end, is a refused frame ever replaced, which good frame is refused | 3 blocks, modulus 3 (the number wraps), 4 faults of every kind, either side first; frames of 4 bytes (twice the tries, as 132 is more than 32); tries 2 for 16, 3 for 25, 2 for 10: with 4 faults each of these limits is reached |
| `XScript` | do records keep their data; do returns follow calls; do waits match, time out in time and end; does a kill end the run | 29 sources, each for one way records depend on each other or go wrong (full data spaces, blank lines, jumps out of the table, a port that is not open), and 64 of two lines over 8 statements; data spaces of 2 to 80 bytes (too small, just enough), 10 records, 3 calls, any number of received bytes of two values, one unread at a time, 3 ticks |
| `Upload` | do the pieces tile the image; does each request get its answer; is everything closed and the port given back; does a download restore the image; is what was put parsed | 6 command lines; images of 0, 25, 297 (one piece), 300 (two) and 638 (three, the last short) bytes; 2 faults; 2 kinds of noise; all sequences of two of 19 items at the limits of heads, lists of images, buffers of 8 and 64 bytes, 16 tokens |
| `Serial` | is the ring a FIFO and its count right between two threads; does anything come in after a stop; is a byte forgotten | a ring of 2 bytes, 4 bytes sent, 2 at a read: the ring is full, wraps and is overrun |
| `Ted` | is text lost; is the save flag right; does a saved text come back | 2 files, lines of 2 characters (3 after a join, then too long), 2 characters typed besides those of the file, 2 lines, one save |

In the scheduler's run deadlock is not an error: the main loop ends when there
are no tasks, and the program exits; nor is it in the runs of `XModem`, `XScript`,
`Upload` and `Serial`, where the program ends, nor in that of `Ted`, where a line that
overruns its buffer ends what is known.

Fairness. `Pts`: the one thread goes on inside `PTS_Process`, and a
task's `Run` returns in the end, which is what a protothread has to do. Nothing is
assumed of what tasks call. `XModem`: `main` begins both sides, the threads are
scheduled, and time passes while both wait; the line owes nothing, its faults are
bounded by `MaxFaults` only. `XScript`: the thread is scheduled and its timer ticks; the
device need not send and the client need not kill. `Upload`: main goes on while the port
is open, and the line brings what it does not lose. `Serial`: the port's thread is
scheduled, and main does not stay inside `Stop`; nobody has to receive, stop or send.

Some properties are conjunctions of parts that are named and commented where they are
defined: `LookAheadSound` (`PeekIsNextRead`, `ContigBlocksSound`), `WaitsAreBounded`
(`KilledEnds`, `WaitEnds`), `BufferCarries` (`RoundTrip`, `InBuffer`,
`ImageListsAccepted`, `CodesSound`), `RingSound` (`SerialTypeOK`, `FifoUnlessTorn`,
`CountedIsThere`) and `FilesFaithful` (`SavedMeansSame`, `SavedIsReloaded`).

What the violated runs show is in PROJECT.json under "findings".

## 5. Proofs

`RingProofs` proves, for every size, every set of byte values and every block
length, `Spec => []TypeOK` and `Spec => FifoSpec`. The second is the refinement:
with the type invariant, each action is shown to change the sequence of unread
bytes as the queue operation does; the work is in the lemmas on `Wrap`, `Used`
and `Past`, which say that cells counted from the read index are met once.

`PtsProofs` proves, for any number of slots and any nesting, `[]TypeOK`, and under
`Careful` the other three invariants. `TaskCountRight` is inductive with the type
invariant alone (cardinalities of the set of taken slots). `PassReachesAll` is not: it
needs that each frame's counter is exactly the number of taken slots below its index
unless a task was removed (`CountsWhatItPassed`), so that a counter equal to the total
leaves nothing ahead. `MessagesOwned` needs that a dangling buffer pointer is found only
in free slots and in those of tasks without messages, and that a taken slot has a thread
(`SlotsSound`).

`XModemProofs` proves `Spec => TransferSpec` twice, each time for any number of faults
of every kind. `TransferHolds` is for `N < Modulus` (files of at most 255 blocks) and any
counts of tries. The invariant it needs relates the sides only through the line: every
frame on its way, damaged or not, carries a block of the file (the sender is past the
last block only when it no longer sends), and a side has no result before it has ended.
A frame that passes for the next one then carries the next block, since two blocks of so
short a file have different numbers; and no step of the receiver writes anything else.

`LongTransferHolds` is for a file of any length, for `2 * MaxTry + 1 < Modulus` (33 <
256 in the code). When the numbers come round, a frame passes for the next one if it is
256 blocks away, so it has to be shown that the sender is never so far ahead. Too many
answers let it run ahead: each ACK moves it on, and it takes any for its own. The
invariant `PaceInv` bounds a weight: the blocks the sender is ahead of the file, the
answers on the line, the frames on the line that are not new, one more if such a frame
is about to be sent, and the tries the receiver has left for the first frame. An answer
that moves the sender on leaves the line; a repeated frame is gone once answered; only
the tries for the first frame make answers out of nothing, and there are at most `2 *
MaxTry`. What keeps the sender from repeating frames without end is that it repeats one
for want of an answer only when the line is empty (`Places`). The weight can grow where
frames are lost while the sender is two or more blocks ahead; then the frame that the
receiver needs is never sent again and nothing is acknowledged any more (`Stalled`).
This is also why the code's transfer can fail without need. Stray bytes that are read as
the start of a frame add nothing to the weight: the receiver answers them after a
silence only, when no answer of its own is left on the line.

`AnswersAreForgiven` proves `Spec => AnswersForgiven` for `2 * MaxTry <= FrameBytes` and
`Modulus > 1`. `ForgiveInv` says of a transfer in which no frame was lost and none
refused that the frames on the line are a chain, each the block before it again or the
next one, that it leads from the last block written to the sender's, and which kind of
check they carry, given which answers are on their way. The chain may break behind stray
bytes, which are what a frame with a damaged first byte turns into. Each of them that
the receiver reads as anything but the start of a frame takes one of its tries, or half
of one when it is read as a CAN; as the start of a frame it leads to a refusal, after
which nothing is claimed. There are no fewer of them than half tries (132 and 32 in the
code), so the receiver never meets a frame behind them without having refused one
(`Gap`, `Room`, `InStep`).

The same module proves `[]TypeOK` and `RefusalIsFatal` for files of any length.
`CountInv` bounds each counter by the place its side is in, since the loops test some
of them by equality: one step beyond the bound and they would not end. For
`RefuseInv` the clocks of the two sides have to be compared: as long as
the receiver waits for silence and nothing is on the line, it has longer to wait than the
sender, so it never answers a sender that still sends frames.

Of the messages `RingProofs` proves, for any ring and any largest payload,
`[]CountTellsEmpty` and `MSpec => MsgFifoSpec`. `QueueInv` says that the unread bytes
can be parsed: there is a queue of messages, and a function that says where each starts,
such that the length byte at every start leads to the next. The type of the ring says
nothing of that, and `PTS_GetMsg` would go on from the middle of a message as well. The
abstract queue is defined by recursion over the bytes; it is shown to be the one of the
parse.

`SerialProofs` proves `NothingAfterStop` and, for a ring of any size and any data,
`[]RingSound`. `QueueInv` there is a queue whose count may be behind by the one byte
that either thread has put or taken and not counted; it holds until `torn`. As main
takes bytes without asking for the count, it may take one that is not counted: the
invariant has the two "in flight" bytes and bounds `space` by one more than the ring
has. That the thread puts nothing in after a stop needs to know what is left to read
when it wakes.

`TmrProofs` proves `TypeOK` under `CTimer`'s `Spec`, and under `TmrSpec`
`TypeOK`, `FlagsOnTime` and `NoDeadEvent`, for any pool, timers, events and delays.
`ListInv` says that no link in the list has expired between ticks; then a tick is
a subtraction and a number of turns of the loop, each of which takes the
first link away, and a link that is re-armed goes behind those that expire now. `FlagInv`
ties flags to the list: a timer with a link has one, as many ticks to go as it has asked for
less its age, and no flag yet; one that is owed a flag has a link or the flag, so it is not
lost; the flag of one without a link is at most once up, and not too soon.

It proves `Spec => DeadlinesSpec` and `TmrSpec => DeadlinesSpec` too: the list of deltas
implements the count of deadlines. A deadline of the list is a link with the sum of the
deltas up to it, and `Pending` counts how many links have the same. That inserting or
taking out a link changes this count by one, and no other deadline, is a bijection
between places in the two lists. For a tick the loop is followed turn by turn: of each
deadline, those in the list and those of the links that are still to be armed again add
up to the same number, but for one, lost when its turn finds the pool full. With
`DeviceImplements` this leads from the pointers to the deadlines.

`CTimerThreadsProofs` proves, for `~Win32`, `[]LinksAccounted` and
`Spec => TimerSpec`: the pointer code does what `CTimer` says, statement by statement,
for any pool, events and delays. `IInv` speaks of a chain `c` of links: between calls it
shows the list of the last call and is all the links that are taken. Inside a call
it says how far the work is, one formula for each statement: in `Schedule` that the deltas
passed so far have been subtracted and the new link is not yet on the chain, in
`Cancel` that the delta has been handed on and the link is still on it. In a tick it says
that the list is the one `CTimer` reaches after `i` turns of its loop. That the
loop and `CTimer`'s agree on its end needs that each link that expires now takes one of
the `MaxEvents` turns left, so there are always enough. Nothing like it holds in
the WIN32 build, where the run `CTimerThreadsWin` shows the first theorem's
property violated; the other theorems about timers take `ProcessTimers` as one step.

`UploaderProofs` proves four properties of the uploader, for images of any length, any
command lines and any number of faults. `ClosedAtExit` needs to know in which places of
`main` which handles of the port are open (`StageInv`, `OpenInv`). For
`RequestsTileImage`, `TileInv` ties `offset` and `size` to the last request: while one
is on its way it starts at `offset`, otherwise it ends there. For `AnswersInStep`,
`StepInv` says that before a request nothing of an earlier answer is left, on its way or
on the line, except characters that end nothing; within one there is at most one answer,
its own, and nothing of it comes behind its end. It holds until an answer is late, and
only if no noise has a carriage return: this hypothesis, `NoiseEndsNothing`, is about
the line and not about the program, which would take the rest of such an answer for that
of the next request. For `FaultlessUploadWhole`, `FaultlessInv` lists where the answer
can be as long as there was no fault: on its way, on the line behind the line feed of
the one before, or read up to some symbol; then no request can time out while the answer
is still to come, and the loader has as much of the image as the requests reach.

`SetInduction` holds what the other proofs share. The library states induction with an
operator as a parameter; here it is stated with a set of naturals and proved from the
fact that `<` on them is well-founded, and from it follow the lemmas about sums along a
list, about counting and about sequences.

The only assumptions are the named ones of the constants, which every run evaluates, and
where they are stated `Careful`, `~Win32`, `NoiseEndsNothing` and the bounds of the
three theorems about `XModem`. Of the constants' assumptions two say more than a type:
the timers, the events and the delay are different objects (`DistinctAssumption`), and a
message fits into the blocks that the ring's functions are asked for (`RoomAssumption`).
`Deadlines` and `FileTransfer`, `ByteFifo` and `MsgFifo` are the abstract
specifications; all are shown to be implemented by proofs as well as by runs.

Only model-checked: liveness (`NoStarvation`, `BothEnd`, `WaitsAreBounded`,
`PortGivenBack`, `ArrivalsTaken`), which this prover cannot do; the script, whose
properties rest on what the parser has put into the records, by folds over a line, so
that a proof would be an induction over data; the CBOR buffer, the download of a
captured upload and the editor, as `Cbor`, `Nmp` and `Ted` use recursive operators and
are for TLC only.

Three more things the code does, which the models contain or exclude and no run asks
about: `RingBufGetAt` adds the index to the read index without wrapping it and lets an
index equal to the count through (`PeekIsNextRead` is about index 0, `CountTellsEmpty`
about its use in `PTS_CntMsg`); `PTS_DeleteTask` of a slot without a task, as the
command "pts del" allows, counts down (`Careful` excludes it); a periodic event that
fires while the pool is full is lost (`Deadlines` allows it).

## 6. Not modelled

Formatting, logging, screen output and dumps; the broadcast form of `PTS_PutMsg`;
`PTS_RestartCurTask` and `PTS_KillCurTask` (no callers); a delay of 0 ticks (the
callers turn it into a cancel); `TMR_Term`; forward and rewind of the circular buffer (no
callers); `ComPort::Write` and the sending ring, used by one thread; command line
parsing of the programs; writing errors of files; an allocation that fails.

Components without a module, with the reason: the command line (`cli.cpp`, `trm.cpp`:
line editing and history on one task, and its hand-over to the editor is suspend and
resume, which `Pts` leaves open to every task); the tick counters (`bsp.c`); active
objects (wrappers of Win32 threads: `Kill`, locks and a delete too early are steps of
`XScript`, `Tmr` and `Serial`); the configuration (`cfg.c`: one structure and a file, one
thread); the event dispatcher (`evt.cpp`: no caller); the modem object (`MDM.CPP`: not
compiled); the archiver and the coder (`ZAR.CPP`, `CODER.CPP`: pure functions and file
I/O); the log, base file, utility and exception wrappers of Win32 calls; the flash
simulation, a test harness of vendored code; the vendored libraries.
