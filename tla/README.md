# TLA+ models of guineapig

guineapig is a collection of small, independent programs. Nothing connects
them at run time, so each is a system of its own here. The largest is the
firmware of a USB 3.0 bulk source/sink on the Cypress FX3, with its memory
allocators and host tools (`cypress_fx3/cyfxbulksrcsink`). The others with
logic of their own are a gRPC server on completion queues
(`grpc_example/cpp`), a Qt client of rTorrent (`qmltorrent`), a Netty server
(`netty_example`) and an MQTT client (`mqtt_example`).

Paths below are relative to the repository; `cyfxtx.c` and
`cyfxbulksrcsink.c` are in `cypress_fx3/cyfxbulksrcsink/`.

## Inventory

| Component | State | Operations | What is hard | What makes it correct |
|---|---|---|---|---|
| DMA buffer heap (`cyfxtx.c:655-1181`) | bitmap of cache lines, search position, mutex, debug list and counters | init, de-init, alloc, free, enable checks, corruption check | callers of two kinds (threads wait, other contexts do not), teardown under waiters, a list read without the mutex | blocks in use never share a line, the bitmap is exact, an empty heap serves every request, the list holds exactly the blocks in use |
| Driver heap wrapper (`cyfxtx.c:250-493, 1086-1102`) | ThreadX byte pool, debug list and counters, no mutex | init, alloc, free, free all heaps, enable checks, corruption check | the list and the counters are updated by several threads without any lock | every block in use is on the list, the counters count |
| Memory helpers (`cyfxtx.c:509-651`) | none | set, copy, compare | overlap of source and target, unrolled loops | a set fills its block, a copy is exact, a comparison tells |
| Firmware application (`cyfxbulksrcsink.c`) | application active, DMA channels, event flags, standby, log index | SET_CONF, reset, disconnect, clear feature, function suspend, vendor requests, DMA callbacks, the application thread's loop | three contexts (USB driver thread, DMA callback, application thread) share flags without a lock; vendor requests are handed over in one slot | endpoints are started and stopped in pairs, each vendor request is answered once, the source keeps its buffers in flight |
| Firmware image and downloader (`tools/elf2img.c`, `tools/download_fx3.cpp`) | sections, checksum; file and device buffers | split sections, sum words; parse, download, program EEPROM and flash | section borders, padding, sizes in words and bytes, checksum after the fact | what the loader writes is what the ELF file says |
| Device list (`tools/libcyusb.cpp`) | table of IDs, table of open handles | parse configuration, open, close | reopening, limits of tables, an open that fails halfway | what was opened is closed, once; IDs fit their table |
| gRPC server (`grpc_example/cpp`) | one handler object per call, completion queue | request, write, finish, done tags | a thread writes while the queue thread advances; several tags of one object in the queue when it deletes itself | one operation outstanding per kind, no thread, operation or result of a processor outlives it |
| rTorrent client (`qmltorrent/src`) | pending requests by id, list of torrents | refresh every 5 s, replies | overlapping refreshes, late and failed replies | the list reflects an answer; requests do not leak |
| Netty server (`netty_example`) | composite buffer of the text that has not ended | frame decoder, JSON stage, encoder | texts cut and joined arbitrarily, buffers with reference counts | the answers do not depend on the cuts, no buffer is kept or freed wrongly |
| MQTT client (`mqtt_example`) | connection, reconnection | publish loop, reconnect in callback | reconnect and publish race | publishing resumes |
| ESP8266 sketches (`esp8266_example`) | retry counters | connect, publish | retries and a watchdog | connects or stops |

`websocket` (a session and an echo), `sdl2_example`, `openssl_crypt`, `packet_socket`,
`electron_example`, `pyobjc-scriptbridge`, `gnuradio` and `learn_rust` are
straight-line programs around a library call, flow graphs or data. They keep no
state that later calls depend on and are not modelled. `grpc_example/java` is generated.

The calls between parts of the firmware are: the application and the SDK
allocate through the two heaps (`CyU3PMemAlloc`, `CyU3PDmaBufferAlloc`); the
buffer heap takes its bitmap from the driver heap; the SDK calls the
application back from its USB driver thread and from the DMA driver; callbacks
hand work to the application thread through event flags and globals. The host
tools reach the firmware through files and USB only.

## Modules

| Module | Of what | Role |
|---|---|---|
| `BufferPool` | a heap of disjoint buffers | what `DmaBufferMgr` promises its callers |
| `DmaBufferMgr`, `MCDmaBufferMgr`, `DmaBufferMgr_proofs` | `cyfxtx.c:655-1181` | the DMA buffer heap, its instance for TLC, its proofs |
| `DmaBufLoops` | `cyfxtx.c:796-839, 899-943, 1047-1067` | the loops over the words of the bitmap, against the sets of `DmaBufferMgr` |
| `FxMem` | `cyfxtx.c:509-651` | operators: set, copy and compare, byte for byte |
| `MemHeap`, `MemHeap_proofs` | `cyfxtx.c:250-493, 1086-1102` | the driver heap and its proofs |
| `BulkSrcSink`, `BulkSrcSink_proofs` | `cyfxbulksrcsink.c` | the firmware application and its proofs |
| `Fx3Image` | `tools/elf2img.c` | operators: from a program to the words of its image |
| `Fx3Loader`, `MCFx3Loader`, `Fx3Loader_proofs` | `tools/download_fx3.cpp`, `tools/libcyusb.cpp` | the loader; programs for TLC; proofs |
| `HybridServer`, `HybridServer_proofs` | `grpc_example/cpp/HybridServer.cpp`, `grpc_async_processor.h` | the gRPC server and its proofs |
| `RTorrent`, `RTorrent_proofs` | `qmltorrent/src` | the rTorrent client and its proofs |
| `FoldFacts` | folds over sequences | lemmas: induction over numbers and over a sequence without an operator as a parameter |
| `FrameEcho` | the Netty server as its client sees it | texts between bars, each answered once |
| `NettyDecoder`, `NettyDecoder_proofs` | `netty_example/src/netty_example/NettyExample.java` | decoder, JSON stage and encoder of a connection, and proofs |

`DmaBufferMgr` implements `BufferPool` through `Pool == INSTANCE BufferPool WITH
open <- inited, blocks <- live`, and `NettyDecoder` implements `FrameEcho` through
`Echo == INSTANCE FrameEcho WITH arrived <- sent, answered <- fired`. `Fx3Loader` composes the converter (its files
are those of `Fx3Image`), the loader and the part of the USB library the loader
uses. In every module a definition whose comment begins with "mutant" is a
faulty variant that no action uses; a check puts it in the place of the definition
after it, and the property listed for it then fails.

### DMA buffer heap

`usedStatus` is the set `used` of the positions of its ones; a block of n lines
is n-1 ones and a zero, and that encoding, the rounding and the header and footer
are computed as in the code, in bytes. A call is a sequence of steps, one per access to
what callers share: `AllocCall`, `MutexGet` or `MutexRefused`, `AllocFound` or
`AllocFail`, `AllocMark`, `AllocLink`, `AllocFooter`, `MutexPut`; `FreeCall`,
`FreeUnlink`, `FreeClear`; `DeInitCall`, `DeInitBody`, `MutexDestroy`;
`CheckCall`, `CheckStep`, `CheckReport`. Threads wait for the mutex, up to 10 ms or
without end in the de-init; other contexts are refused at once. Taking the mutex
away resumes the callers that wait for it. `FreeUnlink` is one step although the code
writes several pointers: the corruption check, the only reader without the mutex, reads
the head and the backward pointers only, and an unlink changes just one of these.

The actions give the word loops of search, marking and clearing by what they
compute: the first run of zeros in the scan's order (`Candidates`, which keeps
the scan's two parts and its restart at bit 0 of `searchPos`), the positions
marked, the ones counted across words. `DmaBufLoops` has the loops themselves,
bit by bit and mask by mask, and `LoopsAgree` compares the two in every state of
the heap. It also says when the search fails although there is a run of
zeros that is long enough.

### Memory helpers

`FxMem` has the three functions on a memory of 20 bytes with the order of the
copy's writes: down from the end by groups of eight, but up within a group. They keep no
state, so `BlocksExact` is a part of `LoopsAgree`, for every pair of addresses below 10 and
every length up to 10: an empty group, one whole group and a rest of 0 to 7 bytes.

### Driver heap

The pool is ThreadX's and gives any free block or none. The list and the
counters are taken apart into single reads and writes, for they have no lock;
an interrupt runs to its end before anything else. The history variable
`clash` is set when two calls, or a call and an overrun, meet in the
unprotected part. `ListExact` and `CheckTells` hold only without `clash`. With
it blocks do drop out of the list; that is what the code does, and the model
goes on from there. `FreeHeaps` is `CyU3PFreeHeaps`: it ends the heap and clears the
list and the counters, `clash` starts anew with the next life, and the checks may be
switched between two lives. It runs while no call is under way, as the SDK calls it once all
else has stopped. The corruption checks of both heaps leave their walk at a pointer out of
range (`cyfxtx.c:475, 1163`); here a pointer always leads to a block, for an overrun
reaches signatures only, so that branch is there but is not taken.

### Firmware application

Three contexts share `active`, the request slot, the event group and the
two channels: the driver's thread (`SetConf`, `BusReset`, ..., with every
library call of start and stop a step: the endpoints, the channels, their transfers), the DMA callback (take, get, commit)
and the application thread (the loop of `BulkSrcSinkAppThread_Entry`: vendor
requests, stalled endpoint, link power, standby). The host is external: what it
may do is in the constants `Requests` and `HostEvents`, so that each run and each
theorem names the host it is about. `Refusals` says which calls the library may refuse: an
unknown speed, the configuration of an endpoint, a channel, a transfer, standby. A
thread that ends in the application's error handler hangs there for ever, with what it
has made or taken down so far: at "refused" after such a refusal, at "dead" for a mistake
of the application's own (a channel created twice, no buffer to fill), at "awake" when the
standby did not last and the device is off the bus. `CallbackDrained` is an assumption about the
SDK library, whose source is not here: it lets a callback end before it resets or
destroys its channel.

### Image converter and loader

`Fx3Image` splits headers into sections, sums words and appends the trailer with
folds, so that proofs can use it. Sizes are in words, and smaller: an EEPROM
address holds 8 words instead of 64 KB, vectors take 2 words, sums are modulo 97
instead of 2^32. The loader runs
`main`, `fx3_usbboot_download`, `get_fx3_prog_handle`,
`fx3_i2cboot_download` and `fx3_spiboot_download`, one USB transfer a step, each
of which may fail. Files may be of another kind, cut at any word, or hold a wrong
word. The EEPROM may acknowledge and not store; the board may come back after
its restart at any time or never. The part of `libcyusb.cpp` in use is there
whole: each `cyusb_open` reads `/etc/cyusb.conf` (`ParseConfig`, its list cut at the
end of the table), lists the bus, opens the devices of interest one after
the other and may fail at any of them (`Renumerate`); `CloseAll` is `cyusb_close`.

### gRPC server

One object for each call, with the status of `AsyncHandler_StreamReply`, the
operation that is out and the events in the completion queue (a set: the queue
promises no order). The queue's thread takes one event and runs
`Proceed` whole; the thread of a stream runs beside it, with the steps of `Write`
and `Finish` apart, and the destructor joins it. Clients may cancel at any time.
The build type is DEBUG, so assertions are on; a failing one stops the process
(`Abort`). Nothing makes the deletion of a processor wait for the answer to
`AsyncNotifyWhenDone`; `ProceedDone` on a deleted one reads freed memory, which is harmless
or stops the process.

### rTorrent client

One thread with an event loop: each handler is one action. `dropEvent` runs up to
its first message box, which runs the event loop itself. The server and
the network are external: answers come in any order, late, or not at all, and
then the library reports a failure. A row holds the version of its torrent.

### Netty server

A byte is a bar or a piece of JSON. `sent` is the stream, `in_buf` what
`channelRead` has not read of the buffer `cur`, `unread` and `parts` the readable bytes and
the components of `incomplete_buf`, and `refs` the reference counts. One turn of the
loop of lines 55-88 is `Keep`, or `TextEnds` or `NoText` followed by `Skip`. The exceptional
ways out are actions too: `ParseThrows` (an exception that line 79 does not
catch), `AssertionError` (line 86, which looks at the first byte of the buffer and not
at the next one, when assertions are on) and `TooManyParts` (Netty merges the
components of a composite buffer when there is one too many, and releases them).
`ctx.fireChannelRead`, the JSON stage and the encoder run within `TextEnds`, as they do in the
event loop.

## Runs

| Run | Instance | Shows |
|---|---|---|
| `heap` | 2 threads, 8 lines, words of 4 bits, 2 sizes, 3 allocations, symmetric threads | mutex, bitmap, blocks, debug list and counters under all interleavings, that the word and byte loops compute what they should, and that the pool is implemented |
| `heap_again` | a thread and a context that cannot wait, two lives of the heap | a second life starts clean; every call returns |
| `memory` | a thread and an interrupt, 3 blocks, 3 allocations | list, counters and corruption check, also after the heap was freed and set up anew |
| `bulk` | 2 buffers, SETCONF, RESET, halts, suspends, retries, link states; the library may refuse any step of a start or stop | the active flag, buffers of the source, recovery from a retry |
| `bulk_requests` | 1 buffer, all requests, a start from a live connection, VBus lost and back at any time; endpoints and standby may be refused | requests are answered; standby follows the loss of VBus, and ends asleep or awake at once |
| `bulk_switch` | request 0xB1 and SETCONF | violation: the application is active without channels |
| `load` | two programs, every cut, RAM, EEPROM of two parts and flash | the program starts only if it is complete and right; the EEPROM or flash holds the image; the library closes what it opened; the table of IDs, full at the second open, does not overflow |
| `load_bss` | a segment with zeros over several sections | violation: the zeros are not those of the program |
| `grpc` | 1 unary call, 2 streams of 2 replies | one operation, one waiting processor per kind, no deletion under a running thread or with an operation out, whole streams, all calls served |
| `grpc_slow` | 1 unary call, 1 stream | violation: a slow write stops the server |
| `torrents` | 2 torrents, 2 requests out, 1 change each, 1 file that is no torrent | answers find their requests, rows are true, each torrent that is still there gets a current row and the list comes to rest (rows of removed ones stay) |
| `netty` | streams of up to 5 bytes, any cuts, composite buffers of 2 parts, assertions on and off | the answers do not depend on the cuts, only the buffers of the open text are kept, a connection is closed for three reasons only |

Why the bounds are enough. Two callers are all it takes to interleave any two
steps of the heap; eight lines in two words let a block cross a word's border,
fill the heap and leave a hole, and the line size, header and rounding are
those of the code. Two lives show what the first leaves behind. Three blocks make
a head, a middle and a tail of the list. One or two buffers are the empty, the part
full and the full channel. One program begins within the vectors, has a header that is not
loaded and zeros at the end of another; the other is longer than what an EEPROM
address holds, so that it has several sections, writes and both parts.
Two streams and a unary call show calls of the same and of different kinds.
Two requests overlap as late and early answer.
Five bytes are two texts and their bars, a text over three buffers (one more than
the composite buffer takes), or a text that ends in the middle of a buffer with another
after it. The theorems below have none of these
bounds where they reach.

Fairness, and why it is justified:

- `heap_again`: a call that has begun goes on. A thread in de-init gets the
  mutex in the end, for ThreadX resumes the threads that wait for a mutex in order.
- `bulk`, `bulk_requests`: the three contexts are scheduled; one that waits
  for a callback to end before a reset or destroy is let through (strong
  fairness). A host that meets a stalled endpoint keeps trying to clear it. No
  other step of the host is fair; that it leaves the link alone in the end is the
  premise of `RequestAnswered`, `RetryRecovers` and `StandbyFollows` (`HostSettles`). They
  ask nothing of a device that has left for the boot firmware, or of a thread that hangs
  after a refusal or a standby that did not last (`Stopped`).
- `load`: the tool runs on: each transfer has a time-out.
- `grpc`: the completion queue delivers, threads are scheduled, sleeps end, and
  the library completes each operation, all per object.
- `netty`: the event loop goes on with a call of `channelRead` it has begun.
- `torrents`: the timer fires, the library answers or fails each request, and
  not every list is lost.

`CHECK_DEADLOCK FALSE` is there for the loader, which ends, for the gRPC
server, which runs out of calls within the bound or was stopped by an assertion or freed memory,
and for the connection of the Netty server, which closes.

## Findings

- `bulk_switch` (`cyfxbulksrcsink.c:954`): the application thread stops the
  application while the driver's thread starts it; `glIsApplnActive` ends true
  with no channel, against line 63.
- `load_bss` (`tools/elf2img.c:211`): zeros that span several sections.
- `grpc_slow` (`HybridServer.cpp:51`): the thread does not wait for the result of its
  last write, which `grpc_async_processor.h:155` asserts.

Seen while modelling, in the models as they are in the code, and stated by no
run: the search never joins free lines on both sides of the start of word
`searchPos` (`cyfxtx.c:931`, against line 899); the corruption check of
the buffer heap walks the list without the mutex and reports blocks that are
being linked or freed (`cyfxtx.c:1160`); the bits past the heap are masked with the
wrong shift for sizes the memory maps do not have (`cyfxtx.c:736`, against
730-731); a copy to a block
that begins 1 to 7 bytes above its source overwrites bytes it has still to read,
for it goes up within each group of eight (`cyfxtx.c:563-577`, against 558); VBus is not
looked at again after the delays before standby, so that standby is entered with
VBus on when it comes back in between (`cyfxbulksrcsink.c:1052`, against 1049), may end
at once, and leaves the thread in the error handler with the device off the bus; a
start or stop that the library refuses halfway leaves what it has made, and nothing
undoes it (331-405, 441-453); with
checks on, a buffer starts 20 bytes after a cache line and not on one
(`cyfxtx.c:689-690`); the driver heap loses blocks from its list when
an interrupt allocates while a thread links (`cyfxtx.c:344-346`, against
438-440); the answer of `check_fx3_flashprog` overwrites the bound of the search
for the programmer (`download_fx3.cpp:272`); an open that fails at one device leaves the
ones before it open (`libcyusb.cpp:185`), and the table of devices is not guarded as
the table of IDs is (`libcyusb.cpp:181`, and 102); a torrent that the server no longer
has keeps its row (`rtorrent_model.cpp:40-79`); the answer to `AsyncNotifyWhenDone` may come to
a processor that has deleted itself, which then reads freed memory
(`grpc_async_processor.h:119-127`, after 141). In `NettyExample.java`: with assertions on, line
86 fails for a bar in a buffer that does not begin with one; a text in more than
16 buffers closes the connection (44-46); nested too deep, a text closes it too,
for line 79 catches one exception class only; the composite buffer is not released when
the connection ends (112); the encoder does not complete the promise it is given (128); and a
bar that came in as `\u007c` goes out as it is, so that the answer falls apart (123-127).

## Proofs

All theorems hold for every value of the constants their module's assumptions
allow, and for every execution; a hypothesis beyond these is named here and in the theorem.

- `DmaBufferMgr_proofs`. `IInv` = `TypeOK`, the mutex (`MutexInv`), the bitmap
  and blocks (`HeapInv`) and the calls in progress (`CallInv`). `BitmapExact` alone
  is not inductive: a call between search and marking holds a run that is not
  in the bitmap yet, so the invariant says that this run is free, shaped and the
  holder's alone, and that no other caller is between. The mutex part has
  to survive a teardown that resumes waiting callers on a heap that is gone.
  Proved: `MutexHolds`, `NoSharedLine`, `NoLineLeaks`, `FreeIsExact`; with whole
  words of lines (`Lines % WordBits = 0`, true of both memory maps)
  `BlocksInHeap` and `ImplementsPool`. On top of it `DebugInv` has the debug list:
  what is linked and what is about to be linked or was just unlinked (`LinkInv`,
  `ListInv`), the headers and footers of the blocks (`SignInv`), the memory no block has
  (`RestInv`) and the search position (`SearchInv`). Proved: `ListIsExact`, and
  `ReportsAreTrue`, both without hypotheses, and `EmptyHeapServes` for whole words of lines.
  Last come the loops of `DmaBufLoops` and `FxMem`, and `LoopsAreExact`. The search has an
  invariant for each bit (`Searching`: the zeros before the next bit, and that no run that is
  long enough has ended yet), the masks and the count are solved in closed form (`SetStatusIs`,
  `CountIs`), and a copy is followed write by write (`CopyIsExact`, `CopyTears`), for memories and
  lengths of any size where `BlocksExact` has those of its check.
- `MemHeap_proofs`. `IInv` = where each block is (`OwnInv`), what holds before the
  initialisation (`RestInv`), that every meeting in the unprotected part is
  remembered (`ClashInv`), signatures (`SignInv`), and, without `clash`, the list with its
  counters at each of the steps that take it apart and put it together (`HeapInv`). It holds
over any number of lives (`FreeHeapsKeeps`). One
  caller is in the unprotected part at most, so its step says which pointers are not
  yet right. Proved for any number of threads, interrupts and blocks: `TypesHold`,
  `ListIsExact`, `CheckIsRight`.
- `BulkSrcSink_proofs`, in three parts, each with the hypotheses it needs.
  `AnswersAreMatched` has none: `AnswerInv` ties the request slot, its event flag and the
  transfer the host waits for to each other. `FlagIsExact` needs `DriverAlone`: no live connection at start, no request to switch or
  boot, so that the driver's thread alone starts and stops the application.
  `FlowInv` says for each of its steps which channels exist and where it goes next, and the
  steps of all others leave that alone (`Bystander`); `bulk_switch` refutes `FlagIsExact`
  without it. `StreamKeepsBuffers` and `TypeCorrect` need `CallbackDrained` as well (`BufferInv`:
  where the buffers are), and so does `NeverFails`. All of them hold whatever the library
  refuses and whenever VBus goes and comes.
- `Fx3Loader_proofs`: `WritesProgrammer`, that only a device that answered as the
  programmer is written, for any file and any failing transfers;
  `ClosesWhatItOpened`, for any devices and any number of turns of the search;
  `IdsAreKept`, that the IDs fit their table and are those of the beginning of the
  file, however often it is read; and `RomHolds`, that EEPROMs and flash hold the image
  the tool reports as written. Its invariant `RomInv` says what the part that is written
  already holds (`FileInv`, `EepromInv`, `FlashInv`), across the slave addresses, pages and
  sectors. The hypothesis `MaxImage <= 8 * SlaveWords` (512 KB) is the capacity of the
  EEPROMs that the addresses allow; the tool does not check it, and a longer image would be
  written over the second half of an EEPROM of 128 KB.
  `StartsRight`, that a board that was started has its program, goes by what
  the converter makes. `SectionsLaid` follows the loops over headers and sections (as traces,
  see `FoldFacts`): the image is laid out in sections that follow each other, their addresses are
  those of the headers and never meet, and each word of the file is at its address.
  `WholeImage` adds the trailer and `DataWordIs` which words a damage to the data can reach. `LoadInv`
  then says how far a load has come in that layout (`AtSection`, `AtRam`, `AtJump`): the checksum
  so far is that of the words read, the sections before are in RAM, and one wrong word
  is one that makes the sum wrong (`SumOfWrong`). Two hypotheses. `ProgramAssumption`, which TLC
  evaluates in `load`, says what a linker makes: loaded headers lie apart and in RAM, with
  what they take from the file in the file. `ZeroSumStartsAtZero` says that a program whose
  words sum up to zero starts at zero. The code needs it: the loader takes what is missing of a
  file for zeros, so a file that ends between the mark of the trailer and the entry point passes the comparison with a checksum of
  zero, and the board is started at zero.
- `HybridServer_proofs`. `IInv` = `TypeOK`, the number of objects (`CountInv`),
  the queue's thread that waits in a destructor (`JoinInv`), and for each object
  (`ObjInv`) what its status allows of its operation, its events and its thread. That the answer to
  `AsyncNotifyWhenDone` is the only event of a deleted object, and a stream's, is `DoneInv`.
  Every safety property of `grpc` is proved, for any number of calls and
  replies.
- `RTorrent_proofs`: `AnswersFindRequests`, that the map of requests and the
  requests that are out agree, so that the assertions of `xmlrpc.cpp` hold; and
  `RowsAreTrue`, for any finite set of torrents. Its invariant `RowsInv` says that every
  answer on its way, and every row, tells of a version that has been, and the
  fold of `download_list_finished` keeps that after each element of the answer.
- `NettyDecoder_proofs`. `IInv` = the counts (`RefsExact`), and that the components are
  exactly the buffers of the text that has not ended and never the one whose bytes
  are still to be read; without the latter a buffer could be counted twice. Proved for every
  stream, cut and bound: `RefsAreExact`, `BuffersAreHeld`, `ClosesOnlyForThese`. What
  `TextEnds` makes of `Part` needs the position of the first bar (`FirstBar`).
  `StreamInv` ties the decoder to `FrameEcho`: cutting the bytes that were read as `FrameEcho`
  does gives the texts that were answered or refused, and the text left over is what the
  composite buffer holds. Between a text and its bar the decoder is one byte behind, for it
  answers before it skips the bar, and that is the step where the abstract connection
  moves. From it `AnswersAreFramed`, and `ImplementsEcho`, the safety part of `EchoImplemented`.
- `FoldFacts`. The library's induction theorems take an operator as a parameter, which
  the provers here cannot instantiate. `LeastElement` and `UpTo` state induction over numbers with a
  set in the operator's place, and `FoldIsTrace` that a `FoldLeft` is the last value of its
  trace, the function from each position to what the fold has made of the elements up
  to it. An invariant of a fold is then a set of positions.

Every invariant and action property of a passing run is stated by a theorem. Only
model-checked is liveness (`CallsReturn`, `RetryRecovers`, `RequestAnswered`,
`StandbyFollows`, `ToolEnds`, `CallsServed`, `ListSettles`, the fairness of `EchoImplemented`),
which is out of the prover's reach, like `ENABLED`.

## Not modelled

The contents of packets and answers, counters, event log, debug output and
descriptors of the firmware; failures of its set-up
(`cyfxbulksrcsink.c:657-775`); the driver heap freed while a call is under way; the SDK library, ThreadX, gRPC, Qt and the
kernel, which are external and appear as what the code relies on; Netty and Gson; command lines and ELF header
checks of the host tools; of `libcyusb.cpp` the open by vendor and product and the FX2 and second FX3
download, which nothing calls, and the calls that hand their arguments to libusb; unplugging a board in the middle; sorting and
drawing of the torrents; the components `PROJECT.json` lists as `not_modelled`, each with its
reason.

## Plan

Done, in this order: buffer heap, firmware application, image and loader, gRPC server,
rTorrent client, driver heap; then the loops of the buffer heap and the memory helpers,
the configuration file and the accounts of the USB library, the Netty server. What is
left of the repository keeps no state between calls, or runs once from beginning to end, but for
the MQTT sender: its callback for a lost connection reconnects in a thread of
the Paho library, whose own states would be the model. A theorem that could
follow: the accounts of the buffers with a callback that runs on while its channel is reset, where one
buffer more than there are may be counted.
