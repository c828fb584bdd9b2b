# TLA+ models of the ffmpeg transcoding pipeline

This directory holds a verification development for the repository: FFmpeg with
the container formats and codecs of Nintendo's MobiClip family added
(`libavformat/moflex*.c`, `mods*.c`, `moc3.c`, `vxdec.c`, `libavcodec/mobiclip.c`,
`vx*.c`, `encode.py`). Almost all of the 10 000 source files are codecs, (de)muxers,
filters and assembly: pure data transformations that a model checker has little
to say about. What is hard to get right and hard to test is the machinery that
runs them: the threads of `fftools/ffmpeg`, the queues between them, and the
threading primitives of the libraries. That machinery is what is modelled here,
and the container that the repository adds and whose layout is an algorithm of
its own: the movies of the Nintendo 3DS, cut into blocks with a table in front.

## 1. Inventory

### The system's parts

| part | source | state | operations |
|------|--------|-------|------------|
| thread queue | `fftools/thread_queue.c` | item fifo, stream-index fifo, `finished[]` flags, `choked` | `tq_send`, `tq_receive`, `tq_send_finish`, `tq_receive_finish`, `tq_choke` |
| sync queue | `fftools/sync_queue.c` | per stream: fifo, head timestamp, frame limit, finished; per queue: head stream, head finished stream, finished | `sq_send`, `sq_receive`, `sq_add_stream`, `sq_limit_frames`, `sq_frame_samples` |
| scheduler | `fftools/ffmpeg_sched.c` | state, terminate, waiters of demuxers and filtergraphs, last dts per output stream, `source_finished`, pre-mux queues, `nb_mux_ready` | `sch_add_*`, `sch_connect`, `sch_start`, `sch_wait`, `sch_stop`, `sch_demux_send`, `sch_dec_*`, `sch_filter_*`, `sch_enc_*`, `sch_mux_*` |
| thread message queue | `libavutil/threadmessage.c` | fifo, `err_send`, `err_recv` | `av_thread_message_queue_send/recv/set_err_send/set_err_recv/nb_elems`, `av_thread_message_flush` |
| slice threads | `libavutil/slicethread.c` | per worker: mutex, `done`; per pool: `first_job`, `current_job`, `done`, `finished` | `avpriv_slicethread_create/execute/free`, `thread_worker` |
| frame progress | `libavcodec/threadprogress.c` | `progress` | `ff_thread_progress_report/await` |
| container fifo | `libavutil/container_fifo.c` | fifo of pooled objects | write, read, peek, drain |
| frame threading | `libavcodec/pthread_frame.c` | per thread: state, packet, frames; hwaccel and async locks | `ff_thread_decode_frame`, `frame_worker_thread`, flush, park |
| frame-threaded encoding | `libavcodec/frame_thread_encoder.c` | ring of tasks, `task_index`, `next_task_index`, `finished_task_index` | `ff_thread_video_encode_frame`, `worker` |
| slice threading of decoders | `libavcodec/pthread_slice.c` | a pool of slice threads per codec context | `ff_slice_thread_execute` |
| executor | `libavutil/executor.c` | task list, workers | `av_executor_execute` |
| reference counting | `libavutil/refstruct.c`, `buffer.c` | counters, pools | ref, unref, pool get, pool uninit |
| filter scheduling | `libavfilter/avfilter.c`, `framequeue.c`, `graphparser.c` | status in/out, wanted, ready | `ff_filter_frame`, `ff_request_frame`, `ff_inlink_*` |
| fifo muxer | `libavformat/fifo.c` | message queue, recovery state, overflow flag | `fifo_thread_*`, `fifo_write_packet`, `fifo_write_trailer` |
| async protocol | `libavformat/async.c` | ring buffer, seek request, abort | `async_read`, `async_seek`, `async_buffer_task` |
| interleaving | `libavformat/mux.c` | packet list per stream | `ff_interleave_packet_per_dts` |
| 3DS movies | `libavformat/moflexenc.c`, `moflex.c` | muxer: queue of packets, open block, counter, sync points; demuxer: block, unfinished frames, clock of each stream | `moflex_write_packet/trailer`, `emit_frame`, `emit_front`, `moflex_read_packet/seek` |
| other MobiClip formats | `libavformat/mods*.c`, `moc3.c`, `mobiclipenc.c`, `vx*.c`, `gbavx.c`, `libavcodec/mobiclip.c`, `fastaudio.c`, `vx*.c` | parser position, reference frames | read/write header, packet, trailer; decode/encode |
| encoder scripts | `encode.py`, `encode_gui.py` | UI state, one child process | start, stop, poll |
| everything else | codecs, filters, (de)muxers, protocols, swscale, swresample, assembly | | |

### How they interact

`ffmpeg_sched.c` creates one thread per demuxer, decoder, filtergraph, encoder
and muxer. Each task but the demuxers owns one *thread queue* and blocks in
`tq_receive()`; upstream tasks block in `tq_send()`. Encoders that have to
produce output in step share a *sync queue* under its own lock. Demuxers (and
filtergraphs without inputs) additionally wait on a *waiter*: whenever a muxer's
stream advances, `schedule_update_locked()` finds the output stream that lags
behind, unchokes the sources that feed it and chokes the others; choking a
demuxer also chokes the queues of the decoders it feeds. A decoder returns the
end timestamp of a flushed stream to its demuxer through a *thread message
queue*. Errors and ends travel both ways: downstream as an EOF read from a
queue, upstream as the EOF returned by `tq_send()`. `sch_stop()` sets
`terminate`, releases every waiter, unchokes every decoder and joins all threads
in the order in which data flows.

### What is hard

* one condition variable for all waiters of a queue, flags that are set without
  a broadcast, and flags that are checked before a wait and not after it;
* two fifos that must stay in lockstep;
* choking and unchoking from several threads against ends of streams that must
  still be delivered;
* counters that are hand-shakes (`current_job` of the slice threads serves both
  as work index and as the count of finished threads);
* the start of a muxer (checked without its lock, then under it), the pre-mux
  queue and its limit;
* cyclic waits: a bounded queue upstream of a sync queue upstream of another
  bounded queue, or a demuxer that waits for a decoder that is choked;
* termination in the middle of all that, from the outside or by a failing task.

### What makes each part correct

| part | properties |
|------|------------|
| thread queue | items of a stream come out in order, once, under their own index; the EOF comes last and once; nobody sleeps who could go on; every blocked `tq_send()` returns and the reader learns of every end |
| thread message queue | one signal per message and per slot loses no wake-up; error codes free everybody |
| slice threads | every job of a call runs once, on threads with numbers of their own, between the call and its return; calls and free return |
| sync queue | nothing gets ahead of the streams that limit it; all end together; no sample is lost; what is buffered is bounded |
| scheduler | the transcoding ends, at every choice of the sources to run; nothing is lost on the way; outputs stay in step; a stop stops |
| frame threading | frames come out in the order of their packets; no reference is read before it is reported; flush and free return |
| frame-threaded encoding | packets come out in the order of the frames; no task is overwritten while a worker owns it |
| fifo muxer | with overflow and recovery, packets are written in order and not twice, none is lost without a cause, and after a gap the output goes on with a keyframe; every call returns |
| filter scheduling, interleaving | frames go through a link in order; packets leave in the order of their dts |
| 3DS movies | what is written is read back whole and in order; a block ends at its boundary; no frame spans a sync header; the table leads to sync headers |
| other formats and codecs | what a parser accepts is what the writer wrote |

## 2. Plan

Modules, in order; the first ten steps are done.

1. `StreamChannel`, `ThreadQueue`: the queue all tasks communicate through.
2. `ThreadMessage`, `ThreadMessageClients`: the queue of the libraries, and the
   programs of its test as clients.
3. `ParallelJobs`, `SliceThread`.
4. `SyncQueue`.
5. `SchedulerGraph`, `Pipeline`: the scheduler and the threads it runs.
6. `MoflexMuxer`, `MoflexDemuxer`.
7. In the pipeline, the start of the muxers: pre-muxing queues and their limit,
   `mux_ready_lock`, a header that fails.
8. In the pipeline, sync queues between encoders and a muxer
   (`send_to_enc_sq()` keeps its lock while it blocks), and subtitle heartbeats.
9. `OrderedJobs`, `FrameThreads` (`pthread_frame.c` with the codecs' use of
   `threadprogress.c`) and `FrameThreadEncoder`.
10. `FifoMuxer`, on `ThreadMessage`.
11. Left: interleaving (`ff_interleave_packet_per_dts`) as an operator, checked
    against a sort.
12. Left: seeking in 3DS movies, with the generic index of `libavformat/seek.c`.

Composition: `ThreadMessageClients` and `FifoMuxer` extend `ThreadMessage`;
`MoflexDemuxer` extends `MoflexMuxer` and reads what it has written; `Pipeline`
extends `SchedulerGraph`, instantiates `SyncQueue` for its operators, and uses the
thread queues in the form in which `ThreadQueue.tla` shows they behave (a bounded
FIFO per consumer, with per-stream ends, refusal and choking), without the
condition variable. Abstract specifications: `StreamChannel` for the thread queue,
`ParallelJobs` for slice threads, `OrderedJobs` for the frame threads of decoders
and of encoders.

Theorems left to state: that the blocks of a 3DS movie are aligned, and that an output
of the pipeline that ends by itself is complete.

## 3. The modules

### ThreadQueue, StreamChannel (`fftools/thread_queue.c`)

State as in the code: `fifo` (the container fifo of items), `fifo_stream_index`,
`finished[s]` (the two flags), `choked`; `pc` says of every thread whether it is
idle, waits on the condition variable or was woken. `accepted`, `delivered` and
`eofs` are history. Every action is one critical section under `tq->lock`, up to
`pthread_cond_wait()`: `Send`/`SendResume`, `SendFinish`, `Receive` (an item, an
EOF, the end of all, or waiting), `Poll` (a receive that does not block),
`ReceiveFinish`, `SetChoked`. A wait may end spuriously. With `AllocMayFail` the
second of the two writes of `tq_send()` may fail. The channel of a stream in
`StreamChannel` is what the tasks rely on: put, get, end, EOF once, refuse;
`Channels` is the refinement.

### ThreadMessage, ThreadMessageClients (`libavutil/threadmessage.c`)

The number of messages, `err_send`, `err_recv` and the state of each thread.
`pthread_cond_signal()` wakes one waiter, any of them; the queue has a condition
variable for each direction. `ReceiversOnTheWay` and `SendersOnTheWay` count
messages and slots against the threads woken: the argument why one signal is
enough. The clients are the loops of `tests/api/api-threadmessage-test.c` (with
the test's random flush turned into a choice), each setting its error when it is
done, or when it fails at once.

### SliceThread, ParallelJobs (`libavutil/slicethread.c`)

One action for each access to the shared counters (`first_job`, `current_job`),
for each section under a worker's mutex and under `done_mutex`, in the order of
the source, creation with its failures and freeing included. Atomics are taken
in the order in which they are executed; the code uses acquire and release on
the counter that hands over. `JobsRunOnce` is the refinement to `ParallelJobs`:
a call hands out jobs, each begins and ends once, the call returns after all.

### SyncQueue (`fftools/sync_queue.c`)

The functions of the file are operators from queue to queue (`SendFrame`,
`StreamUpdateTs`, `QueueHeadUpdate`, `FinishStream`, `OverflowHeartbeat`,
`BeforeReceive`, ...), and the actions are the calls `send_to_enc_sq()` makes:
add a stream, send a frame or the end, receive until there is no more; an
encoder may end early. Timestamps count the stream's time base; conversions
round as `av_rescale_q()` does, and the fields of 64 bits keep a width (`Wrap`).
`FRAME_SAMPLES` audio is cut from the front of the fifo.

### SchedulerGraph, Pipeline (`fftools/ffmpeg_sched.c` and the task threads)

`SchedulerGraph` is the graph and the decision of `schedule_update_locked()`:
`TrailingDts`, `Lagging`, and `Visit`/`Unchoke`, the recursion through
`unchoke_for_stream()` and its relatives written as a fold over a work list.
`Pipeline` has a program counter and a list of sends for each thread. A step is
a call of a queue or a section under `schedule_lock` with the queue calls in it.

| code | actions |
|------|---------|
| `demux_send_for_stream`, `dec_send_to_dst`, `enc_send_to_dst`, `send_to_filter`, `demux_flush` | `SendStep`: one action for each way a send can go |
| `send_to_enc`, `sch_enc_send` to the first frame | `EncOpen`, `SendOpen` |
| `sch_mux_stream_ready`, `mux_task_start`, `send_to_mux`, `mux_queue_packet` | `SendReady`, `SendMove`, `SendEarly`, `SendQueue`, `SendLate` |
| `send_to_enc_sq` | `SyncSend`, `SyncEnd`, `SyncPass`, `SyncDrain` |
| `sch_mux_sub_heartbeat`, called by the muxer thread | `MuxReceive`, `SendBeat`, `MuxWrite` |
| `input_thread` | `DemuxPacket`, `DemuxLoop`, `DemuxEnd` |
| `decoder_thread`, `sch_dec_receive` | `DecAsk`, `DecReceive`, `DecOverflow`, `DecEof`, `DecDrain`, `DecConsumersDone` |
| `filter_thread`, `sch_filter_receive`, `read_frames`, `close_input` | `FilterAsk`, `FilterFrame`, `FilterConfigure`, `FilterEof`, `FilterIdle`, `FilterWake`, `FilterRequest`, `FilterClose`, `FilterFinish` |
| `encoder_thread`, `muxer_thread` | `EncReceive`, `EncEof`, `MuxReceive`, `MuxEof` |
| `task_wrapper`, `*_done` | `TaskFails`, `Cleanup`, `Exit` |
| `sch_start`, `sch_wait`, `sch_stop` | `Start`, `Finish`, `Quit`, `StopSources`, `Join` |

Filters are reduced to three kinds: a source; `concat`, whose inputs a `trim` may cut
off (the first frame behind the end is dropped and closes the input; only once `concat`
is at that input, which in the graphs checked is the first); and one that joins a frame
of each input, as `hstack` does, without trims. A packet is reduced to its number, a
dts to the count of packets of the stream. A muxer whose streams are not all ready
keeps packets in pre-muxing queues; its streams become ready when their encoders have
got a first frame, or at once if they are copied. The sync queue is the one of `SyncQueue.tla`, with a frame counting one unit of time.
A heartbeat is a frame without data that makes a subtitle decoder and its
filtergraph go on.

### MoflexMuxer, MoflexDemuxer (`libavformat/moflexenc.c`, `moflex.c`)

The muxer collects packets until the trailer (`WriteVideo`, `WriteAudio`),
sorts them (`Trailer`), merges runs of audio (`NextFrame`) and cuts frames into
chunks (`EmitMedia`, a pass of the loop of `emit_frame()`), then writes the table
of the sync points the same way (`MediaDone`, `EmitFront`) and the file
(`WriteFile`). A file is a function from offsets to pieces: sync header, flags of
a block, chunk, zeros. The lengths of all of them are those of the code, so that
every offset is the real one; times are in ticks. The demuxer (`ReadBlock`,
`ReadChunk`, `EndBlock`, `ReadEof`) computes its offsets from what it reads and
not from the writer's: where there is no piece at its offset it reads payload as
a header, and the model stops, which TLC reports as a deadlock.

### OrderedJobs

What frame threads promise: jobs are numbered as they come in, are worked on at
the same time, end in any order, and what they give is handed out in the order
in which they came in, nothing twice. A job gives a sequence of items; the
caller may give up everything that is in hand.

### FrameThreads (`libavcodec/pthread_frame.c`)

The ring of threads with `next_decoding` and `next_finished`, the three states of
a thread, the async lock, the hwaccel mutex, and the hwaccel that travels from
thread to thread through the stash.

| code | actions |
|------|---------|
| `ff_thread_receive_frame` | `Receive`, `Return`, `SkipInput`, `NoInput`, `Collect`, `Relock` |
| `submit_packet` | `Submit`, `Start`, `SubmitFails` |
| `ff_thread_flush` | `Park`, `Flush` |
| `ff_frame_thread_init`, `ff_frame_thread_free` | `InitThread`, `InitFails`, `FreeParked`, `FreeThread`, `Join`, `Freed` |
| `frame_worker_thread` | `Wake`, `Release`, `Ready`, `Die` |
| the codec in it, `ff_get_format`, `ff_thread_finish_setup` | `SetUp`, `Serialize`, `FinishSetup`, `AllocFails`, `Decode` |

A codec is the choices it has: whether its threads share contexts, whether it has
a delay, and the hwaccels on offer (none, one that is thread-safe, one that is
not, one that is not even async-safe). A frame may need the one before it; the
wait for its progress is one wait until it is complete. A condition variable is
the condition that is waited for. `ctx`, `latest` and `stale` are history: the packet
that was set up last in a context, the latest packet set up in any (what a codec that
is not called, or whose allocation fails, leaves as it was counts as no setup), and
whether thread 0 got an older context at a flush.

### FrameThreadEncoder (`libavcodec/frame_thread_encoder.c`)

The ring of `thread_count + 2` tasks and its three indices, all of them modulo
the length of the ring as in the code, the workers with their one condition
variable and the calling thread with the loop of `encode_simple_internal()`.
`Encode` gives a packet, nothing, or an error. `InOrder` is the refinement to
`OrderedJobs`.

### FifoMuxer (`libavformat/fifo.c`)

`ThreadMessage` with a sender (the user of the muxer) and a receiver (the thread
that writes) that use the queue, and beside it what `fifo.c` adds: the overflow flag,
`queue_duration`, and the state of `fifo_consumer_thread()`. `Dispatch` is
`fifo_thread_dispatch_message()`: header, write or flush, each of which may
fail; `AttemptRecovery`, `TooEarly` and `GiveUp` are `fifo_thread_recover()`;
`CheckOverflow`, `Delay` and `Receive` are the rest of the loop. A packet has the
number of its call as its timestamp, whatever its stream, so each lasts one unit.

## 4. The runs

| run | what it shows | distinct states |
|-----|---------------|--------|
| `queue` | two senders of one stream, one of another, refusals and chokes: order, ends, wake-ups, the refinement, and that every blocked call returns | 25 222 |
| `messages` | three senders, two receivers with uneven work, flushes and failures: one signal is enough, and all can be joined | 21 266 |
| `slices` | two workers, calls of one to four jobs, twice, with and without `main_func`, creations that fail: each job runs once, nothing is left when a call returns, calls and free return | 236 476 |
| `sync` | three setups: time bases and limits; packets out of order; audio cut into frames: nobody gets ahead, all end together, nothing is lost or held for ever, and no encoder gets a frame behind its end | 729 478 |
| `pipeline` | seven graphs that run to their end by themselves: no deadlock, frames in order, outputs complete, lead bounded | 362 010 |
| `pipeline_stop` | five graphs that end, fail or are stopped at any time: sources stay choked, `sch_stop()` returns | 389 057 |
| `pipeline_premux` | a file so badly interleaved that a pre-muxing queue overflows: the transcoding hangs instead of failing | finding |
| `moflex` | two videos and audio, frames at the edges of the blocks: the demuxer returns what was muxed, the table and the sync headers are right | 379 340 |
| `moflex_block` | a frame of 9000 bytes in blocks of 16384: it comes back cut | finding |
| `frames` | three frame threads, codecs with and without shared contexts, delay and hwaccels; failed submissions, flushes, draining, freeing: order, contexts, locks, returns | 1 024 876 |
| `encoder` | three encoding threads and six frames with packets, skips and errors, closing at any time: the ring, the signals, order, returns | 695 574 |
| `fifo` | five packets through a queue of three, up to three failures, five sets of options: order, losses, key frames, timeshift, returns | 1 634 427 |

The type invariant of a module is a part of one of its invariants: `TypeOK` of the
thread queue; `KeptApart` (types, numbers of threads, no straggler, one last
thread), `Consistent` of the sync queue (types, the head is the lowest) and of the
frame threads (types, the assertions of the file), `QueuesInOrder` (types, frames in
order), `FileLayout` (types, table, clock of the player), `TasksOwned`.

Each property of a passing run has a mutant, an operator next to the definition
it replaces (its comment says *Mutant*), with which TLC finds the property
violated; they are listed in `PROJECT.json`. Each disjunct of the next-state
relations is taken in some run.

### Bounds

* Queues hold one or two entries (8 or more in the program): a full and an empty
  queue are reached all the time, and the thread queue needs two for an item of
  one stream behind another's. The proofs are for every capacity.
* Two streams, two senders of the same stream: one stream that ends while
  another thread still sends to it, and one beside it.
* Two workers and four jobs: a worker that gets no job, one that gets several,
  and a second call that finds a worker not parked yet.
* `MaxTs`, and setups of three streams: a head stream, a finished one and one
  that is neither; `BufSize` so small that overflows happen.
* `SCHEDULE_TOLERANCE` is two packets and the files have up to five, enough for
  a source to be choked, unchoked and choked again; every queue holds one item.
  Graphs: two files with one output (choking of demuxers), two streams of a file
  joined by a filter (choking of a queue and the overflow fifo of a decoder), a
  source filtergraph (the waiter of a filtergraph, and an input that closes while
  its source is choked), one that makes more frames than it gets, a loop, two
  sources whose encoders share a sync queue, subtitles with heartbeats of a video
  in the same file; smaller ones for the stop. There the decoder (of frames or of
  subtitles) may fail, and an encoder whose frames the sync queue keeps, since the
  source of its companion makes none (with one that does, failures and stops at any
  time are too many states). `PreMuxSize` is four, which is more
  than these graphs buffer before their muxer starts; in `pipeline_premux` it is
  one (in the program `max_packets`, 128 unless set, once more than
  `data_threshold` is buffered).
* Movies: after a sync header with its flags a block of 512 bytes has 453 left;
  the sizes 445, 447 and 448 leave a byte or two, nothing at all, and one byte
  too little, 900 spans blocks, and two frames of each video with up to three
  audio blocks put every combination of them behind each other. Sync headers are
  due at frames of video and in runs of audio, and not at others.
* Three frame threads and four submissions: the ring goes round, with a thread
  behind, one before and the one that is looked at. `HasRoom` keeps enough of the
  bound for a call that drains. Three encoding threads and six frames: the ring of
  five tasks goes round.
* `NElem` is three and `MaxPackets` five, so the queue of the fifo muxer is full
  with a packet in the consumer's hands; three failures are one more than the
  maximum of attempts. `timeshift` is less than the queue's length, as its
  documentation asks for, and the model has no flushes with it.
* `MaxItems`, `MaxChokes`, `MaxSent`, `MaxCalls`, `MaxJobs`, `MaxFrames`,
  `MaxSubmits`, `MaxFailures` bound counters that are unbounded in the program.

### The reduction in the pipeline's runs

`LocalFirst` in `MCPipeline` is an action constraint: when the next step of some
thread is a *local* one (`LocalStep`), it is taken before all others. Such a step
either reads only what that thread alone writes and writes only what it alone
reads (skipping a finished destination, leaving a loop, the parts of the clean-up
without a lock, asking again for the same input), or is an encoder's or muxer's
taking of an item, behind which others may put theirs before or after that. It
commutes with the steps of the other threads, cannot be disabled by them, and
makes no property false; hence every behaviour is equal, up to stuttering and the
order of such steps, to one that is kept. What is not seen is only that queues of
encoders and muxers are full for longer; those of decoders and filtergraphs are
seen in every state, and the lead of an output is counted when a packet is sent.
The constraint changes nothing in the specification, which the theorems are
about. Without it the same verdicts were obtained for graphs that are small
enough.

### Fairness

* `ThreadQueue`: weak fairness of every resumed send, of the reader, of the end
  of each task and of the unchoking; senders are tasks that always call
  `tq_send_finish()` when they end (`task_cleanup()`), the reader of a queue
  reads until the end of all, and the scheduler unchokes what it has choked at
  the latest in `sch_stop()`. A mutex is assumed to be granted in the end.
* `ThreadMessageClients`, `SliceThread`: weak fairness of every thread: the
  threads run.
* `FrameThreads`, `FrameThreadEncoder`, `FifoMuxer`: weak fairness of the calling
  thread inside its call and of each worker. That the user calls again is not
  assumed, nor is a spurious wake-up.
* `Pipeline`: only that some thread runs as long as one can, which is weaker.
  No thread can go on for ever, since every file is finite; errors and the
  user's wish to quit need not happen. For the graphs of `pipeline`, too large
  for a check of liveness, `NeverStuck` together with TLC's check for deadlock says
  the same.

## 5. The proofs

`ThreadQueueProofs` (for any streams, senders and capacity):

* `TypeCorrect` and `EndIsFinal` hold with failing allocations too.
* `Lockstep`, `Order`, `EndComesLast`, `Refinement` assume that allocations
  succeed (`~AllocMayFail`). `ItemsInOrder` is not inductive by itself: a
  delivered item is found only if the fifos agree, so the invariant proved is the
  conjunction of the types, the lockstep, the history (the delivered items
  followed by those queued for a stream are the accepted ones, unless the reader
  refused it) and what an EOF says (its stream has nothing queued).
* `NoSleeper` is inductive with the types alone: the broadcasts of the code are
  just enough.

`FifoMuxerProofs`, first part (the thread message queue, for any number of senders and
receivers and any capacity: `FifoAssumption` only asks that the user of the muxer and
its thread are among them; that they alone use the queue of a muxer, and that messages
can be freed, is part of `FifoInit`): the two counts of woken threads are inductive with the types; the proof
needs that a signal lowers the number of sleepers by one exactly if there is one
(lemmas on cardinalities).

`PipelineProofs` (every graph that the scheduler accepts, every tolerance, queue size,
failure and time of the stop):

* `SourcesAreStopped` (`SourcesStayChoked`). The invariant adds that `terminate` is set
  whenever the main thread is at the stop or after it: an update of the schedule that
  still runs then finds it set, although it is set without `schedule_lock`, because
  both `sch_stop()` and the updates change waiters and queues under that lock.
* `WellTyped` (`TypeOK`: the schedule, the waiters, the capacity of every queue). `TypeOK`
  is far from inductive, since what is sent next comes out of lists, fifos and positions
  that it says nothing of. `Typed` says what all of these hold: a send fits its
  destination (`Fits`: data goes to a sink of the sender, an end timestamp is awaited
  from a decoder, the sync queue is used by who belongs to it), an item is for an input
  of the reader, a pre-muxing queue has packets of a muxed stream, a demuxer is within
  its file and its loops, a filtergraph that is at work and not configured lacks the
  format of an input, and the sync queue is one that `SyncQueue.tla` can be in. Each
  part has one lemma for sends and one for all other steps.

`PipelineOrderProofs` (the same generality): `FramesArriveInOrder` (`QueuesInOrder`).
What a filtergraph gets next depends on everything upstream, so the invariant follows
the numbers of packets and frames from the file to the filter. `Run(s, a, b)` says that
the numbers in `s` are `a + 1 .. b`, in order and without a gap, whatever else is in `s`.

* `Flow`: the numbers in the queue of an input are a run from `a` on, and those its
  source has still to send are one behind it, unless the source has noted that the input
  is finished.
* `Follow`: the flow to an input of a filtergraph starts at what has arrived there and
  ends at what its source has passed on (`Passed`): for a filtergraph the frames it has
  made, for a decoder the packets it has decoded.
* `Fed`: a decoder's overflow fifo goes on behind what it has decoded, its queue behind
  the fifo, and what its demuxer has still to send behind the queue, up to what the
  demuxer has read in all loops so far (`FedBy`, `Counted`).

A receiver that has finished with an input, or a source that is at its end, is under no
obligation: tasks that fail and streams that are refused leave gaps, and nobody sees
them. `AllFollow`, all of this for each filtergraph input, is inductive with `Typed`, and
`FollowOrder` draws `FramesInOrder` from it. The lemmas on runs (`RunAppend`,
`RunShifted`, `RunPrefixed`, `RunDrops`) say what appending, taking and skipping do.

Both assume of a graph what `sch_connect()` asserts and `start_prepare()` checks
(`WellConnected`: kinds of nodes and inputs, one source to a sink, no sink without one)
and what the task threads are given (`Furnished`: a file has packets of its streams,
heartbeats go to decoders, the streams of the sync queue are its encoders and have no
fixed frame size). These are the module's `GraphsAssumption`, which every run of the
pipeline evaluates for its graphs.

`FrameThreadEncoderProofs` (any number of threads and frames):

* `NeverLapped` (`TasksOwned`). The indices only mean something modulo the length
  of the ring, so everything is said in distances: `Distance(i, j)` steps forward
  from `i` to `j`. Seen from `task_index`, first come the frames nobody has taken,
  then those of the workers and the finished ones mixed, up to
  `finished_task_index`, at most `thread_count + 1` in a ring of
  `thread_count + 2`; the lemmas say what a step of an index does to distances.
  `TasksOwned` is inductive once it is added that a finished task lies between the
  two ends too, and that nothing is put in before the threads are created.
* `ResultsInOrder` (`InOrder`), the refinement. A place in the queue of
  `OrderedJobs` is a task, counted from `finished_task_index`; `PutFrame` submits,
  `Encode` finishes at the place that a task's distance gives, `Result` delivers or
  drops the first. It needs `NeverLapped` (the task that is filled is not a job,
  the one that is finished is), and that an unfinished task holds no result.
* `NoneForgotten` (`NoFrameForgotten`), by counting the workers that are awake; it
  needs to know that nobody waits once `exit` is set.

`SliceThreadProofs` (any number of workers, jobs and calls): `ThreadsKeepApart`
(`KeptApart`) and `ImplementsParallelJobs` (`JobsRunOnce`). `current_job` counts two
things, the jobs handed out and then the threads that found none left, and no worker
knows which call it works for. The invariant counts threads: `first_job` is the number
of those that have begun in this call (`BegunThreads`), what `current_job` is ahead of
`nb_jobs` is the number of those that are through with it (`OverThreads`), so the thread
that finds `nb_jobs + nb_active_threads - 1` is the last one (`Counting`, `Ends`); a
worker that has begun has a number of its own and the sizes of this call (`Locals`); a
job was handed out exactly if one of the counters has passed it (`JobsTaken`); and
outside a call, while threads are created and while they are freed, every worker rests
(`Idle`, `Creating`, `Freeing`), whatever wakes it.

`FrameThreadsProofs` (any number of threads, codecs, packets and results of decoding).
The invariant `IInv` has a part for each thing that the threads share, as each theorem
needs a few of them:

* `States` ties the place of a thread in its program to the `state` the others look at,
  and says that only the thread started last can still set up; `Ring` that the threads
  at work are those between `next_finished` and `next_decoding`, in distances around
  the ring, that nothing is buffered while a result is waited for, and what
  `submit_packet()` has put into the thread it is about to start; `Bounds` that packet
  numbers do not run out while draining (which is about the model's bound: a drained
  thread gives something, so a call that drains ends).
* `Locks`: who has a hwaccel that is not thread-safe holds `hwaccel_mutex`, unless it
  has yet to take it, and who decodes with one that is not async-safe has the async
  lock. `HwAccelsApart` (`HwAccelAlone`) follows.
* `Contexts`: the context that the next thread gets is that of the latest packet whose
  codec was called, or will be once its setup is finished, unless a flush gave thread 0
  an older one (`stale`, a drained codec without a delay, section 6).
  `ContextsInOrder` (`SetupInOrder`) follows.
* `Stashed`: what is stashed is not thread-safe and nobody sets up meanwhile; who has
  no hwaccel that is thread-safe is not marked as if it had. `AssertionsStand`
  (`Consistent`) follows, for codecs that offer hwaccels of one kind only (`OneKind`:
  all of them thread-safe, or none). Without that hypothesis it is false, see below;
  all codecs but one are of that kind.
* `ImplementsOrderedJobs` (`InOrder`): the jobs of `OrderedJobs` are what is buffered
  of the oldest result, if anything, and then the threads of the ring from
  `next_finished` on. `Start` submits, a submission that fails is refused, `Ready`
  finishes at the place that the thread's distance gives, a collected result stays the
  first job until it is given out, or is dropped if it is empty, a flush abandons all.

`SyncQueueProofs` (any streams, time bases, limits, frame sizes, gaps and lengths). The
first half says of each function of the file what it makes of any queue: `Ended` of
`finish_stream()`, `Advanced` of the heartbeats, `Retimed` of `tb_update()`, `Sent` of
`sq_send()`, `Taken` of `receive_samples()`; the loops of the code, recursive functions
here, are unrolled by an induction of their own (`UpTo`, `Recursion`). The invariants:

* `Typed` (`Invariant`): the types, that `samples_queued` is the sum over the fifo, that
  the pieces `receive_samples()` leaves are whole, and that a stream with frames has its
  own time base. `AllArrives` (`NothingLost`) needs no more.
* `OrderInv`: `Ends`, the finished stream that is kept is the least ahead of the limiting
  ones that are finished, and what is ahead of it is finished; `Lowest`, the head stream
  is the least ahead of the limiting ones. `HeadIsFound` (`Consistent`) and `EndTogether`
  (`FinishedTogether`) follow. While the head of a stream is being moved it may be ahead
  of the end and not finished (`EndsBut`).
* `AheadInv`: a head that no heartbeat has moved is at most what was really sent, and what
  was received is not ahead of the limiting heads. `LimitsHold` (`NotAhead`) follows.
* `BufferInv` for `BuffersStayBounded` (`BufferBounded`): what is buffered of a stream
  ends at its head at the latest (`Covered`). The heartbeats then move every stream that
  goes on past the end of the first frame of the one most ahead, up to the rounding
  (`Past`, `FirstMoved`). If another stream is most ahead afterwards, it was moved, so it
  had been behind that end, and so is all that is buffered of it.
* `ShortInv` and `EndInv` for `EncodersAreGiven` (`EncoderInput`): a short frame leaves a
  finished stream with an empty fifo; a finished queue has no stream that goes on.

What is about the order of streams assumes `WholeTicks`: the time base of each stream
divides the default one, 1/1. It holds for time bases 1/n; for others it is needed, since
a head that a heartbeat has set before the first frame is then rounded, and TLC finds
`HeadIsLowest` violated (section 6). `EncodersAreGiven` assumes `FirstGoesOn`, that the
first of several streams is not limited to no frames, for the reason given there too.

`FifoMuxerProofs`, second part (the fifo muxer, for any queue length, options, number of
packets and failures, and either kind of error): `InOrder`, `NoneLost`, `KeyFirst` and
`ShiftHolds` (`TimeshiftKept`). For the first three the invariant says that the queue
holds the last messages that were accepted, with the one in hand right before them
unless something was flushed, and what was written at or before it; that nothing is
dropped without a cause (an option and an overflow or a failure); and that where
accepted packets are missing behind the last one written, the consumer waits for a
keyframe, or will once it has recovered (`GapsKnown`). For the last it says (`Steady`)
that until the user ends the input, and without dropping, what was accepted is all that
was offered (`Complete`), so that `queue_duration` is the time from the last packet that
the consumer has received to the last that was sent (`Measured`), and that a packet
comes into the consumer's hands only when that is enough (`Shifted`).

Assumed by the proofs: the `ASSUME`s of the modules, which every run evaluates.
Only model-checked: all liveness and `NeverStuck` (fairness and `ENABLED` are out
of the prover's reach); `LeadBounded`, which is about what `schedule_update_locked()`
finds on its walk through the graph, a recursion over data; `NothingMissing`, which needs
the run from the file to the muxer through encoders, pre-muxing queues and the sync queue
as well; and the 3DS movies, whose table and file are computed by recursion over data.

## 6. Findings

1. **A pre-muxing queue that overflows can hang ffmpeg** (`pipeline_premux`,
   `ffmpeg_sched.c:2124`): the end of a stream whose queue is full is refused like
   a packet, and its sender notes the destination as finished all the same; when the
   muxer starts it waits for that end for ever, where `ffmpeg_sched.h:69` promises a
   failure.
2. **`mo_block` above 8192** (`moflex_block`, `moflexenc.c:220`): the size of a
   chunk has 13 bits; longer chunks come back cut and the rest is read as headers.

Seen while modelling, without a run of their own:

* Thread queue: when writing an item fails after its index was written
  (`thread_queue.c:143`), later items are returned for the wrong stream
  (`thread_queue.h:79`). With `AllocMayFail` TLC finds `FifosInLockstep` violated.
* Sync queue: with a fixed frame size, samples beyond a frame limit that came with
  the last frame are output (`sync_queue.c:379`); nothing bounds the buffers behind a
  limiting stream that ended before its first timestamp (`sync_queue.c:315`), though
  `sync_queue.h:51` has `buf_size_us`; a head set by a fake heartbeat before the
  stream's time base is known is rounded when it becomes known (`sync_queue.c:156`);
  a frame with a duration and no timestamp is given an end (`sync_queue.c:127`); a
  first stream limited to no frames finishes its queue before the others are added
  (`ffmpeg_sched.c:968`).
* Scheduler: `-stream_loop` stops early when one decoder has ended by itself
  (`ffmpeg_sched.c:2181`). `-fix_sub_duration_heartbeat` by a stream of another file
  than the subtitles' can deadlock: the file that is ahead is choked with the queue
  of its decoder (`:1427`), heartbeats (`:2303`) fill that queue, and the muxer's
  thread, which waits for room there, no longer writes what the file is choked for;
  TLC finds `NeverStuck` violated on such a graph within seconds.
* Encoder: after a drained task that gave no packet the encoder reports its end
  though tasks are outstanding (`encode.c:381`, against `avcodec.h:2463`);
  `got_packet` of a failed task is that of an earlier frame
  (`frame_thread_encoder.c:336`). `InOrder` says nothing of results that are never
  asked for.
* Frame threads: with an hwaccel that is thread-safe and one that is not on offer
  (ProRes with Vulkan and VideoToolbox), a thread that was passed the latter and changes
  to the former has it taken away at the end of the frame (`pthread_frame.c:301`) but
  stays marked as having it (`:672`), and the next thread is to copy what is not there
  (`:424`): TLC finds `Consistent` violated with two threads and both kinds on offer; an
  allocation that fails in between loses an hwaccel; `ff_frame_thread_init()` that
  fails before it has the async lock (`:942`) frees into an assertion. A codec without a
  delay that is drained and flushed can go on with an older context: a packet is decoded
  on thread 0, an empty one goes to thread 1, which does not call the codec and whose
  context is not brought up to date (`:527`), and `ff_thread_flush()` copies the context
  of thread 1, the last one used, to thread 0 (`:979`), which decodes the next packet
  with it. The comment at `:523` has it that threads without a packet need no update
  since they return only the end from then on; the flush is where that ends.
  `SetupInOrder` excepts that one packet (`stale`): without the exception TLC finds it
  violated.
* Fifo muxer: a send is refused, the consumer then empties the queue, finds the
  overflow flag not set and waits, the user sets the flag and sends the next packet,
  and the consumer writes it behind the gap before it looks at the flag again
  (`fifo.c:479`), keyframe or not: `RestartsAtKey` speaks of accepted packets only;
  the restart at a keyframe after a failure depends on
  `drop_pkts_on_overflow` (`:389`); `recovery_wait_streamtime` is compared the wrong
  way round (`:363`); a packet that is given up is not unreferenced (`:395`); an
  error of the output that is `EAGAIN` is tried again past the maximum of attempts.
* 3DS movies: when the audio goes on after the video all of it is one frame, and
  sync headers stop, where `moflexenc.c:341` has them at most one frame late; the
  comment `moflexenc.c:50` has media timestamps start at 0, the code at 1; the
  demuxer seeks to the last block of a frame and keeps its unfinished frames and
  clocks (`moflex.c:482`).

## 7. What is not modelled

* Of the scheduler: packets from an encoder to a decoder (`ffmpeg_sched.h:38`,
  `ffmpeg_sched.c:2525`; `WellConnected` and `Visit` have no such edge), interactive
  filter commands, several outputs of one decoder, SDP files, `check_acyclic()`, and allocations that fail while the graph is set up.
* Of the frame threads: the copy of the user's context (`pthread_frame.c:599`), the
  rows of a frame's progress, which is reported in one step, and the condition
  variables, which are the conditions waited for; an update of a context that fails
  half-way: in `submit_packet()` the thread may have lost its hwaccel and still be
  marked as having a thread-safe one (`:423`), which the next update puts right, and in
  `ff_thread_flush()` the result is ignored (`:981`).
* Of the fifo muxer: a timeshift longer than the queue, which its documentation rules
  out (`doc/muxers.texi:1650`); and two cases it says nothing of. Flush packets take
  room in the queue and add no duration, so with a timeshift they can fill it while the
  consumer waits for more (`fifo.c:492`), and then the user waits for room. And durations
  are differences of the dts of successive packets of any streams (`:178`): out of
  order they are negative, the consumer may then wait for ever, and after the
  trailer's store (`:669`) the subtraction can wrap. `Returns` says nothing of these.
* Of the 3DS movies: files that another muxer wrote, probing, seeking, what is in
  the descriptors.
* Interleaving in `mux.c`, the slice threads of codecs and filters (which call the
  slice threads that are modelled), the executor, the async protocol, reference
  counting and the scheduling of filters.
* Everywhere: allocation failures outside the thread queue and the frame threads;
  memory order weaker than sequential consistency; the contents of packets and
  frames and all arithmetic on them; bitstream filters, attachments, progress
  reports, statistics, signals; hardware devices.
* Codecs, filters, formats, protocols, scaling and resampling, the other MobiClip
  formats included, transform data in a single thread: tests reach what a model of
  them would.
