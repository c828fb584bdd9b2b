---------------------------- MODULE FrameThreads ----------------------------
(***************************************************************************)
(* Frame threading of decoders: libavcodec/pthread_frame.c.  The user's    *)
(* thread hands packets to a ring of worker threads, each with a codec     *)
(* context of its own, and collects what they decoded in the same order.   *)
(* A worker first sets up its frame; only then does the next one get a     *)
(* copy of its context and start.  hwaccel_mutex keeps the workers apart   *)
(* while a hwaccel is in use that is not thread-safe, and async_lock keeps *)
(* them apart from the user while one is in use that is not async-safe.    *)
(*                                                                         *)
(* Packets are numbered as they are submitted.  The codec is the choices   *)
(* it has: the pixel format (hwaccel) of a frame, whether the frame refers *)
(* to the one before, and what it returns.  A condition variable is the    *)
(* condition that is waited for: every store to `state' is made under      *)
(* progress_mutex and followed by a wake-up of all who wait for it.        *)
(* p->mutex is held by a worker except while it waits (pc "wait").         *)
(***************************************************************************)
EXTENDS Integers, Sequences, FiniteSets

CONSTANTS
  ThreadCount,      \* avctx->thread_count
  Codecs,           \* codecs to choose from: [update, delay, offered]
  MaxSubmits,       \* bound: packets submitted, flush packets included
  PacketResults,    \* sequences of items that a packet can lead to
  DrainResults      \* sequences of items that draining can lead to

Items == {"frame", "error", "eof"}
HwAccels == {"none", "dxva", "vaapi", "vulkan"}

ASSUME ThreadAssumption == ThreadCount \in Nat /\ ThreadCount > 1
ASSUME CodecAssumption ==
  Codecs \subseteq [update : BOOLEAN, delay : BOOLEAN, offered : SUBSET HwAccels]
ASSUME ResultAssumption ==
  /\ MaxSubmits \in Nat
  /\ PacketResults \subseteq Seq(Items)
  /\ DrainResults \subseteq Seq(Items)
  /\ \A r \in DrainResults : r # <<>>

VARIABLES
  codec,            \* the capabilities of the codec and the formats on offer
  pc,               \* where the user's thread is
  sync,             \* AV_CODEC_RECEIVE_FRAME_FLAG_SYNCHRONOUS of this call
  draining,         \* avctx->internal->draining of the user's context
  next_decoding,    \* the next thread to submit a packet to
  next_finished,    \* the next thread to return output from
  prev_thread,      \* the last thread a packet was submitted to, or NoThread
  df,               \* fctx->df and fctx->result: what is left of the oldest job
  thread,           \* the PerThreadContexts
  hwaccel_mutex,    \* the worker whose hwaccel_serializing is set, or NoThread
  async_lock,       \* NoThread, UserThread or the worker whose async_serializing is set
  stash,            \* fctx->stash_hwaccel
  last,             \* history: number of the last packet submitted
  given,            \* history: the last item given to the user
  latest,           \* history: the last packet that the codec has set up
  stale             \* history: thread 0 was flushed without the context of that packet

fvars == <<codec, pc, sync, draining, next_decoding, next_finished, prev_thread, df,
           thread, hwaccel_mutex, async_lock, stash, last, given, latest, stale>>

Threads  == 0 .. ThreadCount - 1
NoThread == ThreadCount
UserThread == ThreadCount + 1
Empty    == [id |-> 0, items |-> <<>>]

Succ(t) == (t + 1) % ThreadCount

\* The capabilities of a hwaccel: dxva is neither thread-safe nor async-safe,
\* vaapi is async-safe, vulkan (of the intra codecs) is both.
Serial(h)      == h \in {"dxva", "vaapi"}
ThreadSafe(h)  == h = "vulkan"
AsyncUnsafe(h) == h = "dxva"

\* pc     where the thread is          state   the state that others look at
\* id     number of its packet         items   its df and result
\* hw     avctx->hwaccel               safe    hwaccel_threadsafe
\* drains internal->draining           ctx     the packet set up last in this context
\* refers the packet that its frame refers to, or 0
NewThread == [pc |-> "none", state |-> "input_ready", id |-> 0, items |-> <<>>,
              hw |-> "none", safe |-> FALSE, drains |-> FALSE, refers |-> 0,
              ctx |-> 0, die |-> FALSE]

Init == /\ codec \in Codecs
        /\ pc = "init" /\ sync = FALSE /\ draining = FALSE
        /\ next_decoding = 0 /\ next_finished = 0 /\ prev_thread = NoThread
        /\ df = Empty
        /\ thread = [t \in Threads |-> NewThread]
        /\ hwaccel_mutex = NoThread /\ async_lock = UserThread /\ stash = "none"
        /\ last = 0 /\ given = [id |-> 0, item |-> "none"]
        /\ latest = 0 /\ stale = FALSE

ring  == <<next_decoding, next_finished, prev_thread, df, draining>>
locks == <<hwaccel_mutex, async_lock, stash>>
setups == <<latest, stale>>
past  == <<last, given, setups>>
-----------------------------------------------------------------------------
(* The user's thread                                                       *)

InState(p) == {t \in Threads : thread[t].pc = p}
First(ts) == CHOOSE t \in ts : \A u \in ts : t <= u

\* init_thread() of one more thread, with its codec context and its pthread.
InitThread == /\ pc = "init"
              /\ thread' = [thread EXCEPT ![First(InState("none"))].pc = "wait"]
              /\ pc'     = IF Cardinality(InState("none")) = 1 THEN "user" ELSE "init"
              /\ UNCHANGED <<codec, sync, ring, locks, past>>

\* One that fails: what there is of the threads is freed.
InitFails == /\ pc = "init"
             /\ pc' = "park_free" /\ async_lock' = NoThread
             /\ UNCHANGED <<codec, sync, ring, thread, hwaccel_mutex, stash, past>>

\* The number of jobs in work, in the ring from next_finished on.  Equal indices
\* mean that all threads are at work only while a result is waited for.
InFlight == IF pc = "collect" /\ next_decoding = next_finished THEN ThreadCount
            ELSE (next_decoding - next_finished) % ThreadCount

\* Bound: a call that drains may submit once for each of them and once more.
HasRoom == last + InFlight + 1 <= MaxSubmits

\* ff_thread_receive_frame() is entered: hwaccels may go on meanwhile.
Receive == /\ pc = "user"
           /\ draining => HasRoom
           /\ sync' \in BOOLEAN
           /\ async_lock' = NoThread
           /\ pc' = "loop"
           /\ UNCHANGED <<codec, ring, thread, hwaccel_mutex, stash, past>>

Buffered == df.items # <<>>

\* A frame is buffered, or an error behind the last frame.
Return == /\ pc = "loop" /\ Buffered
          /\ given' = [id |-> df.id, item |-> Head(df.items)]
          /\ df' = [df EXCEPT !.items = Tail(@)]
          /\ pc' = "lock"
          /\ UNCHANGED <<codec, sync, draining, next_decoding, next_finished, prev_thread,
                         thread, locks, last, setups>>

CollectFirst == sync /\ next_decoding # next_finished

\* A synchronous caller wants the results in work before it gives a packet.
SkipInput == /\ pc = "loop" /\ ~Buffered /\ CollectFirst
             /\ pc' = "collect"
             /\ UNCHANGED <<codec, sync, ring, thread, locks, past>>

\* ff_decode_get_packet() has nothing, or fails: it returns to the user.
NoInput == /\ pc = "loop" /\ ~Buffered /\ ~CollectFirst /\ ~draining
           /\ pc' = "lock"
           /\ UNCHANGED <<codec, sync, ring, thread, locks, past>>

\* submit_packet() as far as the wait for the previous thread, with a packet
\* or, at the end of the stream, an empty one.  p->mutex must be free.
Submit == /\ pc = "loop" /\ ~Buffered /\ ~CollectFirst
          /\ thread[next_decoding].pc = "wait"
          /\ \/ ~draining /\ last < MaxSubmits /\ draining' = FALSE
             \/ ~draining /\ HasRoom /\ draining' = TRUE
             \/ draining /\ draining' = TRUE
          /\ thread' = [thread EXCEPT ![next_decoding].id = last + 1,
                                      ![next_decoding].drains = @ \/ draining']
          /\ pc' = "setup"
          /\ UNCHANGED <<codec, sync, next_decoding, next_finished, prev_thread, df,
                         locks, past>>

PrevReady == prev_thread # NoThread => thread[prev_thread].state # "setting_up"

\* A codec without delay is not called for an empty packet.
CodecCalled(t) == ~thread[t].drains \/ codec.delay

\* Codecs that will not be called get no context.
Updates == prev_thread # NoThread /\ CodecCalled(next_decoding)

\* update_context_from_thread() for a thread: dst is what comes out.
UpdatedContext(dst, src) ==
  [dst EXCEPT !.ctx  = IF codec.update THEN src.ctx ELSE @,
              !.hw   = IF src.safe THEN src.hw ELSE IF dst.safe THEN "none" ELSE @,
              !.safe = src.safe]

\* The rest of submit_packet(): the context of the previous thread, as its setup
\* left it, the stashed hwaccel, and the start of the thread.
Start == LET p   == thread[next_decoding]
             new == IF Updates THEN UpdatedContext(p, thread[prev_thread]) ELSE p IN
         /\ pc = "setup" /\ PrevReady
         /\ thread' = [thread EXCEPT ![next_decoding] =
              [new EXCEPT !.hw = IF new.safe THEN @ ELSE stash,
                          !.state = "setting_up", !.pc = "start"]]
         /\ stash' = IF new.safe THEN stash ELSE new.hw
         /\ last' = last + 1
         /\ prev_thread' = next_decoding
         /\ next_decoding' = Succ(next_decoding)
         /\ pc' = IF next_decoding' # next_finished /\ ~draining THEN "loop" ELSE "collect"
         /\ UNCHANGED <<codec, sync, draining, next_finished, df, hwaccel_mutex, async_lock,
                        given, setups>>

\* update_context_from_user() fails, or the update from the previous thread
\* does: the packet is gone and the thread is not started.  What an update that
\* fails has written already is overwritten by the next one and left out.
SubmitFails == /\ pc = "setup"
               /\ pc' = "lock"
               /\ last' = last + 1
               /\ UNCHANGED <<codec, sync, ring, thread, locks, given, setups>>

\* wait_for_result: the oldest job in work is the next to be returned.
Collect == /\ pc = "collect"
           /\ thread[next_finished].state = "input_ready"
           /\ df' = [id |-> thread[next_finished].id, items |-> thread[next_finished].items]
           /\ thread' = [thread EXCEPT ![next_finished].items = <<>>, ![next_finished].id = 0]
           /\ next_finished' = Succ(next_finished)
           /\ pc' = "loop"
           /\ UNCHANGED <<codec, sync, draining, next_decoding, prev_thread, locks, past>>

\* async_lock() before the call returns.
Relock == /\ pc = "lock" /\ async_lock = NoThread
          /\ async_lock' = UserThread
          /\ sync' = FALSE
          /\ pc' = "user"
          /\ UNCHANGED <<codec, ring, thread, hwaccel_mutex, stash, past>>

\* Mutant: the threads are parked without the async lock.
ParkLocked == /\ pc = "user"
              /\ pc' \in {"park_flush", "park_free"}
              /\ UNCHANGED <<codec, sync, ring, thread, locks, past>>

\* park_frame_worker_threads() is entered from ff_thread_flush() or from
\* ff_frame_thread_free().
Park == /\ pc = "user"
        /\ pc' \in {"park_flush", "park_free"}
        /\ async_lock' = NoThread
        /\ UNCHANGED <<codec, sync, ring, thread, hwaccel_mutex, stash, past>>

Parked == (\A t \in Threads : thread[t].state = "input_ready") /\ async_lock = NoThread

\* Mutant: only one of the two indices is reset.
FlushHalf == /\ pc = "park_flush" /\ Parked
             /\ async_lock' = UserThread
             /\ next_decoding' = 0 /\ prev_thread' = NoThread
             /\ df' = Empty /\ draining' = FALSE
             /\ thread' = [t \in Threads |->
                  [thread[t] EXCEPT !.items = <<>>, !.id = 0, !.drains = FALSE]]
             /\ pc' = "user"
             /\ UNCHANGED <<codec, sync, next_finished, hwaccel_mutex, stash, past>>

\* Mutant: thread 0 starts again with the context it has.
OwnContext == thread[0]

\* Thread 0 gets the context of the thread started last.  It is the latest one,
\* unless that thread was started with an empty packet of a codec without delay:
\* it was given no context then, and thread 0 goes on with an older one.
FlushedContext == IF prev_thread \in {NoThread, 0} THEN thread[0]
                  ELSE UpdatedContext(thread[0], thread[prev_thread])

\* ff_thread_flush() with all threads parked.
Flush == /\ pc = "park_flush" /\ Parked
         /\ async_lock' = UserThread
         /\ next_decoding' = 0 /\ next_finished' = 0 /\ prev_thread' = NoThread
         /\ df' = Empty /\ draining' = FALSE
         /\ thread' = [t \in Threads |->
              [(IF t = 0 THEN FlushedContext ELSE thread[t]) EXCEPT !.items = <<>>, !.id = 0, !.drains = FALSE]]
         /\ stale' = (stale \/ (prev_thread # NoThread /\ ~CodecCalled(prev_thread)))
         /\ pc' = "user"
         /\ UNCHANGED <<codec, sync, hwaccel_mutex, stash, last, given, latest>>

FreeParked == /\ pc = "park_free" /\ Parked
              /\ async_lock' = UserThread
              /\ pc' = "free"
              /\ UNCHANGED <<codec, sync, ring, thread, hwaccel_mutex, stash, past>>

\* The threads are told to die and joined one by one; then a hwaccel that the
\* thread has of its own is freed with its context.
FreeThread == /\ pc = "free" /\ InState("wait") # {}
              /\ thread' = [thread EXCEPT ![First(InState("wait"))].die = TRUE]
              /\ pc' = "join"
              /\ UNCHANGED <<codec, sync, ring, locks, past>>

Join == /\ pc = "join"
        /\ \E t \in InState("exited") :
             thread' = [thread EXCEPT ![t].pc = "freed", ![t].hw = "none"]
        /\ pc' = "free"
        /\ UNCHANGED <<codec, sync, ring, locks, past>>

\* What is stashed goes to the user's context, which frees it.
Freed == /\ pc = "free" /\ InState("wait") = {}
         /\ stash' = "none"
         /\ pc' = "done"
         /\ UNCHANGED <<codec, sync, ring, thread, hwaccel_mutex, async_lock, past>>

\* What the user does of its own accord, and what it does inside a call.
Calls  == Receive \/ Park
Inside == \/ InitThread \/ InitFails \/ Return \/ SkipInput \/ NoInput \/ Submit \/ Start
          \/ SubmitFails \/ Collect \/ Relock \/ Flush \/ FreeParked \/ FreeThread \/ Join \/ Freed
-----------------------------------------------------------------------------
(* frame_worker_thread()                                                   *)

user == <<codec, pc, sync, ring, last, given>>
To(t, p) == thread' = [thread EXCEPT ![t].pc = p]

Die(t) == /\ thread[t].pc = "wait" /\ thread[t].die
          /\ To(t, "exited")
          /\ UNCHANGED <<user, setups, locks>>

\* Mutant: the lock of a hwaccel is only taken when the hwaccel is new.
WakeUnlocked(t) ==
  /\ thread[t].pc = "start"
  /\ thread' = [thread EXCEPT ![t].state = IF codec.update THEN @ ELSE "setup_finished",
                              ![t].pc = IF codec.update THEN "setup" ELSE "decode"]
  /\ UNCHANGED <<user, setups, locks>>

\* A thread with a packet.  Codecs whose threads share no context are set up at
\* once; if the hwaccel that was passed on is not thread-safe, its lock is taken.
Wake(t) ==
  /\ thread[t].pc = "start"
  /\ IF codec.update
     THEN /\ Serial(thread[t].hw) => hwaccel_mutex = NoThread
          /\ hwaccel_mutex' = IF Serial(thread[t].hw) THEN t ELSE hwaccel_mutex
          /\ To(t, "setup")
     ELSE /\ thread' = [thread EXCEPT ![t].state = "setup_finished", ![t].pc = "decode"]
          /\ UNCHANGED hwaccel_mutex
  /\ UNCHANGED <<user, setups, async_lock, stash>>

Formats(t) == IF CodecCalled(t) THEN {"none"} \cup codec.offered ELSE {}

\* The frame of a packet is not complete.
Decoding(id) == \E t \in Threads : thread[t].id = id /\ thread[t].pc = "decode"

\* The codec reads its headers; it may call ff_get_format(), which frees the
\* hwaccel there was, and starts a frame that refers to the one of its context or
\* to none (nor does one that refers to what is complete).
\* One that returns at once is no different: its setup is finished for it.
SetUp(t) ==
  /\ thread[t].pc = "setup"
  /\ \E h \in {thread[t].hw} \cup Formats(t), r \in {0, thread[t].ctx} :
       /\ r # 0 => CodecCalled(t) /\ Decoding(r)
       /\ thread' = [thread EXCEPT ![t].hw = h, ![t].refers = r,
                    ![t].pc = IF Serial(h) /\ hwaccel_mutex # t THEN "serialize" ELSE "finish"]
  /\ UNCHANGED <<user, setups, locks>>

\* ff_thread_finish_setup() takes the lock of a hwaccel that is new here.
Serialize(t) == /\ thread[t].pc = "serialize"
                /\ hwaccel_mutex = NoThread
                /\ hwaccel_mutex' = t
                /\ To(t, "finish")
                /\ UNCHANGED <<user, setups, async_lock, stash>>

\* The rest of it: the async lock, the hwaccel stashed for the next thread, and
\* the state that lets that one start.
FinishSetup(t) ==
  /\ thread[t].pc = "finish"
  /\ AsyncUnsafe(thread[t].hw) => async_lock = NoThread
  /\ async_lock' = IF AsyncUnsafe(thread[t].hw) THEN t ELSE async_lock
  /\ stash' = IF Serial(thread[t].hw) THEN thread[t].hw ELSE stash
  /\ thread' = [thread EXCEPT ![t].safe = ThreadSafe(thread[t].hw),
                              ![t].ctx = IF CodecCalled(t) THEN thread[t].id ELSE @,
                              ![t].state = "setup_finished", ![t].pc = "decode"]
  /\ latest' = IF CodecCalled(t) THEN thread[t].id ELSE latest
  /\ stale' = (stale /\ ~CodecCalled(t))
  /\ UNCHANGED <<user, hwaccel_mutex>>

\* No memory for a frame, before the codec is called: its setup is skipped.
AllocFails(t) == /\ thread[t].pc = "setup"
                 /\ thread' = [thread EXCEPT ![t].items = <<"error">>, ![t].pc = "release"]
                 /\ UNCHANGED <<user, setups, locks>>

\* The packet is decoded, all of its frames and the error it ends with; before,
\* ff_thread_await_progress() waits until the frame it refers to is complete.
Decode(t) ==
  /\ thread[t].pc = "decode"
  /\ ~Decoding(thread[t].refers)
  /\ \E gives \in (IF ~thread[t].drains THEN PacketResults
                   ELSE IF codec.delay THEN DrainResults ELSE {<<"eof">>}) :
       thread' = [thread EXCEPT ![t].items = gives, ![t].pc = "release"]
  /\ UNCHANGED <<user, setups, locks>>

\* Mutant: the hwaccel that was passed on stays where it was.
ReleaseKeeps(t) ==
  /\ thread[t].pc = "release"
  /\ thread' = [thread EXCEPT ![t].refers = 0, ![t].pc = "ready"]
  /\ hwaccel_mutex' = IF hwaccel_mutex = t THEN NoThread ELSE hwaccel_mutex
  /\ async_lock' = IF async_lock = t THEN NoThread ELSE async_lock
  /\ UNCHANGED <<user, setups, stash>>

\* The hwaccel that was passed on is forgotten and the locks are given back.
Release(t) ==
  /\ thread[t].pc = "release"
  /\ thread' = [thread EXCEPT ![t].hw = IF hwaccel_mutex = t THEN "none" ELSE @,
                              ![t].refers = 0, ![t].pc = "ready"]
  /\ hwaccel_mutex' = IF hwaccel_mutex = t THEN NoThread ELSE hwaccel_mutex
  /\ async_lock' = IF async_lock = t THEN NoThread ELSE async_lock
  /\ UNCHANGED <<user, setups, stash>>

Ready(t) == /\ thread[t].pc = "ready"
            /\ thread' = [thread EXCEPT ![t].state = "input_ready", ![t].pc = "wait"]
            /\ UNCHANGED <<user, setups, locks>>

Worker(t) == \/ Die(t) \/ Wake(t) \/ SetUp(t) \/ Serialize(t) \/ FinishSetup(t)
             \/ AllocFails(t) \/ Decode(t) \/ Release(t) \/ Ready(t)

Next == Calls \/ Inside \/ \E t \in Threads : Worker(t)

\* A thread that can go on does; nothing makes the user call again.
Fairness == WF_fvars(Inside) /\ \A t \in Threads : WF_fvars(Worker(t))

Spec == Init /\ [][Next]_fvars /\ Fairness
-----------------------------------------------------------------------------
(* Properties                                                              *)

\* The types of the variables.
TypeOK ==
  /\ codec \in Codecs
  /\ pc \in {"init", "user", "loop", "setup", "collect", "lock", "park_flush", "park_free",
             "free", "join", "done"}
  /\ sync \in BOOLEAN /\ draining \in BOOLEAN
  /\ next_decoding \in Threads /\ next_finished \in Threads
  /\ prev_thread \in Threads \cup {NoThread}
  /\ df \in [id : 0 .. MaxSubmits, items : Seq(Items)]
  /\ thread \in [Threads ->
       [pc : {"none", "wait", "start", "setup", "serialize", "finish", "decode", "release",
              "ready", "exited", "freed"},
        state : {"input_ready", "setting_up", "setup_finished"},
        id : 0 .. MaxSubmits, items : Seq(Items), hw : HwAccels, safe : BOOLEAN,
        drains : BOOLEAN, refers : 0 .. MaxSubmits, ctx : 0 .. MaxSubmits,
        die : BOOLEAN]]
  /\ hwaccel_mutex \in Threads \cup {NoThread}
  /\ async_lock \in Threads \cup {NoThread, UserThread}
  /\ stash \in {"none", "dxva", "vaapi"}
  /\ last \in 0 .. MaxSubmits /\ latest \in 0 .. MaxSubmits /\ stale \in BOOLEAN
  /\ given \in [id : 0 .. MaxSubmits, item : Items \cup {"none"}]

\* Two workers never use a hwaccel at the same time that is not thread-safe, and
\* while the user's code runs no worker uses one that is not async-safe: the two
\* locks, taken in different places and given back at the end of the packet.
HwAccelAlone ==
  /\ \A t, u \in Threads :
       /\ Serial(thread[t].hw) /\ thread[t].pc \in {"setup", "finish", "decode"}
       /\ Serial(thread[u].hw) /\ thread[u].pc \in {"setup", "finish", "decode"}
       => t = u
  /\ pc = "user" => ~\E t \in Threads : AsyncUnsafe(thread[t].hw) /\ thread[t].pc = "decode"

\* The assertions of the file: the async lock is held where it is given up; an
\* idle thread keeps no hwaccel that is not thread-safe, so that one can be
\* passed on; nothing is stashed when a setup is finished, or it would be lost.
AssertionsHold ==
  /\ pc = "user" => async_lock = UserThread
  /\ \A t \in Threads : thread[t].pc = "wait" => ~Serial(thread[t].hw)
  /\ pc = "setup" /\ PrevReady =>
       LET p == thread[next_decoding] IN
       /\ p.hw = "none" \/ p.safe
       /\ Updates => LET src == thread[prev_thread] IN src.safe => ThreadSafe(src.hw)
  /\ \A t \in Threads : thread[t].pc = "finish" => stash = "none"

\* The user, the workers and the locks agree on what each of them is doing.
Consistent == TypeOK /\ AssertionsHold

\* A worker sets up its packet in the context that the packet set up last has
\* left, and keeps its own while it decodes: no setup is skipped, none is copied
\* before it is finished, through packets that are not submitted or find no
\* memory, and through flushes.  The code does not ensure it for the first packet
\* after a codec without delay was drained and flushed (see Flush).
SetupInOrder ==
  codec.update => \A t \in Threads :
    CodecCalled(t) =>
      /\ thread[t].pc \in {"start", "setup", "serialize", "finish"} =>
           thread[t].ctx = latest \/ stale
      /\ thread[t].pc = "decode" => thread[t].ctx = thread[t].id

Job(t) == [id |-> thread[t].id, done |-> thread[t].state = "input_ready",
           items |-> IF thread[t].state = "input_ready" THEN thread[t].items ELSE <<>>]

Ordered == INSTANCE OrderedJobs WITH
  jobs <- (IF Buffered THEN <<[id |-> df.id, done |-> TRUE, items |-> df.items]>> ELSE <<>>)
          \o [i \in 1 .. InFlight |-> Job((next_finished + i - 1) % ThreadCount)]

\* Frames, errors and ends come out in the order of their packets, none twice and
\* none skipped, whatever the order in which the workers finish: the ring
\* implements OrderedJobs.
InOrder == Ordered!Spec

\* Every call of the user returns, and freeing ends with all threads joined.
CallsReturn == pc \notin {"user", "done"} ~> pc \in {"user", "done"}
=============================================================================
