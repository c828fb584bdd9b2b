------------------------- MODULE FrameThreadsProofs -------------------------
(***************************************************************************)
(* Proofs about FrameThreads for every number of threads, codec and result *)
(* of decoding: the threads, the ring and the locks agree, contexts are    *)
(* passed on in order, and the ring implements OrderedJobs.                *)
(*                                                                         *)
(* The invariant has a part for each thing that the threads share: the     *)
(* ring of jobs, the context that the next thread copies, the two locks,   *)
(* the hwaccel that is stashed, and the packets that are left to submit.   *)
(***************************************************************************)
EXTENDS FrameThreads, FiniteSetTheorems, SequenceTheorems,
        WellFoundedInduction, TLAPS

\* The distance from thread i to thread j around the ring.
Distance(i, j) == IF j >= i THEN j - i ELSE j - i + ThreadCount

\* Thread t has a job whose result was not yet collected.
InRing(t) == Distance(next_finished, t) < InFlight

SettingUp == {"start", "setup", "serialize", "finish"}
AtWork    == SettingUp \cup {"decode", "release", "ready"}
Calling   == {"user", "loop", "setup", "collect", "lock", "park_flush"}
Freeing   == {"free", "join", "done"}

\* Where a thread is and what the others see of it.
States ==
  \A t \in Threads :
    /\ thread[t].pc \in {"none", "wait", "exited", "freed"} <=> thread[t].state = "input_ready"
    /\ thread[t].pc \in SettingUp => thread[t].state = "setting_up"
    /\ thread[t].pc = "decode" => thread[t].state = "setup_finished"
    /\ thread[t].state = "setting_up" => t = prev_thread
    /\ pc = "init" => thread[t].pc \in {"none", "wait"}
    /\ pc \in Calling => thread[t].pc # "none"
    /\ pc \notin Freeing => thread[t].pc \notin {"exited", "freed"} /\ ~thread[t].die

\* The ring: jobs in work are between the two indices.
Ring ==
  /\ pc = "init" => InState("none") # {}
  /\ prev_thread = NoThread => next_decoding = 0
  /\ prev_thread # NoThread => next_decoding = Succ(prev_thread)
  /\ \A t \in Threads : thread[t].pc \in AtWork => InRing(t)
  /\ pc \in {"setup", "collect"} => ~Buffered
  /\ pc = "setup" => /\ thread[next_decoding].pc = "wait"
                     /\ thread[next_decoding].id = last + 1
                     /\ draining => thread[next_decoding].drains

\* The context that the next thread gets is that of the packet set up last, if the
\* codec is going to be called for it.
Contexts ==
  codec.update =>
    /\ ~stale => IF prev_thread = NoThread THEN thread[0].ctx = latest
                 ELSE CodecCalled(prev_thread) => thread[prev_thread].ctx = latest
    /\ \A t \in Threads :
         CodecCalled(t) /\ thread[t].pc = "decode" => thread[t].ctx = thread[t].id

\* The two locks: who has a hwaccel that needs one holds it.
Locks ==
  /\ pc \in {"init", "user"} \cup Freeing => async_lock = UserThread
  /\ \A t \in Threads :
       /\ hwaccel_mutex = t => thread[t].pc \in {"setup", "finish", "decode", "release"}
       /\ Serial(thread[t].hw) =>
            thread[t].pc \in {"start", "serialize"} \/ hwaccel_mutex = t
       /\ AsyncUnsafe(thread[t].hw) /\ thread[t].pc = "decode" => async_lock = t
       /\ thread[t].hw = "vulkan" => thread[t].pc = "finish" \/ thread[t].safe
       /\ ~codec.update => /\ thread[t].hw = "none" /\ ~thread[t].safe
                           /\ thread[t].pc \notin {"setup", "serialize", "finish"}
  /\ ~codec.update => stash = "none"

\* A codec whose hwaccels are all thread-safe, or none of them.
OneKind(c) == "vulkan" \in c.offered => \A h \in c.offered : ~Serial(h)

\* What is stashed, and what is not because it is copied.
Stashed ==
  /\ stash # "none" => /\ stash \in codec.offered /\ Serial(stash)
                       /\ \A t \in Threads : thread[t].pc \notin SettingUp
  /\ hwaccel_mutex # NoThread => "vulkan" \notin codec.offered
  /\ \A t \in Threads :
       /\ thread[t].hw \in {"none"} \cup codec.offered
       /\ thread[t].safe => "vulkan" \in codec.offered
       /\ thread[t].pc \notin {"finish", "freed"} => (thread[t].safe <=> thread[t].hw = "vulkan")
       /\ thread[t].pc = "serialize" => Serial(thread[t].hw)

\* Jobs in the ring that are packets; the others drain and give something.
Undrained == {t \in Threads : InRing(t) /\ ~thread[t].drains}

Bounds ==
  /\ pc = "init" => ~draining
  /\ \A t \in Threads :
       thread[t].drains =>
         /\ draining
         /\ InRing(t) /\ thread[t].pc \in {"release", "ready", "wait"} => thread[t].items # <<>>
  /\ pc = "setup" => last < MaxSubmits
  /\ draining /\ (pc = "setup" \/ (pc = "loop" /\ ~Buffered)) =>
       last + Cardinality(Undrained) < MaxSubmits
  /\ draining /\ pc = "collect" => last + Cardinality(Undrained) <= MaxSubmits

IInv == TypeOK /\ States /\ Ring /\ Contexts /\ Locks /\ Bounds
-----------------------------------------------------------------------------
(* The indices of the ring.                                                 *)

LEMMA CountIs ==
  /\ ThreadCount \in Nat /\ ThreadCount > 1 /\ MaxSubmits \in Nat
  /\ 0 \in Threads /\ \A t \in Threads : t \in Nat /\ 0 <= t /\ t < ThreadCount
  /\ NoThread \notin Threads /\ UserThread \notin Threads /\ NoThread # UserThread
BY ThreadAssumption, ResultAssumption DEF Threads, NoThread, UserThread

LEMMA Modulo ==
  ASSUME NEW a \in Int, -ThreadCount <= a, a < ThreadCount
  PROVE  a % ThreadCount = IF a >= 0 THEN a ELSE a + ThreadCount
BY CountIs

LEMMA SuccIs ==
  ASSUME NEW t \in Threads
  PROVE  /\ Succ(t) = IF t = ThreadCount - 1 THEN 0 ELSE t + 1
         /\ Succ(t) \in Threads /\ Succ(t) # t
<1>1. CASE t = ThreadCount - 1
  <2>1. (t + 1) % ThreadCount = 0
    BY <1>1, CountIs
  <2> QED BY <1>1, <2>1, CountIs DEF Succ
<1>2. CASE t # ThreadCount - 1
  <2>1. (t + 1) % ThreadCount = t + 1
    BY <1>2, Modulo, CountIs
  <2> QED BY <1>2, <2>1, CountIs DEF Succ, Threads
<1> QED BY <1>1, <1>2

LEMMA DistanceIs ==
  ASSUME NEW i \in Threads, NEW j \in Threads
  PROVE  /\ (j - i) % ThreadCount = Distance(i, j)
         /\ Distance(i, j) \in 0 .. ThreadCount - 1
         /\ Distance(i, j) = 0 <=> i = j
         /\ \A k \in Threads : Distance(i, k) = Distance(i, j) => k = j
<1>1. i \in Int /\ j \in Int /\ -ThreadCount <= j - i /\ j - i < ThreadCount
      /\ 0 <= i /\ i < ThreadCount /\ 0 <= j /\ j < ThreadCount
  BY CountIs DEF Threads
<1>2. (j - i) % ThreadCount = IF j - i >= 0 THEN j - i ELSE j - i + ThreadCount
  BY <1>1, Modulo
<1> QED BY <1>1, <1>2, CountIs DEF Distance

LEMMA DistanceMoves ==
  ASSUME NEW i \in Threads, NEW j \in Threads
  PROVE  /\ Distance(i, Succ(j)) = IF Distance(i, j) = ThreadCount - 1 THEN 0
                                   ELSE Distance(i, j) + 1
         /\ i # j => Distance(Succ(i), j) = Distance(i, j) - 1
         /\ Distance(Succ(j), j) = ThreadCount - 1
BY SuccIs, CountIs DEF Distance

\* The number of jobs in work.
Size(p, decoding, finished) ==
  IF p = "collect" /\ decoding = finished THEN ThreadCount ELSE Distance(finished, decoding)

LEMMA InFlightIs ==
  /\ next_decoding \in Threads /\ next_finished \in Threads =>
       /\ InFlight = Size(pc, next_decoding, next_finished)
       /\ InFlight \in 0 .. ThreadCount
       /\ pc = "collect" => InFlight > 0
  /\ next_decoding' \in Threads /\ next_finished' \in Threads =>
       /\ InFlight' = Size(pc', next_decoding', next_finished')
       /\ InFlight' \in 0 .. ThreadCount
<1>1. ASSUME next_decoding \in Threads, next_finished \in Threads
      PROVE  /\ InFlight = Size(pc, next_decoding, next_finished)
             /\ InFlight \in 0 .. ThreadCount
             /\ pc = "collect" => InFlight > 0
  <2>1. /\ (next_decoding - next_finished) % ThreadCount = Distance(next_finished, next_decoding)
        /\ Distance(next_finished, next_decoding) \in 0 .. ThreadCount - 1
        /\ Distance(next_finished, next_decoding) = 0 <=> next_decoding = next_finished
    BY <1>1, DistanceIs
  <2> QED BY <2>1, CountIs DEF InFlight, Size
<1>2. ASSUME next_decoding' \in Threads, next_finished' \in Threads
      PROVE  /\ InFlight' = Size(pc', next_decoding', next_finished')
             /\ InFlight' \in 0 .. ThreadCount
  <2>1. /\ (next_decoding' - next_finished') % ThreadCount = Distance(next_finished', next_decoding')
        /\ Distance(next_finished', next_decoding') \in 0 .. ThreadCount - 1
    BY <1>2, DistanceIs
  <2> QED BY <2>1, CountIs DEF InFlight, Size
<1> QED BY <1>1, <1>2

\* A step that leaves the ring as it is.
LEMMA SameRing ==
  ASSUME UNCHANGED <<next_decoding, next_finished>>,
         pc' = pc \/ next_decoding # next_finished \/ "collect" \notin {pc, pc'}
  PROVE  InFlight' = InFlight /\ \A t : InRing(t)' <=> InRing(t)
BY DEF InFlight, InRing, Distance

\* Start puts a job behind the others.
LEMMA StartRing ==
  ASSUME next_decoding \in Threads, next_finished \in Threads, Start
  PROVE  /\ InFlight' = InFlight + 1 /\ InFlight \in 0 .. ThreadCount - 1
         /\ InFlight = Distance(next_finished, next_decoding)
         /\ ~InRing(next_decoding)
         /\ \A t \in Threads : InRing(t)' <=> InRing(t) \/ t = next_decoding
<1> DEFINE d(t) == Distance(next_finished, t)
<1>1. /\ next_decoding' = Succ(next_decoding) /\ next_finished' = next_finished /\ pc = "setup"
      /\ next_decoding' \in Threads
      /\ next_decoding' = next_finished' => pc' = "collect"
  BY SuccIs DEF Start
<1>2. InFlight = d(next_decoding)
  BY <1>1, InFlightIs DEF Size
<1>3. \A t \in Threads : d(t) \in 0 .. ThreadCount - 1 /\ (d(t) = d(next_decoding) => t = next_decoding)
  BY DistanceIs
<1>4. /\ d(next_decoding') = IF d(next_decoding) = ThreadCount - 1 THEN 0 ELSE d(next_decoding) + 1
      /\ d(next_decoding') = 0 <=> next_decoding' = next_finished
  BY <1>1, DistanceMoves, DistanceIs
<1>5. InFlight' = IF next_decoding' = next_finished THEN ThreadCount ELSE d(next_decoding')
  BY <1>1, InFlightIs DEF Size
<1>6. \A t : (InRing(t) <=> d(t) < InFlight) /\ (InRing(t)' <=> d(t) < InFlight')
  BY <1>1 DEF InRing, Distance
<1> HIDE DEF d
<1>7. InFlight' = InFlight + 1 /\ InFlight \in 0 .. ThreadCount - 1
  BY <1>2, <1>3, <1>4, <1>5, CountIs
<1> QED BY <1>2, <1>3, <1>6, <1>7, CountIs DEF d

\* Collect takes the oldest job out.
LEMMA CollectRing ==
  ASSUME next_decoding \in Threads, next_finished \in Threads, Collect
  PROVE  /\ InFlight' = InFlight - 1 /\ InFlight \in 1 .. ThreadCount
         /\ InRing(next_finished)
         /\ \A t \in Threads : InRing(t)' <=> InRing(t) /\ t # next_finished
<1> DEFINE d(t) == Distance(next_finished, t)
           e(t) == Distance(next_finished', t)
<1>1. /\ next_finished' = Succ(next_finished) /\ next_decoding' = next_decoding /\ pc = "collect"
      /\ next_finished' \in Threads /\ pc' = "loop"
  BY SuccIs DEF Collect
<1>2. /\ InFlight = IF next_decoding = next_finished THEN ThreadCount ELSE d(next_decoding)
      /\ InFlight \in 0 .. ThreadCount /\ InFlight > 0
  BY <1>1, InFlightIs DEF Size
<1>3. InFlight' = e(next_decoding)
  BY <1>1, InFlightIs DEF Size
<1>4. \A t \in Threads : /\ d(t) \in 0 .. ThreadCount - 1 /\ (d(t) = 0 <=> t = next_finished)
                         /\ e(t) = IF t = next_finished THEN ThreadCount - 1 ELSE d(t) - 1
  BY <1>1, DistanceIs, DistanceMoves
<1>5. \A t : (InRing(t) <=> d(t) < InFlight) /\ (InRing(t)' <=> e(t) < InFlight')
  BY <1>1 DEF InRing, Distance
<1> HIDE DEF d, e
<1>6. InFlight' = InFlight - 1 /\ InFlight \in 1 .. ThreadCount
  BY <1>2, <1>3, <1>4, CountIs
<1> QED BY <1>2, <1>4, <1>5, <1>6, CountIs
-----------------------------------------------------------------------------
(* What the steps do to the threads.                                        *)

ThreadPcs == {"none", "wait", "start", "setup", "serialize", "finish", "decode", "release",
              "ready", "exited", "freed"}

ThreadType ==
  [pc : ThreadPcs, state : {"input_ready", "setting_up", "setup_finished"},
   id : 0 .. MaxSubmits, items : Seq(Items), hw : HwAccels, safe : BOOLEAN,
   drains : BOOLEAN, refers : 0 .. MaxSubmits, ctx : 0 .. MaxSubmits,
   die : BOOLEAN]

\* Only thread t changes.
OnlyOne(t) == \A u \in Threads : u # t => thread'[u] = thread[u]

LEMMA TypeIs ==
  TypeOK => /\ thread \in [Threads -> ThreadType] /\ codec \in Codecs
            /\ codec.update \in BOOLEAN /\ codec.delay \in BOOLEAN
            /\ codec.offered \subseteq HwAccels
            /\ next_decoding \in Threads /\ next_finished \in Threads
            /\ prev_thread \in Threads \cup {NoThread}
            /\ stash \in HwAccels /\ latest \in 0 .. MaxSubmits /\ stale \in BOOLEAN
BY CodecAssumption DEF TypeOK, ThreadType, ThreadPcs, HwAccels

LEMMA FirstIs ==
  ASSUME NEW S \in SUBSET Threads, S # {}
  PROVE  First(S) \in S
<1>1. \E t \in S : \A u \in S : t <= u
  <2>1. S \subseteq Nat
    BY CountIs
  <2>2. PICK t \in S : \A u \in S : <<u, t>> \notin OpToRel(<, Nat)
    BY <2>1, NatLessThanWellFounded, WFMin
  <2>3. \A u \in S : ~(u < t)
    BY <2>1, <2>2 DEF OpToRel
  <2> QED BY <2>1, <2>3
<1> QED BY <1>1 DEF First

LEMMA FreeThreadIs ==
  ASSUME FreeThread
  PROVE  \E t \in Threads : thread[t].pc = "wait" /\ thread' = [thread EXCEPT ![t].die = TRUE]
<1>1. PICK S \in SUBSET Threads : S = InState("wait")
  BY DEF InState
<1>2. S # {} /\ thread' = [thread EXCEPT ![First(S)].die = TRUE]
  BY <1>1 DEF FreeThread
<1>3. First(S) \in S
  BY <1>2, FirstIs
<1>4. PICK t \in Threads : t = First(S) /\ t \in S
  BY <1>3
<1>5. thread[t].pc = "wait"
  BY <1>1, <1>4 DEF InState
<1>6. thread' = [thread EXCEPT ![t].die = TRUE]
  BY <1>2, <1>4
<1> QED BY <1>5, <1>6

LEMMA UpdatedIs ==
  ASSUME NEW dst \in ThreadType, NEW src \in ThreadType, NEW new, new = UpdatedContext(dst, src)
  PROVE  /\ new \in ThreadType
         /\ new.pc = dst.pc /\ new.state = dst.state /\ new.id = dst.id /\ new.items = dst.items
         /\ new.drains = dst.drains /\ new.refers = dst.refers
         /\ new.die = dst.die
         /\ new.ctx = IF codec.update THEN src.ctx ELSE dst.ctx
         /\ new.hw = IF src.safe THEN src.hw ELSE IF dst.safe THEN "none" ELSE dst.hw
         /\ new.safe = src.safe
BY DEF UpdatedContext, ThreadType, HwAccels

LEMMA StartIs ==
  ASSUME TypeOK, Start, NEW p, NEW q, NEW src,
         p = thread[next_decoding], q = thread'[next_decoding], src = thread[prev_thread]
  PROVE  /\ OnlyOne(next_decoding) /\ thread' \in [Threads -> ThreadType]
         /\ q.pc = "start" /\ q.state = "setting_up" /\ q.id = p.id /\ q.items = p.items
         /\ q.drains = p.drains /\ q.refers = p.refers /\ q.die = p.die
         /\ q.ctx = IF Updates /\ codec.update THEN src.ctx ELSE p.ctx
         /\ q.safe = IF Updates THEN src.safe ELSE p.safe
         /\ q.hw = IF ~q.safe THEN stash ELSE IF Updates THEN src.hw ELSE p.hw
         /\ stash' = IF q.safe THEN stash
                     ELSE IF Updates /\ p.safe THEN "none" ELSE p.hw
<1>0. /\ thread \in [Threads -> ThreadType] /\ next_decoding \in Threads /\ p \in ThreadType
      /\ stash \in HwAccels
      /\ Updates => src \in ThreadType
  BY TypeIs DEF Updates
<1>1. PICK new : new = IF Updates THEN UpdatedContext(p, src) ELSE p
  OBVIOUS
<1>2. /\ thread' = [thread EXCEPT ![next_decoding] =
           [new EXCEPT !.hw = IF new.safe THEN @ ELSE stash,
                       !.state = "setting_up", !.pc = "start"]]
      /\ stash' = IF new.safe THEN stash ELSE new.hw
  BY <1>1 DEF Start
<1>3. /\ new \in ThreadType /\ new.id = p.id /\ new.items = p.items
      /\ new.drains = p.drains /\ new.refers = p.refers /\ new.die = p.die
      /\ new.ctx = IF Updates /\ codec.update THEN src.ctx ELSE p.ctx
      /\ new.hw = IF Updates THEN IF src.safe THEN src.hw ELSE IF p.safe THEN "none" ELSE p.hw
                  ELSE p.hw
      /\ new.safe = IF Updates THEN src.safe ELSE p.safe
  <2>1. CASE Updates
    <3>1. new = UpdatedContext(p, src) /\ src \in ThreadType /\ p \in ThreadType
      BY <1>0, <1>1, <2>1
    <3>2. /\ new \in ThreadType
          /\ new.pc = p.pc /\ new.state = p.state /\ new.id = p.id /\ new.items = p.items
          /\ new.drains = p.drains /\ new.refers = p.refers
          /\ new.die = p.die
          /\ new.ctx = IF codec.update THEN src.ctx ELSE p.ctx
          /\ new.hw = IF src.safe THEN src.hw ELSE IF p.safe THEN "none" ELSE p.hw
          /\ new.safe = src.safe
      BY ONLY <3>1, UpdatedIs
    <3> QED BY <2>1, <3>2
  <2>2. CASE ~Updates
    BY <1>0, <1>1, <2>2
  <2> QED BY <2>1, <2>2
<1>4. /\ q = [new EXCEPT !.hw = IF new.safe THEN @ ELSE stash,
                         !.state = "setting_up", !.pc = "start"]
      /\ OnlyOne(next_decoding)
  BY <1>0, <1>2 DEF OnlyOne
<1>5. /\ q.pc = "start" /\ q.state = "setting_up" /\ q.id = new.id /\ q.items = new.items
      /\ q.drains = new.drains /\ q.refers = new.refers /\ q.die = new.die
      /\ q.ctx = new.ctx /\ q.safe = new.safe /\ q.hw = IF new.safe THEN new.hw ELSE stash
      /\ q \in ThreadType
  <2>1. /\ stash \in HwAccels /\ new \in ThreadType
        /\ q = [new EXCEPT !.hw = IF new.safe THEN new.hw ELSE stash,
                           !.state = "setting_up", !.pc = "start"]
    BY <1>0, <1>3, <1>4
  <2> QED BY ONLY <2>1 DEF ThreadType, ThreadPcs
<1>6. thread' \in [Threads -> ThreadType]
  BY <1>0, <1>2, <1>4, <1>5
<1>7. q.safe => q.hw = IF Updates THEN src.hw ELSE p.hw
  BY <1>3, <1>5
<1>8. stash' = IF q.safe THEN stash ELSE IF Updates /\ p.safe THEN "none" ELSE p.hw
  BY <1>2, <1>3, <1>5
<1> QED BY <1>3, <1>4, <1>5, <1>6, <1>7, <1>8

LEMMA ClearedIs ==
  ASSUME NEW r \in ThreadType, NEW q, q = [r EXCEPT !.items = <<>>, !.id = 0, !.drains = FALSE]
  PROVE  /\ q.pc = r.pc /\ q.state = r.state /\ q.refers = r.refers
         /\ q.die = r.die /\ q.items = <<>> /\ q.id = 0 /\ q.drains = FALSE
         /\ q.hw = r.hw /\ q.safe = r.safe /\ q.ctx = r.ctx /\ q \in ThreadType
<1>1. PICK nil \in Seq(Items) : nil = <<>>
  BY EmptySeq
<1>2. q = [r EXCEPT !.items = nil, !.id = 0, !.drains = FALSE] /\ 0 \in 0 .. MaxSubmits
  BY <1>1, CountIs
<1> QED BY ONLY <1>1, <1>2, nil \in Seq(Items), r \in ThreadType DEF ThreadType

LEMMA FlushIs ==
  ASSUME TypeOK, Flush
  PROVE  /\ thread' \in [Threads -> ThreadType]
         /\ \A t \in Threads :
              LET p == thread[t] q == thread'[t] IN
              /\ q.pc = p.pc /\ q.state = p.state /\ q.refers = p.refers
              /\ q.die = p.die /\ q.items = <<>> /\ q.id = 0 /\ q.drains = FALSE
              /\ t # 0 \/ prev_thread = NoThread => q.hw = p.hw /\ q.safe = p.safe /\ q.ctx = p.ctx
         /\ prev_thread # NoThread =>
              LET p == thread[0] q == thread'[0] src == thread[prev_thread] IN
              /\ q.ctx = IF codec.update THEN src.ctx ELSE p.ctx
              /\ q.safe = src.safe
              /\ q.hw = IF src.safe THEN src.hw ELSE IF p.safe THEN "none" ELSE p.hw
<1>0. /\ thread \in [Threads -> ThreadType] /\ prev_thread \in Threads \cup {NoThread}
      /\ 0 \in Threads /\ 0 \in 0 .. MaxSubmits
  BY TypeIs, CountIs
<1>1. PICK p0 : /\ p0 = FlushedContext
                /\ p0 = IF prev_thread \in {NoThread, 0} THEN thread[0]
                        ELSE UpdatedContext(thread[0], thread[prev_thread])
  BY DEF FlushedContext
<1>2. thread' = [t \in Threads |->
         [(IF t = 0 THEN p0 ELSE thread[t]) EXCEPT !.items = <<>>, !.id = 0, !.drains = FALSE]]
  BY <1>1 DEF Flush
<1>3. p0 \in ThreadType
  BY <1>0, <1>1, UpdatedIs
<1>5. /\ p0.pc = thread[0].pc /\ p0.state = thread[0].state /\ p0.refers = thread[0].refers
      /\ p0.die = thread[0].die
      /\ prev_thread = NoThread => p0 = thread[0]
      /\ prev_thread # NoThread =>
           LET p == thread[0] src == thread[prev_thread] IN
           /\ p0.ctx = IF codec.update THEN src.ctx ELSE p.ctx
           /\ p0.safe = src.safe
           /\ p0.hw = IF src.safe THEN src.hw ELSE IF p.safe THEN "none" ELSE p.hw
  <2>1. CASE prev_thread \in {NoThread, 0}
    BY <1>0, <1>1, <2>1, CountIs DEF ThreadType
  <2>2. CASE prev_thread \notin {NoThread, 0}
    <3>1. PICK dst \in ThreadType, src \in ThreadType :
            /\ dst = thread[0] /\ src = thread[prev_thread]
            /\ p0 = UpdatedContext(dst, src)
      BY <1>0, <1>1, <2>2
    <3>0. p0 = UpdatedContext(dst, src)
      BY <3>1
    <3>2. /\ p0 \in ThreadType
          /\ p0.pc = dst.pc /\ p0.state = dst.state /\ p0.id = dst.id /\ p0.items = dst.items
          /\ p0.drains = dst.drains /\ p0.refers = dst.refers
          /\ p0.die = dst.die
          /\ p0.ctx = IF codec.update THEN src.ctx ELSE dst.ctx
          /\ p0.hw = IF src.safe THEN src.hw ELSE IF dst.safe THEN "none" ELSE dst.hw
          /\ p0.safe = src.safe
      BY ONLY <3>0, dst \in ThreadType, src \in ThreadType, UpdatedIs
    <3> QED BY <2>2, <3>1, <3>2
  <2> QED BY <2>1, <2>2
<1>6. ASSUME NEW t \in Threads, NEW r, r = IF t = 0 THEN p0 ELSE thread[t]
      PROVE  LET q == thread'[t] IN
             /\ q.pc = r.pc /\ q.state = r.state /\ q.refers = r.refers
             /\ q.die = r.die /\ q.items = <<>> /\ q.id = 0 /\ q.drains = FALSE
             /\ q.hw = r.hw /\ q.safe = r.safe /\ q.ctx = r.ctx /\ q \in ThreadType
  <2>1. PICK q : q = [r EXCEPT !.items = <<>>, !.id = 0, !.drains = FALSE]
    OBVIOUS
  <2>2. q = thread'[t] /\ r \in ThreadType
    BY <1>0, <1>2, <1>3, <1>6, <2>1
  <2>3. /\ q.pc = r.pc /\ q.state = r.state /\ q.refers = r.refers
        /\ q.die = r.die /\ q.items = <<>> /\ q.id = 0 /\ q.drains = FALSE
        /\ q.hw = r.hw /\ q.safe = r.safe /\ q.ctx = r.ctx /\ q \in ThreadType
    BY <2>1, <2>2, ClearedIs
  <2> QED BY <2>2, <2>3
<1>8. ASSUME NEW t \in Threads
      PROVE  LET p == thread[t] q == thread'[t] IN
             /\ q.pc = p.pc /\ q.state = p.state /\ q.refers = p.refers
             /\ q.die = p.die /\ q.items = <<>> /\ q.id = 0 /\ q.drains = FALSE
             /\ t # 0 \/ prev_thread = NoThread => q.hw = p.hw /\ q.safe = p.safe /\ q.ctx = p.ctx
  <2>1. CASE t = 0
    <3>1. p0 = IF t = 0 THEN p0 ELSE thread[t]
      BY <2>1
    <3>2. LET q == thread'[t] IN
          /\ q.pc = p0.pc /\ q.state = p0.state /\ q.refers = p0.refers
          /\ q.die = p0.die /\ q.items = <<>> /\ q.id = 0 /\ q.drains = FALSE
          /\ q.hw = p0.hw /\ q.safe = p0.safe /\ q.ctx = p0.ctx /\ q \in ThreadType
      BY <1>6, <3>1
    <3> QED BY <1>5, <2>1, <3>2
  <2>2. CASE t # 0
    <3>2. thread[t] = IF t = 0 THEN p0 ELSE thread[t]
      BY <2>2
    <3>3. LET q == thread'[t] r == thread[t] IN
          /\ q.pc = r.pc /\ q.state = r.state /\ q.refers = r.refers
          /\ q.die = r.die /\ q.items = <<>> /\ q.id = 0 /\ q.drains = FALSE
          /\ q.hw = r.hw /\ q.safe = r.safe /\ q.ctx = r.ctx /\ q \in ThreadType
      BY <1>6, <3>2
    <3> QED BY ONLY <3>3
  <2> QED BY <2>1, <2>2
<1>7. /\ thread'[0].ctx = p0.ctx /\ thread'[0].hw = p0.hw /\ thread'[0].safe = p0.safe
  BY <1>0, <1>6
<1>9. thread' \in [Threads -> ThreadType]
  BY <1>2, <1>6
<1> HIDE <1>1
<1> QED BY <1>2, <1>5, <1>7, <1>8, <1>9

LEMMA CollectIs ==
  ASSUME TypeOK, Collect, NEW p, NEW q, p = thread[next_finished], q = thread'[next_finished]
  PROVE  /\ OnlyOne(next_finished) /\ thread' \in [Threads -> ThreadType]
         /\ q.pc = p.pc /\ q.state = p.state /\ q.hw = p.hw /\ q.safe = p.safe
         /\ q.drains = p.drains /\ q.refers = p.refers /\ q.ctx = p.ctx
         /\ q.die = p.die /\ q.id = 0 /\ q.items = <<>>
<1>0. /\ thread \in [Threads -> ThreadType] /\ next_finished \in Threads /\ p \in ThreadType
      /\ 0 \in 0 .. MaxSubmits
  BY TypeIs, CountIs
<1>1. PICK nil \in Seq(Items) : nil = <<>>
  BY EmptySeq
<1>2. thread' = [thread EXCEPT ![next_finished].items = nil, ![next_finished].id = 0]
  BY <1>1 DEF Collect
<1>3. q = [p EXCEPT !.items = nil, !.id = 0] /\ OnlyOne(next_finished)
  BY <1>0, <1>2 DEF OnlyOne
<1>4. /\ q.pc = p.pc /\ q.state = p.state /\ q.hw = p.hw /\ q.safe = p.safe
      /\ q.drains = p.drains /\ q.refers = p.refers /\ q.ctx = p.ctx
      /\ q.die = p.die /\ q.id = 0 /\ q.items = nil /\ q \in ThreadType
  BY ONLY <1>0, <1>3, nil \in Seq(Items) DEF ThreadType
<1> QED BY <1>0, <1>1, <1>2, <1>3, <1>4

LEMMA SubmitIs ==
  ASSUME TypeOK, Submit, last + 1 \in 0 .. MaxSubmits, NEW p, NEW q,
         p = thread[next_decoding], q = thread'[next_decoding]
  PROVE  /\ OnlyOne(next_decoding) /\ thread' \in [Threads -> ThreadType]
         /\ p.pc = "wait" /\ q.pc = "wait" /\ q.state = p.state /\ q.hw = p.hw /\ q.safe = p.safe
         /\ q.refers = p.refers /\ q.ctx = p.ctx /\ q.die = p.die
         /\ q.items = p.items /\ q.id = last + 1 /\ q.drains = (p.drains \/ draining')
<1>0. /\ thread \in [Threads -> ThreadType] /\ next_decoding \in Threads /\ p \in ThreadType
      /\ draining' \in BOOLEAN
  BY TypeIs DEF Submit
<1>1. /\ p.pc = "wait"
      /\ thread' = [thread EXCEPT ![next_decoding].id = last + 1,
                                  ![next_decoding].drains = @ \/ draining']
  BY DEF Submit
<1> QED BY <1>0, <1>1 DEF OnlyOne, ThreadType, ThreadPcs

\* A thread that only goes on, or is told to.
LEMMA MoveIs ==
  ASSUME TypeOK, NEW t \in Threads, NEW p \in ThreadPcs,
         thread' = [thread EXCEPT ![t].pc = p]
  PROVE  /\ OnlyOne(t) /\ thread' \in [Threads -> ThreadType] /\ thread'[t].pc = p
         /\ thread'[t].state = thread[t].state /\ thread'[t].hw = thread[t].hw
         /\ thread'[t].safe = thread[t].safe /\ thread'[t].drains = thread[t].drains
         /\ thread'[t].refers = thread[t].refers /\ thread'[t].ctx = thread[t].ctx
         /\ thread'[t].die = thread[t].die
         /\ thread'[t].id = thread[t].id /\ thread'[t].items = thread[t].items
BY TypeIs DEF OnlyOne, ThreadType

LEMMA OneItem == <<"error">> \in Seq(Items) /\ <<"eof">> \in Seq(Items)
<1>1. ASSUME NEW i \in Items PROVE <<i>> \in Seq(Items)
  OBVIOUS
<1> QED BY <1>1 DEF Items

LEMMA DieIs ==
  ASSUME TypeOK, NEW t \in Threads, Die(t), NEW p, NEW q, p = thread[t], q = thread'[t]
  PROVE  /\ OnlyOne(t) /\ thread' \in [Threads -> ThreadType] /\ UNCHANGED <<user, setups>>
         /\ p.pc = "wait" /\ p.die /\ q.pc = "exited"
         /\ q.id = p.id /\ q.drains = p.drains /\ q.die = p.die /\ q.state = p.state
         /\ q.items = p.items /\ q.hw = p.hw /\ q.safe = p.safe /\ q.refers = p.refers
         /\ q.ctx = p.ctx
         /\ UNCHANGED locks
<1>0. /\ thread \in [Threads -> ThreadType] /\ p \in ThreadType /\ 0 \in 0 .. MaxSubmits
      /\ codec.offered \subseteq HwAccels /\ codec.update \in BOOLEAN
  BY TypeIs, CountIs
<1>1. thread' = [thread EXCEPT ![t].pc = "exited"]
  BY DEF Die, To
<1>2. q = [p EXCEPT !.pc = "exited"]
  BY <1>0, <1>1
<1>3. /\ q.id = p.id /\ q.drains = p.drains /\ q.die = p.die /\ q.state = p.state
      /\ q.items = p.items /\ q.hw = p.hw /\ q.safe = p.safe /\ q.refers = p.refers
      /\ q.ctx = p.ctx /\ q.pc = "exited"
      /\ q \in ThreadType
  BY ONLY <1>0, <1>2 DEF ThreadType, ThreadPcs
<1>4. OnlyOne(t) /\ thread' \in [Threads -> ThreadType]
  BY <1>0, <1>1, <1>3 DEF OnlyOne
<1> QED BY <1>3, <1>4 DEF Die, To

LEMMA WakeIs ==
  ASSUME TypeOK, NEW t \in Threads, Wake(t), NEW p, NEW q, p = thread[t], q = thread'[t]
  PROVE  /\ OnlyOne(t) /\ thread' \in [Threads -> ThreadType] /\ UNCHANGED <<user, setups>>
         /\ p.pc = "start" /\ q.pc = IF codec.update THEN "setup" ELSE "decode"
         /\ q.id = p.id /\ q.drains = p.drains /\ q.die = p.die /\ q.items = p.items
         /\ q.hw = p.hw /\ q.safe = p.safe /\ q.refers = p.refers /\ q.ctx = p.ctx
         /\ q.state = IF codec.update THEN p.state ELSE "setup_finished"
         /\ hwaccel_mutex' = IF codec.update /\ Serial(p.hw) THEN t ELSE hwaccel_mutex
         /\ codec.update /\ Serial(p.hw) => hwaccel_mutex = NoThread
         /\ UNCHANGED <<async_lock, stash>>
<1>0. /\ thread \in [Threads -> ThreadType] /\ p \in ThreadType /\ 0 \in 0 .. MaxSubmits
      /\ codec.offered \subseteq HwAccels /\ codec.update \in BOOLEAN
  BY TypeIs, CountIs
<1>1. CASE codec.update
  <2>1. thread' = [thread EXCEPT ![t].pc = "setup"]
    BY <1>1 DEF Wake, To
  <2>2. q = [p EXCEPT !.pc = "setup"]
    BY <1>0, <2>1
  <2>3. /\ q.id = p.id /\ q.drains = p.drains /\ q.die = p.die /\ q.state = p.state
        /\ q.items = p.items /\ q.hw = p.hw /\ q.safe = p.safe /\ q.refers = p.refers
        /\ q.ctx = p.ctx /\ q.pc = "setup"
        /\ q \in ThreadType
    BY ONLY <1>0, <2>2 DEF ThreadType, ThreadPcs
  <2>4. OnlyOne(t) /\ thread' \in [Threads -> ThreadType]
    BY <1>0, <2>1, <2>3 DEF OnlyOne
  <2> QED BY <1>1, <2>3, <2>4 DEF Wake
<1>2. CASE ~codec.update
  <2>1. thread' = [thread EXCEPT ![t].state = "setup_finished", ![t].pc = "decode"]
    BY <1>2 DEF Wake
  <2>2. q = [p EXCEPT !.state = "setup_finished", !.pc = "decode"]
    BY <1>0, <2>1
  <2>3. /\ q.id = p.id /\ q.drains = p.drains /\ q.die = p.die /\ q.items = p.items
        /\ q.hw = p.hw /\ q.safe = p.safe /\ q.refers = p.refers /\ q.ctx = p.ctx
        /\ q.state = "setup_finished" /\ q.pc = "decode"
        /\ q \in ThreadType
    BY ONLY <1>0, <2>2 DEF ThreadType, ThreadPcs
  <2>4. OnlyOne(t) /\ thread' \in [Threads -> ThreadType]
    BY <1>0, <2>1, <2>3 DEF OnlyOne
  <2> QED BY <1>2, <2>3, <2>4 DEF Wake
<1> QED BY <1>0, <1>1, <1>2

LEMMA SetUpIs ==
  ASSUME TypeOK, NEW t \in Threads, SetUp(t), NEW p, NEW q, p = thread[t], q = thread'[t]
  PROVE  /\ OnlyOne(t) /\ thread' \in [Threads -> ThreadType] /\ UNCHANGED <<user, setups>>
         /\ p.pc = "setup"
         /\ q.pc = IF Serial(q.hw) /\ hwaccel_mutex # t THEN "serialize" ELSE "finish"
         /\ q.id = p.id /\ q.drains = p.drains /\ q.die = p.die /\ q.state = p.state
         /\ q.items = p.items /\ q.safe = p.safe /\ q.ctx = p.ctx
         /\ q.hw \in {p.hw} \cup Formats(t)
         /\ UNCHANGED locks
<1>0. /\ thread \in [Threads -> ThreadType] /\ p \in ThreadType /\ 0 \in 0 .. MaxSubmits
      /\ codec.offered \subseteq HwAccels /\ codec.update \in BOOLEAN
  BY TypeIs, CountIs
<1>a. PICK h \in {p.hw} \cup Formats(t), r \in {0, p.ctx} :
         thread' = [thread EXCEPT ![t].hw = h, ![t].refers = r,
                   ![t].pc = IF Serial(h) /\ hwaccel_mutex # t THEN "serialize" ELSE "finish"]
  BY DEF SetUp
<1>b. PICK x \in ThreadPcs : x = IF Serial(h) /\ hwaccel_mutex # t THEN "serialize" ELSE "finish"
  BY DEF ThreadPcs
<1>d. r \in 0 .. MaxSubmits
  BY <1>0 DEF ThreadType
<1>c. h \in HwAccels
  BY <1>0 DEF Formats, ThreadType, HwAccels
<1>1. thread' = [thread EXCEPT ![t].hw = h, ![t].refers = r, ![t].pc = x]
  BY <1>a, <1>b DEF SetUp
<1>2. q = [p EXCEPT !.hw = h, !.refers = r, !.pc = x]
  BY <1>0, <1>1
<1>3. /\ q.id = p.id /\ q.drains = p.drains /\ q.die = p.die /\ q.state = p.state
      /\ q.items = p.items /\ q.safe = p.safe /\ q.ctx = p.ctx
      /\ q.hw = h /\ q.refers = r /\ q.pc = x
      /\ q \in ThreadType
  BY ONLY <1>0, h \in HwAccels, <1>d, x \in ThreadPcs, <1>c, <1>2 DEF ThreadType, ThreadPcs
<1>4. OnlyOne(t) /\ thread' \in [Threads -> ThreadType]
  BY <1>0, <1>1, <1>3 DEF OnlyOne
<1> QED BY <1>3, <1>4, <1>a, <1>b DEF SetUp

LEMMA SerializeIs ==
  ASSUME TypeOK, NEW t \in Threads, Serialize(t), NEW p, NEW q, p = thread[t], q = thread'[t]
  PROVE  /\ OnlyOne(t) /\ thread' \in [Threads -> ThreadType] /\ UNCHANGED <<user, setups>>
         /\ p.pc = "serialize" /\ q.pc = "finish"
         /\ q.id = p.id /\ q.drains = p.drains /\ q.die = p.die /\ q.state = p.state
         /\ q.items = p.items /\ q.hw = p.hw /\ q.safe = p.safe /\ q.refers = p.refers
         /\ q.ctx = p.ctx
         /\ hwaccel_mutex = NoThread /\ hwaccel_mutex' = t /\ UNCHANGED <<async_lock, stash>>
<1>0. /\ thread \in [Threads -> ThreadType] /\ p \in ThreadType /\ 0 \in 0 .. MaxSubmits
      /\ codec.offered \subseteq HwAccels /\ codec.update \in BOOLEAN
  BY TypeIs, CountIs
<1>1. thread' = [thread EXCEPT ![t].pc = "finish"]
  BY DEF Serialize, To
<1>2. q = [p EXCEPT !.pc = "finish"]
  BY <1>0, <1>1
<1>3. /\ q.id = p.id /\ q.drains = p.drains /\ q.die = p.die /\ q.state = p.state
      /\ q.items = p.items /\ q.hw = p.hw /\ q.safe = p.safe /\ q.refers = p.refers
      /\ q.ctx = p.ctx /\ q.pc = "finish"
      /\ q \in ThreadType
  BY ONLY <1>0, <1>2 DEF ThreadType, ThreadPcs
<1>4. OnlyOne(t) /\ thread' \in [Threads -> ThreadType]
  BY <1>0, <1>1, <1>3 DEF OnlyOne
<1> QED BY <1>3, <1>4 DEF Serialize, To

LEMMA FinishSetupIs ==
  ASSUME TypeOK, NEW t \in Threads, FinishSetup(t), NEW p, NEW q, p = thread[t], q = thread'[t]
  PROVE  /\ OnlyOne(t) /\ thread' \in [Threads -> ThreadType] /\ UNCHANGED user
         /\ p.pc = "finish" /\ q.pc = "decode"
         /\ q.id = p.id /\ q.drains = p.drains /\ q.die = p.die /\ q.items = p.items
         /\ q.hw = p.hw /\ q.refers = p.refers
         /\ q.state = "setup_finished"
         /\ q.safe = ThreadSafe(p.hw)
         /\ q.ctx = IF ~p.drains \/ codec.delay THEN p.id ELSE p.ctx
         /\ latest' = IF ~p.drains \/ codec.delay THEN p.id ELSE latest
         /\ stale' = (stale /\ ~(~p.drains \/ codec.delay))
         /\ AsyncUnsafe(p.hw) => async_lock = NoThread
         /\ async_lock' = IF AsyncUnsafe(p.hw) THEN t ELSE async_lock
         /\ stash' = IF Serial(p.hw) THEN p.hw ELSE stash
         /\ UNCHANGED hwaccel_mutex
<1>0. /\ thread \in [Threads -> ThreadType] /\ p \in ThreadType /\ 0 \in 0 .. MaxSubmits
      /\ codec.offered \subseteq HwAccels /\ codec.update \in BOOLEAN
  BY TypeIs, CountIs
<1>a. PICK s \in BOOLEAN : s = ThreadSafe(p.hw)
  BY DEF ThreadSafe
<1>b. PICK c \in 0 .. MaxSubmits : c = IF CodecCalled(t) THEN p.id ELSE p.ctx
  BY <1>0 DEF ThreadType
<1>1. thread' = [thread EXCEPT ![t].safe = s, ![t].ctx = c,
                                 ![t].state = "setup_finished", ![t].pc = "decode"]
  BY <1>a, <1>b DEF FinishSetup
<1>2. q = [p EXCEPT !.safe = s, !.ctx = c, !.state = "setup_finished", !.pc = "decode"]
  BY <1>0, <1>1
<1>3. /\ q.id = p.id /\ q.drains = p.drains /\ q.die = p.die /\ q.items = p.items
      /\ q.hw = p.hw /\ q.refers = p.refers /\ q.safe = s
      /\ q.ctx = c /\ q.state = "setup_finished" /\ q.pc = "decode"
      /\ q \in ThreadType
  BY ONLY <1>0, s \in BOOLEAN, c \in 0 .. MaxSubmits, <1>2 DEF ThreadType, ThreadPcs
<1>4. OnlyOne(t) /\ thread' \in [Threads -> ThreadType]
  BY <1>0, <1>1, <1>3 DEF OnlyOne
<1> QED BY <1>3, <1>4, <1>a, <1>b DEF FinishSetup, CodecCalled

LEMMA AllocFailsIs ==
  ASSUME TypeOK, NEW t \in Threads, AllocFails(t), NEW p, NEW q, p = thread[t], q = thread'[t]
  PROVE  /\ OnlyOne(t) /\ thread' \in [Threads -> ThreadType] /\ UNCHANGED <<user, setups>>
         /\ p.pc = "setup" /\ q.pc = "release"
         /\ q.id = p.id /\ q.drains = p.drains /\ q.die = p.die /\ q.state = p.state
         /\ q.hw = p.hw /\ q.safe = p.safe /\ q.refers = p.refers
         /\ q.items = <<"error">> /\ q.items # <<>>
         /\ q.ctx = p.ctx
         /\ UNCHANGED locks
<1>0. /\ thread \in [Threads -> ThreadType] /\ p \in ThreadType /\ 0 \in 0 .. MaxSubmits
      /\ codec.offered \subseteq HwAccels /\ codec.update \in BOOLEAN
  BY TypeIs, CountIs
<1>a. PICK gives \in Seq(Items) : gives = <<"error">> /\ gives # <<>>
  <2>1. <<"error">> # <<>>
    OBVIOUS
  <2> QED BY <2>1, OneItem
<1>1. thread' = [thread EXCEPT ![t].items = gives, ![t].pc = "release"]
  BY <1>a DEF AllocFails
<1>2. q = [p EXCEPT !.items = gives, !.pc = "release"]
  BY <1>0, <1>1
<1>3. /\ q.id = p.id /\ q.drains = p.drains /\ q.die = p.die /\ q.state = p.state
      /\ q.hw = p.hw /\ q.safe = p.safe /\ q.refers = p.refers
      /\ q.items = gives /\ q.ctx = p.ctx /\ q.pc = "release"
      /\ q \in ThreadType
  BY ONLY <1>0, gives \in Seq(Items), <1>2 DEF ThreadType, ThreadPcs
<1>4. OnlyOne(t) /\ thread' \in [Threads -> ThreadType]
  BY <1>0, <1>1, <1>3 DEF OnlyOne
<1> QED BY <1>3, <1>4, <1>a DEF AllocFails

LEMMA DecodeIs ==
  ASSUME TypeOK, NEW t \in Threads, Decode(t), NEW p, NEW q, p = thread[t], q = thread'[t]
  PROVE  /\ OnlyOne(t) /\ thread' \in [Threads -> ThreadType] /\ UNCHANGED <<user, setups>>
         /\ p.pc = "decode" /\ q.pc = "release"
         /\ q.id = p.id /\ q.drains = p.drains /\ q.die = p.die /\ q.state = p.state
         /\ q.hw = p.hw /\ q.safe = p.safe /\ q.refers = p.refers /\ q.ctx = p.ctx
         /\ q.items \in Seq(Items) /\ (p.drains => q.items # <<>>)
         /\ UNCHANGED locks
<1>0. /\ thread \in [Threads -> ThreadType] /\ p \in ThreadType /\ 0 \in 0 .. MaxSubmits
      /\ codec.offered \subseteq HwAccels /\ codec.update \in BOOLEAN
  BY TypeIs, CountIs
<1>a. PICK gives \in (IF ~p.drains THEN PacketResults
                      ELSE IF codec.delay THEN DrainResults ELSE {<<"eof">>}) :
         thread' = [thread EXCEPT ![t].items = gives, ![t].pc = "release"]
  BY DEF Decode
<1>b. gives \in Seq(Items) /\ (p.drains => gives # <<>>)
  <2>1. CASE ~p.drains
    BY <1>a, <2>1, ResultAssumption
  <2>2. CASE p.drains /\ codec.delay
    BY <1>a, <2>2, ResultAssumption
  <2>3. CASE p.drains /\ ~codec.delay
    <3>1. gives = <<"eof">>
      BY <1>a, <2>3
    <3> QED BY <3>1, OneItem
  <2> QED BY <2>1, <2>2, <2>3
<1>1. thread' = [thread EXCEPT ![t].items = gives, ![t].pc = "release"]
  BY <1>a DEF Decode
<1>2. q = [p EXCEPT !.items = gives, !.pc = "release"]
  BY <1>0, <1>1
<1>3. /\ q.id = p.id /\ q.drains = p.drains /\ q.die = p.die /\ q.state = p.state
      /\ q.hw = p.hw /\ q.safe = p.safe /\ q.refers = p.refers /\ q.ctx = p.ctx
      /\ q.items = gives /\ q.pc = "release"
      /\ q \in ThreadType
  BY ONLY <1>0, <1>b, <1>2 DEF ThreadType, ThreadPcs
<1>4. OnlyOne(t) /\ thread' \in [Threads -> ThreadType]
  BY <1>0, <1>1, <1>3 DEF OnlyOne
<1> QED BY <1>3, <1>4, <1>a, <1>b DEF Decode

LEMMA ReleaseIs ==
  ASSUME TypeOK, NEW t \in Threads, Release(t), NEW p, NEW q, p = thread[t], q = thread'[t]
  PROVE  /\ OnlyOne(t) /\ thread' \in [Threads -> ThreadType] /\ UNCHANGED <<user, setups>>
         /\ p.pc = "release" /\ q.pc = "ready"
         /\ q.id = p.id /\ q.drains = p.drains /\ q.die = p.die /\ q.state = p.state
         /\ q.items = p.items /\ q.safe = p.safe /\ q.ctx = p.ctx
         /\ q.hw = (IF hwaccel_mutex = t THEN "none" ELSE p.hw)
        
         /\ hwaccel_mutex' = IF hwaccel_mutex = t THEN NoThread ELSE hwaccel_mutex
         /\ async_lock' = IF async_lock = t THEN NoThread ELSE async_lock
         /\ UNCHANGED stash
<1>0. /\ thread \in [Threads -> ThreadType] /\ p \in ThreadType /\ 0 \in 0 .. MaxSubmits
      /\ codec.offered \subseteq HwAccels /\ codec.update \in BOOLEAN
  BY TypeIs, CountIs
<1>a. PICK h \in HwAccels : h = IF hwaccel_mutex = t THEN "none" ELSE p.hw
  BY <1>0 DEF ThreadType, HwAccels
<1>1. thread' = [thread EXCEPT ![t].hw = h, ![t].refers = 0, ![t].pc = "ready"]
  BY <1>a DEF Release
<1>2. q = [p EXCEPT !.hw = h, !.refers = 0, !.pc = "ready"]
  BY <1>0, <1>1
<1>3. /\ q.id = p.id /\ q.drains = p.drains /\ q.die = p.die /\ q.state = p.state
      /\ q.items = p.items /\ q.safe = p.safe /\ q.ctx = p.ctx /\ q.hw = h
      /\ q.refers = 0 /\ q.pc = "ready"
      /\ q \in ThreadType
  BY ONLY <1>0, h \in HwAccels, <1>2 DEF ThreadType, ThreadPcs
<1>4. OnlyOne(t) /\ thread' \in [Threads -> ThreadType]
  BY <1>0, <1>1, <1>3 DEF OnlyOne
<1> QED BY <1>3, <1>4, <1>a DEF Release

LEMMA ReadyIs ==
  ASSUME TypeOK, NEW t \in Threads, Ready(t), NEW p, NEW q, p = thread[t], q = thread'[t]
  PROVE  /\ OnlyOne(t) /\ thread' \in [Threads -> ThreadType] /\ UNCHANGED <<user, setups>>
         /\ p.pc = "ready" /\ q.pc = "wait"
         /\ q.id = p.id /\ q.drains = p.drains /\ q.die = p.die /\ q.items = p.items
         /\ q.hw = p.hw /\ q.safe = p.safe /\ q.refers = p.refers /\ q.ctx = p.ctx
         /\ q.state = "input_ready"
         /\ UNCHANGED locks
<1>0. /\ thread \in [Threads -> ThreadType] /\ p \in ThreadType /\ 0 \in 0 .. MaxSubmits
      /\ codec.offered \subseteq HwAccels /\ codec.update \in BOOLEAN
  BY TypeIs, CountIs
<1>1. thread' = [thread EXCEPT ![t].state = "input_ready", ![t].pc = "wait"]
  BY DEF Ready
<1>2. q = [p EXCEPT !.state = "input_ready", !.pc = "wait"]
  BY <1>0, <1>1
<1>3. /\ q.id = p.id /\ q.drains = p.drains /\ q.die = p.die /\ q.items = p.items
      /\ q.hw = p.hw /\ q.safe = p.safe /\ q.refers = p.refers /\ q.ctx = p.ctx
      /\ q.state = "input_ready" /\ q.pc = "wait"
      /\ q \in ThreadType
  BY ONLY <1>0, <1>2 DEF ThreadType, ThreadPcs
<1>4. OnlyOne(t) /\ thread' \in [Threads -> ThreadType]
  BY <1>0, <1>1, <1>3 DEF OnlyOne
<1> QED BY <1>3, <1>4 DEF Ready

\* What no step of a worker does.
LEMMA WorkerIs ==
  ASSUME TypeOK, NEW t \in Threads, Worker(t), NEW p, NEW q, p = thread[t], q = thread'[t]
  PROVE  /\ OnlyOne(t) /\ thread' \in [Threads -> ThreadType] /\ UNCHANGED user
         /\ q.id = p.id /\ q.drains = p.drains /\ q.die = p.die
         /\ \/ FinishSetup(t)
            \/ UNCHANGED setups /\ q.ctx = p.ctx /\ (codec.update => q.pc # "decode")
         /\ \/ p.pc \in AtWork /\ q.pc \in AtWork \cup {"wait"}
            \/ p.pc = "wait" /\ p.die /\ q.pc = "exited"
<1> USE DEF AtWork, SettingUp
<1>1. CASE Die(t)
  BY <1>1, DieIs
<1>2. CASE Wake(t)
  BY <1>2, WakeIs
<1>3. CASE SetUp(t)
  BY <1>3, SetUpIs
<1>4. CASE Serialize(t)
  BY <1>4, SerializeIs
<1>5. CASE FinishSetup(t)
  BY <1>5, FinishSetupIs
<1>6. CASE AllocFails(t)
  BY <1>6, AllocFailsIs
<1>7. CASE Decode(t)
  BY <1>7, DecodeIs
<1>8. CASE Release(t)
  BY <1>8, ReleaseIs
<1>9. CASE Ready(t)
  BY <1>9, ReadyIs
<1> QED BY <1>1, <1>2, <1>3, <1>4, <1>5, <1>6, <1>7, <1>8, <1>9 DEF Worker
-----------------------------------------------------------------------------
(* Types                                                                    *)

\* Bounds at work: there is a number left for each packet that is submitted.
LEMMA NumberLeft ==
  ASSUME IInv
  PROVE  /\ Submit => last + 1 \in 0 .. MaxSubmits
         /\ pc = "setup" => last + 1 \in 0 .. MaxSubmits
<1>0. last \in Nat /\ MaxSubmits \in Nat
  BY CountIs DEF IInv, TypeOK
<1>1. ASSUME Submit PROVE last + 1 \in 0 .. MaxSubmits
  <2>1. /\ InFlight \in Nat
    BY InFlightIs, TypeIs, CountIs DEF IInv
  <2>2. CASE ~draining /\ last < MaxSubmits
    BY <1>0, <2>2
  <2>3. CASE HasRoom
    BY <1>0, <2>1, <2>3 DEF HasRoom
  <2>4. CASE draining
    <3>1. IsFiniteSet(Undrained)
      <4>1. IsFiniteSet(Threads)
        BY FS_Interval, CountIs DEF Threads
      <4> QED BY <4>1, FS_Subset DEF Undrained
    <3>2. Cardinality(Undrained) \in Nat
      BY <3>1, FS_CardinalityType
    <3>3. last + Cardinality(Undrained) < MaxSubmits
      BY <1>1, <2>4 DEF Submit, IInv, Bounds
    <3> QED BY <1>0, <3>2, <3>3
  <2> QED BY <1>1, <2>2, <2>3, <2>4 DEF Submit
<1>2. ASSUME pc = "setup" PROVE last + 1 \in 0 .. MaxSubmits
  BY <1>0, <1>2 DEF IInv, Bounds
<1> QED BY <1>1, <1>2

LEMMA InitType == Init => TypeOK
<1> SUFFICES ASSUME Init PROVE TypeOK
  OBVIOUS
<1>1. NewThread \in ThreadType /\ Empty \in [id : 0 .. MaxSubmits, items : Seq(Items)]
  BY CountIs DEF NewThread, Empty, ThreadType, ThreadPcs, HwAccels
<1>2. thread \in [Threads -> ThreadType]
  BY <1>1 DEF Init
<1>3. given \in [id : 0 .. MaxSubmits, item : Items \cup {"none"}]
  BY CountIs DEF Init
<1> QED BY <1>1, <1>2, <1>3, CountIs DEF Init, TypeOK, ThreadType, ThreadPcs

LEMMA TypeStep ==
  ASSUME IInv, [Next]_fvars
  PROVE  TypeOK'
<1>0. /\ TypeOK /\ thread \in [Threads -> ThreadType] /\ MaxSubmits \in Nat
      /\ 0 \in Threads /\ 0 \in 0 .. MaxSubmits
  BY TypeIs, CountIs DEF IInv
<1>20. ASSUME Start
       PROVE  \E p, q, src :
                /\ p = thread[next_decoding] /\ q = thread'[next_decoding]
                /\ thread' \in [Threads -> ThreadType]
                /\ stash' = IF q.safe THEN stash
                            ELSE IF Updates /\ p.safe THEN "none" ELSE p.hw
                /\ q.safe = IF Updates THEN src.safe ELSE p.safe
  <2>1. PICK p, q, src : p = thread[next_decoding] /\ q = thread'[next_decoding]
                         /\ src = thread[prev_thread]
    OBVIOUS
  <2>2. /\ thread' \in [Threads -> ThreadType]
        /\ stash' = IF q.safe THEN stash ELSE IF Updates /\ p.safe THEN "none" ELSE p.hw
        /\ q.safe = IF Updates THEN src.safe ELSE p.safe
    BY <1>0, <1>20, <2>1, StartIs
  <2> QED BY <2>1, <2>2
<1> USE DEF TypeOK, ring, locks, past, setups
<1>1. ASSUME thread' \in [Threads -> ThreadType],
             UNCHANGED <<codec, next_decoding, next_finished, prev_thread, df, draining,
                         hwaccel_mutex, stash, given, latest, stale>>,
             async_lock' \in Threads \cup {NoThread, UserThread}, last' \in 0 .. MaxSubmits,
             sync' \in BOOLEAN,
             pc' \in {"init", "user", "loop", "setup", "collect", "lock", "park_flush",
                      "park_free", "free", "join", "done"}
      PROVE  TypeOK'
  BY <1>0, <1>1 DEF ThreadType, ThreadPcs
<1>2. CASE InitFails \/ Receive \/ SkipInput \/ NoInput \/ Relock \/ Park \/ FreeParked
  BY <1>0, <1>1, <1>2 DEF InitFails, Receive, SkipInput, NoInput, Relock, Park, FreeParked
<1>3. CASE SubmitFails
  BY <1>0, <1>1, <1>3, NumberLeft DEF SubmitFails
<1>4. CASE Freed
  BY <1>0, <1>4 DEF Freed
<1>5. CASE InitThread
  <2>1. InState("none") # {}
    BY <1>5 DEF IInv, Ring, InitThread
  <2>2. First(InState("none")) \in Threads
    BY <2>1, FirstIs DEF InState
  <2>3. "wait" \in ThreadPcs
    BY DEF ThreadPcs
  <2>4. thread' \in [Threads -> ThreadType]
    BY <1>0, <1>5, <2>2, <2>3, MoveIs DEF InitThread
  <2> QED BY <1>0, <1>1, <1>5, <2>4 DEF InitThread
<1>6. CASE FreeThread
  <2>1. First(InState("wait")) \in Threads
    BY <1>6, FirstIs DEF FreeThread, InState
  <2>2. thread' \in [Threads -> ThreadType]
    <3>0. PICK t \in Threads : t = First(InState("wait"))
      BY <2>1
    <3>1. PICK q : q = [thread[t] EXCEPT !.die = TRUE]
      OBVIOUS
    <3>2. thread' = [thread EXCEPT ![t].die = TRUE]
      BY <1>6, <3>0 DEF FreeThread
    <3>3. q \in ThreadType
      <4>1. PICK p \in ThreadType : p = thread[t]
        BY <1>0
      <4>2. q = [p EXCEPT !.die = TRUE]
        BY <3>1, <4>1
      <4> QED BY ONLY <4>2, p \in ThreadType DEF ThreadType
    <3> QED BY <1>0, <3>1, <3>2, <3>3
  <2> QED BY <1>0, <1>1, <1>6, <2>2 DEF FreeThread
<1>7. CASE Join
  <2>1. PICK t \in InState("exited") :
          thread' = [thread EXCEPT ![t].pc = "freed", ![t].hw = "none"]
    BY <1>7 DEF Join
  <2>2. PICK q : q = [thread[t] EXCEPT !.pc = "freed", !.hw = "none"]
    OBVIOUS
  <2>3. q \in ThreadType /\ t \in Threads
    <3>1. t \in Threads
      BY DEF InState
    <3>2. PICK p \in ThreadType : p = thread[t]
      BY <1>0, <3>1
    <3>3. q = [p EXCEPT !.pc = "freed", !.hw = "none"]
      BY <2>2, <3>2
    <3>4. q \in ThreadType
      BY ONLY <3>3, p \in ThreadType DEF ThreadType, ThreadPcs, HwAccels
    <3> QED BY <3>1, <3>4
  <2>4. thread' \in [Threads -> ThreadType]
    BY <1>0, <2>1, <2>2, <2>3
  <2> QED BY <1>0, <1>1, <1>7, <2>4 DEF Join
<1>8. CASE Return
  <2>1. PICK i : i = Head(df.items)
    OBVIOUS
  <2>2. df.items \in Seq(Items) /\ df.items # <<>> /\ df.id \in 0 .. MaxSubmits
    BY <1>0, <1>8 DEF Return, Buffered
  <2>3. i \in Items /\ Tail(df.items) \in Seq(Items)
    BY <2>1, <2>2, HeadTailProperties
  <2>4. given' = [id |-> df.id, item |-> i] /\ df' = [df EXCEPT !.items = Tail(@)]
    BY <1>8, <2>1 DEF Return
  <2>5. df' \in [id : 0 .. MaxSubmits, items : Seq(Items)]
    BY <1>0, <2>2, <2>3, <2>4
  <2>6. given' \in [id : 0 .. MaxSubmits, item : Items \cup {"none"}]
    BY <2>2, <2>3, <2>4
  <2> QED BY <1>0, <1>8, <2>5, <2>6 DEF Return
<1>9. CASE Submit
  <2>1. PICK q : q = thread'[next_decoding]
    OBVIOUS
  <2>2. thread' \in [Threads -> ThreadType]
    BY <1>0, <1>9, <2>1, NumberLeft, SubmitIs
  <2>3. draining' \in BOOLEAN /\ pc' = "setup"
    BY <1>9 DEF Submit
  <2> QED BY <1>0, <1>9, <2>2, <2>3 DEF Submit, ThreadType, ThreadPcs
<1>10. CASE Start
  <2>1. PICK p, q, src :
          /\ p = thread[next_decoding] /\ q = thread'[next_decoding]
          /\ thread' \in [Threads -> ThreadType]
          /\ stash' = IF q.safe THEN stash ELSE IF Updates /\ p.safe THEN "none" ELSE p.hw
          /\ q.safe = IF Updates THEN src.safe ELSE p.safe
    BY <1>10, <1>20
  <2>3. p \in ThreadType /\ p.pc = "wait" /\ next_decoding \in Threads
    BY <1>0, <1>10, <2>1 DEF Start, IInv, Ring
  <2>4. p.hw \in HwAccels /\ (p.hw = "vulkan" => p.safe = TRUE)
    BY <2>1, <2>3 DEF IInv, Locks, ThreadType
  <2>5. stash' \in {"none", "dxva", "vaapi"}
    BY <1>0, <2>1, <2>4 DEF HwAccels
  <2>6. next_decoding' \in Threads /\ prev_thread' \in Threads /\ last' \in 0 .. MaxSubmits
        /\ pc' \in {"loop", "collect"}
    BY <1>0, <1>10, <2>3, SuccIs, NumberLeft DEF Start
  <2> QED BY <1>0, <1>10, <2>1, <2>5, <2>6 DEF Start, ThreadType, ThreadPcs
<1>11. CASE Collect
  <2>1. thread' \in [Threads -> ThreadType]
    BY <1>0, <1>11, CollectIs
  <2>2. df' \in [id : 0 .. MaxSubmits, items : Seq(Items)]
    <3>1. thread[next_finished] \in ThreadType
      BY <1>0
    <3> QED BY <1>11, <3>1 DEF Collect, ThreadType
  <2>3. next_finished' \in Threads
    BY <1>0, <1>11, SuccIs DEF Collect
  <2> QED BY <1>0, <1>11, <2>1, <2>2, <2>3 DEF Collect, ThreadType, ThreadPcs
<1>12. CASE Flush
  <2>1. thread' \in [Threads -> ThreadType]
    BY <1>0, <1>12, FlushIs
  <2>2. stale' \in BOOLEAN
    BY <1>0, <1>12 DEF Flush
  <2>3. Empty \in [id : 0 .. MaxSubmits, items : Seq(Items)]
    BY <1>0, EmptySeq DEF Empty
  <2> QED BY <1>0, <1>12, <2>1, <2>2, <2>3 DEF Flush, ThreadType, ThreadPcs
<1>13. ASSUME NEW t \in Threads, Worker(t) PROVE TypeOK'
  <2>1. thread' \in [Threads -> ThreadType] /\ UNCHANGED user
    <3>1. PICK p, q : p = thread[t] /\ q = thread'[t]
      OBVIOUS
    <3> QED BY <1>0, <1>13, <3>1, WorkerIs
  <2>2. /\ hwaccel_mutex' \in Threads \cup {NoThread}
        /\ async_lock' \in Threads \cup {NoThread, UserThread}
    BY <1>0, <1>13 DEF Worker, Die, Wake, SetUp, Serialize, FinishSetup, AllocFails, Decode,
                       Release, Ready
  <2>3. stash' \in {"none", "dxva", "vaapi"}
    BY <1>0, <1>13 DEF Worker, Die, Wake, SetUp, Serialize, FinishSetup, AllocFails, Decode,
                       Release, Ready, Serial
  <2>4. latest' \in 0 .. MaxSubmits /\ stale' \in BOOLEAN
    <3>1. CASE FinishSetup(t)
      <4>1. thread[t].id \in 0 .. MaxSubmits
        BY <1>0 DEF ThreadType
      <4> QED BY <1>0, <3>1, <4>1 DEF FinishSetup
    <3>2. CASE ~FinishSetup(t)
      BY <1>0, <1>13, <3>2 DEF Worker, Die, Wake, SetUp, Serialize, AllocFails, Decode,
                               Release, Ready
    <3> QED BY <3>1, <3>2
  <2> QED BY <1>0, <2>1, <2>2, <2>3, <2>4 DEF user, ThreadType, ThreadPcs
<1>14. CASE UNCHANGED fvars
  BY <1>0, <1>14 DEF fvars
<1> QED BY <1>2, <1>3, <1>4, <1>5, <1>6, <1>7, <1>8, <1>9, <1>10, <1>11, <1>12, <1>13, <1>14
        DEF Next, Calls, Inside
-----------------------------------------------------------------------------
(* The states of the threads.                                               *)

LEMMA InitThreadIs ==
  ASSUME IInv, InitThread
  PROVE  \E t \in Threads :
           /\ thread[t].pc = "none" /\ thread' = [thread EXCEPT ![t].pc = "wait"]
           /\ pc' \in {"init", "user"}
           /\ pc' = "init" <=> \E u \in Threads : thread'[u].pc = "none"
<1> DEFINE S == InState("none")
<1>0. /\ TypeOK /\ thread \in [Threads -> ThreadType]
      /\ IsFiniteSet(S) /\ S \subseteq Threads /\ S # {}
  <2>1. S \subseteq Threads
    BY DEF InState
  <2>2. IsFiniteSet(Threads)
    BY FS_Interval, CountIs DEF Threads
  <2> QED BY <2>1, <2>2, FS_Subset, TypeIs DEF IInv, Ring, InitThread
<1>1. PICK t \in S : t = First(S)
  BY <1>0, FirstIs
<1>2. t \in Threads /\ thread[t].pc = "none" /\ thread' = [thread EXCEPT ![t].pc = "wait"]
  BY <1>0, <1>1 DEF InitThread, InState
<1>3. /\ \A u \in Threads : u # t => thread'[u] = thread[u]
      /\ thread'[t].pc = "wait"
  BY <1>0, <1>2, MoveIs DEF OnlyOne, ThreadPcs
<1>4. Cardinality(S) = 1 <=> S = {t}
  <2>1. Cardinality(S) = 1 <=> \E x : S = {x}
    BY <1>0, FS_Singleton
  <2> HIDE DEF S
  <2> QED BY <2>1
<1>5. S = {t} <=> ~\E u \in Threads : thread'[u].pc = "none"
  <2>1. \A u \in Threads : u \in S <=> thread[u].pc = "none"
    BY DEF InState
  <2> HIDE DEF S
  <2>2. \A u \in Threads : thread'[u].pc = "none" <=> u \in S /\ u # t
    BY <1>2, <1>3, <2>1
  <2> QED BY <1>0, <1>1, <2>2
<1>6. pc' = IF Cardinality(S) = 1 THEN "user" ELSE "init"
  BY DEF InitThread
<1> HIDE DEF S
<1> QED BY <1>2, <1>4, <1>5, <1>6

\* A step of the user that leaves the threads alone.
Quiet == InitFails \/ Receive \/ Return \/ SkipInput \/ NoInput \/ SubmitFails \/ Relock
         \/ Park \/ FreeParked \/ Freed

LEMMA QuietIs ==
  ASSUME Quiet
  PROVE  /\ UNCHANGED <<thread, prev_thread, next_decoding, next_finished, draining, codec,
                        latest, stale, hwaccel_mutex>>
         /\ pc' \in Calling => pc \in Calling
         /\ pc' # "init" /\ pc' # "setup"
         /\ pc' \notin Freeing => pc \notin Freeing
         /\ pc # "collect"
         /\ pc' = "collect" => next_decoding # next_finished /\ ~Buffered'
BY DEF Buffered, Quiet, InitFails, Receive, Return, SkipInput, NoInput, SubmitFails, Relock, Park,
       FreeParked, Freed, Calling, Freeing, ring, locks, past, setups, CollectFirst

LEMMA StatesStep ==
  ASSUME IInv, [Next]_fvars
  PROVE  States'
<1>0. /\ TypeOK /\ thread \in [Threads -> ThreadType] /\ States /\ next_decoding \in Threads
      /\ NoThread \notin Threads
  BY TypeIs, CountIs DEF IInv
<1> USE DEF SettingUp, Calling, Freeing
<1>1. CASE Quiet
  BY <1>0, <1>1, QuietIs DEF States
<1>2. CASE InitThread
  <2>1. PICK t \in Threads :
           /\ thread[t].pc = "none" /\ thread' = [thread EXCEPT ![t].pc = "wait"]
           /\ pc' \in {"init", "user"}
           /\ pc' = "init" <=> \E u \in Threads : thread'[u].pc = "none"
    BY <1>2, InitThreadIs
  <2>2. /\ thread'[t].pc = "wait" /\ thread'[t].state = thread[t].state
        /\ thread'[t].die = thread[t].die /\ OnlyOne(t)
    BY <1>0, <2>1, MoveIs DEF ThreadPcs
  <2>3. pc = "init" /\ UNCHANGED prev_thread
    BY <1>2 DEF InitThread, ring
  <2> QED BY <1>0, <2>1, <2>2, <2>3 DEF States, OnlyOne
<1>3. CASE Submit
  <2>1. PICK p, q : p = thread[next_decoding] /\ q = thread'[next_decoding]
    OBVIOUS
  <2>2. /\ OnlyOne(next_decoding) /\ q.pc = p.pc /\ q.state = p.state /\ q.die = p.die
    BY <1>0, <1>3, <2>1, NumberLeft, SubmitIs
  <2>3. pc = "loop" /\ pc' = "setup" /\ UNCHANGED prev_thread
    BY <1>3 DEF Submit
  <2> QED BY <1>0, <2>1, <2>2, <2>3 DEF States, OnlyOne
<1>4. CASE Start
  <2>1. PICK p, q, src : p = thread[next_decoding] /\ q = thread'[next_decoding]
                         /\ src = thread[prev_thread]
    OBVIOUS
  <2>2. /\ OnlyOne(next_decoding) /\ q.pc = "start" /\ q.state = "setting_up" /\ q.die = p.die
    BY <1>0, <1>4, <2>1, StartIs
  <2>3. pc = "setup" /\ pc' \in {"loop", "collect"} /\ prev_thread' = next_decoding
    BY <1>4 DEF Start
  <2>4. ASSUME NEW u \in Threads PROVE thread[u].state # "setting_up"
    BY <1>0, <1>4, <2>4 DEF States, Start, PrevReady
  <2> QED BY <1>0, <2>1, <2>2, <2>3, <2>4 DEF States, OnlyOne
<1>5. CASE Collect
  <2>1. PICK p, q : p = thread[next_finished] /\ q = thread'[next_finished]
    OBVIOUS
  <2>2. /\ OnlyOne(next_finished) /\ q.pc = p.pc /\ q.state = p.state /\ q.die = p.die
    BY <1>0, <1>5, <2>1, CollectIs
  <2>3. pc = "collect" /\ pc' = "loop" /\ UNCHANGED prev_thread
    BY <1>5 DEF Collect
  <2> QED BY <1>0, <2>1, <2>2, <2>3 DEF States, OnlyOne
<1>6. CASE Flush
  <2>1. \A t \in Threads : thread'[t].pc = thread[t].pc /\ thread'[t].state = thread[t].state
                           /\ thread'[t].die = thread[t].die
    BY <1>0, <1>6, FlushIs
  <2>2. pc = "park_flush" /\ pc' = "user" /\ \A t \in Threads : thread[t].state = "input_ready"
    BY <1>6 DEF Flush, Parked
  <2> QED BY <1>0, <2>1, <2>2 DEF States
<1>7. CASE FreeThread
  <2>1. PICK t \in Threads : thread' = [thread EXCEPT ![t].die = TRUE]
    BY <1>7, FreeThreadIs
  <2>2. /\ OnlyOne(t) /\ thread'[t].pc = thread[t].pc /\ thread'[t].state = thread[t].state
    BY <1>0, <2>1 DEF OnlyOne, ThreadType
  <2>3. pc = "free" /\ pc' = "join" /\ UNCHANGED prev_thread
    BY <1>7 DEF FreeThread, ring
  <2> QED BY <1>0, <2>2, <2>3 DEF States, OnlyOne
<1>8. CASE Join
  <2>1. PICK t \in Threads : /\ thread[t].pc = "exited"
                             /\ thread' = [thread EXCEPT ![t].pc = "freed", ![t].hw = "none"]
    BY <1>8 DEF Join, InState
  <2>2. /\ OnlyOne(t) /\ thread'[t].pc = "freed" /\ thread'[t].state = thread[t].state
    BY <1>0, <2>1 DEF OnlyOne, ThreadType
  <2>3. pc = "join" /\ pc' = "free" /\ UNCHANGED prev_thread
    BY <1>8 DEF Join, ring
  <2> QED BY <1>0, <2>1, <2>2, <2>3 DEF States, OnlyOne
<1>9. ASSUME NEW t \in Threads, Worker(t) PROVE States'
  <2>1. PICK p, q : p = thread[t] /\ q = thread'[t]
    OBVIOUS
  <2>2. /\ OnlyOne(t) /\ q.die = p.die /\ UNCHANGED <<pc, prev_thread>>
    BY <1>0, <1>9, <2>1, WorkerIs DEF user, ring
  <2>3. ASSUME /\ q.pc \in {"none", "wait", "exited", "freed"} <=> q.state = "input_ready"
               /\ q.pc \in SettingUp => q.state = "setting_up"
               /\ q.pc = "decode" => q.state = "setup_finished"
               /\ q.state = "setting_up" => p.state = "setting_up"
               /\ q.pc \notin {"none", "freed"}
               /\ q.pc = "exited" => p.die
               /\ pc = "init" => q.pc = "wait"
        PROVE  States'
    BY <1>0, <2>1, <2>2, <2>3 DEF States, OnlyOne
  <2>4. /\ p.pc \in {"none", "wait", "exited", "freed"} <=> p.state = "input_ready"
        /\ p.pc \in SettingUp => p.state = "setting_up"
        /\ p.pc = "decode" => p.state = "setup_finished"
        /\ pc = "init" => p.pc \in {"none", "wait"} /\ ~p.die
    BY <1>0, <2>1 DEF States
  <2>5. CASE Die(t)
    BY <1>0, <2>1, <2>3, <2>4, <2>5, DieIs
  <2>6. CASE Wake(t)
    BY <1>0, <2>1, <2>3, <2>4, <2>6, WakeIs
  <2>7. CASE SetUp(t)
    BY <1>0, <2>1, <2>3, <2>4, <2>7, SetUpIs
  <2>8. CASE Serialize(t)
    BY <1>0, <2>1, <2>3, <2>4, <2>8, SerializeIs
  <2>9. CASE FinishSetup(t)
    BY <1>0, <2>1, <2>3, <2>4, <2>9, FinishSetupIs
  <2>10. CASE AllocFails(t)
    BY <1>0, <2>1, <2>3, <2>4, <2>10, AllocFailsIs
  <2>11. CASE Decode(t)
    BY <1>0, <2>1, <2>3, <2>4, <2>11, DecodeIs
  <2>12. CASE Release(t)
    <3>1. p.pc = "release" /\ q.pc = "ready" /\ q.state = p.state
      BY <1>0, <2>1, <2>12, ReleaseIs
    <3> QED BY <2>3, <2>4, <3>1
  <2>13. CASE Ready(t)
    BY <1>0, <2>1, <2>3, <2>4, <2>13, ReadyIs
  <2> QED BY <1>9, <2>5, <2>6, <2>7, <2>8, <2>9, <2>10, <2>11, <2>12, <2>13 DEF Worker
<1>10. CASE UNCHANGED fvars
  BY <1>0, <1>10 DEF fvars, States
<1> QED BY <1>1, <1>2, <1>3, <1>4, <1>5, <1>6, <1>7, <1>8, <1>9, <1>10
        DEF Next, Calls, Inside, Quiet
-----------------------------------------------------------------------------
(* The ring                                                                 *)

LEMMA RingStep ==
  ASSUME IInv, [Next]_fvars
  PROVE  Ring'
<1>0. /\ TypeOK /\ thread \in [Threads -> ThreadType] /\ States /\ Ring
      /\ next_decoding \in Threads /\ next_finished \in Threads
      /\ prev_thread \in Threads \cup {NoThread} /\ NoThread \notin Threads
  BY TypeIs, CountIs DEF IInv
<1>a. \A t \in Threads : thread[t].state = "input_ready" => thread[t].pc \notin AtWork
  BY <1>0 DEF States, AtWork, SettingUp
<1>1. CASE Quiet
  <2>1. /\ UNCHANGED <<thread, prev_thread, next_decoding, next_finished, draining>>
        /\ pc' # "init" /\ pc' # "setup"
        /\ pc' = "collect" => ~Buffered'
    BY <1>1, QuietIs
  <2>2. \A t : InRing(t)' <=> InRing(t)
    BY <1>1, QuietIs, SameRing
  <2> QED BY <1>0, <2>1, <2>2 DEF Ring, Succ
<1>2. CASE InitThread
  <2>1. PICK t \in Threads :
           /\ thread[t].pc = "none" /\ thread' = [thread EXCEPT ![t].pc = "wait"]
           /\ pc' \in {"init", "user"}
           /\ pc' = "init" <=> \E u \in Threads : thread'[u].pc = "none"
    BY <1>2, InitThreadIs
  <2>2. thread'[t].pc = "wait" /\ OnlyOne(t)
    BY <1>0, <2>1, MoveIs DEF ThreadPcs
  <2>3. pc = "init" /\ UNCHANGED <<prev_thread, next_decoding, next_finished>>
    BY <1>2 DEF InitThread, ring
  <2>4. \A u : InRing(u)' <=> InRing(u)
    BY <2>1, <2>3, SameRing
  <2>5. pc' = "init" => InState("none")' # {}
    BY <2>1 DEF InState
  <2>6. \A u \in Threads : thread'[u].pc \in AtWork => thread[u].pc \in AtWork
    BY <2>2 DEF OnlyOne, AtWork, SettingUp
  <2> QED BY <1>0, <2>1, <2>3, <2>4, <2>5, <2>6 DEF Ring, Succ
<1>3. CASE Submit
  <2>1. PICK p, q : p = thread[next_decoding] /\ q = thread'[next_decoding]
    OBVIOUS
  <2>2. /\ OnlyOne(next_decoding) /\ p.pc = "wait" /\ q.pc = "wait" /\ q.id = last + 1
        /\ q.drains = (p.drains \/ draining')
    BY <1>0, <1>3, <2>1, NumberLeft, SubmitIs
  <2>3. /\ pc = "loop" /\ pc' = "setup" /\ ~Buffered /\ draining' \in BOOLEAN
        /\ UNCHANGED <<prev_thread, next_decoding, next_finished, df, last>>
    BY <1>0, <1>3 DEF Submit, past
  <2>4. \A u : InRing(u)' <=> InRing(u)
    BY <2>3, SameRing
  <2>5. \A u \in Threads : thread'[u].pc \in AtWork => thread[u].pc \in AtWork
    BY <2>1, <2>2 DEF OnlyOne
  <2> QED BY <1>0, <2>1, <2>2, <2>3, <2>4, <2>5 DEF Ring, Succ, Buffered
<1>4. CASE Start
  <2>1. PICK p, q, src : p = thread[next_decoding] /\ q = thread'[next_decoding]
                         /\ src = thread[prev_thread]
    OBVIOUS
  <2>2. OnlyOne(next_decoding)
    BY <1>0, <1>4, <2>1, StartIs
  <2>3. /\ pc = "setup" /\ pc' \in {"loop", "collect"} /\ prev_thread' = next_decoding
        /\ next_decoding' = Succ(next_decoding) /\ UNCHANGED df
    BY <1>4 DEF Start
  <2>4. \A u \in Threads : InRing(u)' <=> InRing(u) \/ u = next_decoding
    BY <1>0, <1>4, StartRing
  <2>5. \A u \in Threads : thread'[u].pc \in AtWork => InRing(u)'
    BY <1>0, <2>2, <2>4 DEF OnlyOne, Ring
  <2> QED BY <1>0, <2>3, <2>5 DEF Ring, Succ, Buffered
<1>5. CASE Collect
  <2>1. PICK p, q : p = thread[next_finished] /\ q = thread'[next_finished]
    OBVIOUS
  <2>2. OnlyOne(next_finished) /\ q.pc = p.pc
    BY <1>0, <1>5, <2>1, CollectIs
  <2>3. /\ pc' = "loop" /\ UNCHANGED <<prev_thread, next_decoding>>
        /\ thread[next_finished].state = "input_ready"
    BY <1>5 DEF Collect
  <2>4. \A u \in Threads : InRing(u)' <=> InRing(u) /\ u # next_finished
    BY <1>0, <1>5, CollectRing
  <2>5. \A u \in Threads : thread'[u].pc \in AtWork => InRing(u)'
    BY <1>0, <1>a, <2>1, <2>2, <2>3, <2>4 DEF OnlyOne, Ring
  <2> QED BY <1>0, <2>3, <2>5 DEF Ring, Succ
<1>6. CASE Flush
  <2>1. \A t \in Threads : thread'[t].pc = thread[t].pc
    BY <1>0, <1>6, FlushIs
  <2>2. /\ pc' = "user" /\ prev_thread' = NoThread /\ next_decoding' = 0
        /\ \A t \in Threads : thread[t].state = "input_ready"
    BY <1>6 DEF Flush, Parked
  <2> QED BY <1>a, <2>1, <2>2 DEF Ring
<1>7. CASE FreeThread \/ Join
  <2>1. PICK t \in Threads : /\ OnlyOne(t)
                             /\ thread'[t].pc \in AtWork => thread[t].pc \in AtWork
    <3>1. CASE FreeThread
      <4>1. PICK t \in Threads : thread' = [thread EXCEPT ![t].die = TRUE]
        BY <3>1, FreeThreadIs
      <4>2. OnlyOne(t) /\ thread'[t].pc = thread[t].pc
        BY <1>0, <4>1 DEF OnlyOne, ThreadType
      <4> QED BY <4>2
    <3>2. CASE Join
      <4>1. PICK t \in Threads : thread' = [thread EXCEPT ![t].pc = "freed", ![t].hw = "none"]
        BY <3>2 DEF Join, InState
      <4>2. OnlyOne(t) /\ thread'[t].pc = "freed"
        BY <1>0, <4>1 DEF OnlyOne, ThreadType
      <4> QED BY <4>2 DEF AtWork, SettingUp
    <3> QED BY <1>7, <3>1, <3>2
  <2>2. /\ pc \in {"free", "join"} /\ pc' \in {"free", "join"}
        /\ UNCHANGED <<prev_thread, next_decoding, next_finished>>
    BY <1>7 DEF FreeThread, Join, ring
  <2>3. \A u : InRing(u)' <=> InRing(u)
    BY <2>2, SameRing
  <2>4. \A u \in Threads : thread'[u].pc \in AtWork => thread[u].pc \in AtWork
    BY <2>1 DEF OnlyOne
  <2> QED BY <1>0, <2>2, <2>3, <2>4 DEF Ring, Succ
<1>8. ASSUME NEW t \in Threads, Worker(t) PROVE Ring'
  <2>1. PICK p, q : p = thread[t] /\ q = thread'[t]
    OBVIOUS
  <2>2. /\ OnlyOne(t) /\ q.id = p.id /\ q.drains = p.drains
        /\ \/ p.pc \in AtWork /\ q.pc \in AtWork \cup {"wait"}
           \/ p.pc = "wait" /\ p.die /\ q.pc = "exited"
        /\ UNCHANGED <<pc, prev_thread, next_decoding, next_finished, df, draining, last>>
    BY <1>0, <1>8, <2>1, WorkerIs DEF user, ring, past
  <2>3. \A u : InRing(u)' <=> InRing(u)
    BY <2>2, SameRing
  <2>4. \A u \in Threads : thread'[u].pc \in AtWork => thread[u].pc \in AtWork
    BY <2>1, <2>2 DEF OnlyOne, AtWork, SettingUp
  <2>5. pc = "setup" => t # next_decoding
    BY <1>0, <2>1, <2>2 DEF Ring, States, Freeing, AtWork, SettingUp
  <2>6. pc = "init" => InState("none")' # {}
    <3>1. ASSUME pc = "init", NEW u \in Threads, thread[u].pc = "none"
          PROVE  thread'[u].pc = "none"
      BY <2>1, <2>2, <3>1 DEF OnlyOne, AtWork, SettingUp
    <3> QED BY <1>0, <2>2, <3>1 DEF Ring, InState
  <2>7. pc = "setup" => thread'[next_decoding] = thread[next_decoding]
    BY <1>0, <2>2, <2>5 DEF OnlyOne
  <2> QED BY <1>0, <2>2, <2>3, <2>4, <2>6, <2>7 DEF Ring, Succ, Buffered
<1>9. CASE UNCHANGED fvars
  <2>1. \A u : InRing(u)' <=> InRing(u)
    BY <1>9, SameRing DEF fvars
  <2> QED BY <1>0, <1>9, <2>1 DEF fvars, Ring, Succ, Buffered, InState
<1> QED BY <1>1, <1>2, <1>3, <1>4, <1>5, <1>6, <1>7, <1>8, <1>9
        DEF Next, Calls, Inside, Quiet
-----------------------------------------------------------------------------
(* The contexts                                                             *)

\* Only the thread started last is setting up.
LEMMA ContextsKept ==
  ASSUME States, Contexts
  PROVE  SetupInOrder
<1>1. \A t \in Threads : thread[t].pc \in SettingUp => t = prev_thread /\ prev_thread # NoThread
  BY CountIs DEF States
<1> QED BY <1>1 DEF Contexts, SetupInOrder, SettingUp

\* A step that changes thread t alone and leaves it its context.
LEMMA ContextsOne ==
  ASSUME TypeOK, Contexts, NEW t \in Threads, OnlyOne(t), NEW p, NEW q,
         p = thread[t], q = thread'[t], UNCHANGED <<codec, prev_thread, latest, stale>>,
         q.ctx = p.ctx, p.drains => q.drains,
         codec.update /\ (~q.drains \/ codec.delay) /\ q.pc = "decode" => q.ctx = q.id
  PROVE  Contexts'
<1>0. prev_thread \in Threads \cup {NoThread} /\ 0 \in Threads
  BY TypeIs, CountIs
<1>1. \A u \in Threads : /\ thread'[u].ctx = thread[u].ctx
                         /\ thread[u].drains => thread'[u].drains
  BY DEF OnlyOne
<1>2. codec.update /\ ~stale =>
        IF prev_thread = NoThread THEN thread'[0].ctx = latest
        ELSE CodecCalled(prev_thread)' => thread'[prev_thread].ctx = latest
  BY <1>0, <1>1 DEF Contexts, CodecCalled
<1>3. ASSUME NEW u \in Threads, codec.update, CodecCalled(u)', thread'[u].pc = "decode"
      PROVE  thread'[u].ctx = thread'[u].id
  BY <1>3 DEF Contexts, CodecCalled, OnlyOne
<1> QED BY <1>2, <1>3 DEF Contexts

LEMMA ContextsStep ==
  ASSUME IInv, [Next]_fvars
  PROVE  Contexts'
<1>0. /\ TypeOK /\ thread \in [Threads -> ThreadType] /\ States /\ Ring /\ Contexts /\ Bounds
      /\ next_decoding \in Threads /\ next_finished \in Threads
      /\ prev_thread \in Threads \cup {NoThread} /\ NoThread \notin Threads /\ 0 \in Threads
  BY TypeIs, CountIs DEF IInv
\* A thread at rest stays where it is, with the context it has.
<1>b. ASSUME NEW t \in Threads, NEW p, NEW q, p = thread[t], q = thread'[t], OnlyOne(t),
             UNCHANGED <<codec, prev_thread, latest, stale>>,
             q.pc # "decode", q.ctx = p.ctx, p.drains => q.drains
      PROVE  Contexts'
  BY <1>0, <1>b, ContextsOne
<1>1. CASE Quiet \/ UNCHANGED fvars
  <2>1. UNCHANGED <<codec, prev_thread, latest, stale, thread>>
    BY <1>1, QuietIs DEF fvars
  <2> QED BY <1>0, <2>1 DEF Contexts, CodecCalled
<1>2. CASE InitThread
  <2>1. PICK t \in Threads :
           /\ thread[t].pc = "none" /\ thread' = [thread EXCEPT ![t].pc = "wait"]
    BY <1>2, InitThreadIs
  <2>2. PICK p, q : p = thread[t] /\ q = thread'[t]
    OBVIOUS
  <2>3. /\ q.pc = "wait" /\ OnlyOne(t) /\ q.ctx = p.ctx /\ q.drains = p.drains
        /\ UNCHANGED <<codec, prev_thread, latest, stale>>
    BY <1>0, <1>2, <2>1, <2>2, MoveIs DEF ThreadPcs, InitThread, ring, past, setups
  <2> QED BY <1>b, <2>2, <2>3
<1>3. CASE Submit
  <2>1. PICK p, q : p = thread[next_decoding] /\ q = thread'[next_decoding]
    OBVIOUS
  <2>2. /\ OnlyOne(next_decoding) /\ q.pc = "wait" /\ q.ctx = p.ctx
        /\ q.drains = (p.drains \/ draining')
    BY <1>0, <1>3, <2>1, NumberLeft, SubmitIs
  <2>3. UNCHANGED <<codec, prev_thread, latest, stale>>
    BY <1>3 DEF Submit, past, setups
  <2> QED BY <1>0, <1>b, <2>1, <2>2, <2>3
\* A thread that the codec is called for is given a context, by one that it was
\* called for too: draining does not end between the two.
<1>4. CASE Start
  <2>1. PICK p, q, src : p = thread[next_decoding] /\ q = thread'[next_decoding]
                         /\ src = thread[prev_thread]
    OBVIOUS
  <2>2. /\ OnlyOne(next_decoding) /\ q.pc = "start" /\ q.drains = p.drains
        /\ q.ctx = IF Updates /\ codec.update THEN src.ctx ELSE p.ctx
    BY <1>0, <1>4, <2>1, StartIs
  <2>3. /\ prev_thread' = next_decoding /\ UNCHANGED <<codec, latest, stale>>
        /\ prev_thread # NoThread /\ src.drains => p.drains
    BY <1>0, <1>4, <2>1 DEF Start, Ring, Bounds, setups
  <2>4. ASSUME codec.update, ~stale, ~p.drains \/ codec.delay PROVE q.ctx = latest
    <3>1. CASE prev_thread = NoThread
      <4>1. p.ctx = latest
        BY <1>0, <2>1, <2>4, <3>1 DEF Ring, Contexts
      <4> QED BY <2>2, <3>1, <4>1 DEF Updates
    <3>2. CASE prev_thread # NoThread
      <4>1. Updates
        BY <2>1, <2>4, <3>2 DEF Updates, CodecCalled
      <4>2. CodecCalled(prev_thread)
        BY <2>1, <2>3, <2>4, <3>2 DEF CodecCalled
      <4>3. src.ctx = latest
        BY <1>0, <2>1, <2>4, <3>2, <4>2 DEF Contexts
      <4> QED BY <2>2, <2>4, <4>1, <4>3
    <3> QED BY <3>1, <3>2
  <2>5. codec.update /\ ~stale /\ CodecCalled(prev_thread)' => thread'[prev_thread'].ctx = latest
    BY <2>1, <2>2, <2>3, <2>4 DEF CodecCalled
  <2>6. ASSUME NEW u \in Threads, codec.update, CodecCalled(u)', thread'[u].pc = "decode"
        PROVE  thread'[u].ctx = thread'[u].id
    BY <1>0, <2>1, <2>2, <2>3, <2>6 DEF Contexts, CodecCalled, OnlyOne
  <2> QED BY <1>0, <2>3, <2>5, <2>6 DEF Contexts
<1>5. CASE Collect
  <2>1. PICK p, q : p = thread[next_finished] /\ q = thread'[next_finished]
    OBVIOUS
  <2>2. OnlyOne(next_finished) /\ q.pc = p.pc /\ q.ctx = p.ctx /\ q.drains = p.drains
    BY <1>0, <1>5, <2>1, CollectIs
  <2>3. p.state = "input_ready" /\ UNCHANGED <<codec, prev_thread, latest, stale>>
    BY <1>5, <2>1 DEF Collect, past, setups
  <2>4. q.pc # "decode"
    BY <1>0, <2>1, <2>2, <2>3 DEF States
  <2> QED BY <1>0, <1>b, <2>1, <2>2, <2>3, <2>4
<1>6. CASE Flush
  <2>1. /\ \A t \in Threads : thread'[t].pc = thread[t].pc
        /\ prev_thread = NoThread => thread'[0].ctx = thread[0].ctx
        /\ prev_thread # NoThread /\ codec.update => thread'[0].ctx = thread[prev_thread].ctx
    BY <1>0, <1>6, FlushIs
  <2>2. /\ prev_thread' = NoThread /\ UNCHANGED <<codec, latest>>
        /\ \A t \in Threads : thread[t].state = "input_ready"
    BY <1>6 DEF Flush, Parked
  <2>3. \A t \in Threads : thread'[t].pc # "decode"
    BY <1>0, <2>1, <2>2 DEF States
  <2>4. ~stale' => ~stale /\ (prev_thread # NoThread => CodecCalled(prev_thread))
    BY <1>6 DEF Flush
  <2>5. ~stale' /\ codec.update => thread'[0].ctx = latest
    BY <1>0, <2>1, <2>4 DEF Contexts
  <2> QED BY <2>2, <2>3, <2>5 DEF Contexts
<1>7. CASE FreeThread
  <2>1. PICK t \in Threads : thread[t].pc = "wait" /\ thread' = [thread EXCEPT ![t].die = TRUE]
    BY <1>7, FreeThreadIs
  <2>2. PICK p, q : p = thread[t] /\ q = thread'[t]
    OBVIOUS
  <2>3. OnlyOne(t) /\ q.pc = p.pc /\ q.ctx = p.ctx /\ q.drains = p.drains /\ p.pc = "wait"
    BY <1>0, <2>1, <2>2 DEF OnlyOne, ThreadType
  <2>4. UNCHANGED <<codec, prev_thread, latest, stale>>
    BY <1>7 DEF FreeThread, ring, past, setups
  <2> QED BY <1>b, <2>2, <2>3, <2>4
<1>8. CASE Join
  <2>1. PICK t \in Threads : /\ thread[t].pc = "exited"
                             /\ thread' = [thread EXCEPT ![t].pc = "freed", ![t].hw = "none"]
    BY <1>8 DEF Join, InState
  <2>2. PICK p, q : p = thread[t] /\ q = thread'[t]
    OBVIOUS
  <2>3. OnlyOne(t) /\ q.pc = "freed" /\ q.ctx = p.ctx /\ q.drains = p.drains
    BY <1>0, <2>1, <2>2 DEF OnlyOne, ThreadType
  <2>4. UNCHANGED <<codec, prev_thread, latest, stale>>
    BY <1>8 DEF Join, ring, past, setups
  <2> QED BY <1>b, <2>2, <2>3, <2>4
<1>9. ASSUME NEW t \in Threads, Worker(t) PROVE Contexts'
  <2>1. PICK p, q : p = thread[t] /\ q = thread'[t]
    OBVIOUS
  <2>2. /\ OnlyOne(t) /\ q.id = p.id /\ q.drains = p.drains /\ UNCHANGED <<codec, prev_thread>>
        /\ FinishSetup(t) \/ (UNCHANGED setups /\ q.ctx = p.ctx /\ (codec.update => q.pc # "decode"))
    BY <1>0, <1>9, <2>1, WorkerIs DEF user, ring
  <2>3. CASE UNCHANGED setups /\ q.ctx = p.ctx /\ (codec.update => q.pc # "decode")
    <3>1. UNCHANGED <<codec, prev_thread, latest, stale>>
      BY <2>2, <2>3 DEF setups
    <3> QED BY <1>0, <2>1, <2>2, <2>3, <3>1, ContextsOne
  \* The codec has set up the packet of the thread started last.
  <2>4. CASE FinishSetup(t)
    <3>1. /\ p.pc = "finish"
          /\ q.ctx = IF ~p.drains \/ codec.delay THEN p.id ELSE p.ctx
          /\ latest' = IF ~p.drains \/ codec.delay THEN p.id ELSE latest
      BY <1>0, <2>1, <2>4, FinishSetupIs
    <3>2. prev_thread = t /\ prev_thread # NoThread
      BY <1>0, <2>1, <3>1 DEF States, SettingUp
    <3>3. CodecCalled(t)' => q.ctx = latest' /\ q.ctx = q.id
      BY <2>1, <2>2, <3>1 DEF CodecCalled
    <3>4. ASSUME NEW u \in Threads, u # t, codec.update, CodecCalled(u)', thread'[u].pc = "decode"
          PROVE  thread'[u].ctx = thread'[u].id
      BY <1>0, <2>2, <3>4 DEF Contexts, CodecCalled, OnlyOne
    <3> QED BY <2>1, <2>2, <3>2, <3>3, <3>4 DEF Contexts
  <2> QED BY <2>2, <2>3, <2>4
<1> QED BY <1>1, <1>2, <1>3, <1>4, <1>5, <1>6, <1>7, <1>8, <1>9 DEF Next, Calls, Inside, Quiet
-----------------------------------------------------------------------------
(* The locks                                                                *)

\* What a thread and the locks have to do with each other.
LockedAs(p, t, mutex, async) ==
  /\ mutex = t => p.pc \in {"setup", "finish", "decode", "release"}
  /\ Serial(p.hw) => p.pc \in {"start", "serialize"} \/ mutex = t
  /\ AsyncUnsafe(p.hw) /\ p.pc = "decode" => async = t
  /\ p.hw = "vulkan" => p.pc = "finish" \/ p.safe
  /\ ~codec.update => /\ p.hw = "none" /\ ~p.safe
                      /\ p.pc \notin {"setup", "serialize", "finish"}

\* A step that changes thread t alone.
LEMMA LocksOne ==
  ASSUME TypeOK, Locks, NEW t \in Threads, OnlyOne(t), NEW q, q = thread'[t], UNCHANGED codec,
         pc' \in {"init", "user"} \cup Freeing => async_lock' = UserThread,
         ~codec.update => stash' = "none",
         hwaccel_mutex' \in {hwaccel_mutex, t, NoThread},
         hwaccel_mutex' = hwaccel_mutex \/ hwaccel_mutex \in {t, NoThread},
         async_lock' = async_lock \/ async_lock \in {t, NoThread},
         LockedAs(q, t, hwaccel_mutex', async_lock')
  PROVE  Locks'
<1>0. NoThread \notin Threads
  BY CountIs
<1>1. \A u \in Threads :
        /\ hwaccel_mutex' = u => thread'[u].pc \in {"setup", "finish", "decode", "release"}
        /\ Serial(thread'[u].hw) =>
             thread'[u].pc \in {"start", "serialize"} \/ hwaccel_mutex' = u
        /\ AsyncUnsafe(thread'[u].hw) /\ thread'[u].pc = "decode" => async_lock' = u
        /\ thread'[u].hw = "vulkan" => thread'[u].pc = "finish" \/ thread'[u].safe
        /\ ~codec.update => /\ thread'[u].hw = "none" /\ ~thread'[u].safe
                            /\ thread'[u].pc \notin {"setup", "serialize", "finish"}
  <2> TAKE u \in Threads
  <2>1. CASE u = t
    BY <2>1 DEF LockedAs
  <2>2. CASE u # t
    BY <1>0, <2>2 DEF Locks, OnlyOne
  <2> QED BY <2>1, <2>2
<1> QED BY <1>1 DEF Locks

LEMMA LocksStep ==
  ASSUME IInv, [Next]_fvars
  PROVE  Locks'
<1>0. /\ TypeOK /\ thread \in [Threads -> ThreadType] /\ States /\ Locks
      /\ next_decoding \in Threads /\ next_finished \in Threads
      /\ prev_thread \in Threads \cup {NoThread} /\ NoThread \notin Threads /\ 0 \in Threads
      /\ UserThread \notin Threads /\ NoThread # UserThread
      /\ hwaccel_mutex \in Threads \cup {NoThread}
      /\ async_lock \in Threads \cup {NoThread, UserThread}
      /\ stash \in {"none", "dxva", "vaapi"} /\ codec.update \in BOOLEAN
  BY TypeIs, CountIs DEF IInv, TypeOK
<1>a. ASSUME NEW t \in Threads PROVE LockedAs(thread[t], t, hwaccel_mutex, async_lock)
  BY <1>0 DEF Locks, LockedAs
\* A step that leaves a thread its place and its hwaccel.
<1>b. ASSUME NEW t \in Threads, NEW p, NEW q, p = thread[t], q = thread'[t], OnlyOne(t),
             UNCHANGED <<codec, locks>>, q.pc = p.pc, q.hw = p.hw, q.safe = p.safe,
             pc' \in {"init", "user"} \cup Freeing => async_lock = UserThread
      PROVE  Locks'
  <2>1. LockedAs(q, t, hwaccel_mutex', async_lock')
    BY <1>a, <1>b DEF LockedAs, locks
  <2>2. ~codec.update => stash' = "none"
    BY <1>0, <1>b DEF Locks, locks
  <2> QED BY <1>0, <1>b, <2>1, <2>2, LocksOne DEF locks
<1>1. CASE Quiet
  <2>1. UNCHANGED <<codec, thread, hwaccel_mutex>> /\ stash' \in {stash, "none"}
    BY <1>1, QuietIs DEF Quiet, InitFails, Receive, Return, SkipInput, NoInput, SubmitFails,
                         Relock, Park, FreeParked, Freed, locks
  <2>2. async_lock' = async_lock \/ async_lock \in {UserThread, NoThread}
    BY <1>0, <1>1 DEF Locks, Quiet, InitFails, Receive, Return, SkipInput, NoInput, SubmitFails,
                      Relock, Park, FreeParked, Freed, locks, Parked
  <2>3. pc' \in {"init", "user"} \cup Freeing => async_lock' = UserThread
    BY <1>0, <1>1 DEF Locks, Quiet, InitFails, Receive, Return, SkipInput, NoInput, SubmitFails,
                      Relock, Park, FreeParked, Freed, locks, Freeing
  <2> QED BY <1>0, <2>1, <2>2, <2>3 DEF Locks
<1>2. CASE UNCHANGED fvars
  BY <1>0, <1>2 DEF Locks, fvars
<1>3. CASE InitThread
  <2>1. PICK t \in Threads :
           /\ thread[t].pc = "none" /\ thread' = [thread EXCEPT ![t].pc = "wait"]
    BY <1>3, InitThreadIs
  <2>2. PICK p, q : p = thread[t] /\ q = thread'[t]
    OBVIOUS
  <2>3. /\ p.pc = "none" /\ q.pc = "wait" /\ OnlyOne(t) /\ q.hw = p.hw /\ q.safe = p.safe
    <3>1. thread' = [thread EXCEPT ![t].pc = "wait"] /\ "wait" \in ThreadPcs
      BY <2>1 DEF ThreadPcs
    <3>2. /\ OnlyOne(t) /\ thread'[t].pc = "wait" /\ thread'[t].hw = thread[t].hw
          /\ thread'[t].safe = thread[t].safe
      BY <1>0, <3>1, MoveIs
    <3> QED BY <2>1, <2>2, <3>2
  <2>4. UNCHANGED <<codec, hwaccel_mutex, async_lock, stash>> /\ pc = "init"
    BY <1>3 DEF InitThread, locks
  <2>5. LockedAs(q, t, hwaccel_mutex', async_lock')
    BY <1>a, <2>2, <2>3, <2>4 DEF LockedAs
  <2>6. async_lock' = UserThread /\ (~codec.update => stash' = "none")
    BY <1>0, <2>4 DEF Locks
  <2> QED BY <1>0, <2>2, <2>3, <2>4, <2>5, <2>6, LocksOne
<1>4. CASE Submit
  <2>1. PICK p, q : p = thread[next_decoding] /\ q = thread'[next_decoding]
    OBVIOUS
  <2>2. /\ OnlyOne(next_decoding) /\ q.pc = p.pc /\ q.hw = p.hw /\ q.safe = p.safe
    BY <1>0, <1>4, <2>1, NumberLeft, SubmitIs
  <2>3. UNCHANGED <<codec, locks>> /\ pc' = "setup"
    BY <1>4 DEF Submit
  <2> QED BY <1>0, <1>b, <2>1, <2>2, <2>3 DEF Freeing
<1>5. CASE Start
  <2>1. PICK p, q, src : p = thread[next_decoding] /\ q = thread'[next_decoding]
                         /\ src = thread[prev_thread]
    OBVIOUS
  <2>2. /\ OnlyOne(next_decoding) /\ q.pc = "start"
        /\ q.safe = IF Updates THEN src.safe ELSE p.safe
        /\ q.hw = IF ~q.safe THEN stash ELSE IF Updates THEN src.hw ELSE p.hw
        /\ stash' = IF q.safe THEN stash ELSE IF Updates /\ p.safe THEN "none" ELSE p.hw
    BY <1>0, <1>5, <2>1, StartIs
  <2>3. /\ UNCHANGED <<codec, hwaccel_mutex, async_lock>> /\ pc = "setup"
        /\ pc' \in {"loop", "collect"}
    BY <1>5 DEF Start
  <2>4. p.pc = "wait" /\ LockedAs(p, next_decoding, hwaccel_mutex, async_lock)
    BY <1>0, <1>a, <2>1, <2>3 DEF Ring, IInv
  <2>5. Updates => LockedAs(src, prev_thread, hwaccel_mutex, async_lock)
    BY <1>0, <1>a, <2>1 DEF Updates
  <2>6. ~codec.update => ~q.safe /\ stash = "none" /\ p.hw = "none"
    BY <1>0, <2>2, <2>4, <2>5 DEF LockedAs, Locks
  <2>7. ~codec.update => q.hw = "none" /\ ~q.safe /\ stash' = "none"
    BY <2>2, <2>6
  <2>8. q.hw = "vulkan" => q.safe
    BY <1>0, <2>2
  <2>9. LockedAs(q, next_decoding, hwaccel_mutex', async_lock')
    BY <2>2, <2>3, <2>4, <2>7, <2>8 DEF LockedAs
  <2> QED BY <1>0, <2>1, <2>2, <2>3, <2>7, <2>9, LocksOne DEF Freeing
<1>6. CASE Collect
  <2>1. PICK p, q : p = thread[next_finished] /\ q = thread'[next_finished]
    OBVIOUS
  <2>2. /\ OnlyOne(next_finished) /\ q.pc = p.pc /\ q.hw = p.hw /\ q.safe = p.safe
    BY <1>0, <1>6, <2>1, CollectIs
  <2>3. UNCHANGED <<codec, locks>> /\ pc' = "loop"
    BY <1>6 DEF Collect
  <2> QED BY <1>0, <1>b, <2>1, <2>2, <2>3 DEF Freeing
<1>7. CASE Flush
  <2>1. /\ \A t \in Threads :
             thread'[t].pc = thread[t].pc
             /\ (t # 0 \/ prev_thread = NoThread =>
                   thread'[t].hw = thread[t].hw /\ thread'[t].safe = thread[t].safe)
        /\ prev_thread # NoThread =>
             LET p == thread[0] q == thread'[0] src == thread[prev_thread] IN
             /\ q.safe = src.safe
             /\ q.hw = IF src.safe THEN src.hw ELSE IF p.safe THEN "none" ELSE p.hw
    BY <1>0, <1>7, FlushIs
  <2>2. /\ \A t \in Threads : thread[t].state = "input_ready"
        /\ UNCHANGED <<codec, hwaccel_mutex, stash>> /\ async_lock' = UserThread
    BY <1>7 DEF Flush, Parked
  <2>3. \A t \in Threads : thread[t].pc \in {"none", "wait", "exited", "freed"}
                           /\ LockedAs(thread[t], t, hwaccel_mutex, async_lock)
    BY <1>0, <1>a, <2>2 DEF States
  <2>4. \A t \in Threads :
          /\ hwaccel_mutex # t /\ ~Serial(thread[t].hw)
          /\ thread[t].hw = "vulkan" => thread[t].safe
          /\ ~codec.update => thread[t].hw = "none" /\ ~thread[t].safe
    BY <2>3 DEF LockedAs
  <2>5. ASSUME NEW t \in Threads
        PROVE  /\ ~Serial(thread'[t].hw) /\ (thread'[t].hw = "vulkan" => thread'[t].safe)
               /\ ~codec.update => thread'[t].hw = "none" /\ ~thread'[t].safe
    <3>1. CASE t # 0 \/ prev_thread = NoThread
      BY <2>1, <2>4, <3>1
    <3>2. CASE t = 0 /\ prev_thread # NoThread
      <4>1. PICK p, q, src : p = thread[0] /\ q = thread'[0] /\ src = thread[prev_thread]
        OBVIOUS
      <4>2. /\ q.safe = src.safe
            /\ q.hw = IF src.safe THEN src.hw ELSE IF p.safe THEN "none" ELSE p.hw
        BY <2>1, <3>2, <4>1
      <4>3. /\ ~Serial(p.hw) /\ (p.hw = "vulkan" => p.safe) /\ ~Serial(src.hw)
            /\ ~codec.update => p.hw = "none" /\ ~p.safe /\ src.hw = "none" /\ ~src.safe
        BY <1>0, <2>4, <3>2, <4>1
      <4>4. ~Serial(q.hw)
        BY <4>2, <4>3 DEF Serial
      <4>5. (q.hw = "vulkan" => q.safe) /\ (~codec.update => q.hw = "none" /\ ~q.safe)
        BY <4>2, <4>3
      <4> QED BY <3>2, <4>1, <4>4, <4>5
    <3> QED BY <3>1, <3>2
  <2>6. \A t \in Threads : thread'[t].pc \in {"none", "wait", "exited", "freed"}
    BY <2>1, <2>3
  <2> QED BY <1>0, <2>2, <2>4, <2>5, <2>6 DEF Locks
<1>8. CASE FreeThread \/ Join
  <2>1. PICK t \in Threads :
          /\ OnlyOne(t) /\ thread[t].pc \in {"wait", "exited"}
          /\ thread'[t].pc \in {"wait", "freed"}
          /\ thread'[t].hw \in {"none", thread[t].hw} /\ thread'[t].safe = thread[t].safe
    <3>1. CASE FreeThread
      <4>1. PICK t \in Threads : thread[t].pc = "wait" /\ thread' = [thread EXCEPT ![t].die = TRUE]
        BY <3>1, FreeThreadIs
      <4>2. OnlyOne(t) /\ thread'[t].pc = "wait" /\ thread'[t].hw = thread[t].hw
            /\ thread'[t].safe = thread[t].safe
        BY <1>0, <4>1 DEF OnlyOne, ThreadType
      <4> QED BY <4>1, <4>2
    <3>2. CASE Join
      <4>1. PICK t \in Threads : thread[t].pc = "exited"
                                 /\ thread' = [thread EXCEPT ![t].pc = "freed", ![t].hw = "none"]
        BY <3>2 DEF Join, InState
      <4>2. OnlyOne(t) /\ thread'[t].pc = "freed" /\ thread'[t].hw = "none"
            /\ thread'[t].safe = thread[t].safe
        BY <1>0, <4>1 DEF OnlyOne, ThreadType
      <4> QED BY <4>1, <4>2
    <3> QED BY <1>8, <3>1, <3>2
  <2>2. pc \in Freeing /\ UNCHANGED <<codec, hwaccel_mutex, async_lock, stash>>
    BY <1>8 DEF FreeThread, Join, Freeing, locks
  <2>3. async_lock' = UserThread /\ (~codec.update => stash' = "none")
    BY <1>0, <2>2 DEF Locks
  <2>4. LockedAs(thread'[t], t, hwaccel_mutex', async_lock')
    BY <1>a, <2>1, <2>2 DEF LockedAs, Serial, AsyncUnsafe
  <2> QED BY <1>0, <2>1, <2>2, <2>3, <2>4, LocksOne
<1>9. ASSUME NEW t \in Threads, Worker(t) PROVE Locks'
  <2>1. PICK p, q : p = thread[t] /\ q = thread'[t]
    OBVIOUS
  <2>2. OnlyOne(t) /\ UNCHANGED <<codec, pc>>
    BY <1>0, <1>9, <2>1, WorkerIs DEF user
  <2>3. /\ LockedAs(p, t, hwaccel_mutex, async_lock)
        /\ ~codec.update => stash = "none"
        /\ pc' \in {"init", "user"} \cup Freeing => async_lock = UserThread
    BY <1>0, <1>a, <2>1, <2>2 DEF Locks
  <2>a. ASSUME async_lock' = async_lock \/ async_lock \in {t, NoThread},
               ~codec.update => stash' = "none",
               hwaccel_mutex' \in {hwaccel_mutex, t, NoThread},
               hwaccel_mutex' = hwaccel_mutex \/ hwaccel_mutex \in {t, NoThread},
               LockedAs(q, t, hwaccel_mutex', async_lock')
        PROVE  Locks'
    <3>1. pc' \in {"init", "user"} \cup Freeing => async_lock' = UserThread
      BY <1>0, <2>3, <2>a
    <3> QED BY <1>0, <2>1, <2>2, <2>a, <3>1, LocksOne
  <2>b. ASSUME UNCHANGED locks, LockedAs(q, t, hwaccel_mutex, async_lock)
        PROVE  Locks'
    BY <2>3, <2>a, <2>b DEF locks
  <2>5. CASE Die(t)
    <3>1. p.pc = "wait" /\ q.pc = "exited" /\ q.hw = p.hw /\ q.safe = p.safe /\ UNCHANGED locks
      BY <1>0, <2>1, <2>5, DieIs
    <3>2. LockedAs(q, t, hwaccel_mutex, async_lock)
      BY <2>3, <3>1 DEF LockedAs
    <3> QED BY <2>b, <3>1, <3>2
  <2>6. CASE Wake(t)
    <3>1. /\ p.pc = "start" /\ q.pc = IF codec.update THEN "setup" ELSE "decode"
          /\ q.hw = p.hw /\ q.safe = p.safe
          /\ hwaccel_mutex' = IF codec.update /\ Serial(p.hw) THEN t ELSE hwaccel_mutex
          /\ codec.update /\ Serial(p.hw) => hwaccel_mutex = NoThread
          /\ UNCHANGED <<async_lock, stash>>
      BY <1>0, <2>1, <2>6, WakeIs
    <3>2. LockedAs(q, t, hwaccel_mutex', async_lock')
      BY <1>0, <2>3, <3>1 DEF LockedAs, Serial, AsyncUnsafe
    <3>3. hwaccel_mutex' \in {hwaccel_mutex, t, NoThread}
          /\ (hwaccel_mutex' = hwaccel_mutex \/ hwaccel_mutex \in {t, NoThread})
      BY <3>1
    <3> QED BY <2>3, <2>a, <3>1, <3>2, <3>3
  <2>7. CASE SetUp(t)
    <3>1. /\ p.pc = "setup" /\ q.safe = p.safe /\ UNCHANGED locks
          /\ q.pc = IF Serial(q.hw) /\ hwaccel_mutex # t THEN "serialize" ELSE "finish"
      BY <1>0, <2>1, <2>7, SetUpIs
    <3>2. LockedAs(q, t, hwaccel_mutex, async_lock)
      BY <2>3, <3>1 DEF LockedAs, Serial
    <3> QED BY <2>b, <3>1, <3>2
  <2>8. CASE Serialize(t)
    <3>1. /\ p.pc = "serialize" /\ q.pc = "finish" /\ q.hw = p.hw /\ q.safe = p.safe
          /\ hwaccel_mutex = NoThread /\ hwaccel_mutex' = t /\ UNCHANGED <<async_lock, stash>>
      BY <1>0, <2>1, <2>8, SerializeIs
    <3>2. LockedAs(q, t, hwaccel_mutex', async_lock')
      BY <2>3, <3>1 DEF LockedAs
    <3> QED BY <2>3, <2>a, <3>1, <3>2
  <2>9. CASE FinishSetup(t)
    <3>1. /\ p.pc = "finish" /\ q.pc = "decode" /\ q.hw = p.hw
          /\ q.safe = ThreadSafe(p.hw)
          /\ AsyncUnsafe(p.hw) => async_lock = NoThread
          /\ async_lock' = IF AsyncUnsafe(p.hw) THEN t ELSE async_lock
          /\ UNCHANGED hwaccel_mutex
      BY <1>0, <2>1, <2>9, FinishSetupIs
    <3>2. codec.update
      BY <2>3, <3>1 DEF LockedAs
    <3>3. LockedAs(q, t, hwaccel_mutex', async_lock')
      BY <2>3, <3>1, <3>2 DEF LockedAs, ThreadSafe
    <3> QED BY <2>a, <3>1, <3>2, <3>3
  <2>10. CASE AllocFails(t)
    <3>1. p.pc = "setup" /\ q.pc = "release" /\ q.hw = p.hw /\ q.safe = p.safe /\ UNCHANGED locks
      BY <1>0, <2>1, <2>10, AllocFailsIs
    <3>2. LockedAs(q, t, hwaccel_mutex, async_lock)
      BY <2>3, <3>1 DEF LockedAs
    <3> QED BY <2>b, <3>1, <3>2
  <2>11. CASE Decode(t)
    <3>1. p.pc = "decode" /\ q.pc = "release" /\ q.hw = p.hw /\ q.safe = p.safe /\ UNCHANGED locks
      BY <1>0, <2>1, <2>11, DecodeIs
    <3>2. LockedAs(q, t, hwaccel_mutex, async_lock)
      BY <2>3, <3>1 DEF LockedAs
    <3> QED BY <2>b, <3>1, <3>2
  <2>12. CASE Release(t)
    <3>1. /\ p.pc = "release" /\ q.pc = "ready" /\ q.safe = p.safe
          /\ q.hw = (IF hwaccel_mutex = t THEN "none" ELSE p.hw)
          /\ hwaccel_mutex' = IF hwaccel_mutex = t THEN NoThread ELSE hwaccel_mutex
          /\ async_lock' = IF async_lock = t THEN NoThread ELSE async_lock
          /\ UNCHANGED stash
      BY <1>0, <2>1, <2>12, ReleaseIs
    <3>2. LockedAs(q, t, hwaccel_mutex', async_lock')
      BY <1>0, <2>3, <3>1 DEF LockedAs, Serial
    <3>3. hwaccel_mutex' \in {hwaccel_mutex, t, NoThread}
          /\ (hwaccel_mutex' = hwaccel_mutex \/ hwaccel_mutex \in {t, NoThread})
          /\ (async_lock' = async_lock \/ async_lock \in {t, NoThread})
      BY <3>1
    <3> QED BY <2>3, <2>a, <3>1, <3>2, <3>3
  <2>13. CASE Ready(t)
    <3>1. p.pc = "ready" /\ q.pc = "wait" /\ q.hw = p.hw /\ q.safe = p.safe /\ UNCHANGED locks
      BY <1>0, <2>1, <2>13, ReadyIs
    <3>2. LockedAs(q, t, hwaccel_mutex, async_lock)
      BY <2>3, <3>1 DEF LockedAs
    <3> QED BY <2>b, <3>1, <3>2
  <2> QED BY <1>9, <2>5, <2>6, <2>7, <2>8, <2>9, <2>10, <2>11, <2>12, <2>13 DEF Worker
<1> QED BY <1>1, <1>2, <1>3, <1>4, <1>5, <1>6, <1>7, <1>8, <1>9 DEF Next, Calls, Inside, Quiet
-----------------------------------------------------------------------------
(* The packets that are left to submit                                      *)

LEMMA UndrainedIs ==
  ASSUME TypeOK
  PROVE  /\ IsFiniteSet(Undrained) /\ Cardinality(Undrained) \in Nat
         /\ Cardinality(Undrained) <= InFlight
<1> DEFINE d(t) == Distance(next_finished, t)
           f == [t \in Undrained |-> d(t)]
<1>0. next_decoding \in Threads /\ next_finished \in Threads /\ InFlight \in Nat
  BY TypeIs, InFlightIs, CountIs
<1>1. \A t \in Undrained : t \in Threads /\ d(t) < InFlight
  BY DEF Undrained, InRing
<1>2. \A t \in Threads : d(t) \in Nat /\ \A u \in Threads : d(u) = d(t) => u = t
  BY <1>0, DistanceIs, CountIs
<1> HIDE DEF d
<1>3. f \in Injection(Undrained, 0 .. InFlight - 1)
  <2>1. f \in [Undrained -> 0 .. InFlight - 1]
    BY <1>0, <1>1, <1>2
  <2>2. ASSUME NEW a \in Undrained, NEW b \in Undrained, f[a] = f[b] PROVE a = b
    BY <1>1, <1>2, <2>2
  <2> QED BY <2>1, <2>2 DEF Injection, IsInjective
<1>4. IsFiniteSet(0 .. InFlight - 1) /\ Cardinality(0 .. InFlight - 1) = InFlight
  BY <1>0, FS_Interval
<1>5. IsFiniteSet(Undrained) /\ Cardinality(Undrained) <= InFlight
  BY <1>3, <1>4, FS_Injection
<1> QED BY <1>5, FS_CardinalityType

LEMMA SameUndrained ==
  ASSUME \A t \in Threads : InRing(t)' /\ ~thread'[t].drains <=> InRing(t) /\ ~thread[t].drains
  PROVE  Undrained' = Undrained
BY DEF Undrained

\* A step that changes thread t alone, and nothing of the ring.
LEMMA BoundsOne ==
  ASSUME TypeOK, Bounds, NEW t \in Threads, OnlyOne(t), NEW p, NEW q, p = thread[t],
         q = thread'[t], UNCHANGED <<draining, last>>, \A u : InRing(u)' <=> InRing(u),
         q.drains = p.drains,
         pc' \in {"setup", "loop", "collect"} => UNCHANGED <<pc, df>>,
         pc' = "init" => pc = "init",
         q.drains /\ InRing(t) /\ q.pc \in {"release", "ready", "wait"} => q.items # <<>>
  PROVE  Bounds'
<1>1. Undrained' = Undrained
  BY SameUndrained DEF OnlyOne
<1>2. \A u \in Threads :
        thread'[u].drains =>
          /\ draining'
          /\ InRing(u)' /\ thread'[u].pc \in {"release", "ready", "wait"} => thread'[u].items # <<>>
  BY DEF Bounds, OnlyOne
<1> QED BY <1>1, <1>2 DEF Bounds, Buffered

LEMMA BoundsStep ==
  ASSUME IInv, [Next]_fvars
  PROVE  Bounds'
<1>0. /\ TypeOK /\ thread \in [Threads -> ThreadType] /\ States /\ Ring /\ Bounds
      /\ next_decoding \in Threads /\ next_finished \in Threads
      /\ last \in Nat /\ MaxSubmits \in Nat /\ InFlight \in Nat
      /\ draining \in BOOLEAN
  <2>1. TypeOK /\ States /\ Ring /\ Bounds
    BY DEF IInv
  <2>2. next_decoding \in Threads /\ next_finished \in Threads
        /\ thread \in [Threads -> ThreadType]
    BY <2>1, TypeIs
  <2>3. InFlight \in Nat
    BY <2>2, InFlightIs, CountIs
  <2>4. last \in Nat /\ MaxSubmits \in Nat /\ draining \in BOOLEAN
    BY <2>1, CountIs DEF TypeOK
  <2> QED BY <2>1, <2>2, <2>3, <2>4
<1>u. IsFiniteSet(Undrained) /\ Cardinality(Undrained) \in Nat /\ Cardinality(Undrained) <= InFlight
  BY <1>0, UndrainedIs
<1>r. HasRoom => last + Cardinality(Undrained) < MaxSubmits /\ last < MaxSubmits
  BY <1>0, <1>u DEF HasRoom
<1>1. CASE Quiet
  <2>1. /\ UNCHANGED <<thread, prev_thread, next_decoding, next_finished, draining>>
        /\ pc' # "init" /\ pc' # "setup"
    BY <1>1, QuietIs
  <2>2. \A t : InRing(t)' <=> InRing(t)
    BY <1>1, QuietIs, SameRing
  <2>3. Undrained' = Undrained
    BY <2>1, <2>2, SameUndrained
  <2>4. pc' = "loop" => (draining => HasRoom) /\ last' = last
    BY <1>1 DEF Quiet, InitFails, Receive, Return, SkipInput, NoInput, SubmitFails, Relock, Park,
                FreeParked, Freed, past
  <2>5. pc' = "collect" => pc = "loop" /\ ~Buffered /\ last' = last
    BY <1>1 DEF Quiet, InitFails, Receive, Return, SkipInput, NoInput, SubmitFails, Relock, Park,
                FreeParked, Freed, past
  <2>6. /\ draining' /\ pc' = "loop" => last' + Cardinality(Undrained') < MaxSubmits
        /\ draining' /\ pc' = "collect" => last' + Cardinality(Undrained') <= MaxSubmits
    BY <1>0, <1>u, <1>r, <2>1, <2>3, <2>4, <2>5 DEF Bounds
  <2> QED BY <1>0, <2>1, <2>2, <2>6 DEF Bounds
<1>2. CASE UNCHANGED fvars
  <2>1. \A u : InRing(u)' <=> InRing(u)
    BY <1>2, SameRing DEF fvars
  <2>2. Undrained' = Undrained
    BY <1>2, <2>1, SameUndrained DEF fvars
  <2> QED BY <1>0, <1>2, <2>1, <2>2 DEF fvars, Bounds, Buffered
<1>3. CASE InitThread
  <2>1. PICK t \in Threads :
           /\ thread[t].pc = "none" /\ thread' = [thread EXCEPT ![t].pc = "wait"]
           /\ pc' \in {"init", "user"}
    BY <1>3, InitThreadIs
  <2>2. PICK p, q : p = thread[t] /\ q = thread'[t]
    OBVIOUS
  <2>3. OnlyOne(t) /\ q.drains = p.drains
    <3>1. thread' = [thread EXCEPT ![t].pc = "wait"] /\ "wait" \in ThreadPcs
      BY <2>1 DEF ThreadPcs
    <3>2. OnlyOne(t) /\ thread'[t].drains = thread[t].drains
      BY <1>0, <3>1, MoveIs
    <3> QED BY <2>2, <3>2
  <2>4. UNCHANGED <<draining, last, next_decoding, next_finished>> /\ pc = "init"
    BY <1>3 DEF InitThread, ring, past
  <2>5. \A u : InRing(u)' <=> InRing(u)
    BY <2>1, <2>4, SameRing
  <2>6. ~q.drains
    BY <1>0, <2>2, <2>3, <2>4 DEF Bounds
  <2>7. pc' \notin {"setup", "loop", "collect"}
    BY <2>1
  <2> QED BY <1>0, <2>2, <2>3, <2>4, <2>5, <2>6, <2>7, BoundsOne
<1>4. CASE Submit
  <2>1. PICK p, q : p = thread[next_decoding] /\ q = thread'[next_decoding]
    OBVIOUS
  <2>2. /\ OnlyOne(next_decoding) /\ q.drains = (p.drains \/ draining')
    BY <1>0, <1>4, <2>1, NumberLeft, SubmitIs
  <2>3. /\ pc = "loop" /\ pc' = "setup" /\ UNCHANGED <<next_decoding, next_finished, last>>
        /\ ~Buffered
        /\ \/ ~draining /\ last < MaxSubmits /\ draining' = FALSE
           \/ ~draining /\ HasRoom /\ draining' = TRUE
           \/ draining /\ draining' = TRUE
    BY <1>4 DEF Submit, past
  <2>4. \A u : InRing(u)' <=> InRing(u)
    BY <2>3, SameRing
  <2>5. ~InRing(next_decoding)
    <3>1. InFlight = Distance(next_finished, next_decoding)
      BY <1>0, <2>3, InFlightIs DEF Size
    <3> QED BY <1>0, <3>1 DEF InRing
  <2>6. Undrained' = Undrained
    BY <2>2, <2>4, <2>5, SameUndrained DEF OnlyOne
  <2>7. draining => draining' /\ last + Cardinality(Undrained) < MaxSubmits
    BY <1>0, <2>3 DEF Bounds
  <2>8. draining' => last + Cardinality(Undrained) < MaxSubmits
    BY <1>r, <2>3, <2>7
  <2>9. last < MaxSubmits
    BY <1>0, <1>u, <1>r, <2>3, <2>7
  <2>10. \A u \in Threads :
           thread'[u].drains =>
             /\ draining'
             /\ InRing(u)' /\ thread'[u].pc \in {"release", "ready", "wait"}
                => thread'[u].items # <<>>
    <3> TAKE u \in Threads
    <3>1. CASE u = next_decoding
      BY <1>0, <2>1, <2>2, <2>4, <2>5, <2>7, <3>1 DEF Bounds
    <3>2. CASE u # next_decoding
      BY <1>0, <2>2, <2>4, <2>7, <3>2 DEF Bounds, OnlyOne
    <3> QED BY <3>1, <3>2
  <2> QED BY <2>3, <2>6, <2>8, <2>9, <2>10 DEF Bounds
<1>5. CASE Start
  <2>1. PICK p, q, src : p = thread[next_decoding] /\ q = thread'[next_decoding]
                         /\ src = thread[prev_thread]
    OBVIOUS
  <2>2. OnlyOne(next_decoding) /\ q.pc = "start" /\ q.drains = p.drains
    BY <1>0, <1>5, <2>1, StartIs
  <2>3. /\ pc = "setup" /\ UNCHANGED draining /\ last' = last + 1
        /\ pc' \in {"loop", "collect"} /\ (draining => pc' = "collect")
    BY <1>5 DEF Start
  <2>4. ~InRing(next_decoding) /\ \A u \in Threads : InRing(u)' <=> InRing(u) \/ u = next_decoding
    BY <1>0, <1>5, StartRing
  <2>5. draining => p.drains /\ last + Cardinality(Undrained) < MaxSubmits
    BY <1>0, <2>1, <2>3 DEF Ring, Bounds
  <2>6. draining => Undrained' = Undrained
    BY <2>1, <2>2, <2>4, <2>5, SameUndrained DEF OnlyOne
  <2>7. draining' /\ pc' = "collect" => last' + Cardinality(Undrained') <= MaxSubmits
    BY <1>0, <1>u, <2>3, <2>5, <2>6
  <2>8. \A u \in Threads :
          thread'[u].drains =>
            /\ draining'
            /\ InRing(u)' /\ thread'[u].pc \in {"release", "ready", "wait"}
               => thread'[u].items # <<>>
    <3> TAKE u \in Threads
    <3>1. CASE u = next_decoding
      BY <1>0, <2>1, <2>2, <2>3, <3>1 DEF Bounds
    <3>2. CASE u # next_decoding
      BY <1>0, <2>2, <2>3, <2>4, <3>2 DEF Bounds, OnlyOne
    <3> QED BY <3>1, <3>2
  <2> QED BY <1>0, <2>3, <2>7, <2>8 DEF Bounds
<1>6. CASE Collect
  <2>1. PICK p, q : p = thread[next_finished] /\ q = thread'[next_finished]
    OBVIOUS
  <2>2. /\ OnlyOne(next_finished) /\ q.pc = p.pc /\ q.drains = p.drains
    BY <1>0, <1>6, <2>1, CollectIs
  <2>3. /\ pc = "collect" /\ pc' = "loop" /\ UNCHANGED <<draining, last>>
        /\ p.state = "input_ready" /\ df'.items = p.items
    BY <1>6, <2>1 DEF Collect, past
  <2>4. /\ InRing(next_finished)
        /\ \A t \in Threads : InRing(t)' <=> InRing(t) /\ t # next_finished
    BY <1>0, <1>6, CollectRing
  <2>5. p.drains => Buffered'
    <3>1. p.pc = "wait"
      BY <1>0, <2>1, <2>3 DEF States, Calling, Freeing
    <3> QED BY <1>0, <2>1, <2>3, <2>4, <3>1 DEF Bounds, Buffered
  <2>6. ~p.drains => Cardinality(Undrained') = Cardinality(Undrained) - 1
    <3>1. ASSUME ~p.drains PROVE Undrained' = Undrained \ {next_finished} /\ next_finished \in Undrained
      BY <1>0, <2>1, <2>2, <2>4, <3>1 DEF Undrained, OnlyOne
    <3> QED BY <1>u, <3>1, FS_RemoveElement
  <2>7. draining' /\ ~Buffered' => last' + Cardinality(Undrained') < MaxSubmits
    BY <1>0, <1>u, <2>3, <2>5, <2>6 DEF Bounds
  <2>8. \A u \in Threads :
          thread'[u].drains =>
            /\ draining'
            /\ InRing(u)' /\ thread'[u].pc \in {"release", "ready", "wait"}
               => thread'[u].items # <<>>
    BY <1>0, <2>1, <2>2, <2>3, <2>4 DEF Bounds, OnlyOne
  <2> QED BY <2>3, <2>7, <2>8 DEF Bounds
<1>7. CASE Flush
  <2>1. \A t \in Threads : ~thread'[t].drains
    BY <1>0, <1>7, FlushIs
  <2>2. pc' = "user" /\ ~draining'
    BY <1>7 DEF Flush
  <2> QED BY <2>1, <2>2 DEF Bounds
<1>8. CASE FreeThread \/ Join
  <2>1. PICK t \in Threads :
          /\ OnlyOne(t) /\ thread'[t].pc \in {thread[t].pc, "freed"}
          /\ thread'[t].drains = thread[t].drains /\ thread'[t].items = thread[t].items
    <3>1. CASE FreeThread
      <4>1. PICK t \in Threads : thread' = [thread EXCEPT ![t].die = TRUE]
        BY <3>1, FreeThreadIs
      <4>2. OnlyOne(t) /\ thread'[t].pc = thread[t].pc /\ thread'[t].drains = thread[t].drains
            /\ thread'[t].items = thread[t].items
        BY <1>0, <4>1 DEF OnlyOne, ThreadType
      <4> QED BY <4>1, <4>2
    <3>2. CASE Join
      <4>1. PICK t \in Threads : thread' = [thread EXCEPT ![t].pc = "freed", ![t].hw = "none"]
        BY <3>2 DEF Join, InState
      <4>2. OnlyOne(t) /\ thread'[t].pc = "freed" /\ thread'[t].drains = thread[t].drains
            /\ thread'[t].items = thread[t].items
        BY <1>0, <4>1 DEF OnlyOne, ThreadType
      <4> QED BY <4>1, <4>2
    <3> QED BY <1>8, <3>1, <3>2
  <2>2. PICK p, q : p = thread[t] /\ q = thread'[t]
    OBVIOUS
  <2>3. /\ pc \in Freeing /\ pc' \in Freeing
        /\ UNCHANGED <<draining, last, next_decoding, next_finished>>
    BY <1>8 DEF FreeThread, Join, Freeing, ring, past
  <2>4. \A u : InRing(u)' <=> InRing(u)
    BY <2>3, SameRing DEF Freeing
  <2>5. q.drains /\ InRing(t) /\ q.pc \in {"release", "ready", "wait"} => q.items # <<>>
    BY <1>0, <2>1, <2>2 DEF Bounds
  <2> QED BY <1>0, <2>1, <2>2, <2>3, <2>4, <2>5, BoundsOne DEF Freeing
<1>9. ASSUME NEW t \in Threads, Worker(t) PROVE Bounds'
  <2>1. PICK p, q : p = thread[t] /\ q = thread'[t]
    OBVIOUS
  <2>2. /\ OnlyOne(t) /\ q.drains = p.drains
        /\ UNCHANGED <<pc, prev_thread, next_decoding, next_finished, df, draining, last>>
    BY <1>0, <1>9, <2>1, WorkerIs DEF user, ring, past
  <2>3. \A u : InRing(u)' <=> InRing(u)
    BY <2>2, SameRing
  <2>a. ASSUME q.drains /\ InRing(t) /\ q.pc \in {"release", "ready", "wait"} => q.items # <<>>
        PROVE  Bounds'
    BY <1>0, <2>1, <2>2, <2>3, <2>a, BoundsOne
  <2>4. p.drains /\ InRing(t) /\ p.pc \in {"release", "ready", "wait"} => p.items # <<>>
    BY <1>0, <2>1 DEF Bounds
  <2>5. CASE Die(t)
    BY <1>0, <2>1, <2>a, <2>4, <2>5, DieIs
  <2>6. CASE Wake(t)
    BY <1>0, <2>1, <2>a, <2>4, <2>6, WakeIs
  <2>7. CASE SetUp(t)
    BY <1>0, <2>1, <2>a, <2>4, <2>7, SetUpIs
  <2>8. CASE Serialize(t)
    BY <1>0, <2>1, <2>a, <2>4, <2>8, SerializeIs
  <2>9. CASE FinishSetup(t)
    <3>1. q.pc = "decode"
      BY <1>0, <2>1, <2>9, FinishSetupIs
    <3> QED BY <2>a, <3>1
  <2>10. CASE AllocFails(t)
    <3>1. q.items # <<>>
      BY <1>0, <2>1, <2>10, AllocFailsIs
    <3> QED BY <2>a, <3>1
  <2>11. CASE Decode(t)
    <3>1. p.drains => q.items # <<>>
      BY <1>0, <2>1, <2>11, DecodeIs
    <3> QED BY <2>a, <2>2, <3>1
  <2>12. CASE Release(t)
    <3>1. p.pc = "release" /\ q.items = p.items
      BY <1>0, <2>1, <2>12, ReleaseIs
    <3> QED BY <2>a, <2>2, <2>4, <3>1
  <2>13. CASE Ready(t)
    <3>1. p.pc = "ready" /\ q.items = p.items
      BY <1>0, <2>1, <2>13, ReadyIs
    <3> QED BY <2>a, <2>2, <2>4, <3>1
  <2> QED BY <1>9, <2>5, <2>6, <2>7, <2>8, <2>9, <2>10, <2>11, <2>12, <2>13 DEF Worker
<1> QED BY <1>1, <1>2, <1>3, <1>4, <1>5, <1>6, <1>7, <1>8, <1>9 DEF Next, Calls, Inside, Quiet
-----------------------------------------------------------------------------
(* The invariant                                                            *)

LEMMA InitInvariant == Init => IInv
<1> SUFFICES ASSUME Init PROVE IInv
  OBVIOUS
<1>1. TypeOK
  BY InitType
<1>2. \A t \in Threads : thread[t] = NewThread
  BY DEF Init
<1>3. \A t \in Threads :
        /\ thread[t].pc = "none" /\ thread[t].state = "input_ready" /\ ~thread[t].die
        /\ thread[t].hw = "none" /\ ~thread[t].safe /\ ~thread[t].drains /\ thread[t].ctx = 0
  BY <1>2 DEF NewThread
<1>4. /\ pc = "init" /\ next_decoding = 0 /\ prev_thread = NoThread /\ ~draining
      /\ hwaccel_mutex = NoThread /\ async_lock = UserThread /\ stash = "none" /\ latest = 0
  BY DEF Init
<1>5. States
  BY <1>3, <1>4 DEF States, SettingUp, Calling, Freeing
<1>6. Ring
  BY <1>3, <1>4, CountIs DEF Ring, InState, AtWork, SettingUp
<1>7. Contexts
  BY <1>3, <1>4, CountIs DEF Contexts
<1>8. Locks
  BY <1>3, <1>4, CountIs DEF Locks, Serial, AsyncUnsafe
<1>9. Bounds
  BY <1>3, <1>4 DEF Bounds
<1> QED BY <1>1, <1>5, <1>6, <1>7, <1>8, <1>9 DEF IInv

\* The threads, the ring, the contexts, the locks and the packets that are left
\* agree in every reachable state of the frame threads (frame_worker_thread(),
\* submit_packet(), ff_thread_receive_frame() and those that flush and free).
THEOREM Invariant == Spec => []IInv
<1>1. IInv /\ [Next]_fvars => IInv'
  BY TypeStep, StatesStep, RingStep, ContextsStep, LocksStep, BoundsStep DEF IInv
<1> QED BY <1>1, InitInvariant, PTL DEF Spec

\* hwaccel_mutex and async_lock do what they are for: two workers never use a
\* hwaccel at the same time that is not thread-safe, and none uses one that is
\* not async-safe while the user's code runs.
THEOREM HwAccelsApart == Spec => []HwAccelAlone
<1>1. IInv => HwAccelAlone
  <2> SUFFICES ASSUME IInv PROVE HwAccelAlone
    OBVIOUS
  <2>1. Locks /\ UserThread \notin Threads
    BY CountIs DEF IInv
  <2> QED BY <2>1 DEF Locks, HwAccelAlone
<1> QED BY <1>1, Invariant, PTL

\* A worker sets up its packet in the context that the packet set up last has left
\* (submit_packet(), ff_thread_flush()), but for the first one after a codec without
\* delay was drained and flushed.
THEOREM ContextsInOrder == Spec => []SetupInOrder
<1>1. IInv => SetupInOrder
  BY ContextsKept DEF IInv
<1> QED BY <1>1, Invariant, PTL
-----------------------------------------------------------------------------
(* The assertions of the file                                               *)

\* What a thread has of the hwaccels on offer.
HwAs(p) ==
  /\ p.hw \in {"none"} \cup codec.offered
  /\ p.safe => "vulkan" \in codec.offered
  /\ p.pc \notin {"finish", "freed"} => (p.safe <=> p.hw = "vulkan")
  /\ p.pc = "serialize" => Serial(p.hw)

\* A step that changes thread t alone.
LEMMA StashedOne ==
  ASSUME Stashed, NEW t \in Threads, OnlyOne(t), NEW p, NEW q, p = thread[t], q = thread'[t],
         UNCHANGED codec,
         hwaccel_mutex' \in {hwaccel_mutex, NoThread} \/ "vulkan" \notin codec.offered,
         \/ stash' = "none"
         \/ stash' = stash /\ (q.pc \in SettingUp => p.pc \in SettingUp)
         \/ /\ stash' \in codec.offered /\ Serial(stash')
            /\ \A u \in Threads : thread'[u].pc \notin SettingUp,
         HwAs(q)
  PROVE  Stashed'
<1>1. stash' # "none" => /\ stash' \in codec.offered /\ Serial(stash')
                         /\ \A u \in Threads : thread'[u].pc \notin SettingUp
  BY DEF Stashed, OnlyOne
<1>2. hwaccel_mutex' # NoThread => "vulkan" \notin codec.offered
  BY DEF Stashed
<1>3. \A u \in Threads :
        /\ thread'[u].hw \in {"none"} \cup codec.offered
        /\ thread'[u].safe => "vulkan" \in codec.offered
        /\ thread'[u].pc \notin {"finish", "freed"} =>
             (thread'[u].safe <=> thread'[u].hw = "vulkan")
        /\ thread'[u].pc = "serialize" => Serial(thread'[u].hw)
  <2> TAKE u \in Threads
  <2>1. CASE u = t
    BY <2>1 DEF HwAs
  <2>2. CASE u # t
    BY <2>2 DEF Stashed, OnlyOne
  <2> QED BY <2>1, <2>2
<1> QED BY <1>1, <1>2, <1>3 DEF Stashed

LEMMA StashedStep ==
  ASSUME IInv, Stashed, OneKind(codec), [Next]_fvars
  PROVE  Stashed'
<1>0. /\ TypeOK /\ thread \in [Threads -> ThreadType] /\ States /\ Locks
      /\ next_decoding \in Threads /\ next_finished \in Threads
      /\ prev_thread \in Threads \cup {NoThread} /\ NoThread \notin Threads /\ 0 \in Threads
      /\ stash \in {"none", "dxva", "vaapi"}
  BY TypeIs, CountIs DEF IInv, TypeOK
<1>a. \A t \in Threads :
        /\ HwAs(thread[t]) /\ LockedAs(thread[t], t, hwaccel_mutex, async_lock)
        /\ thread[t].pc \in SettingUp => stash = "none"
  BY <1>0 DEF Stashed, HwAs, Locks, LockedAs
<1>k. ASSUME NEW h, Serial(h), h \in codec.offered \cup {"none"}
      PROVE  "vulkan" \notin codec.offered
  BY <1>k DEF OneKind, Serial
<1>s. stash # "none" => "vulkan" \notin codec.offered
  BY <1>k DEF Stashed
\* A step that leaves a thread its hwaccel.
<1>b. ASSUME NEW t \in Threads, NEW p, NEW q, p = thread[t], q = thread'[t], OnlyOne(t),
             UNCHANGED <<codec, stash>>, q.hw = p.hw, q.safe = p.safe,
             hwaccel_mutex' \in {hwaccel_mutex, NoThread},
             p.pc \notin {"finish", "freed"}, q.pc # "serialize",
             q.pc \in SettingUp => p.pc \in SettingUp
      PROVE  Stashed'
  <2>1. HwAs(q)
    BY <1>a, <1>b DEF HwAs
  <2> QED BY <1>b, <2>1, StashedOne
<1>1. CASE Quiet
  <2>1. UNCHANGED <<codec, thread, hwaccel_mutex>> /\ stash' \in {stash, "none"}
    BY <1>1, QuietIs DEF Quiet, InitFails, Receive, Return, SkipInput, NoInput, SubmitFails,
                         Relock, Park, FreeParked, Freed, locks
  <2> QED BY <2>1 DEF Stashed
<1>2. CASE UNCHANGED fvars
  BY <1>2 DEF Stashed, fvars
<1>3. CASE InitThread
  <2>1. PICK t \in Threads :
           /\ thread[t].pc = "none" /\ thread' = [thread EXCEPT ![t].pc = "wait"]
    BY <1>3, InitThreadIs
  <2>2. PICK p, q : p = thread[t] /\ q = thread'[t]
    OBVIOUS
  <2>3. /\ p.pc = "none" /\ q.pc = "wait" /\ OnlyOne(t) /\ q.hw = p.hw /\ q.safe = p.safe
    <3>1. thread' = [thread EXCEPT ![t].pc = "wait"] /\ "wait" \in ThreadPcs
      BY <2>1 DEF ThreadPcs
    <3>2. /\ OnlyOne(t) /\ thread'[t].pc = "wait" /\ thread'[t].hw = thread[t].hw
          /\ thread'[t].safe = thread[t].safe
      BY <1>0, <3>1, MoveIs
    <3> QED BY <2>1, <2>2, <3>2
  <2>4. UNCHANGED <<codec, hwaccel_mutex, stash>>
    BY <1>3 DEF InitThread, locks
  <2> QED BY <1>b, <2>2, <2>3, <2>4 DEF SettingUp
<1>4. CASE Submit
  <2>1. PICK p, q : p = thread[next_decoding] /\ q = thread'[next_decoding]
    OBVIOUS
  <2>2. /\ OnlyOne(next_decoding) /\ p.pc = "wait" /\ q.pc = "wait" /\ q.hw = p.hw
        /\ q.safe = p.safe
    BY <1>0, <1>4, <2>1, NumberLeft, SubmitIs
  <2>3. UNCHANGED <<codec, hwaccel_mutex, stash>>
    BY <1>4 DEF Submit, locks
  <2> QED BY <1>0, <1>b, <2>1, <2>2, <2>3 DEF SettingUp
<1>5. CASE Start
  <2>1. PICK p, q, src : p = thread[next_decoding] /\ q = thread'[next_decoding]
                         /\ src = thread[prev_thread]
    OBVIOUS
  <2>2. /\ OnlyOne(next_decoding) /\ q.pc = "start"
        /\ q.safe = IF Updates THEN src.safe ELSE p.safe
        /\ q.hw = IF ~q.safe THEN stash ELSE IF Updates THEN src.hw ELSE p.hw
        /\ stash' = IF q.safe THEN stash ELSE IF Updates /\ p.safe THEN "none" ELSE p.hw
    BY <1>0, <1>5, <2>1, StartIs
  <2>3. UNCHANGED <<codec, hwaccel_mutex>> /\ pc = "setup" /\ PrevReady
    BY <1>5 DEF Start
  <2>4. p.pc = "wait" /\ HwAs(p) /\ LockedAs(p, next_decoding, hwaccel_mutex, async_lock)
    BY <1>0, <1>a, <2>1, <2>3 DEF Ring, IInv
  <2>5. ASSUME Updates
        PROVE  HwAs(src) /\ (src.safe => src.hw = "vulkan")
    <3>1. HwAs(src) /\ src.pc \notin {"finish", "freed"}
      BY <1>0, <1>a, <2>1, <2>3, <2>5 DEF Updates, PrevReady, States, SettingUp, Calling, Freeing
    <3> QED BY <3>1 DEF HwAs
  <2>6. p.hw \in {"none", "vulkan"} /\ (p.safe <=> p.hw = "vulkan") /\ p \in ThreadType
    <3>1. p \in ThreadType /\ ~Serial(p.hw) /\ (p.safe <=> p.hw = "vulkan")
      BY <1>0, <2>1, <2>4 DEF HwAs, LockedAs
    <3> QED BY <3>1 DEF ThreadType, HwAccels, Serial
  <2>7. stash' = "none"
    <3>1. CASE q.safe
      <4>1. "vulkan" \in codec.offered
        BY <2>2, <2>4, <2>5, <3>1 DEF HwAs
      <4> QED BY <1>s, <2>2, <3>1, <4>1
    <3>2. CASE ~q.safe
      BY <2>2, <2>6, <3>2
    <3> QED BY <3>1, <3>2
  <2>8. HwAs(q)
    <3>1. q.safe => q.hw = "vulkan" /\ "vulkan" \in codec.offered
      BY <2>2, <2>4, <2>5, <2>6 DEF HwAs
    <3>2. ~q.safe => q.hw = stash /\ stash \in {"none"} \cup codec.offered /\ stash # "vulkan"
      BY <1>0, <2>2 DEF Stashed
    <3> QED BY <2>2, <2>3, <3>1, <3>2 DEF HwAs
  <2> QED BY <1>0, <2>1, <2>2, <2>3, <2>7, <2>8, StashedOne
<1>6. CASE Collect
  <2>1. PICK p, q : p = thread[next_finished] /\ q = thread'[next_finished]
    OBVIOUS
  <2>2. /\ OnlyOne(next_finished) /\ q.pc = p.pc /\ q.hw = p.hw /\ q.safe = p.safe
    BY <1>0, <1>6, <2>1, CollectIs
  <2>3. UNCHANGED <<codec, hwaccel_mutex, stash>> /\ p.state = "input_ready"
    BY <1>6, <2>1 DEF Collect, locks
  <2>4. HwAs(q)
    BY <1>0, <1>a, <2>1, <2>2, <2>3 DEF HwAs
  <2> QED BY <1>0, <2>1, <2>2, <2>3, <2>4, StashedOne
<1>7. CASE Flush
  <2>1. /\ \A t \in Threads :
             thread'[t].pc = thread[t].pc
             /\ (t # 0 \/ prev_thread = NoThread =>
                   thread'[t].hw = thread[t].hw /\ thread'[t].safe = thread[t].safe)
        /\ prev_thread # NoThread =>
             LET p == thread[0] q == thread'[0] src == thread[prev_thread] IN
             /\ q.safe = src.safe
             /\ q.hw = IF src.safe THEN src.hw ELSE IF p.safe THEN "none" ELSE p.hw
    BY <1>0, <1>7, FlushIs
  <2>2. /\ \A t \in Threads : thread[t].state = "input_ready"
        /\ UNCHANGED <<codec, hwaccel_mutex, stash>> /\ pc = "park_flush"
    BY <1>7 DEF Flush, Parked
  <2>3. \A t \in Threads : thread[t].pc \in {"none", "wait"} /\ HwAs(thread[t])
    BY <1>0, <1>a, <2>2 DEF States, Calling, Freeing
  <2>4. \A t \in Threads :
          /\ thread[t].hw \in {"none"} \cup codec.offered
          /\ thread[t].safe => "vulkan" \in codec.offered
          /\ thread[t].safe <=> thread[t].hw = "vulkan"
    BY <2>3 DEF HwAs
  <2>5. ASSUME NEW t \in Threads
        PROVE  /\ thread'[t].hw \in {"none"} \cup codec.offered
               /\ thread'[t].safe => "vulkan" \in codec.offered
               /\ thread'[t].safe <=> thread'[t].hw = "vulkan"
    <3>1. CASE t # 0 \/ prev_thread = NoThread
      BY <2>1, <2>4, <3>1
    <3>2. CASE t = 0 /\ prev_thread # NoThread
      <4>1. PICK p, q, src : p = thread[0] /\ q = thread'[0] /\ src = thread[prev_thread]
        OBVIOUS
      <4>2. /\ q.safe = src.safe
            /\ q.hw = IF src.safe THEN src.hw ELSE IF p.safe THEN "none" ELSE p.hw
        BY <2>1, <3>2, <4>1
      <4>3. /\ p.hw \in {"none"} \cup codec.offered /\ (p.safe <=> p.hw = "vulkan")
            /\ src.hw \in {"none"} \cup codec.offered /\ (src.safe <=> src.hw = "vulkan")
            /\ src.safe => "vulkan" \in codec.offered
        BY <1>0, <2>4, <3>2, <4>1
      <4> QED BY <3>2, <4>1, <4>2, <4>3
    <3> QED BY <3>1, <3>2
  <2>6. \A t \in Threads : thread'[t].pc \in {"none", "wait"}
    BY <2>1, <2>3
  <2> QED BY <2>2, <2>5, <2>6 DEF Stashed, SettingUp
<1>8. CASE FreeThread
  <2>1. PICK t \in Threads : thread[t].pc = "wait" /\ thread' = [thread EXCEPT ![t].die = TRUE]
    BY <1>8, FreeThreadIs
  <2>2. PICK p, q : p = thread[t] /\ q = thread'[t]
    OBVIOUS
  <2>3. OnlyOne(t) /\ q.pc = p.pc /\ q.hw = p.hw /\ q.safe = p.safe
    BY <1>0, <2>1, <2>2 DEF OnlyOne, ThreadType
  <2>4. UNCHANGED <<codec, hwaccel_mutex, stash>>
    BY <1>8 DEF FreeThread, locks
  <2> QED BY <1>b, <2>1, <2>2, <2>3, <2>4
<1>9. CASE Join
  <2>1. PICK t \in Threads : thread[t].pc = "exited"
                             /\ thread' = [thread EXCEPT ![t].pc = "freed", ![t].hw = "none"]
    BY <1>9 DEF Join, InState
  <2>2. PICK p, q : p = thread[t] /\ q = thread'[t]
    OBVIOUS
  <2>3. OnlyOne(t) /\ q.pc = "freed" /\ q.hw = "none" /\ q.safe = p.safe
    BY <1>0, <2>1, <2>2 DEF OnlyOne, ThreadType
  <2>4. UNCHANGED <<codec, hwaccel_mutex, stash>>
    BY <1>9 DEF Join, locks
  <2>5. HwAs(q)
    BY <1>a, <2>2, <2>3 DEF HwAs
  <2> QED BY <2>2, <2>3, <2>4, <2>5, StashedOne DEF SettingUp
<1>10. ASSUME NEW t \in Threads, Worker(t) PROVE Stashed'
  <2>1. PICK p, q : p = thread[t] /\ q = thread'[t]
    OBVIOUS
  <2>2. OnlyOne(t) /\ UNCHANGED <<codec, pc>>
    BY <1>0, <1>10, <2>1, WorkerIs DEF user
  <2>3. /\ HwAs(p) /\ LockedAs(p, t, hwaccel_mutex, async_lock)
        /\ p.pc \in SettingUp => stash = "none"
    BY <1>a, <2>1
  <2>a. ASSUME UNCHANGED stash, q.pc \in SettingUp => p.pc \in SettingUp, HwAs(q),
               hwaccel_mutex' \in {hwaccel_mutex, NoThread} \/ "vulkan" \notin codec.offered
        PROVE  Stashed'
    BY <2>1, <2>2, <2>a, StashedOne
  <2>5. CASE Die(t)
    <3>1. p.pc = "wait" /\ q.pc = "exited" /\ q.hw = p.hw /\ q.safe = p.safe /\ UNCHANGED locks
      BY <1>0, <2>1, <2>5, DieIs
    <3>2. HwAs(q)
      BY <2>3, <3>1 DEF HwAs
    <3> QED BY <2>a, <3>1, <3>2 DEF locks, SettingUp
  <2>6. CASE Wake(t)
    <3>1. /\ p.pc = "start" /\ q.pc = IF codec.update THEN "setup" ELSE "decode"
          /\ q.hw = p.hw /\ q.safe = p.safe /\ UNCHANGED stash
          /\ hwaccel_mutex' = IF codec.update /\ Serial(p.hw) THEN t ELSE hwaccel_mutex
      BY <1>0, <2>1, <2>6, WakeIs
    <3>2. HwAs(q)
      BY <2>3, <3>1 DEF HwAs
    <3>3. Serial(p.hw) => "vulkan" \notin codec.offered
      BY <1>k, <2>3 DEF HwAs
    <3> QED BY <2>a, <3>1, <3>2, <3>3 DEF SettingUp
  <2>7. CASE SetUp(t)
    <3>1. /\ p.pc = "setup" /\ q.safe = p.safe /\ UNCHANGED locks
          /\ q.pc = IF Serial(q.hw) /\ hwaccel_mutex # t THEN "serialize" ELSE "finish"
          /\ q.hw \in {p.hw} \cup Formats(t)
      BY <1>0, <2>1, <2>7, SetUpIs
    <3>2. q.hw \in {"none"} \cup codec.offered
      BY <2>3, <3>1 DEF HwAs, Formats
    <3>3. Serial(q.hw) => ~q.safe /\ q.hw # "vulkan"
      BY <1>k, <2>3, <3>1, <3>2 DEF HwAs, Serial
    <3>4. HwAs(q)
      BY <2>3, <3>1, <3>2, <3>3 DEF HwAs
    <3> QED BY <2>a, <3>1, <3>4 DEF locks, SettingUp
  <2>8. CASE Serialize(t)
    <3>1. /\ p.pc = "serialize" /\ q.pc = "finish" /\ q.hw = p.hw /\ q.safe = p.safe
          /\ UNCHANGED stash
      BY <1>0, <2>1, <2>8, SerializeIs
    <3>2. HwAs(q) /\ "vulkan" \notin codec.offered
      BY <1>k, <2>3, <3>1 DEF HwAs
    <3> QED BY <2>a, <3>1, <3>2 DEF SettingUp
  <2>9. CASE FinishSetup(t)
    <3>1. /\ p.pc = "finish" /\ q.pc = "decode" /\ q.hw = p.hw
          /\ q.safe = ThreadSafe(p.hw)
          /\ stash' = IF Serial(p.hw) THEN p.hw ELSE stash
          /\ UNCHANGED hwaccel_mutex
      BY <1>0, <2>1, <2>9, FinishSetupIs
    <3>2. HwAs(q)
      BY <2>3, <3>1 DEF HwAs, ThreadSafe
    <3>3. ASSUME Serial(p.hw)
          PROVE  /\ stash' \in codec.offered /\ Serial(stash')
                 /\ \A u \in Threads : thread'[u].pc \notin SettingUp
      <4>1. stash' = p.hw /\ p.hw \in codec.offered
        BY <2>3, <3>1, <3>3 DEF HwAs, Serial
      <4>2. p.state = "setting_up" /\ prev_thread = t
        BY <1>0, <2>1, <3>1 DEF States, SettingUp
      <4>3. \A u \in Threads : u # t => thread[u].pc \notin SettingUp
        BY <1>0, <4>2 DEF States
      <4> QED BY <2>1, <2>2, <3>1, <3>3, <4>1, <4>3 DEF OnlyOne, SettingUp
    <3>4. ~Serial(p.hw) => stash' = "none"
      BY <2>3, <3>1 DEF SettingUp
    <3> QED BY <2>1, <2>2, <3>1, <3>2, <3>3, <3>4, StashedOne
  <2>10. CASE AllocFails(t)
    <3>1. p.pc = "setup" /\ q.pc = "release" /\ q.hw = p.hw /\ q.safe = p.safe /\ UNCHANGED locks
      BY <1>0, <2>1, <2>10, AllocFailsIs
    <3>2. HwAs(q)
      BY <2>3, <3>1 DEF HwAs
    <3> QED BY <2>a, <3>1, <3>2 DEF locks, SettingUp
  <2>11. CASE Decode(t)
    <3>1. p.pc = "decode" /\ q.pc = "release" /\ q.hw = p.hw /\ q.safe = p.safe /\ UNCHANGED locks
      BY <1>0, <2>1, <2>11, DecodeIs
    <3>2. HwAs(q)
      BY <2>3, <3>1 DEF HwAs
    <3> QED BY <2>a, <3>1, <3>2 DEF locks, SettingUp
  <2>12. CASE Release(t)
    <3>1. /\ p.pc = "release" /\ q.pc = "ready" /\ q.safe = p.safe
          /\ q.hw = (IF hwaccel_mutex = t THEN "none" ELSE p.hw)
          /\ hwaccel_mutex' = IF hwaccel_mutex = t THEN NoThread ELSE hwaccel_mutex
          /\ UNCHANGED stash
      BY <1>0, <2>1, <2>12, ReleaseIs
    <3>2. hwaccel_mutex = t => ~p.safe
      BY <1>0, <2>3 DEF Stashed, HwAs
    <3>3. HwAs(q)
      BY <2>3, <3>1, <3>2 DEF HwAs
    <3>4. hwaccel_mutex' \in {hwaccel_mutex, NoThread}
      BY <3>1
    <3> QED BY <2>a, <3>1, <3>3, <3>4 DEF SettingUp
  <2>13. CASE Ready(t)
    <3>1. p.pc = "ready" /\ q.pc = "wait" /\ q.hw = p.hw /\ q.safe = p.safe /\ UNCHANGED locks
      BY <1>0, <2>1, <2>13, ReadyIs
    <3>2. HwAs(q)
      BY <2>3, <3>1 DEF HwAs
    <3> QED BY <2>a, <3>1, <3>2 DEF locks, SettingUp
  <2> QED BY <1>10, <2>5, <2>6, <2>7, <2>8, <2>9, <2>10, <2>11, <2>12, <2>13 DEF Worker
<1> QED BY <1>1, <1>2, <1>3, <1>4, <1>5, <1>6, <1>7, <1>8, <1>9, <1>10
        DEF Next, Calls, Inside, Quiet

\* The assertions of pthread_frame.c hold in every reachable state: the async
\* lock is held where it is given up, an idle thread keeps no hwaccel that is not
\* thread-safe, and nothing is stashed over another.  It is required that no codec
\* offers hwaccels of both kinds: with one that does, TLC finds that a thread
\* can lose the thread-safe one it stands for.
THEOREM AssertionsStand ==
  ASSUME \A c \in Codecs : OneKind(c)
  PROVE  Spec => []Consistent
<1>1. Init => Stashed
  <2> SUFFICES ASSUME Init PROVE Stashed
    OBVIOUS
  <2>1. \A t \in Threads : thread[t].pc = "none" /\ thread[t].hw = "none" /\ ~thread[t].safe
    BY DEF Init, NewThread
  <2> QED BY <2>1 DEF Init, Stashed
<1>2. IInv /\ Stashed /\ [Next]_fvars => Stashed'
  BY StashedStep, TypeIs DEF IInv
<1>3. IInv /\ Stashed => Consistent
  <2> SUFFICES ASSUME IInv, Stashed PROVE Consistent
    OBVIOUS
  <2>0. /\ TypeOK /\ States /\ Locks /\ Ring /\ thread \in [Threads -> ThreadType]
        /\ next_decoding \in Threads /\ prev_thread \in Threads \cup {NoThread}
    BY TypeIs DEF IInv
  <2>1. pc = "user" => async_lock = UserThread
    BY <2>0 DEF Locks
  <2>2. \A t \in Threads : thread[t].pc = "wait" => ~Serial(thread[t].hw)
    BY <2>0 DEF Locks
  <2>3. ASSUME pc = "setup", PrevReady
        PROVE  /\ thread[next_decoding].hw = "none" \/ thread[next_decoding].safe
               /\ Updates => (thread[prev_thread].safe => ThreadSafe(thread[prev_thread].hw))
    <3>1. PICK p \in ThreadType : p = thread[next_decoding]
      BY <2>0
    <3>2. p.pc = "wait" /\ ~Serial(p.hw) /\ (p.hw = "vulkan" => p.safe)
      BY <2>0, <2>3, <3>1 DEF Ring, Locks
    <3>3. p.hw = "none" \/ p.safe
      BY <3>2 DEF ThreadType, HwAccels, Serial
    <3>4. ASSUME Updates PROVE thread[prev_thread].safe => thread[prev_thread].hw = "vulkan"
      <4>1. /\ prev_thread \in Threads
            /\ thread[prev_thread].pc \notin {"finish", "freed"}
        BY <2>0, <2>3, <3>4 DEF Updates, PrevReady, States, SettingUp, Calling, Freeing
      <4> QED BY <4>1 DEF Stashed
    <3> QED BY <3>1, <3>3, <3>4 DEF ThreadSafe
  <2>4. \A t \in Threads : thread[t].pc = "finish" => stash = "none"
    BY DEF Stashed, SettingUp
  <2> QED BY <2>0, <2>1, <2>2, <2>3, <2>4 DEF Consistent, AssertionsHold
<1> QED BY <1>1, <1>2, <1>3, Invariant, PTL DEF Spec
-----------------------------------------------------------------------------
(* The ring implements OrderedJobs.                                         *)

\* The thread at place p of the ring, counted from thread f.
At(f, p) == IF f + p - 1 < ThreadCount THEN f + p - 1 ELSE f + p - 1 - ThreadCount

LEMMA AtIs ==
  ASSUME NEW f \in Threads, NEW p \in 1 .. ThreadCount
  PROVE  (f + p - 1) % ThreadCount = At(f, p) /\ At(f, p) \in Threads
<1>1. f \in Int /\ p \in Int /\ 0 <= f /\ f < ThreadCount /\ 1 <= p /\ p <= ThreadCount
      /\ ThreadCount \in Nat
  BY CountIs DEF Threads
<1>2. CASE f + p - 1 < ThreadCount
  <2>1. (f + p - 1) % ThreadCount = f + p - 1
    BY <1>1, <1>2, Modulo
  <2> QED BY <1>1, <1>2, <2>1 DEF At, Threads
<1>3. CASE f + p - 1 >= ThreadCount
  <2>1. (f + p - 1) % ThreadCount = f + p - 1 - ThreadCount
    BY <1>1, <1>3
  <2> QED BY <1>1, <1>3, <2>1 DEF At, Threads
<1> QED BY <1>1, <1>2, <1>3

LEMMA Places ==
  ASSUME NEW f \in Threads
  PROVE  /\ At(f, 1) = f
         /\ \A p \in 1 .. ThreadCount : At(f, p) \in Threads /\ Distance(f, At(f, p)) = p - 1
         /\ \A t \in Threads : At(f, Distance(f, t) + 1) = t
         /\ \A p \in 1 .. ThreadCount - 1 : At(Succ(f), p) = At(f, p + 1)
<1>1. ThreadCount \in Nat /\ f \in 0 .. ThreadCount - 1 /\ Threads = 0 .. ThreadCount - 1
  BY CountIs DEF Threads
<1>2. At(f, 1) = f /\ \A t \in Threads : At(f, Distance(f, t) + 1) = t
  BY <1>1 DEF At, Distance
<1>3. \A p \in 1 .. ThreadCount : At(f, p) \in Threads /\ Distance(f, At(f, p)) = p - 1
  BY <1>1 DEF At, Distance
<1>4. \A p \in 1 .. ThreadCount - 1 : At(Succ(f), p) = At(f, p + 1)
  <2>1. Succ(f) = IF f = ThreadCount - 1 THEN 0 ELSE f + 1
    BY SuccIs
  <2> QED BY <1>1, <2>1 DEF At
<1> QED BY <1>2, <1>3, <1>4

\* What OrderedJobs sees of a job: in work, or buffered with what is left of it.
JobOf(p) == [id |-> p.id, done |-> p.state = "input_ready",
             items |-> IF p.state = "input_ready" THEN p.items ELSE <<>>]
Kept(d)  == [id |-> d.id, done |-> TRUE, items |-> d.items]
JobType  == [id : 0 .. MaxSubmits, done : BOOLEAN, items : Seq(Items)]
DfType   == [id : 0 .. MaxSubmits, items : Seq(Items)]

\* The jobs with d buffered and n jobs in the ring of threads th from f on.
Queue(d, f, n, th) ==
  (IF d.items # <<>> THEN <<Kept(d)>> ELSE <<>>) \o [i \in 1 .. n |-> JobOf(th[At(f, i)])]

\* How many jobs are buffered: one or none.
Ahead(d) == IF d.items # <<>> THEN 1 ELSE 0

\* The jobs of OrderedJobs: what FrameThreads substitutes for them.
Jobs == (IF Buffered THEN <<[id |-> df.id, done |-> TRUE, items |-> df.items]>> ELSE <<>>)
        \o [i \in 1 .. InFlight |-> Job((next_finished + i - 1) % ThreadCount)]

LEMMA JobsAre ==
  /\ TypeOK  => Jobs = Queue(df, next_finished, InFlight, thread)
                /\ InFlight \in 0 .. ThreadCount /\ df \in DfType
                /\ thread \in [Threads -> ThreadType]
  /\ TypeOK' => Jobs' = Queue(df', next_finished', InFlight', thread')
                /\ InFlight' \in 0 .. ThreadCount /\ df' \in DfType
                /\ thread' \in [Threads -> ThreadType]
<1>1. ASSUME TypeOK
      PROVE  Jobs = Queue(df, next_finished, InFlight, thread) /\ InFlight \in 0 .. ThreadCount
             /\ df \in DfType /\ thread \in [Threads -> ThreadType]
  <2>1. /\ InFlight \in 0 .. ThreadCount /\ next_finished \in Threads
        /\ thread \in [Threads -> ThreadType]
    BY <1>1, TypeIs, InFlightIs
  <2>2. \A i \in 1 .. InFlight : (next_finished + i - 1) % ThreadCount = At(next_finished, i)
    BY <2>1, AtIs, CountIs
  <2>3. [i \in 1 .. InFlight |-> Job((next_finished + i - 1) % ThreadCount)]
          = [i \in 1 .. InFlight |-> JobOf(thread[At(next_finished, i)])]
    BY <2>2 DEF Job, JobOf
  <2>4. df \in DfType
    BY <1>1 DEF TypeOK, DfType
  <2> QED BY <2>1, <2>3, <2>4 DEF Jobs, Queue, Buffered, Kept
<1>2. ASSUME TypeOK'
      PROVE  Jobs' = Queue(df', next_finished', InFlight', thread')
             /\ InFlight' \in 0 .. ThreadCount
             /\ df' \in DfType /\ thread' \in [Threads -> ThreadType]
  <2>1. /\ InFlight' \in 0 .. ThreadCount /\ next_finished' \in Threads
        /\ thread' \in [Threads -> ThreadType]
    BY <1>2, InFlightIs DEF TypeOK, ThreadType, ThreadPcs
  <2>2. \A i \in 1 .. InFlight' : (next_finished' + i - 1) % ThreadCount = At(next_finished', i)
    BY <2>1, AtIs, CountIs
  <2>3. [i \in 1 .. InFlight' |-> Job((next_finished + i - 1) % ThreadCount)']
          = [i \in 1 .. InFlight' |-> JobOf(thread'[At(next_finished', i)])]
    BY <2>2 DEF Job, JobOf
  <2>4. df' \in DfType
    BY <1>2 DEF TypeOK, DfType
  <2> QED BY <2>1, <2>3, <2>4 DEF Jobs, Queue, Buffered, Kept
<1> QED BY <1>1, <1>2

LEMMA JobOfIs == \A p \in ThreadType : JobOf(p) \in JobType
BY EmptySeq DEF JobOf, JobType, ThreadType

LEMMA QueueIs ==
  ASSUME NEW d \in DfType, NEW f \in Threads, NEW n \in 0 .. ThreadCount,
         NEW th \in [Threads -> ThreadType]
  PROVE  /\ Queue(d, f, n, th) \in Seq(JobType) /\ Len(Queue(d, f, n, th)) = Ahead(d) + n
         /\ Ahead(d) \in {0, 1}
         /\ d.items # <<>> => Queue(d, f, n, th)[1] = Kept(d)
         /\ \A i \in 1 .. n : Queue(d, f, n, th)[Ahead(d) + i] = JobOf(th[At(f, i)])
<1> DEFINE front == IF d.items # <<>> THEN <<Kept(d)>> ELSE <<>>
           back  == [i \in 1 .. n |-> JobOf(th[At(f, i)])]
<1>1. n \in Nat /\ \A i \in 1 .. n : i \in 1 .. ThreadCount /\ At(f, i) \in Threads
  BY CountIs, Places
<1>2. back \in Seq(JobType) /\ Len(back) = n /\ \A i \in 1 .. n : back[i] = JobOf(th[At(f, i)])
  <2>1. \A i \in 1 .. n : JobOf(th[At(f, i)]) \in JobType
    BY <1>1, JobOfIs
  <2>2. back \in [1 .. n -> JobType]
    BY <2>1
  <2> QED BY <1>1, <2>2
<1>3. Kept(d) \in JobType
  BY DEF Kept, JobType, DfType
<1>4. front \in Seq(JobType) /\ Len(front) = Ahead(d) /\ Ahead(d) \in {0, 1}
      /\ (d.items # <<>> => front[1] = Kept(d))
  BY <1>3 DEF Ahead
<1>5. PICK q : q = front \o back /\ q = Queue(d, f, n, th)
  BY DEF Queue
<1> HIDE DEF front, back
<1>6. /\ q \in Seq(JobType) /\ Len(q) = Ahead(d) + n
      /\ \A i \in 1 .. Ahead(d) + n :
           q[i] = IF i <= Ahead(d) THEN front[i] ELSE back[i - Ahead(d)]
  <2>1. front \in Seq(JobType) /\ back \in Seq(JobType)
    BY <1>2, <1>4
  <2>2. /\ front \o back \in Seq(JobType) /\ Len(front \o back) = Len(front) + Len(back)
        /\ \A i \in 1 .. Len(front) + Len(back) :
             (front \o back)[i] = IF i <= Len(front) THEN front[i] ELSE back[i - Len(front)]
    BY <2>1, ConcatProperties
  <2> QED BY ONLY <1>2, <1>4, <1>5, <2>2
<1>7. d.items # <<>> => q[1] = Kept(d)
  <2> SUFFICES ASSUME d.items # <<>> PROVE q[1] = front[1]
    BY <1>4
  <2>1. Ahead(d) = 1
    BY DEF Ahead
  <2>2. 1 \in 1 .. Ahead(d) + n /\ 1 <= Ahead(d)
    BY <1>1, <2>1
  <2> QED BY <1>6, <2>2
<1>8. \A i \in 1 .. n : q[Ahead(d) + i] = JobOf(th[At(f, i)])
  <2> TAKE i \in 1 .. n
  <2>1. PICK k : k = Ahead(d) + i
    OBVIOUS
  <2>2. k \in 1 .. Ahead(d) + n /\ ~(k <= Ahead(d)) /\ k - Ahead(d) = i
    BY <1>1, <1>4, <2>1
  <2>3. q[k] = back[k - Ahead(d)]
    BY <1>6, <2>2
  <2>4. q[k] = back[i]
    BY <2>2, <2>3
  <2> QED BY <1>2, <2>1, <2>4
<1> QED BY <1>4, <1>5, <1>6, <1>7, <1>8

LEMMA SameQueue ==
  ASSUME NEW d, NEW f, NEW n, NEW a, NEW b,
         \A i \in 1 .. n : JobOf(a[At(f, i)]) = JobOf(b[At(f, i)])
  PROVE  Queue(d, f, n, a) = Queue(d, f, n, b)
BY DEF Queue

\* Start puts a job behind the others.
LEMMA QueueGrows ==
  ASSUME NEW d \in DfType, d.items = <<>>, NEW f \in Threads, NEW n \in 0 .. ThreadCount - 1,
         NEW a \in [Threads -> ThreadType], NEW b \in [Threads -> ThreadType],
         \A i \in 1 .. n : JobOf(b[At(f, i)]) = JobOf(a[At(f, i)])
  PROVE  Queue(d, f, n + 1, b) = Append(Queue(d, f, n, a), JobOf(b[At(f, n + 1)]))
<1>0. /\ n \in 0 .. ThreadCount /\ n + 1 \in 0 .. ThreadCount /\ n + 1 \in 1 .. ThreadCount
      /\ n \in Nat /\ Ahead(d) = 0
  BY CountIs DEF Ahead
<1>1. PICK s : s = Queue(d, f, n, a)
  OBVIOUS
<1>2. PICK t : t = Queue(d, f, n + 1, b)
  OBVIOUS
<1>3. PICK j : j = JobOf(b[At(f, n + 1)])
  OBVIOUS
<1>4. /\ s \in Seq(JobType) /\ Len(s) = n
      /\ \A i \in 1 .. n : s[i] = JobOf(a[At(f, i)])
  <2>1. /\ s \in Seq(JobType) /\ Len(s) = Ahead(d) + n
        /\ \A i \in 1 .. n : s[Ahead(d) + i] = JobOf(a[At(f, i)])
    BY <1>0, <1>1, QueueIs
  <2> QED BY <1>0, <2>1
<1>5. /\ t \in Seq(JobType) /\ Len(t) = n + 1
      /\ \A i \in 1 .. n + 1 : t[i] = JobOf(b[At(f, i)])
  <2>1. /\ t \in Seq(JobType) /\ Len(t) = Ahead(d) + (n + 1)
        /\ \A i \in 1 .. n + 1 : t[Ahead(d) + i] = JobOf(b[At(f, i)])
    BY <1>0, <1>2, QueueIs
  <2> QED BY <1>0, <2>1
<1>6. j \in JobType
  BY <1>0, <1>3, Places, JobOfIs
<1>7. PICK u : u = Append(s, j)
  OBVIOUS
<1>8. /\ u \in Seq(JobType) /\ Len(u) = n + 1 /\ u[n + 1] = j
      /\ \A i \in 1 .. n : u[i] = s[i]
  BY <1>4, <1>6, <1>7, AppendProperties
<1>9. \A i \in 1 .. n + 1 : t[i] = u[i]
  <2> TAKE i \in 1 .. n + 1
  <2>1. CASE i = n + 1
    BY <1>3, <1>5, <1>8, <2>1
  <2>2. CASE i # n + 1
    <3>1. i \in 1 .. n
      BY <1>0, <2>2
    <3> QED BY <1>4, <1>5, <1>8, <3>1
  <2> QED BY <2>1, <2>2
<1>10. t = u
  BY <1>5, <1>8, <1>9, SeqEqual
<1> QED BY <1>1, <1>2, <1>3, <1>7, <1>10

\* Collect takes the oldest job out; if it gave something that is buffered.
LEMMA QueueMoves ==
  ASSUME NEW d \in DfType, d.items = <<>>, NEW e \in DfType, NEW f \in Threads,
         NEW n \in 1 .. ThreadCount,
         NEW a \in [Threads -> ThreadType], NEW b \in [Threads -> ThreadType],
         \A i \in 2 .. n : JobOf(b[At(f, i)]) = JobOf(a[At(f, i)]),
         Kept(e) = JobOf(a[f])
  PROVE  /\ Queue(d, f, n, a) # <<>> /\ Queue(d, f, n, a)[1] = JobOf(a[f])
         /\ Queue(e, Succ(f), n - 1, b)
              = IF e.items = <<>> THEN Tail(Queue(d, f, n, a)) ELSE Queue(d, f, n, a)
<1>0. /\ n \in 0 .. ThreadCount /\ n - 1 \in 0 .. ThreadCount /\ 1 \in 1 .. n
      /\ n \in Nat /\ n > 0 /\ n <= ThreadCount /\ ThreadCount \in Nat
      /\ Ahead(d) = 0 /\ Succ(f) \in Threads
  BY CountIs, SuccIs DEF Ahead
<1>1. PICK s : s = Queue(d, f, n, a)
  OBVIOUS
<1>2. PICK t : t = Queue(e, Succ(f), n - 1, b)
  OBVIOUS
<1>4. /\ s \in Seq(JobType) /\ Len(s) = n
      /\ \A i \in 1 .. n : s[i] = JobOf(a[At(f, i)])
  <2>1. /\ d \in DfType /\ f \in Threads /\ n \in 0 .. ThreadCount
        /\ a \in [Threads -> ThreadType]
    BY <1>0
  <2>2. /\ s \in Seq(JobType) /\ Len(s) = Ahead(d) + n
        /\ \A i \in 1 .. n : s[Ahead(d) + i] = JobOf(a[At(f, i)])
    BY ONLY <1>1, <2>1, QueueIs
  <2> QED BY <1>0, <2>2
<1>5. /\ t \in Seq(JobType) /\ Len(t) = Ahead(e) + (n - 1)
      /\ e.items # <<>> => t[1] = Kept(e)
      /\ \A i \in 1 .. n - 1 : t[Ahead(e) + i] = JobOf(b[At(Succ(f), i)])
  <2>1. PICK g, m : g = Succ(f) /\ m = n - 1
    OBVIOUS
  <2>2. /\ e \in DfType /\ g \in Threads /\ m \in 0 .. ThreadCount
        /\ b \in [Threads -> ThreadType] /\ t = Queue(e, g, m, b)
    BY <1>0, <1>2, <2>1
  <2>3. /\ t \in Seq(JobType) /\ Len(t) = Ahead(e) + m
        /\ e.items # <<>> => t[1] = Kept(e)
        /\ \A i \in 1 .. m : t[Ahead(e) + i] = JobOf(b[At(g, i)])
    BY ONLY <2>2, QueueIs
  <2> QED BY <2>1, <2>3
<1>6. \A i \in 1 .. n - 1 : JobOf(b[At(Succ(f), i)]) = s[i + 1]
  <2> TAKE i \in 1 .. n - 1
  <2>1. i + 1 \in 2 .. n /\ i + 1 \in 1 .. n /\ i \in 1 .. ThreadCount - 1
    BY <1>0
  <2>2. At(Succ(f), i) = At(f, i + 1)
    BY <2>1, Places
  <2> QED BY <1>4, <2>1, <2>2
<1>7. s # <<>> /\ s[1] = JobOf(a[f])
  BY <1>0, <1>4, Places
<1>8. ASSUME e.items = <<>> PROVE t = Tail(s)
  <2>1. PICK u : u = Tail(s)
    OBVIOUS
  <2>2. u \in Seq(JobType) /\ Len(u) = n - 1 /\ \A i \in 1 .. n - 1 : u[i] = s[i + 1]
    BY <1>4, <1>7, <2>1, HeadTailProperties
  <2>3. Ahead(e) = 0
    BY <1>8 DEF Ahead
  <2>4. Len(t) = n - 1 /\ \A i \in 1 .. n - 1 : t[i] = u[i]
    BY <1>0, <1>5, <1>6, <2>2, <2>3
  <2>5. t = u
    BY <1>5, <2>2, <2>4, SeqEqual
  <2> QED BY <2>1, <2>5
<1>9. ASSUME e.items # <<>> PROVE t = s
  <2>1. Ahead(e) = 1
    BY <1>9 DEF Ahead
  <2>2. Len(t) = n /\ t[1] = s[1]
    BY <1>0, <1>5, <1>7, <1>9, <2>1
  <2>3. ASSUME NEW i \in 1 .. n, i # 1 PROVE t[i] = s[i]
    <3>1. PICK k : k = i - 1
      OBVIOUS
    <3>2. k \in 1 .. n - 1 /\ Ahead(e) + k = i /\ k + 1 = i
      BY <1>0, <2>1, <2>3, <3>1
    <3>3. t[Ahead(e) + k] = s[k + 1]
      BY <1>5, <1>6, <3>2
    <3> QED BY <3>2, <3>3
  <2>4. \A i \in 1 .. n : t[i] = s[i]
    BY <2>2, <2>3
  <2> QED BY <1>4, <1>5, <2>2, <2>4, SeqEqual
<1> QED BY <1>1, <1>2, <1>7, <1>8, <1>9

\* Return gives the first item of what is buffered.
LEMMA QueueGives ==
  ASSUME NEW d \in DfType, d.items # <<>>, NEW e \in DfType,
         e.id = d.id, e.items = Tail(d.items),
         NEW f \in Threads, NEW n \in 0 .. ThreadCount, NEW a \in [Threads -> ThreadType]
  PROVE  /\ Queue(d, f, n, a) # <<>> /\ Queue(d, f, n, a)[1] = Kept(d)
         /\ Queue(e, f, n, a) = IF Len(d.items) = 1 THEN Tail(Queue(d, f, n, a))
                                ELSE [Queue(d, f, n, a) EXCEPT ![1] = Kept(e)]
<1>0. /\ n \in Nat /\ Ahead(d) = 1
      /\ \A i \in 1 .. n : i \in 1 .. ThreadCount /\ At(f, i) \in Threads
  <2>1. Ahead(d) = 1
    BY Zenon DEF Ahead
  <2>2. n \in Nat /\ \A i \in 1 .. n : i \in 1 .. ThreadCount
    BY CountIs
  <2>3. \A i \in 1 .. ThreadCount : At(f, i) \in Threads
    BY Places
  <2> QED BY ONLY <2>1, <2>2, <2>3
<1>1. PICK rest \in Seq(Items) : /\ rest = Tail(d.items) /\ Len(rest) = Len(d.items) - 1
                                 /\ Len(d.items) \in Nat
  BY HeadTailProperties, LenProperties DEF DfType
<1>2. e.id = d.id /\ e.items = rest /\ e \in DfType
  BY <1>1
<1>3. (rest = <<>> <=> Len(d.items) = 1)
  <2>1. rest = <<>> => Len(rest) = 0
    BY EmptySeq
  <2>2. rest # <<>> => Len(rest) \in Nat \ {0}
    BY EmptySeq
  <2>3. PICK k \in Nat : k = Len(d.items) /\ Len(rest) = k - 1
    BY <1>1
  <2> QED BY ONLY <2>1, <2>2, <2>3, k \in Nat
<1>4. PICK s : s = Queue(d, f, n, a)
  OBVIOUS
<1>5. PICK t : t = Queue(e, f, n, a)
  OBVIOUS
<1>6. /\ s \in Seq(JobType) /\ Len(s) = 1 + n /\ s[1] = Kept(d)
      /\ \A i \in 1 .. n : s[1 + i] = JobOf(a[At(f, i)])
  <2>1. /\ s \in Seq(JobType) /\ Len(s) = Ahead(d) + n /\ s[1] = Kept(d)
        /\ \A i \in 1 .. n : s[Ahead(d) + i] = JobOf(a[At(f, i)])
    BY <1>4, QueueIs
  <2> QED BY <1>0, <2>1
<1>7. /\ t \in Seq(JobType) /\ Len(t) = Ahead(e) + n
      /\ e.items # <<>> => t[1] = Kept(e)
      /\ \A i \in 1 .. n : t[Ahead(e) + i] = JobOf(a[At(f, i)])
  <2>1. e \in DfType /\ f \in Threads /\ n \in 0 .. ThreadCount /\ a \in [Threads -> ThreadType]
    BY <1>2
  <2> QED BY ONLY <1>5, <2>1, QueueIs
<1>8. s # <<>>
  BY <1>0, <1>6, EmptySeq
<1>9. ASSUME rest = <<>> PROVE t = Tail(s)
  <2>1. PICK u : u = Tail(s)
    OBVIOUS
  <2>2. u \in Seq(JobType) /\ Len(u) = n /\ \A i \in 1 .. n : u[i] = s[i + 1]
    BY <1>0, <1>6, <1>8, <2>1, HeadTailProperties
  <2>3. Ahead(e) = 0
    BY <1>2, <1>9 DEF Ahead
  <2>4. ASSUME NEW i \in 1 .. n PROVE t[i] = u[i]
    <3>1. PICK j, k : j = Ahead(e) + i /\ k = 1 + i
      OBVIOUS
    <3>2. t[j] = s[k]
      BY <1>6, <1>7, <3>1
    <3>3. j = i /\ k = i + 1
      BY ONLY <1>0, <2>3, <2>4, <3>1, i \in 1 .. n
    <3> QED BY <2>2, <3>2, <3>3
  <2>5. Len(t) = n /\ \A i \in 1 .. n : t[i] = u[i]
    <3>1. Len(t) = n
      BY ONLY <1>0, <1>7, <2>3
    <3> QED BY <2>4, <3>1
  <2>6. t = u
    BY <1>7, <2>2, <2>5, SeqEqual
  <2> QED BY <2>1, <2>6
<1>10. ASSUME rest # <<>> PROVE t = [s EXCEPT ![1] = Kept(e)]
  <2>1. PICK j : j = Kept(e)
    OBVIOUS
  <2>2. j = Kept(e) /\ j \in JobType
    BY <1>2, <2>1 DEF Kept, JobType, DfType
  <2>3. PICK u : u = [s EXCEPT ![1] = j]
    OBVIOUS
  <2>5. 1 \in 1 .. Len(s) /\ Len(s) = n + 1
    BY <1>0, <1>6
  <2>6. u \in Seq(JobType) /\ Len(u) = n + 1
        /\ \A i \in 1 .. n + 1 : u[i] = IF i = 1 THEN j ELSE s[i]
    BY <1>6, <2>2, <2>3, <2>5, ExceptSeq
  <2>7. Ahead(e) = 1
    BY <1>2, <1>10 DEF Ahead
  <2>8. t[1] = j /\ Len(t) = n + 1
    <3>1. e.items # <<>>
      BY <1>2, <1>10
    <3>2. t[1] = Kept(e) /\ Len(t) = 1 + n
      BY <1>7, <2>7, <3>1
    <3> QED BY ONLY <1>0, <2>2, <3>2
  <2>9. ASSUME NEW i \in 1 .. n + 1, i # 1 PROVE t[i] = s[i]
    <3>1. PICK k : k = i - 1
      OBVIOUS
    <3>2. k \in 1 .. n /\ 1 + k = i
      BY <1>0, <2>9, <3>1
    <3> QED BY <1>6, <1>7, <2>7, <3>2
  <2>10. \A i \in 1 .. n + 1 : t[i] = u[i]
    BY <2>6, <2>8, <2>9
  <2>11. t = u
    BY <1>7, <2>6, <2>8, <2>10, SeqEqual
  <2> QED BY <2>1, <2>3, <2>11
<1> QED BY <1>3, <1>4, <1>5, <1>6, <1>8, <1>9, <1>10

\* Ready ends the job at place p.
LEMMA QueueEnds ==
  ASSUME NEW d \in DfType, NEW f \in Threads, NEW n \in 0 .. ThreadCount,
         NEW a \in [Threads -> ThreadType], NEW b \in [Threads -> ThreadType],
         NEW p \in 1 .. n,
         \A i \in 1 .. n : i # p => JobOf(b[At(f, i)]) = JobOf(a[At(f, i)])
  PROVE  /\ Ahead(d) + p \in DOMAIN Queue(d, f, n, a)
         /\ DOMAIN Queue(d, f, n, b) = DOMAIN Queue(d, f, n, a)
         /\ Queue(d, f, n, a)[Ahead(d) + p] = JobOf(a[At(f, p)])
         /\ Queue(d, f, n, b)[Ahead(d) + p] = JobOf(b[At(f, p)])
         /\ Queue(d, f, n, b) = [Queue(d, f, n, a) EXCEPT ![Ahead(d) + p] = JobOf(b[At(f, p)])]
<1>0. n \in Nat /\ Ahead(d) \in {0, 1} /\ p \in Nat /\ p >= 1 /\ p <= n /\ At(f, p) \in Threads
  BY CountIs, Places DEF Ahead
<1>1. PICK s : s = Queue(d, f, n, a)
  OBVIOUS
<1>2. PICK t : t = Queue(d, f, n, b)
  OBVIOUS
<1>3. /\ s \in Seq(JobType) /\ Len(s) = Ahead(d) + n
      /\ d.items # <<>> => s[1] = Kept(d)
      /\ \A i \in 1 .. n : s[Ahead(d) + i] = JobOf(a[At(f, i)])
  BY <1>1, QueueIs
<1>4. /\ t \in Seq(JobType) /\ Len(t) = Ahead(d) + n
      /\ d.items # <<>> => t[1] = Kept(d)
      /\ \A i \in 1 .. n : t[Ahead(d) + i] = JobOf(b[At(f, i)])
  BY <1>2, QueueIs
<1>5. PICK k, j : k = Ahead(d) + p /\ j = JobOf(b[At(f, p)])
  OBVIOUS
<1>6. k \in 1 .. Ahead(d) + n /\ k \in 1 .. Len(s) /\ j \in JobType
  BY <1>0, <1>3, <1>5, JobOfIs
<1>7. PICK u : u = [s EXCEPT ![k] = j]
  OBVIOUS
<1>8. /\ u \in Seq(JobType) /\ Len(u) = Ahead(d) + n
      /\ \A i \in 1 .. Ahead(d) + n : u[i] = IF i = k THEN j ELSE s[i]
  BY <1>3, <1>6, <1>7, ExceptSeq
<1>9. ASSUME NEW i \in 1 .. Ahead(d) + n, i # k PROVE t[i] = s[i]
  <2>1. PICK m : m = i - Ahead(d)
    OBVIOUS
  <2>2. CASE m \in 1 .. n
    <3>1. Ahead(d) + m = i /\ m # p
      BY <1>0, <1>5, <1>9, <2>1, <2>2
    <3> QED BY <1>3, <1>4, <2>2, <3>1
  <2>3. CASE m \notin 1 .. n
    <3>1. i = 1 /\ Ahead(d) = 1
      BY <1>0, <2>1, <2>3
    <3>2. d.items # <<>>
      BY <3>1 DEF Ahead
    <3> QED BY <1>3, <1>4, <3>1, <3>2
  <2> QED BY <2>2, <2>3
<1>10. t[k] = j /\ s[k] = JobOf(a[At(f, p)])
  BY <1>3, <1>4, <1>5
<1>11. \A i \in 1 .. Ahead(d) + n : t[i] = u[i]
  BY <1>8, <1>9, <1>10
<1>12. t = u
  BY <1>4, <1>8, <1>11, SeqEqual
<1>13. DOMAIN s = 1 .. Ahead(d) + n /\ DOMAIN t = 1 .. Ahead(d) + n
  BY <1>3, <1>4, LenProperties
<1> QED BY <1>1, <1>2, <1>5, <1>6, <1>7, <1>10, <1>12, <1>13

\* The places of the ring up to InFlight are those of the jobs in it.
LEMMA RingAt ==
  ASSUME TypeOK
  PROVE  \A i \in 1 .. InFlight :
           /\ i \in 1 .. ThreadCount /\ At(next_finished, i) \in Threads
           /\ InRing(At(next_finished, i))
           /\ Distance(next_finished, At(next_finished, i)) = i - 1
<1>1. InFlight \in Nat /\ InFlight <= ThreadCount /\ next_finished \in Threads /\ ThreadCount \in Nat
  BY TypeIs, InFlightIs, CountIs
<1> TAKE i \in 1 .. InFlight
<1>2. i \in 1 .. ThreadCount /\ i \in Int /\ i <= InFlight
  BY <1>1
<1>3. At(next_finished, i) \in Threads /\ Distance(next_finished, At(next_finished, i)) = i - 1
  BY <1>1, <1>2, Places
<1>4. InRing(At(next_finished, i))
  BY <1>1, <1>2, <1>3 DEF InRing
<1> QED BY <1>2, <1>3, <1>4

\* A step that keeps what is seen of the threads in the ring.
LEMMA JobsStay ==
  ASSUME TypeOK, TypeOK', df' = df, next_finished' = next_finished, InFlight' = InFlight,
         \A t \in Threads : InRing(t) => JobOf(thread'[t]) = JobOf(thread[t])
  PROVE  Jobs' = Jobs
<1>1. /\ Jobs = Queue(df, next_finished, InFlight, thread)
      /\ Jobs' = Queue(df, next_finished, InFlight, thread')
  BY JobsAre
<1>2. \A i \in 1 .. InFlight :
        JobOf(thread'[At(next_finished, i)]) = JobOf(thread[At(next_finished, i)])
  BY RingAt
<1>3. PICK n, f, a, b : n = InFlight /\ f = next_finished /\ a = thread /\ b = thread'
  OBVIOUS
<1>4. \A i \in 1 .. n : JobOf(a[At(f, i)]) = JobOf(b[At(f, i)])
  BY <1>2, <1>3
<1>5. Queue(df, f, n, a) = Queue(df, f, n, b)
  BY ONLY <1>4, SameQueue
<1> QED BY <1>1, <1>3, <1>5

LEMMA SameJob ==
  ASSUME NEW p, NEW q, q.id = p.id, q.state = "input_ready" <=> p.state = "input_ready",
         p.state = "input_ready" => q.items = p.items
  PROVE  JobOf(q) = JobOf(p)
<1>1. (q.state = "input_ready") = (p.state = "input_ready")
  OBVIOUS
<1> QED BY <1>1 DEF JobOf

\* Start is Submit.
LEMMA StartSubmits ==
  ASSUME IInv, IInv', Start
  PROVE  Ordered!Submit
<1>0. /\ TypeOK /\ TypeOK' /\ Ring /\ next_decoding \in Threads /\ next_finished \in Threads
      /\ df' = df /\ next_finished' = next_finished /\ pc = "setup"
      /\ last' = last + 1 /\ UNCHANGED given
  BY TypeIs DEF IInv, Start
<1>1. PICK d, f, n, a, b : /\ d = df /\ f = next_finished /\ n = InFlight
                           /\ a = thread /\ b = thread'
  OBVIOUS
<1>2. /\ Jobs = Queue(d, f, n, a) /\ d \in DfType /\ a \in [Threads -> ThreadType]
      /\ b \in [Threads -> ThreadType] /\ f \in Threads
  BY <1>0, <1>1, JobsAre
<1>3. Jobs' = Queue(d, f, n + 1, b) /\ n \in 0 .. ThreadCount - 1
      /\ n = Distance(f, next_decoding)
  BY <1>0, <1>1, JobsAre, StartRing
<1>4. d.items = <<>>
  BY <1>0, <1>1 DEF Ring, Buffered
<1>5. At(f, n + 1) = next_decoding
  BY <1>0, <1>2, <1>3, Places
<1>6. PICK p, q, src : /\ p = thread[next_decoding] /\ q = thread'[next_decoding]
                       /\ src = thread[prev_thread]
  OBVIOUS
<1>7. /\ OnlyOne(next_decoding) /\ q.id = p.id /\ q.state = "setting_up"
  BY <1>0, <1>6, StartIs
<1>8. q.id = last + 1
  BY <1>0, <1>6, <1>7 DEF Ring
<1>9. \A i \in 1 .. n : JobOf(b[At(f, i)]) = JobOf(a[At(f, i)])
  <2> TAKE i \in 1 .. n
  <2>1. At(f, i) \in Threads /\ Distance(f, At(f, i)) = i - 1
    BY <1>0, <1>1, RingAt
  <2>2. At(f, i) # next_decoding
    BY <1>3, <2>1
  <2> QED BY <1>1, <1>7, <2>1, <2>2 DEF OnlyOne
<1>10. JobOf(b[At(f, n + 1)]) = [id |-> last + 1, done |-> FALSE, items |-> <<>>]
  <2>1. b[At(f, n + 1)] = q
    BY <1>1, <1>5, <1>6
  <2>2. (q.state = "input_ready") = FALSE
    BY <1>7
  <2> QED BY <1>8, <2>1, <2>2 DEF JobOf
<1>11. Queue(d, f, n + 1, b) = Append(Queue(d, f, n, a), JobOf(b[At(f, n + 1)]))
  BY ONLY <1>2, <1>3, <1>4, <1>9, QueueGrows
<1>12. Jobs' = Append(Jobs, [id |-> last + 1, done |-> FALSE, items |-> <<>>])
  BY <1>2, <1>3, <1>10, <1>11
<1> QED BY <1>0, <1>12 DEF Ordered!Submit, Jobs

\* Collect drops the oldest job if it gave nothing; else nothing is seen of it.
LEMMA CollectDrops ==
  ASSUME IInv, IInv', Collect
  PROVE  Ordered!Drop \/ UNCHANGED Ordered!vars
<1>0. /\ TypeOK /\ TypeOK' /\ Ring /\ next_decoding \in Threads /\ next_finished \in Threads
      /\ next_finished' = Succ(next_finished) /\ pc = "collect"
      /\ df' = [id |-> thread[next_finished].id, items |-> thread[next_finished].items]
      /\ thread[next_finished].state = "input_ready"
      /\ UNCHANGED <<last, given>>
  BY TypeIs DEF IInv, Collect, past
<1>1. PICK d, e, f, n, a, b : /\ d = df /\ e = df' /\ f = next_finished /\ n = InFlight
                              /\ a = thread /\ b = thread'
  OBVIOUS
<1>2. /\ Jobs = Queue(d, f, n, a) /\ d \in DfType /\ e \in DfType
      /\ a \in [Threads -> ThreadType] /\ b \in [Threads -> ThreadType] /\ f \in Threads
  BY <1>0, <1>1, JobsAre
<1>3. Jobs' = Queue(e, Succ(f), n - 1, b) /\ n \in 1 .. ThreadCount
  BY <1>0, <1>1, JobsAre, CollectRing
<1>4. d.items = <<>>
  BY <1>0, <1>1 DEF Ring, Buffered
<1>5. OnlyOne(next_finished)
  BY <1>0, CollectIs
<1>6. \A i \in 2 .. n : JobOf(b[At(f, i)]) = JobOf(a[At(f, i)])
  <2> TAKE i \in 2 .. n
  <2>1. At(f, i) \in Threads /\ Distance(f, At(f, i)) = i - 1
    BY <1>0, <1>1, <1>3, RingAt
  <2>2. At(f, i) # f
    BY <1>2, <2>1, DistanceIs
  <2> QED BY <1>1, <1>5, <2>1, <2>2 DEF OnlyOne
<1>7. Kept(e) = JobOf(a[f])
  <2>1. (a[f].state = "input_ready") = TRUE
    BY <1>0, <1>1
  <2>2. e.id = a[f].id /\ e.items = a[f].items
    BY <1>0, <1>1
  <2> QED BY <2>1, <2>2 DEF Kept, JobOf
<1>8. /\ Queue(d, f, n, a) # <<>> /\ Queue(d, f, n, a)[1] = JobOf(a[f])
      /\ Queue(e, Succ(f), n - 1, b)
           = IF e.items = <<>> THEN Tail(Queue(d, f, n, a)) ELSE Queue(d, f, n, a)
  BY ONLY <1>2, <1>3, <1>4, <1>6, <1>7, QueueMoves
<1>9. /\ Jobs # <<>> /\ Jobs[1] = Kept(e)
      /\ Jobs' = IF e.items = <<>> THEN Tail(Jobs) ELSE Jobs
  BY <1>2, <1>3, <1>7, <1>8
<1>10. CASE e.items = <<>>
  <2>1. Jobs[1].done /\ Jobs[1].items = <<>> /\ Jobs' = Tail(Jobs)
    BY <1>9, <1>10 DEF Kept
  <2> QED BY <1>0, <1>9, <2>1 DEF Ordered!Drop, Ordered!Oldest, Jobs
<1>11. CASE e.items # <<>>
  <2>1. Jobs' = Jobs
    BY <1>9, <1>11
  <2> QED BY <1>0, <2>1 DEF Ordered!vars, Jobs
<1> QED BY <1>10, <1>11

\* Return is Deliver.
LEMMA ReturnDelivers ==
  ASSUME IInv, IInv', Return
  PROVE  Ordered!Deliver
<1>0. /\ TypeOK /\ TypeOK' /\ next_finished \in Threads /\ pc = "loop" /\ pc' = "lock"
      /\ df.items # <<>> /\ df' = [df EXCEPT !.items = Tail(@)]
      /\ given' = [id |-> df.id, item |-> Head(df.items)]
      /\ UNCHANGED <<next_decoding, next_finished, thread, last>>
  BY TypeIs DEF IInv, Return, Buffered
<1>1. PICK d, e, f, n, a : /\ d = df /\ e = df' /\ f = next_finished /\ n = InFlight /\ a = thread
  OBVIOUS
<1>2. InFlight' = InFlight
  BY <1>0, SameRing
<1>3. /\ Jobs = Queue(d, f, n, a) /\ Jobs' = Queue(e, f, n, a) /\ d \in DfType
      /\ a \in [Threads -> ThreadType] /\ f \in Threads /\ n \in 0 .. ThreadCount
  BY <1>0, <1>1, <1>2, JobsAre
<1>4. d.items # <<>> /\ e \in DfType /\ e.id = d.id /\ e.items = Tail(d.items)
  <2>1. e \in DfType
    BY <1>0, <1>1, JobsAre
  <2> QED BY <1>0, <1>1, <2>1, <1>3 DEF DfType
<1>5. /\ Queue(d, f, n, a) # <<>> /\ Queue(d, f, n, a)[1] = Kept(d)
      /\ Queue(e, f, n, a) = IF Len(d.items) = 1 THEN Tail(Queue(d, f, n, a))
                             ELSE [Queue(d, f, n, a) EXCEPT ![1] = Kept(e)]
  BY ONLY <1>3, <1>4, QueueGives
<1>6. /\ Jobs # <<>> /\ Jobs[1] = Kept(d)
      /\ Jobs' = IF Len(d.items) = 1 THEN Tail(Jobs) ELSE [Jobs EXCEPT ![1].items = Tail(@)]
  <2>1. PICK s : s = Jobs
    OBVIOUS
  <2>2. /\ s # <<>> /\ s[1] = Kept(d)
        /\ Jobs' = IF Len(d.items) = 1 THEN Tail(s) ELSE [s EXCEPT ![1] = Kept(e)]
    BY <1>3, <1>5, <2>1
  <2>3. [Kept(d) EXCEPT !.items = Tail(d.items)] = Kept(e) /\ Kept(d).items = d.items
    <3>1. PICK rest : rest = Tail(d.items)
      OBVIOUS
    <3>2. e.id = d.id /\ e.items = rest /\ d \in DfType /\ e \in DfType
      BY ONLY <1>3, <1>4, <3>1
    <3>3. rest \in Seq(Items)
      BY ONLY <3>2 DEF DfType
    <3>4. PICK j : j = [Kept(d) EXCEPT !.items = rest]
      OBVIOUS
    <3>5. j = Kept(e)
      BY ONLY <3>2, <3>3, <3>4 DEF Kept, JobType, DfType
    <3>6. Kept(d).items = d.items
      BY DEF Kept
    <3> QED BY ONLY <3>1, <3>4, <3>5, <3>6
  <2>4. [s EXCEPT ![1].items = Tail(@)] = [s EXCEPT ![1] = Kept(e)]
    BY ONLY <2>2, <2>3
  <2> QED BY <2>1, <2>2, <2>4
<1>7. Jobs[1].id = d.id /\ Jobs[1].done /\ Jobs[1].items = d.items
  BY <1>6 DEF Kept
<1>8. given' = [id |-> Jobs[1].id, item |-> Head(Jobs[1].items)]
  BY <1>0, <1>1, <1>7
<1>9. Jobs[1].items # <<>>
  BY <1>4, <1>7
<1>10. Jobs' = IF Len(Jobs[1].items) = 1 THEN Tail(Jobs) ELSE [Jobs EXCEPT ![1].items = Tail(@)]
  BY <1>6, <1>7
<1> QED BY <1>0, <1>6, <1>7, <1>8, <1>9, <1>10 DEF Ordered!Deliver, Ordered!Oldest, Jobs

\* A worker that is ready has ended its job.
LEMMA ReadyFinishes ==
  ASSUME IInv, IInv', NEW t \in Threads, Ready(t)
  PROVE  \E i \in DOMAIN Jobs : Ordered!Finish(i)
<1>0. /\ TypeOK /\ TypeOK' /\ next_finished \in Threads /\ UNCHANGED user
      /\ InRing(t) /\ thread[t].state # "input_ready"
  <2>1. TypeOK /\ TypeOK' /\ next_finished \in Threads /\ UNCHANGED user /\ thread[t].pc = "ready"
    BY TypeIs DEF IInv, Ready
  <2> QED BY <2>1 DEF IInv, States, Ring, AtWork
<1>1. PICK d, f, n, a, b : /\ d = df /\ f = next_finished /\ n = InFlight
                           /\ a = thread /\ b = thread'
  OBVIOUS
<1>2. UNCHANGED <<df, next_finished, next_decoding, pc, last, given>> /\ InFlight' = InFlight
  <2>1. UNCHANGED <<df, next_finished, next_decoding, pc, last, given>>
    BY <1>0 DEF user, ring, past
  <2> QED BY <2>1, SameRing
<1>3. /\ Jobs = Queue(d, f, n, a) /\ Jobs' = Queue(d, f, n, b) /\ d \in DfType
      /\ a \in [Threads -> ThreadType] /\ b \in [Threads -> ThreadType]
      /\ f \in Threads /\ n \in 0 .. ThreadCount
  BY <1>0, <1>1, <1>2, JobsAre
<1>4. PICK p : p = Distance(f, t) + 1
  OBVIOUS
<1>5. p \in 1 .. n /\ At(f, p) = t
  <2>1. Distance(f, t) \in 0 .. ThreadCount - 1 /\ Distance(f, t) < n /\ At(f, p) = t
    BY <1>0, <1>1, <1>3, <1>4, DistanceIs, Places DEF InRing
  <2> QED BY <1>3, <1>4, <2>1, CountIs
<1>6. /\ OnlyOne(t) /\ b[t].id = a[t].id /\ b[t].state = "input_ready"
      /\ b[t].items \in Seq(Items) /\ a[t].state # "input_ready"
  <2>1. PICK r, q : r = thread[t] /\ q = thread'[t]
    OBVIOUS
  <2>2. OnlyOne(t) /\ q.id = r.id /\ q.state = "input_ready" /\ q.items = r.items
    BY <1>0, <2>1, ReadyIs
  <2>3. r.items \in Seq(Items)
    BY <1>1, <1>3, <2>1 DEF ThreadType
  <2> QED BY <1>0, <1>1, <2>1, <2>2, <2>3
<1>7. \A i \in 1 .. n : i # p => JobOf(b[At(f, i)]) = JobOf(a[At(f, i)])
  <2> TAKE i \in 1 .. n
  <2>1. /\ At(f, i) \in Threads /\ Distance(f, At(f, i)) = i - 1
        /\ At(f, p) \in Threads /\ Distance(f, At(f, p)) = p - 1
    BY <1>0, <1>1, <1>5, RingAt
  <2>2. i # p => At(f, i) # t
    BY <1>3, <1>5, <2>1
  <2> QED BY <1>1, <1>6, <2>1, <2>2 DEF OnlyOne
<1>8. PICK k, j : k = Ahead(d) + p /\ j = JobOf(b[t])
  OBVIOUS
<1>9. /\ k \in DOMAIN Jobs /\ DOMAIN Jobs' = DOMAIN Jobs
      /\ Jobs[k] = JobOf(a[t]) /\ Jobs'[k] = j /\ Jobs' = [Jobs EXCEPT ![k] = j]
  <2>1. /\ Ahead(d) + p \in DOMAIN Queue(d, f, n, a)
        /\ DOMAIN Queue(d, f, n, b) = DOMAIN Queue(d, f, n, a)
        /\ Queue(d, f, n, a)[Ahead(d) + p] = JobOf(a[At(f, p)])
        /\ Queue(d, f, n, b)[Ahead(d) + p] = JobOf(b[At(f, p)])
        /\ Queue(d, f, n, b) = [Queue(d, f, n, a) EXCEPT ![Ahead(d) + p] = JobOf(b[At(f, p)])]
    BY ONLY <1>3, <1>5, <1>7, QueueEnds
  <2> QED BY <1>3, <1>5, <1>8, <2>1
<1>10. Jobs[k].id = a[t].id /\ ~Jobs[k].done
  <2>1. (a[t].state = "input_ready") = FALSE
    BY <1>6
  <2>2. JobOf(a[t]).id = a[t].id /\ JobOf(a[t]).done = FALSE
    BY ONLY <2>1 DEF JobOf
  <2> QED BY <1>9, <2>2
<1>11. j = [id |-> a[t].id, done |-> TRUE, items |-> b[t].items] /\ j.items = b[t].items
  <2>1. (b[t].state = "input_ready") = TRUE
    BY <1>6
  <2> QED BY <1>6, <1>8, <2>1 DEF JobOf
<1>12. j = [id |-> Jobs[k].id, done |-> TRUE, items |-> Jobs'[k].items]
       /\ Jobs'[k].items \in Seq(Items)
  BY <1>6, <1>9, <1>10, <1>11
<1>13. Jobs' = [Jobs EXCEPT ![k] = [id |-> @.id, done |-> TRUE, items |-> Jobs'[k].items]]
  BY <1>9, <1>12
<1>14. Ordered!Finish(k)
  BY <1>2, <1>9, <1>10, <1>12, <1>13 DEF Ordered!Finish, Jobs
<1> QED BY <1>9, <1>14

\* Nothing else that a worker does is seen.
LEMMA WorkHidden ==
  ASSUME IInv, IInv', NEW t \in Threads, Worker(t), ~Ready(t)
  PROVE  UNCHANGED Ordered!vars
<1>0. TypeOK /\ TypeOK' /\ States
  BY DEF IInv
<1>1. PICK p, q : p = thread[t] /\ q = thread'[t]
  OBVIOUS
<1>2. OnlyOne(t) /\ UNCHANGED user /\ q.id = p.id
  BY <1>0, <1>1, WorkerIs
<1>3. /\ q.state = "input_ready" <=> p.state = "input_ready"
      /\ p.state = "input_ready" => q.items = p.items
  <2>0. p.pc \in {"none", "wait", "exited", "freed"} <=> p.state = "input_ready"
    BY <1>0, <1>1 DEF States
  <2>1. CASE Die(t)
    BY <1>0, <1>1, <2>1, DieIs
  <2>2. CASE Wake(t)
    BY <1>0, <1>1, <2>0, <2>2, WakeIs
  <2>3. CASE SetUp(t)
    BY <1>0, <1>1, <2>3, SetUpIs
  <2>4. CASE Serialize(t)
    BY <1>0, <1>1, <2>4, SerializeIs
  <2>5. CASE FinishSetup(t)
    BY <1>0, <1>1, <2>0, <2>5, FinishSetupIs
  <2>6. CASE AllocFails(t)
    BY <1>0, <1>1, <2>0, <2>6, AllocFailsIs
  <2>7. CASE Decode(t)
    BY <1>0, <1>1, <2>0, <2>7, DecodeIs
  <2>8. CASE Release(t)
    BY <1>0, <1>1, <2>8, ReleaseIs
  <2> QED BY <2>1, <2>2, <2>3, <2>4, <2>5, <2>6, <2>7, <2>8 DEF Worker
<1>4. JobOf(q) = JobOf(p)
  BY ONLY <1>2, <1>3, SameJob
<1>5. \A u \in Threads : InRing(u) => JobOf(thread'[u]) = JobOf(thread[u])
  BY <1>1, <1>2, <1>4 DEF OnlyOne
<1>6. UNCHANGED <<df, next_finished, next_decoding, pc, last, given>>
  BY <1>2 DEF user, ring, past
<1>7. Jobs' = Jobs
  BY <1>0, <1>5, <1>6, SameRing, JobsStay
<1> QED BY <1>6, <1>7 DEF Ordered!vars, Jobs

\* Flush is Abandon.
LEMMA FlushAbandons ==
  ASSUME IInv, IInv', Flush
  PROVE  Ordered!Abandon
<1>1. /\ next_decoding' = 0 /\ next_finished' = 0 /\ pc' = "user" /\ df' = Empty
      /\ UNCHANGED <<last, given>> /\ 0 \in Threads
  BY CountIs DEF Flush
<1>2. InFlight' = 0
  BY <1>1, InFlightIs, CountIs DEF Size, Distance
<1>3. ~Buffered'
  BY <1>1 DEF Buffered, Empty
<1>4. Jobs' = <<>>
  BY <1>2, <1>3 DEF Jobs
<1> QED BY <1>1, <1>4 DEF Ordered!Abandon, Jobs

\* SubmitFails is Refuse.
LEMMA SubmitRefuses ==
  ASSUME IInv, IInv', SubmitFails
  PROVE  Ordered!Refuse
<1>1. /\ TypeOK /\ TypeOK' /\ pc = "setup" /\ pc' = "lock" /\ last' = last + 1
      /\ UNCHANGED <<df, next_finished, next_decoding, thread, given>>
  BY DEF IInv, SubmitFails, ring
<1>2. Jobs' = Jobs
  BY <1>1, SameRing, JobsStay
<1> QED BY <1>1, <1>2 DEF Ordered!Refuse, Jobs

\* A packet that is about to be submitted is not seen yet.
LEMMA SubmitHidden ==
  ASSUME IInv, IInv', Submit
  PROVE  UNCHANGED Ordered!vars
<1>0. /\ TypeOK /\ TypeOK' /\ next_decoding \in Threads /\ next_finished \in Threads
      /\ pc = "loop" /\ pc' = "setup"
      /\ UNCHANGED <<df, next_finished, next_decoding, last, given>>
  BY TypeIs DEF IInv, Submit, past
<1>1. ~InRing(next_decoding)
  <2>1. InFlight = Distance(next_finished, next_decoding)
    BY <1>0, InFlightIs DEF Size
  <2>2. Distance(next_finished, next_decoding) \in 0 .. ThreadCount - 1
    BY <1>0, DistanceIs
  <2> QED BY <2>1, <2>2, CountIs DEF InRing
<1>2. \A t \in Threads : t # next_decoding => thread'[t] = thread[t]
  <2>1. /\ thread \in [Threads -> ThreadType]
        /\ thread' = [thread EXCEPT ![next_decoding].id = last + 1,
                                    ![next_decoding].drains = @ \/ draining']
    BY <1>0, TypeIs DEF Submit
  <2> QED BY <1>0, <2>1
<1>3. Jobs' = Jobs
  BY <1>0, <1>1, <1>2, SameRing, JobsStay
<1> QED BY <1>0, <1>3 DEF Ordered!vars, Jobs

\* What comes before the first packet and after the last one is not seen.
LEMMA LifeHidden ==
  ASSUME IInv, IInv', InitThread \/ FreeThread \/ Join
  PROVE  UNCHANGED Ordered!vars
<1>0. /\ TypeOK /\ TypeOK' /\ thread \in [Threads -> ThreadType]
      /\ "collect" \notin {pc, pc'}
      /\ UNCHANGED <<df, next_finished, next_decoding, last, given>>
  BY TypeIs DEF IInv, InitThread, FreeThread, Join, ring, past
<1>1. ASSUME NEW t \in Threads
      PROVE  /\ thread'[t].id = thread[t].id /\ thread'[t].state = thread[t].state
             /\ thread'[t].items = thread[t].items
  <2>1. CASE InitThread
    <3>1. PICK u \in Threads : thread' = [thread EXCEPT ![u].pc = "wait"]
      BY <2>1, InitThreadIs
    <3> QED BY <1>0, <3>1 DEF ThreadType
  <2>2. CASE FreeThread
    <3>1. PICK u \in Threads : thread' = [thread EXCEPT ![u].die = TRUE]
      BY <2>2, FreeThreadIs
    <3> QED BY <1>0, <3>1 DEF ThreadType
  <2>3. CASE Join
    <3>1. PICK u \in Threads : thread' = [thread EXCEPT ![u].pc = "freed", ![u].hw = "none"]
      BY <2>3 DEF Join, InState
    <3> QED BY <1>0, <3>1 DEF ThreadType
  <2> QED BY <2>1, <2>2, <2>3
<1>2. \A t \in Threads : JobOf(thread'[t]) = JobOf(thread[t])
  BY <1>1 DEF JobOf
<1>3. Jobs' = Jobs
  BY <1>0, <1>2, SameRing, JobsStay
<1> QED BY <1>0, <1>3 DEF Ordered!vars, Jobs

\* Nor are the calls that neither take nor give.
LEMMA CallHidden ==
  ASSUME IInv, IInv', \/ InitFails \/ Receive \/ SkipInput \/ NoInput \/ Relock
                      \/ Park \/ FreeParked \/ Freed \/ UNCHANGED fvars
  PROVE  UNCHANGED Ordered!vars
<1>0. /\ TypeOK /\ TypeOK'
      /\ UNCHANGED <<df, next_finished, next_decoding, last, given, thread>>
      /\ pc' = pc \/ next_decoding # next_finished \/ "collect" \notin {pc, pc'}
  BY DEF IInv, InitFails, Receive, SkipInput, NoInput, Relock, Park, FreeParked, Freed, fvars,
         ring, past, CollectFirst
<1>1. Jobs' = Jobs
  BY <1>0, SameRing, JobsStay
<1> QED BY <1>0, <1>1 DEF Ordered!vars, Jobs

LEMMA RefinesInit == Init => Ordered!Init
<1> SUFFICES ASSUME Init PROVE Ordered!Init
  OBVIOUS
<1>1. /\ next_decoding = 0 /\ next_finished = 0 /\ pc = "init" /\ df = Empty /\ 0 \in Threads
      /\ last = 0 /\ given = [id |-> 0, item |-> "none"]
  BY CountIs DEF Init
<1>2. InFlight = 0
  BY <1>1, InFlightIs, CountIs DEF Size, Distance
<1>3. ~Buffered
  BY <1>1 DEF Buffered, Empty
<1>4. Jobs = <<>>
  BY <1>2, <1>3 DEF Jobs
<1> QED BY <1>1, <1>4 DEF Ordered!Init, Ordered!Nothing, Jobs

LEMMA RefinesStep ==
  ASSUME IInv, IInv', [Next]_fvars
  PROVE  [Ordered!Next]_(Ordered!vars)
<1>1. CASE Start
  BY <1>1, StartSubmits DEF Ordered!Next
<1>2. CASE SubmitFails
  BY <1>2, SubmitRefuses DEF Ordered!Next
<1>3. CASE Return
  BY <1>3, ReturnDelivers DEF Ordered!Next
<1>4. CASE Collect
  BY <1>4, CollectDrops DEF Ordered!Next
<1>5. CASE Flush
  BY <1>5, FlushAbandons DEF Ordered!Next
<1>6. CASE Submit
  BY <1>6, SubmitHidden
<1>7. CASE InitThread \/ FreeThread \/ Join
  BY <1>7, LifeHidden
<1>8. CASE \/ InitFails \/ Receive \/ SkipInput \/ NoInput \/ Relock
           \/ Park \/ FreeParked \/ Freed \/ UNCHANGED fvars
  BY <1>8, CallHidden
<1>9. ASSUME NEW t \in Threads, Worker(t) PROVE [Ordered!Next]_(Ordered!vars)
  <2>1. CASE Ready(t)
    BY <2>1, ReadyFinishes DEF Ordered!Next, Jobs
  <2>2. CASE ~Ready(t)
    BY <1>9, <2>2, WorkHidden
  <2> QED BY <2>1, <2>2
<1> QED BY <1>1, <1>2, <1>3, <1>4, <1>5, <1>6, <1>7, <1>8, <1>9 DEF Next, Calls, Inside

\* Whatever the codec, the number of threads and the order in which they finish,
\* ff_thread_receive_frame() gives frames, errors and ends in the order of their
\* packets, none twice and none skipped: the ring implements OrderedJobs.
THEOREM ImplementsOrderedJobs == Spec => InOrder
<1>1. IInv /\ IInv' /\ [Next]_fvars => [Ordered!Next]_(Ordered!vars)
  BY RefinesStep
<1> QED BY <1>1, Invariant, RefinesInit, PTL DEF Spec, InOrder, Ordered!Spec
=============================================================================
