---------------------------- MODULE MoflexMuxer ----------------------------
(***************************************************************************)
(* libavformat/moflexenc.c: the muxer of Nintendo 3DS movies.  Packets are *)
(* collected until the trailer, sorted by time, and cut into the chunks of *)
(* blocks of a fixed size; the table of the sync points comes in front.    *)
(*                                                                         *)
(* A file is a function from offsets to what is written there, so that the *)
(* arithmetic on offsets is that of the code; the bits of a header are the *)
(* fields that they stand for.  Times are in ticks.                        *)
(***************************************************************************)
EXTENDS Integers, SequencesExt

CONSTANTS
  BlockSize,      \* block_size, the option mo_block
  NbVideo,        \* nb_video, two for stereoscopic movies
  HasAudio,       \* is there an audio stream?
  VideoPeriod,    \* ticks of a video frame
  AudioPeriod,    \* ticks of an audio block of 256 samples
  SyncInterval,   \* SYNC_INTERVAL in ticks
  AudioShared,    \* bytes that the audio blocks of one chunk share
  AudioOwn,       \* bytes that each of them has of its own
  FrameSizes,     \* sizes of the video frames
  MaxVideo,       \* bound on the frames of a video stream
  MaxAudio        \* bound on the audio blocks

ASSUME MoflexAssumption ==
  /\ BlockSize \in 512 .. 65536
  /\ NbVideo \in 1 .. 2 /\ HasAudio \in BOOLEAN
  /\ VideoPeriod \in Nat \ {0, 1} /\ AudioPeriod \in Nat \ {0}
  /\ SyncInterval \in Nat \ {0}
  /\ AudioShared \in Nat /\ AudioOwn \in Nat \ {0}
  /\ FrameSizes \subseteq Nat \ {0}
  /\ MaxVideo \in Nat /\ MaxAudio \in Nat

VARIABLES
  vframes,    \* vframes[v]: frames of video v so far
  audio,      \* audio blocks so far, for audio_samples
  q,          \* the packets that wait to be interleaved
  phase,      \* "packets", "media", "front" or "written"
  w,          \* the writer of the buffer with the media, then of the front
  emit,       \* the frame being emitted and the bytes of it that are out
  sp,         \* the sync points recorded so far
  media,      \* the media, while the front is written
  file,       \* the file
  sent        \* history: the frames emitted, in order

muxVars == <<vframes, audio, q, phase, w, emit, sp, media, file, sent>>

-----------------------------------------------------------------------------
Videos   == 0 .. NbVideo - 1
data_ep  == NbVideo
audio_ep == NbVideo + 1

\* write_sync_header() with write_descriptors()
SyncBytes == 14 + NbVideo * 15 + 4 + (IF HasAudio THEN 8 ELSE 0) + 2

\* ep_nrbits(), ep_header_bytes()
NrBits(si) == IF si <= 1 THEN 1 ELSE 2
HeaderBits(si, end) == 2 * NrBits(si) + 1 + (IF end THEN 32 ELSE 0) + 13
HeaderBytes(si, end) == (HeaderBits(si, end) + 7) \div 8

None == -1
NewWriter(counter, next_sync) ==
  [bytes |-> <<>>, tell |-> 0, block_start |-> None, counter |-> counter,
   next_sync |-> next_sync, cur_sync |-> 0]

\* n bytes that stand for x.
Put(wr, x, n) == [wr EXCEPT !.bytes = (wr.tell :> x) @@ @, !.tell = @ + n]

\* The size takes 13 bits; what is more goes into the bits before it.
WriteEp(wr, f, from, size, end, rel) ==
  Put(wr, [kind |-> "ep", si |-> f.si, end |-> end, rel |-> rel, id |-> f.id,
           from |-> from, size |-> ((size - 1) % 8192) + 1, over |-> (size - 1) \div 8192],
      HeaderBytes(f.si, end) + size)

Larger(a, b) == IF a < b THEN b ELSE a

\* close_block_m(): a terminator, and zeros up to the end of the block.
CloseBlock(wr) ==
  IF wr.block_start = None THEN wr
  ELSE [Put(wr, [kind |-> "zero"], Larger(1, wr.block_start + BlockSize - wr.tell))
          EXCEPT !.block_start = None]

\* Mutant: every block gets a counter of its own.
WriteFlagsCounting(wr, start) ==
  [Put(wr, [kind |-> "flags", counter |-> wr.counter], 1) EXCEPT
     !.block_start = start, !.counter = (@ + 1) % 64]

\* The offset of the block being opened, and its flags byte.
WriteFlags(wr, start) ==
  [Put(wr, [kind |-> "flags", counter |-> wr.counter], 1) EXCEPT !.block_start = start]

WriteSync(wr, ts) == Put(wr, [kind |-> "sync", ts |-> ts], SyncBytes)

-----------------------------------------------------------------------------
(* open_block() *)

\* do_sync
SyncDue(pts, frame_start) == frame_start /\ (w.tell = 0 \/ pts >= w.next_sync)

\* The first multiple of the interval after next_sync that is later than pts.
NextSync(next, pts) ==
  next + SyncInterval * (1 + (pts - next) \div SyncInterval)

\* Mutant: the offset is taken behind the sync header.
SyncPointLate(pts) == [frame |-> pts \div VideoPeriod, ts |-> pts, off |-> w.tell + SyncBytes]

\* record_sync()
SyncPoint(pts) == [frame |-> pts \div VideoPeriod, ts |-> pts, off |-> w.tell]

OpenBlock(pts, frame_start) ==
  IF SyncDue(pts, frame_start)
  THEN WriteFlags([WriteSync(w, pts) EXCEPT
                     !.counter = (@ + 1) % 64, !.cur_sync = pts,
                     !.next_sync = IF w.tell = 0 THEN pts + SyncInterval
                                   ELSE NextSync(@, pts)],
                  w.tell)
  ELSE WriteFlags(w, w.tell)

\* The same in emit_front(), which has a sync header of its own.
OpenFrontBlock ==
  WriteFlags(IF w.tell = 0 THEN WriteSync(w, 1) ELSE w, w.tell)

-----------------------------------------------------------------------------
(* The loop of emit_frame(), and that of emit_front() *)

Remaining == emit.f.size - emit.off

\* A chunk with bytes more of the frame is written to the open block of wr.
Advance(bytes) == emit' = [emit EXCEPT !.off = @ + bytes]

\* The rest of the frame fits.
EmitRest(wr, rel) ==
  LET w2 == WriteEp(wr, emit.f, emit.off, Remaining, TRUE, rel)
  IN  /\ HeaderBytes(emit.f.si, TRUE) + Remaining <= wr.block_start + BlockSize - wr.tell
      /\ w' = IF w2.tell >= w2.block_start + BlockSize
              THEN [w2 EXCEPT !.block_start = None] ELSE w2
      /\ Advance(Remaining)

\* Mutant: all of the frame goes into a chunk that is not the last one.
PartAll(room) == IF room < Remaining THEN room ELSE Remaining

\* The bytes that go into a chunk which is not the last one.
Part(room) == IF room < Remaining THEN room ELSE Remaining - 1

\* A part of it fits, or nothing at all.
EmitPart(wr) ==
  LET avail == wr.block_start + BlockSize - wr.tell
      room == avail - HeaderBytes(emit.f.si, FALSE)
      payload == IF room > 0 THEN Part(room) ELSE 0
      w2 == IF payload > 0 THEN WriteEp(wr, emit.f, emit.off, payload, FALSE, 0) ELSE wr
  IN  /\ HeaderBytes(emit.f.si, TRUE) + Remaining > avail
      /\ w' = IF payload > 0 /\ room < Remaining
              THEN [w2 EXCEPT !.block_start = None] ELSE CloseBlock(w2)
      /\ Advance(payload)

EmitChunk(opened) ==
  LET wr == IF w.block_start = None THEN opened ELSE w
  IN  /\ Remaining > 0
      /\ EmitRest(wr, emit.f.pts - wr.cur_sync) \/ EmitPart(wr)

-----------------------------------------------------------------------------
(* moflex_write_packet(), drain_audio() *)

MuxInit ==
  /\ vframes = [v \in Videos |-> 0]
  /\ audio = 0
  /\ q = <<>>
  /\ phase = "packets"
  /\ w = NewWriter(2, 1 + SyncInterval)
  /\ emit = [f |-> [size |-> 0], off |-> 0]
  /\ sp = <<>>
  /\ media = <<>>
  /\ file = <<>>
  /\ sent = <<>>

\* A frame of video v; its time is counted, not taken from the packet.
WriteVideo(v, size) ==
  /\ phase = "packets"
  /\ vframes[v] < MaxVideo
  /\ q' = Append(q, [si |-> v, size |-> size, pts |-> 1 + vframes[v] * VideoPeriod,
                     first |-> vframes[v]])
  /\ vframes' = [vframes EXCEPT ![v] = @ + 1]
  /\ UNCHANGED <<audio, phase, w, emit, sp, media, file, sent>>

\* n blocks more that come out of the audio encoder.
AudioBlocks(n) ==
  [k \in 1 .. n |-> [si |-> audio_ep, size |-> AudioShared + AudioOwn,
                     pts |-> 1 + (audio + k - 1) * AudioPeriod, first |-> audio + k - 1]]

WriteAudio ==
  /\ phase = "packets"
  /\ HasAudio /\ audio < MaxAudio
  /\ q' = q \o AudioBlocks(1)
  /\ audio' = audio + 1
  /\ UNCHANGED <<vframes, phase, w, emit, sp, media, file, sent>>

-----------------------------------------------------------------------------
(* moflex_write_trailer() *)

\* q_cmp()
Earlier(x, y) == x.pts < y.pts \/ (x.pts = y.pts /\ x.si < y.si)

\* The audio encoder is flushed, and the queue is sorted.
Trailer ==
  /\ phase = "packets"
  /\ \E n \in 0 .. (IF HasAudio /\ audio < MaxAudio THEN 1 ELSE 0) :
       /\ q' = SortSeq(q \o AudioBlocks(n), Earlier)
       /\ audio' = audio + n
  /\ phase' = "media"
  /\ UNCHANGED <<vframes, w, emit, sp, media, file, sent>>

\* The consecutive audio blocks at the head of the queue.
Run == IF Head(q).si # audio_ep THEN 1
       ELSE CHOOSE n \in 1 .. Len(q) :
              /\ \A k \in 1 .. n : q[k].si = audio_ep
              /\ n = Len(q) \/ q[n + 1].si # audio_ep

\* They make one frame, with what they share written once.
Combined == IF Head(q).si # audio_ep THEN Head(q)
            ELSE [Head(q) EXCEPT !.size = AudioShared + Run * AudioOwn]

\* The start of emit_frame(): a sync is due, close the block before it.
BeforeFrame(pts) == IF pts >= w.next_sync THEN CloseBlock(w) ELSE w

NextFrame ==
  /\ phase = "media" /\ Remaining = 0
  /\ q # <<>>
  /\ LET f == Combined @@ [id |-> Len(sent) + 1]
     IN  /\ emit' = [f |-> f, off |-> 0]
         /\ w' = BeforeFrame(f.pts)
         /\ sent' = Append(sent, f)
  /\ q' = SubSeq(q, Run + 1, Len(q))
  /\ UNCHANGED <<vframes, audio, phase, sp, media, file>>

EmitMedia ==
  /\ phase = "media"
  /\ EmitChunk(OpenBlock(emit.f.pts, emit.off = 0))
  /\ sp' = IF w.block_start = None /\ SyncDue(emit.f.pts, emit.off = 0)
           THEN Append(sp, SyncPoint(emit.f.pts)) ELSE sp
  /\ UNCHANGED <<vframes, audio, q, phase, media, file, sent>>

\* The table of sync points is the first frame of the file, of stream data_ep.
Table == [si |-> data_ep, size |-> 16 + 24 * Len(sp), pts |-> 0, first |-> 0, id |-> 0]

MediaDone ==
  /\ phase = "media" /\ Remaining = 0 /\ q = <<>>
  /\ media' = CloseBlock(w)
  /\ w' = NewWriter(2, 0)
  /\ emit' = [f |-> Table, off |-> 0]
  /\ phase' = "front"
  /\ UNCHANGED <<vframes, audio, q, sp, file, sent>>

EmitFront ==
  /\ phase = "front"
  /\ EmitChunk(OpenFrontBlock)
  /\ UNCHANGED <<vframes, audio, q, phase, sp, media, file, sent>>

\* x, written n bytes further on.
Moved(x, n) == [o \in {p + n : p \in DOMAIN x} |-> x[o - n]]

\* The front, whose length the offsets of the table are moved by, and the media.
WriteFile ==
  /\ phase = "front" /\ Remaining = 0
  /\ LET front == CloseBlock(w)
     IN  /\ file' = front.bytes @@ Moved(media.bytes, front.tell)
         /\ sp' = [k \in DOMAIN sp |-> [sp[k] EXCEPT !.off = @ + front.tell]]
         /\ w' = [front EXCEPT !.tell = @ + media.tell]
  /\ phase' = "written"
  /\ UNCHANGED <<vframes, audio, q, emit, media, sent>>

MuxNext ==
  \/ \E v \in Videos, size \in FrameSizes : WriteVideo(v, size)
  \/ WriteAudio \/ Trailer \/ NextFrame \/ EmitMedia \/ MediaDone \/ EmitFront \/ WriteFile
=============================================================================
