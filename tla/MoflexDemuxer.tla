--------------------------- MODULE MoflexDemuxer ---------------------------
(***************************************************************************)
(* libavformat/moflex.c, the demuxer, reading the file that the muxer of   *)
(* MoflexMuxer has written.                                                *)
(*                                                                         *)
(* A chunk that the demuxer reads is the piece of the file at its offset.  *)
(* Where the file has no piece at that offset it takes payload for headers:*)
(* the model stops there, which TLC reports as a deadlock.                 *)
(***************************************************************************)
EXTENDS MoflexMuxer

VARIABLES
  reader,    \* "block", "chunks" or "eof"
  tell,      \* avio_tell()
  pos,       \* offset of the block being read
  ts,        \* time of the last sync header
  flags,     \* counter of the block being read, None before the first
  partial,   \* partial[si]: the chunks of the frame of stream si so far
  stream_pts,
  got        \* the packets returned

demuxVars == <<reader, tell, pos, ts, flags, partial, stream_pts, got>>
vars == <<muxVars, demuxVars>>

Streams == 0 .. IF HasAudio THEN audio_ep ELSE data_ep

DemuxInit ==
  /\ reader = "block"
  /\ tell = 0 /\ pos = 0 /\ ts = 0
  /\ flags = None
  /\ partial = [si \in Streams |-> <<>>]
  /\ stream_pts = [si \in Streams |-> 0]
  /\ got = <<>>

IsPiece(o, kind) == o \in DOMAIN file /\ file[o].kind = kind

-----------------------------------------------------------------------------
(* moflex_read_packet() *)

\* The end of the file is a length that the writer has counted.
Eof == tell >= w.tell

\* moflex_read_sync(), and the flags of the block.
ReadBlock ==
  /\ reader = "block" /\ ~Eof
  /\ LET at == IF IsPiece(tell, "sync") THEN tell + SyncBytes ELSE tell
     IN  /\ IsPiece(at, "flags")
         /\ flags' = file[at].counter
         /\ tell' = at + 1
  /\ pos' = tell
  /\ ts' = IF IsPiece(tell, "sync") THEN file[tell].ts ELSE ts
  /\ reader' = "chunks"
  /\ UNCHANGED <<partial, stream_pts, got>>

\* What a packet of the stream adds to its clock.
Duration(si, size) ==
  CASE si \in Videos  -> 1
    [] si = audio_ep  -> (size - AudioShared) \div AudioOwn
    [] OTHER          -> 0

SizeOf(parts) == FoldLeft(LAMBDA n, c : n + c.size, 0, parts)

InBlock == tell < pos + BlockSize /\ ~Eof

\* A chunk is appended; the last one of a frame makes the packet be returned.
ReadChunk ==
  /\ reader = "chunks" /\ InBlock
  /\ IsPiece(tell, "ep")
  /\ LET c == file[tell]
         parts == Append(partial[c.si], [id |-> c.id, from |-> c.from, size |-> c.size])
     IN  /\ c.end \/ c.over = 0
         /\ c.size <= BlockSize
         /\ tell' = tell + HeaderBytes(c.si, c.end) + c.size
         /\ IF c.end
            THEN /\ got' = Append(got, [si |-> c.si, parts |-> parts, pts |-> stream_pts[c.si]])
                 /\ stream_pts' = [stream_pts EXCEPT ![c.si] = @ + Duration(c.si, SizeOf(parts))]
                 /\ partial' = [partial EXCEPT ![c.si] = <<>>]
            ELSE /\ partial' = [partial EXCEPT ![c.si] = parts]
                 /\ UNCHANGED <<stream_pts, got>>
  /\ UNCHANGED <<reader, pos, ts, flags>>

\* A zero, or the end of the block: on to where the next one should be.
EndBlock ==
  /\ reader = "chunks"
  /\ ~InBlock \/ IsPiece(tell, "zero")
  /\ tell' = pos + BlockSize
  /\ reader' = "block"
  /\ UNCHANGED <<pos, ts, flags, partial, stream_pts, got>>

ReadEof ==
  /\ reader = "block" /\ Eof
  /\ reader' = "eof"
  /\ UNCHANGED <<tell, pos, ts, flags, partial, stream_pts, got>>

\* After the end of the file there is nothing to do; elsewhere the demuxer
\* must find a piece that it can read.
AtEnd == reader = "eof" /\ UNCHANGED demuxVars

DemuxNext == ReadBlock \/ ReadChunk \/ EndBlock \/ ReadEof \/ AtEnd

-----------------------------------------------------------------------------
Init == MuxInit /\ DemuxInit

Next ==
  \/ MuxNext /\ UNCHANGED demuxVars
  \/ phase = "written" /\ DemuxNext /\ UNCHANGED muxVars

Spec == Init /\ [][Next]_vars

-----------------------------------------------------------------------------
(* Properties *)

\* The variables keep their types: in particular every block starts at a
\* multiple of the block size, holds at most that many bytes, and the media and
\* the file are whole blocks (moflexenc.c:70-74).
TypeOK ==
  /\ vframes \in [Videos -> 0 .. MaxVideo]
  /\ audio \in 0 .. MaxAudio
  /\ phase \in {"packets", "media", "front", "written"}
  /\ reader \in {"block", "chunks", "eof"}
  /\ w.counter \in 0 .. 63
  /\ emit.off \in 0 .. emit.f.size
  /\ w.block_start # None =>
       w.block_start % BlockSize = 0 /\ w.tell - w.block_start \in 1 .. BlockSize - 1
  /\ w.block_start = None => w.tell % BlockSize = 0
  /\ \A k \in DOMAIN sp : sp[k].off % BlockSize = 0

\* The frames that the file holds, the table first.
Frames == <<Table>> \o sent

\* The chunks put together are the frame f, from its first byte to its last.
Whole(parts, f) ==
  /\ \A k \in DOMAIN parts : parts[k].id = f.id
  /\ parts[1].from = 0
  /\ \A k \in 1 .. Len(parts) - 1 : parts[k + 1].from = parts[k].from + parts[k].size
  /\ Last(parts).from + Last(parts).size = f.size

\* The demuxer returns the frames that the muxer has been given, each of them
\* whole, in the order of their times, and with the time that it has in its
\* stream: the number of a video frame, the samples before an audio packet.
\* However the frames fall on the blocks, none is lost, cut or joined to
\* another (the doc of the option mo_block, doc/muxers.texi:3184).
PacketsComeBack ==
  /\ \A k \in DOMAIN got :
       /\ k <= Len(Frames)
       /\ got[k].si = Frames[k].si /\ got[k].pts = Frames[k].first
       /\ Whole(got[k].parts, Frames[k])
  /\ reader = "eof" => Len(got) = Len(Frames)

\* A player that discards what it has of a frame when the counter of the blocks
\* changes (moflexenc.c:337-342), and that stops when a counter is missing
\* (moflexenc.c:17-20), plays everything: the counter changes by one, at a
\* block with a sync header, and never inside of a frame.
SyncKeepsFrames ==
  [][flags' # flags /\ flags # None =>
       /\ flags' = (flags + 1) % 64
       /\ IsPiece(tell, "sync")
       /\ \A si \in Streams : partial[si] = <<>>]_flags

\* Each entry of the table leads to a sync header of the time of the entry, and
\* the first frame after it starts there, at that time: that is what seeking by
\* the table needs (moflexenc.c:28-37).
SeekTable ==
  phase = "written" =>
    \A k \in DOMAIN sp :
      LET first == sp[k].off + SyncBytes + 1
      IN  /\ IsPiece(sp[k].off, "sync") /\ file[sp[k].off].ts = sp[k].ts
          /\ IsPiece(first, "ep") /\ file[first].from = 0
          /\ sent[file[first].id].pts = sp[k].ts
          /\ k > 1 => sp[k].frame > sp[k - 1].frame

\* A player that adds the time in the last chunk of a frame to that of the last
\* sync header, as the 3DS player does, gets the time of the frame; what it
\* adds is less than the interval of the sync headers (moflexenc.c:213-215).
PlayerTime ==
  (phase = "written" /\ reader = "chunks" /\ IsPiece(tell, "ep")) =>
    LET c == file[tell]
    IN  (c.end /\ c.si # data_ep) =>
          /\ ts + c.rel = sent[c.id].pts
          /\ c.rel \in 0 .. SyncInterval - 1

\* The file as a player finds it: whole blocks, a table that leads to where it
\* says, and times that add up.
FileLayout == TypeOK /\ SeekTable /\ PlayerTime
=============================================================================
