----------------------------- MODULE FifoMuxer -----------------------------
(***************************************************************************)
(* libavformat/fifo.c: a muxer that hands its packets over to a thread of  *)
(* its own, which writes them to the real output.  One thread message      *)
(* queue between the two, with the user as its only sender and the writer  *)
(* as its only receiver; beside it the overflow flag, which has a lock of  *)
(* its own, and the atomic queue_duration.                                 *)
(*                                                                         *)
(* The output may fail when it is opened, written to or flushed, and is    *)
(* restarted as the options say.  Each action is one critical section, or  *)
(* work on what one thread owns, up to the next wait.  Messages have the   *)
(* number under which the queue has accepted them; a packet has the number *)
(* of its call as its timestamp.                                           *)
(***************************************************************************)
EXTENDS ThreadMessage

CONSTANTS
  user,         \* the thread that calls the muxer
  consumer,     \* fifo_consumer_thread()
  Options,      \* the options with which the muxer may be opened
  MaxPackets,   \* bound: packets and flushes offered by the user
  MaxFailures   \* bound: failures of the output

Option == [drop : BOOLEAN,        \* drop_pkts_on_overflow
           keyframe : BOOLEAN,    \* restart_with_keyframe
           recover : BOOLEAN,     \* attempt_recovery
           attempts : Nat,        \* max_recovery_attempts
           streamtime : BOOLEAN,  \* recovery_wait_streamtime
           timeshift : Nat]       \* timeshift, in packets

\* fifo_init() refuses stream time without dropping.  Threads other than these two
\* do not use the muxer's queue.
ASSUME FifoAssumption ==
  /\ user \in Senders /\ consumer \in Receivers
  /\ Options \subseteq Option
  /\ \A o \in Options : o.streamtime => o.drop
  /\ MaxPackets \in Nat /\ MaxFailures \in Nat

VARIABLES
  opt,                  \* the options
  upc,                  \* where the user is
  offered,              \* packets and flushes that the user has offered
  messages,             \* the messages accepted: type and timestamp
  last_sent_dts,        \* 0 for AV_NOPTS_VALUE
  elapsed,              \* time spent in fifo_write_trailer()
  overflow_flag,
  queue_duration,
  cpc,                  \* where the consumer is
  msg,                  \* the message in its hands; 0 is the one it starts with
  ret,                  \* "ok" or the error of the last message
  recovery_nr,          \* number of the current recovery attempt
  drop_until_keyframe,
  header_written,
  last_received_dts,
  written,              \* history: the packets written, in that order
  failures,             \* history: how often the output has failed
  overflowed,           \* history: a packet was refused
  failed                \* history: the consumer has given up

userVars     == <<upc, offered, last_sent_dts, elapsed, messages>>
consumerVars == <<cpc, msg, ret, recovery_nr, drop_until_keyframe, header_written,
                  last_received_dts, written, failures, failed>>
fifoVars     == <<vars, opt, userVars, overflow_flag, queue_duration, overflowed, consumerVars>>

Infinite == 1000   \* INT64_MAX

Packets  == {"key", "other"}
Errors   == {"transient", "permanent"}

\* The message fifo_consumer_thread() starts with is its own.
Type(n) == IF n > 0 THEN messages[n].type
           ELSE IF opt.timeshift > 0 THEN "noop" ELSE "header"

\* fifo_init() registers free_message(); the queue has to be big enough for the
\* timeshift, see the documentation of that option.
FifoInit ==
  /\ Init
  /\ FreeFunc
  /\ opt \in Options /\ opt.timeshift < NElem
  /\ upc = "new" /\ offered = 0 /\ messages = <<>> /\ last_sent_dts = 0 /\ elapsed = 0
  /\ overflow_flag = FALSE /\ queue_duration = 0
  /\ cpc = "none" /\ msg = 0 /\ ret = "ok" /\ recovery_nr = 0
  /\ drop_until_keyframe = FALSE /\ header_written = FALSE /\ last_received_dts = 0
  /\ written = <<>> /\ failures = 0 /\ overflowed = FALSE /\ failed = FALSE
-----------------------------------------------------------------------------
(* The user *)

shared == <<overflow_flag, queue_duration, overflowed>>
rest   == <<opt, overflow_flag, overflowed, consumerVars>>

\* fifo_write_header() creates the thread.
Start == /\ upc = "new"
         /\ upc' = "user" /\ cpc' = "top"
         /\ UNCHANGED <<vars, opt, offered, messages, last_sent_dts, elapsed, shared, msg, ret,
                        recovery_nr, drop_until_keyframe, header_written, last_received_dts,
                        written, failures, failed>>

StartFails == /\ upc = "new"
              /\ upc' = "done"
              /\ UNCHANGED <<vars, opt, offered, messages, last_sent_dts, elapsed, shared, consumerVars>>

\* The queue takes a message.
Accept(type, dts) == SendWrite(user) /\ messages' = Append(messages, [type |-> type, dts |-> dts])

\* fifo_write_packet(), up to the send.  Without dropping it waits for room.  The
\* kinds of packets are told apart only where it matters.
WritePacket(type) ==
  /\ upc = "user" /\ offered < MaxPackets
  /\ type = "flush" => opt.timeshift = 0
  /\ type = "other" => opt.keyframe
  /\ offered' = offered + 1
  /\ \/ SendErr(user) /\ upc' = "user" /\ UNCHANGED messages
     \/ ~opt.drop /\ SendBlock(user) /\ upc' = type /\ UNCHANGED messages
     \/ /\ opt.drop /\ ~err_send /\ Len(fifo) = NElem
        /\ upc' = "overflow"
        /\ UNCHANGED <<vars, messages>>
     \/ /\ Accept(type, offered')
        /\ upc' = IF opt.timeshift > 0 THEN "account" ELSE "user"
  /\ UNCHANGED <<last_sent_dts, elapsed, queue_duration, rest>>

\* The wait for room is over; upc tells what is being sent.
ResumeSend ==
  /\ pc[user] = "woken"
  /\ \/ SendErr(user) /\ upc' = "user" /\ UNCHANGED messages
     \/ SendBlock(user) /\ UNCHANGED <<upc, messages>>
     \/ /\ Accept(upc, offered)
        /\ upc' = IF opt.timeshift > 0 THEN "account" ELSE "user"
  /\ UNCHANGED <<offered, last_sent_dts, elapsed, queue_duration, rest>>

\* There was no room: the packet is dropped, and the consumer shall know of it.
SetOverflow ==
  /\ upc = "overflow"
  /\ overflow_flag' = TRUE /\ overflowed' = TRUE
  /\ upc' = "user"
  /\ UNCHANGED <<vars, opt, offered, messages, last_sent_dts, elapsed, queue_duration, consumerVars>>

\* next_duration(): the time since the previous packet, none for the first.  The
\* packets of all streams come in the order of their dts here.
Duration(dts, last) == IF last = 0 THEN 0 ELSE dts - last

\* The packet has been sent; the consumer may have it by now.
Account ==
  /\ upc = "account"
  /\ queue_duration' = queue_duration + Duration(offered, last_sent_dts)
  /\ last_sent_dts' = offered
  /\ upc' = "user"
  /\ UNCHANGED <<vars, offered, messages, elapsed, rest>>

\* Mutant: the consumer is not told.
TrailerSilently ==
  /\ upc = "user"
  /\ upc' = IF opt.timeshift > 0 THEN "shift" ELSE "join"
  /\ UNCHANGED <<vars, offered, messages, last_sent_dts, elapsed, queue_duration, rest>>

\* fifo_write_trailer()
Trailer ==
  /\ upc = "user"
  /\ SetErrRecv(user, TRUE)
  /\ upc' = IF opt.timeshift > 0 THEN "shift" ELSE "join"
  /\ UNCHANGED <<offered, messages, last_sent_dts, elapsed, queue_duration, rest>>

\* The time that passes is added until the timeshift is over.
PassTime ==
  /\ upc = "shift"
  /\ elapsed' = elapsed + 1
  /\ upc' = IF elapsed' > opt.timeshift THEN "join" ELSE "ping"
  /\ queue_duration' = IF elapsed' > opt.timeshift THEN Infinite ELSE queue_duration + 1
  /\ UNCHANGED <<vars, offered, messages, last_sent_dts, rest>>

\* An empty message, to see whether the consumer has gone.
Ping ==
  /\ upc = "ping"
  /\ \/ /\ SendErr(user) /\ upc' = "join" /\ queue_duration' = Infinite
        /\ UNCHANGED messages
     \/ /\ ~err_send /\ Len(fifo) = NElem /\ upc' = "shift"
        /\ UNCHANGED <<vars, messages, queue_duration>>
     \/ Accept("noop", 0) /\ upc' = "shift" /\ UNCHANGED queue_duration
  /\ UNCHANGED <<offered, last_sent_dts, elapsed, rest>>

Join == /\ upc = "join" /\ cpc = "exited"
        /\ upc' = "done"
        /\ UNCHANGED <<vars, offered, messages, last_sent_dts, elapsed, queue_duration, rest>>
-----------------------------------------------------------------------------
(* The consumer *)

others == <<opt, userVars>>

\* What became of a message: its error, what fifo_thread_dispatch_message() has set
\* in the context, and whether a packet was taken note of and written.
Untouched(header, drop) ==
  [ret |-> "ok", header |-> header, drop |-> drop, received |-> FALSE, wrote |-> FALSE]

\* fifo_thread_write_header(); unknown options are an error after the header.
HeaderFails(o, e, h) == [o EXCEPT !.ret = e, !.header = h]
Headers(o) ==
  IF o.header THEN {o}
  ELSE {[o EXCEPT !.header = TRUE]} \cup {HeaderFails(o, e, h) : e \in Errors, h \in BOOLEAN}

\* fifo_thread_write_packet()
WritesPacket(o) ==
  IF o.drop /\ Type(msg) = "other" THEN {[o EXCEPT !.received = TRUE]}
  ELSE {[o EXCEPT !.received = TRUE, !.drop = FALSE, !.wrote = TRUE]}
       \cup {[o EXCEPT !.received = TRUE, !.drop = FALSE, !.ret = e] : e \in Errors}

\* fifo_thread_flush_output()
Flushes(o) == {o} \cup {[o EXCEPT !.ret = e] : e \in Errors}

Outcomes(header, drop) ==
  LET ready == Headers(Untouched(header, drop)) IN
  IF Type(msg) = "noop" THEN {Untouched(header, drop)}
  ELSE IF Type(msg) = "header" THEN ready
  ELSE {o \in ready : o.ret # "ok"}
       \cup UNION {IF Type(msg) = "flush" THEN Flushes(o) ELSE WritesPacket(o)
                     : o \in {r \in ready : r.ret = "ok"}}

\* fifo_thread_dispatch_message() ends with one of its outcomes.
DispatchMessage(o) ==
  /\ failures' = failures + (IF o.ret = "ok" THEN 0 ELSE 1)
  /\ failures' <= MaxFailures
  /\ header_written' = o.header
  /\ drop_until_keyframe' = o.drop
  /\ IF o.received /\ opt.timeshift > 0
     THEN /\ queue_duration' = queue_duration - Duration(messages[msg].dts, last_received_dts)
          /\ last_received_dts' = messages[msg].dts
     ELSE UNCHANGED <<queue_duration, last_received_dts>>
  /\ written' = IF o.wrote THEN Append(written, msg) ELSE written

Dispatch ==
  /\ cpc = "top"
  /\ \E o \in Outcomes(header_written, drop_until_keyframe) :
       /\ DispatchMessage(o)
       /\ ret' = o.ret
       /\ cpc' = IF o.ret = "ok" THEN "check" ELSE "recover"
  /\ UNCHANGED <<vars, others, overflow_flag, overflowed, msg, recovery_nr, failed>>

IsRecoverable(e) == opt.recover /\ e # "permanent"

GiveUp ==
  /\ cpc = "recover" /\ ~IsRecoverable(ret)
  /\ cpc' = "fail" /\ failed' = TRUE
  /\ UNCHANGED <<vars, others, shared, msg, ret, recovery_nr, drop_until_keyframe,
                 header_written, last_received_dts, written, failures>>

\* Mutant: the message is given up in any case.
TryAgainNever == "check"

\* Where fifo_thread_recover() goes on after EAGAIN: with dropping the message is
\* given up, without it is tried again.
TryAgain == IF opt.drop THEN "check" ELSE "recover"

\* fifo_thread_attempt_recovery() before recovery_wait_time is over; the time of
\* the stream is never waited for.  The output is closed already.
TooEarly ==
  /\ cpc = "recover" /\ IsRecoverable(ret)
  /\ recovery_nr > 0 /\ ~opt.streamtime
  /\ header_written' = FALSE
  /\ cpc' = TryAgain
  /\ UNCHANGED <<vars, others, shared, msg, ret, recovery_nr, drop_until_keyframe,
                 last_received_dts, written, failures, failed>>

\* Mutant: the message that was recovered with is dispatched once more.
RecoveredAgain == "top"

\* Where the consumer goes on after a recovery: the message is dealt with.
Recovered == "check"

\* The number of the attempt; without a maximum it only matters that there is one.
NextAttempt == IF opt.attempts = 0 THEN 1 ELSE recovery_nr + 1

\* fifo_thread_attempt_recovery() closes the output and starts it again with the
\* message that failed.
AttemptRecovery ==
  /\ cpc = "recover" /\ IsRecoverable(ret)
  /\ \E o \in Outcomes(FALSE, drop_until_keyframe \/ (opt.keyframe /\ opt.drop)) :
       LET fatal == \/ o.ret = "permanent"
                    \/ o.ret = "transient" /\ opt.attempts > 0 /\ NextAttempt >= opt.attempts
       IN /\ DispatchMessage(o)
          /\ recovery_nr' = IF o.ret = "ok" THEN 0 ELSE NextAttempt
          /\ failed' = fatal
          /\ cpc' = IF o.ret = "ok" THEN Recovered ELSE IF fatal THEN "fail" ELSE TryAgain
  /\ UNCHANGED <<vars, others, overflow_flag, overflowed, msg, ret>>

\* Mutant: the packets after the gap are written at once.
CheckOverflowOnly ==
  /\ cpc = "check"
  /\ IF overflow_flag THEN Flush(consumer) ELSE UNCHANGED vars
  /\ overflow_flag' = FALSE
  /\ cpc' = IF opt.timeshift > 0 THEN "delay" ELSE "receive"
  /\ UNCHANGED <<others, queue_duration, overflowed, msg, ret, recovery_nr, drop_until_keyframe,
                 header_written, last_received_dts, written, failures, failed>>

\* The flag is looked at, and the queue flushed, under overflow_flag_lock.
CheckOverflow ==
  /\ cpc = "check"
  /\ IF overflow_flag THEN Flush(consumer) ELSE UNCHANGED vars
  /\ drop_until_keyframe' = (drop_until_keyframe \/ (overflow_flag /\ opt.keyframe))
  /\ overflow_flag' = FALSE
  /\ cpc' = IF opt.timeshift > 0 THEN "delay" ELSE "receive"
  /\ UNCHANGED <<others, queue_duration, overflowed, msg, ret, recovery_nr, header_written,
                 last_received_dts, written, failures, failed>>

\* Mutant: the packet that is waited for is not counted.
DelayLess ==
  /\ cpc = "delay" /\ queue_duration >= opt.timeshift - 1
  /\ cpc' = "receive"
  /\ UNCHANGED <<vars, others, shared, msg, ret, recovery_nr, drop_until_keyframe,
                 header_written, last_received_dts, written, failures, failed>>

Delay ==
  /\ cpc = "delay" /\ queue_duration >= opt.timeshift
  /\ cpc' = "receive"
  /\ UNCHANGED <<vars, others, shared, msg, ret, recovery_nr, drop_until_keyframe,
                 header_written, last_received_dts, written, failures, failed>>

\* av_thread_message_queue_recv(), which waits; during a recovery its message goes
\* to fifo_thread_recover() without having been dispatched.
Receive ==
  /\ cpc = "receive" /\ pc[consumer] \in {"idle", "woken"}
  /\ \/ RecvErr(consumer) /\ cpc' = "fail" /\ UNCHANGED <<msg, ret>>
     \/ RecvBlock(consumer) /\ UNCHANGED <<cpc, msg, ret>>
     \/ /\ RecvRead(consumer)
        /\ msg' = Head(fifo) /\ ret' = "ok"
        /\ cpc' = IF recovery_nr = 0 THEN "top" ELSE "recover"
  /\ UNCHANGED <<others, shared, recovery_nr, drop_until_keyframe, header_written,
                 last_received_dts, written, failures, failed>>

\* The end of the thread: later sends get the error, ...
SetError ==
  /\ cpc = "fail"
  /\ SetErrSend(consumer, TRUE)
  /\ cpc' = "trailer"
  /\ UNCHANGED <<others, shared, msg, ret, recovery_nr, drop_until_keyframe, header_written,
                 last_received_dts, written, failures, failed>>

\* ... and an output that has a header gets its trailer.
WriteTrailer ==
  /\ cpc = "trailer"
  /\ cpc' = "exited"
  /\ UNCHANGED <<vars, others, shared, msg, ret, recovery_nr, drop_until_keyframe,
                 header_written, last_received_dts, written, failures, failed>>

Consumer == \/ Dispatch \/ GiveUp \/ TooEarly \/ AttemptRecovery \/ CheckOverflow
            \/ Delay \/ Receive \/ SetError \/ WriteTrailer

Calls  == Trailer \/ \E type \in Packets \cup {"flush"} : WritePacket(type)
Inside == Start \/ StartFails \/ ResumeSend \/ SetOverflow \/ Account \/ PassTime \/ Ping \/ Join

Wakes == \E t \in Threads : SpuriousWake(t) /\ UNCHANGED <<opt, userVars, shared, consumerVars>>

FifoNext == Calls \/ Inside \/ Consumer \/ Wakes

\* A call of the user goes on when it can, and so does the consumer; output that
\* keeps failing is bounded by MaxFailures.
FifoSpec == FifoInit /\ [][FifoNext]_fifoVars /\ WF_fifoVars(Inside) /\ WF_fifoVars(Consumer)
-----------------------------------------------------------------------------
(* Properties *)

IsPacket(n) == messages[n].type \in Packets

InHand(n) == \/ \E i \in DOMAIN fifo : fifo[i] = n
             \/ cpc \in {"top", "recover"} /\ msg = n

\* Packets are written in the order in which they were accepted and none twice,
\* through failures, repeated attempts and restarts.
WrittenInOrder == \A i, j \in DOMAIN written : i < j => written[i] < written[j]

\* Without dropping no accepted packet is lost as long as the failures of the
\* output can be recovered from, and with it none is before something was dropped.
NothingLost ==
  ~failed /\ (opt.drop => ~overflowed /\ failures = 0) =>
    \A n \in 1 .. sent : IsPacket(n) => InHand(n) \/ \E i \in DOMAIN written : written[i] = n

\* With restart_with_keyframe, an output in which accepted packets are missing goes
\* on with a keyframe, whether they were flushed or given up in a recovery.
RestartsAtKey ==
  opt.keyframe =>
    \A i \in DOMAIN written :
      LET before == IF i = 1 THEN 0 ELSE written[i - 1] IN
      (\E n \in before + 1 .. written[i] - 1 : IsPacket(n)) => messages[written[i]].type = "key"

\* While the user goes on without dropping, a packet is not written before the time
\* from it on is in the queue that timeshift asks for, its own duration included.
TimeshiftKept ==
  upc \in {"user", "account", "key", "other"} /\ ~opt.drop /\ written # <<>> =>
    offered + 1 >= messages[written[Len(written)]].dts + opt.timeshift

\* Every call returns, the end with the join of the thread included.
CallsReturn == upc \notin {"user", "done"} ~> upc \in {"user", "done"}
=============================================================================
