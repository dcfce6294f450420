------------------------------ MODULE Channel ------------------------------
(***************************************************************************)
(* The channel to a child whose pipes this process owns: DuplexChannel     *)
(* (duplex.py) and FramedStdioChannel (framed_channel.py), which replaces  *)
(* the reader and adds operations.                                         *)
(*                                                                         *)
(* Three threads serve the pipes of the child.  The callers of the         *)
(* operations share two bounded queues with them, an event for every       *)
(* failure, a lock that only ever turns competitors away, and a lock that  *)
(* closing waits for.  All waiting is in short turns with a look at the    *)
(* deadline in between; a caller's clock is just whether its deadline has  *)
(* passed.                                                                 *)
(*                                                                         *)
(* A frame has the number it was written under, and the request it         *)
(* answers, or 0.                                                          *)
(***************************************************************************)
EXTENDS Naturals, Sequences

CONSTANTS
  Caller,        \* threads of the host
  Setting,       \* the channels a behaviour may be about
  MaxQueued,     \* frames the queue holds, 16
  MaxCalls,      \* bound on the operations begun, other than close
  MaxEmitted     \* bound on the frames the child writes

Streaming == {"write", "read", "assert_usable", "assert_idle"}
Operation == Streaming \union {"exchange"}

(* A channel: its class, the operations each caller uses, whether the      *)
(* child has a descendant, how often it speaks unasked, whether it may     *)
(* write more than it is allowed to, how many calls are made and how many  *)
(* terminations, waits and counts of the Job fail.                         *)
ASSUME ChannelAssumption ==
  /\ \A s \in Setting :
       /\ s.framed \in BOOLEAN /\ s.helper \in BOOLEAN /\ s.floods \in BOOLEAN
       /\ {s.noise, s.faults} \subseteq Nat /\ s.calls \in 0..MaxCalls
       /\ \A c \in Caller :
            s.operations[c] \subseteq
              {"exchange", "close"} \union (IF s.framed THEN Streaming ELSE {})
  /\ MaxQueued \in Nat \ {0} /\ {MaxCalls, MaxEmitted} \subseteq Nat

VARIABLES
  setting,       \* one of Setting, for ever
  \* the child and its Job
  root, helper,  \* whether the child and its descendant are alive
  killed,        \* the Job was terminated
  stdin, stdout, \* the pipes
  owed,          \* the request the child has begun to answer, or 0
  \* the threads
  out,           \* the reader of stdout
  chunk,         \* what it has read and not dealt with
  pending,       \* the beginning of a frame
  err, in,       \* the reader of stderr, the writer
  writing,       \* the request the writer has taken
  \* shared
  frames,        \* self._frames
  writes,        \* self._writes
  failed, closed,
  done,          \* the requests whose event is set
  io,            \* who holds self._io_lock
  closing,       \* who holds self._close_lock
  \* the callers
  op, pc, request, expired,
  kept,          \* the frame that read is about to return
  \* history
  calls, faults, noise,
  emitted,       \* frames the child has written completely
  delivered,     \* frames that were returned
  answers        \* what exchange returned: request and frame

fixed   == setting
job     == <<root, helper, killed>>
pipes   == <<stdin, stdout, owed, emitted, noise>>
reader  == <<out, chunk, pending>>
threads == <<reader, err, in, writing>>
queues  == <<frames, writes>>
flags   == <<failed, closed, done>>
locks   == <<io, closing>>
callers == <<op, pc, request, expired, kept>>
returns == <<delivered, answers>>
counted == <<calls, faults>>
vars    == <<fixed, job, pipes, threads, queues, flags, locks, callers, returns, counted>>

Nobody == "nobody"
ASSUME NobodyAssumption == Nobody \notin Caller

(* What goes through stdout.                                               *)
Part    == [kind |-> "part", no |-> 0, to |-> 0]
TooMuch == [kind |-> "too_much", no |-> 0, to |-> 0]
Frame(no, to) == [kind |-> "frame", no |-> no, to |-> to]
End     == [kind |-> "end", no |-> 0, to |-> 0]     \* None in the queue of frames
Stop    == 0                                        \* None in the queue of writes

Requests == 1..MaxCalls
PipesHeld == root \/ helper

Init ==
  /\ setting \in Setting
  /\ root = TRUE /\ helper = setting.helper /\ killed = FALSE
  /\ stdin = <<>> /\ stdout = <<>> /\ owed = 0 /\ emitted = 0 /\ noise = 0
  /\ out = "looking" /\ chunk = <<>> /\ pending = FALSE
  /\ err = "reading" /\ in = "waiting" /\ writing = 0
  /\ frames = <<>> /\ writes = <<>>
  /\ failed = FALSE /\ closed = FALSE /\ done = {}
  /\ io = Nobody /\ closing = Nobody
  /\ op = [c \in Caller |-> "none"] /\ pc = [c \in Caller |-> "idle"]
  /\ request = [c \in Caller |-> 0] /\ expired = [c \in Caller |-> FALSE]
  /\ kept = [c \in Caller |-> End]
  /\ delivered = <<>> /\ answers = {}
  /\ calls = 0 /\ faults = 0

-----------------------------------------------------------------------------
(* The child.  It takes requests in order and answers each with one frame, *)
(* in its own time and in pieces; unasked frames are a matter of the       *)
(* setting.                                                                *)
Begin ==
  /\ root /\ owed = 0 /\ stdin # <<>> /\ emitted < MaxEmitted
  /\ owed' = Head(stdin) /\ stdin' = Tail(stdin)
  /\ stdout' = Append(stdout, Part)
  /\ UNCHANGED <<fixed, job, emitted, noise, threads, queues, flags, locks, callers,
                 returns, counted>>

Answer ==
  /\ root /\ owed # 0
  /\ emitted' = emitted + 1
  /\ stdout' = Append(stdout, Frame(emitted', owed))
  /\ owed' = 0
  /\ UNCHANGED <<fixed, job, stdin, noise, threads, queues, flags, locks, callers,
                 returns, counted>>

Speak ==
  /\ root /\ owed = 0 /\ noise < setting.noise /\ emitted < MaxEmitted
  /\ noise' = noise + 1 /\ emitted' = emitted + 1
  /\ stdout' = Append(stdout, Frame(emitted', 0))
  /\ UNCHANGED <<fixed, job, stdin, owed, threads, queues, flags, locks, callers,
                 returns, counted>>

Flood ==
  /\ root /\ setting.floods /\ TooMuch \notin {stdout[i] : i \in DOMAIN stdout}
  /\ stdout' = Append(stdout, TooMuch)
  /\ UNCHANGED <<fixed, job, stdin, owed, emitted, noise, threads, queues, flags, locks,
                 callers, returns, counted>>

(* It ends by itself, or some time after the Job was terminated.           *)
RootEnds ==
  /\ root /\ root' = FALSE
  /\ UNCHANGED <<fixed, helper, killed, pipes, threads, queues, flags, locks, callers,
                 returns, counted>>

HelperEnds ==
  /\ helper /\ helper' = FALSE
  /\ UNCHANGED <<fixed, root, killed, pipes, threads, queues, flags, locks, callers,
                 returns, counted>>

-----------------------------------------------------------------------------
(* _stdout.  It looks whether the channel has failed, takes what is there  *)
(* in one piece and deals with it frame by frame.                          *)
Look ==
  /\ out = "looking" /\ chunk = <<>>
  /\ out' = IF failed THEN "ended" ELSE "reading"
  /\ UNCHANGED <<fixed, job, pipes, chunk, pending, err, in, writing, queues, flags,
                 locks, callers, returns, counted>>

(* The streaming reader holds the buffer lock while it reads and deals. It *)
(* never waits in a read, but looks again.                                 *)
FindNothing ==
  /\ setting.framed
  /\ out = "reading" /\ chunk = <<>> /\ stdout = <<>> /\ PipesHeld
  /\ out' = "looking"
  /\ UNCHANGED <<fixed, job, pipes, chunk, pending, err, in, writing, queues, flags,
                 locks, callers, returns, counted>>

Read ==
  /\ out = "reading" /\ chunk = <<>> /\ stdout # <<>>
  /\ chunk' = stdout /\ stdout' = <<>>
  /\ UNCHANGED <<fixed, job, stdin, owed, emitted, noise, out, pending, err, in,
                 writing, queues, flags, locks, callers, returns, counted>>

(* Mutant: the oldest frame makes room for the newest.                     *)
PutDropping(item) ==
  /\ frames' = Append(IF Len(frames) < MaxQueued THEN frames ELSE Tail(frames), item)
  /\ UNCHANGED failed

(* _put                                                                    *)
Put(item) ==
  IF Len(frames) < MaxQueued
  THEN frames' = Append(frames, item) /\ UNCHANGED failed
  ELSE failed' = TRUE /\ UNCHANGED frames

(* A frame that finds the queue full is gone; the ones behind it in the    *)
(* same chunk are put all the same.                                        *)
Deal ==
  /\ out = "reading" /\ chunk # <<>>
  /\ CASE Head(chunk).kind = "part" ->
            pending' = TRUE /\ UNCHANGED <<frames, failed>>
       [] Head(chunk).kind = "frame" ->
            pending' = FALSE /\ Put(Head(chunk))
       [] OTHER ->
            pending' = TRUE /\ failed' = TRUE /\ UNCHANGED frames
  /\ chunk' = IF Head(chunk) = TooMuch THEN <<>> ELSE Tail(chunk)
  /\ out' = CASE Head(chunk) = TooMuch -> "ended"
              [] Head(chunk) # TooMuch /\ chunk' = <<>> -> "looking"
              [] OTHER -> "reading"
  /\ UNCHANGED <<fixed, job, pipes, err, in, writing, writes, closed, done, locks,
                 callers, returns, counted>>

EndOfOutput ==
  /\ out = "reading" /\ chunk = <<>> /\ stdout = <<>> /\ ~PipesHeld
  /\ out' = "ended"
  /\ IF pending
     THEN /\ failed' = TRUE
          /\ frames' = IF Len(frames) < MaxQueued THEN Append(frames, End) ELSE frames
     ELSE Put(End)
  /\ UNCHANGED <<fixed, job, pipes, chunk, pending, err, in, writing, writes, closed,
                 done, locks, callers, returns, counted>>

(* _stderr: it ends with its pipe, as soon as too much was written, or     *)
(* when it comes back from a read and the channel has failed.              *)
StderrEnds ==
  /\ err = "reading"
  /\ \/ (~PipesHeld \/ failed) /\ UNCHANGED failed
     \/ PipesHeld /\ setting.floods /\ failed' = TRUE
  /\ err' = "ended"
  /\ UNCHANGED <<fixed, job, pipes, reader, in, writing, queues, closed, done, locks,
                 callers, returns, counted>>

(* _stdin                                                                  *)
Fetch ==
  /\ in = "waiting" /\ writes # <<>>
  /\ writes' = <<>>
  /\ IF Head(writes) = Stop
     THEN in' = "ended" /\ UNCHANGED writing
     ELSE in' = "writing" /\ writing' = Head(writes)
  /\ UNCHANGED <<fixed, job, pipes, reader, err, frames, flags, locks, callers,
                 returns, counted>>

(* The child may leave a request unread in the pipe, and the pipe full.    *)
WriteOut ==
  /\ in = "writing"
  /\ IF PipesHeld
     THEN /\ stdin = <<>>
          /\ stdin' = <<writing>> /\ done' = done \union {writing}
          /\ in' = "waiting" /\ UNCHANGED failed
     ELSE /\ failed' = TRUE /\ in' = "ended" /\ UNCHANGED <<stdin, done>>
  /\ writing' = 0
  /\ UNCHANGED <<fixed, job, stdout, owed, emitted, noise, reader, err, queues, closed,
                 locks, callers, returns, counted>>

Stdout == Look \/ FindNothing \/ Read \/ Deal \/ EndOfOutput

Thread == Stdout \/ StderrEnds \/ Fetch \/ WriteOut

-----------------------------------------------------------------------------
(* The operations.  A call goes through pc from "check" to the end; "lock" *)
(* is where it closes the channel because of an error.                     *)

Go(c, to) == pc' = [pc EXCEPT ![c] = to]

(* Mutant: a call does not give up the channel.                            *)
ReturnHolding(c) ==
  /\ Go(c, "idle")
  /\ op' = [op EXCEPT ![c] = "none"] /\ request' = [request EXCEPT ![c] = 0]
  /\ expired' = [expired EXCEPT ![c] = FALSE] /\ kept' = [kept EXCEPT ![c] = End]
  /\ UNCHANGED io

(* The finally clauses.                                                    *)
Return(c) ==
  /\ Go(c, "idle")
  /\ op' = [op EXCEPT ![c] = "none"] /\ request' = [request EXCEPT ![c] = 0]
  /\ expired' = [expired EXCEPT ![c] = FALSE] /\ kept' = [kept EXCEPT ![c] = End]
  /\ io' = IF io = c THEN Nobody ELSE io

Deliver(c, frame) ==
  /\ Return(c)
  /\ delivered' = Append(delivered, frame)

InCall == <<op, request, expired, kept, io>>

(* A call that finds the channel taken is refused at once, and that is all *)
(* that happens.                                                           *)
Call(c, o) ==
  /\ pc[c] = "idle" /\ calls < setting.calls
  /\ o \in setting.operations[c] \ {"close"}
  /\ io = Nobody
  /\ calls' = calls + 1
  /\ op' = [op EXCEPT ![c] = o] /\ Go(c, "check")
  /\ io' = c
  /\ UNCHANGED <<fixed, job, pipes, threads, queues, flags, closing, request, expired,
                 kept, returns, faults>>

CallClose(c) ==
  /\ pc[c] = "idle" /\ ~closed
  /\ "close" \in setting.operations[c]
  /\ op' = [op EXCEPT ![c] = "close"] /\ Go(c, "lock")
  /\ UNCHANGED <<fixed, job, pipes, threads, queues, flags, locks, request, expired,
                 kept, returns, counted>>

(* The deadline of a call passes.                                          *)
Expire(c) ==
  /\ pc[c] \in {"check", "put", "done", "recheck", "get", "got"} /\ ~expired[c]
  /\ op[c] \in {"exchange", "write", "read"}
  /\ expired' = [expired EXCEPT ![c] = TRUE]
  /\ UNCHANGED <<fixed, job, pipes, threads, queues, flags, locks, op, pc, request,
                 kept, returns, counted>>

Usable(o) ==
  IF o = "exchange" THEN ~closed /\ ~failed /\ frames = <<>>
  ELSE ~closed /\ ~failed /\ root

(* Mutant: the deadline is not looked at.                                  *)
LateOnFailure(c) == failed

(* _check_deadline                                                         *)
Late(c) == failed \/ expired[c]

Check(c) ==
  /\ pc[c] = "check"
  /\ \/ /\ ~Usable(op[c]) \/ (op[c] = "write" /\ Late(c))
        /\ Go(c, "lock") /\ UNCHANGED InCall
     \/ /\ Usable(op[c])
        /\ CASE op[c] = "exchange" \/ (op[c] = "write" /\ ~Late(c)) ->
                  Go(c, "put") /\ UNCHANGED InCall
             [] op[c] = "read" -> Go(c, "recheck") /\ UNCHANGED InCall
             [] op[c] = "assert_idle" -> Go(c, "idle_check") /\ UNCHANGED InCall
             [] op[c] = "assert_usable" -> Return(c)
             [] OTHER -> FALSE
  /\ UNCHANGED <<fixed, job, pipes, threads, queues, flags, closing, returns, counted>>

(* Mutant: the lock on the buffer is not taken.                            *)
BufferFreeAnyhow == TRUE

BufferFree == chunk = <<>> \/ out = "ended"

IdleCheck(c) ==
  /\ pc[c] = "idle_check" /\ BufferFree
  /\ IF ~pending /\ frames = <<>> /\ stdout = <<>> /\ PipesHeld
     THEN Return(c) ELSE Go(c, "lock") /\ UNCHANGED InCall
  /\ UNCHANGED <<fixed, job, pipes, threads, queues, flags, closing, returns, counted>>

(* put_nowait.  exchange does not catch queue.Full, and leaves the channel *)
(* to whoever has filled the queue.                                        *)
Submit(c) ==
  /\ pc[c] = "put"
  /\ \/ /\ writes = <<>>
        /\ writes' = <<calls>> /\ request' = [request EXCEPT ![c] = calls]
        /\ Go(c, "done") /\ UNCHANGED <<op, expired, kept, io>>
     \/ /\ writes # <<>> /\ op[c] = "exchange"
        /\ Return(c) /\ UNCHANGED writes
     \/ /\ writes # <<>> /\ op[c] = "write"
        /\ Go(c, "lock") /\ UNCHANGED <<writes, InCall>>
  /\ UNCHANGED <<fixed, job, pipes, threads, frames, flags, closing, returns, counted>>

AwaitDone(c) ==
  /\ pc[c] = "done"
  /\ \/ /\ request[c] \in done /\ op[c] = "exchange"
        /\ Go(c, "recheck") /\ UNCHANGED InCall
     \/ /\ request[c] \in done /\ op[c] = "write" /\ ~Late(c)
        /\ Return(c)
     \/ /\ Late(c) /\ (op[c] = "write" \/ request[c] \notin done)
        /\ Go(c, "lock") /\ UNCHANGED InCall
  /\ UNCHANGED <<fixed, job, pipes, threads, queues, flags, closing, returns, counted>>

(* Mutant: a call that is late leaves the channel open.                    *)
RecheckOnly(c) ==
  /\ pc[c] = "recheck"
  /\ IF Late(c) THEN Return(c) ELSE Go(c, "get") /\ UNCHANGED InCall
  /\ UNCHANGED <<fixed, job, pipes, threads, queues, flags, closing, returns, counted>>

Recheck(c) ==
  /\ pc[c] = "recheck"
  /\ Go(c, IF Late(c) THEN "lock" ELSE "get")
  /\ UNCHANGED <<fixed, job, pipes, threads, queues, flags, locks, op, request, expired,
                 kept, returns, counted>>

(* exchange returns what it gets, read looks at its deadline once more.    *)
Get(c) ==
  /\ pc[c] = "get"
  /\ IF frames = <<>>
     THEN Go(c, "recheck") /\ UNCHANGED <<InCall, frames, returns>>
     ELSE /\ frames' = Tail(frames)
          /\ CASE Head(frames) = End ->
                    Go(c, "lock") /\ UNCHANGED <<InCall, returns>>
               [] Head(frames) # End /\ op[c] = "exchange" ->
                    /\ Deliver(c, Head(frames))
                    /\ answers' = answers \union {<<request[c], Head(frames)>>}
               [] OTHER ->
                    /\ kept' = [kept EXCEPT ![c] = Head(frames)] /\ Go(c, "got")
                    /\ UNCHANGED <<op, request, expired, io, returns>>
  /\ UNCHANGED <<fixed, job, pipes, threads, writes, flags, closing, counted>>

Got(c) ==
  /\ pc[c] = "got"
  /\ IF Late(c)
     THEN Go(c, "lock") /\ UNCHANGED <<InCall, delivered>>
     ELSE Deliver(c, kept[c])
  /\ UNCHANGED <<fixed, job, pipes, threads, queues, flags, closing, answers, counted>>

-----------------------------------------------------------------------------
(* close.  What was begun under the lock is taken up again by the next     *)
(* close when a step of it fails.                                          *)

ClosePaused == <<fixed, pipes, threads, frames, done, returns, calls>>

CloseFails(c) ==
  /\ closing' = Nobody /\ Return(c)
  /\ UNCHANGED <<job, writes, failed, closed>>

Fault == faults < setting.faults /\ faults' = faults + 1

Lock(c) ==
  /\ pc[c] = "lock" /\ closing = Nobody
  /\ IF closed
     THEN Return(c) /\ UNCHANGED <<failed, closing>>
     ELSE /\ failed' = TRUE /\ closing' = c
          /\ Go(c, "kill") /\ UNCHANGED InCall
  /\ UNCHANGED <<ClosePaused, job, writes, closed, faults>>

Kill(c) ==
  /\ pc[c] = "kill"
  /\ \/ /\ killed' = TRUE /\ Go(c, "wait")
        /\ UNCHANGED <<InCall, closing, root, helper, writes, failed, closed, faults>>
     \/ Fault /\ CloseFails(c)
  /\ UNCHANGED ClosePaused

(* Mutant: the writer is not told.                                         *)
StopWriterNot == UNCHANGED writes

StopWriter == writes' = IF writes = <<>> THEN <<Stop>> ELSE writes

Wait(c) ==
  /\ pc[c] = "wait"
  /\ \/ /\ ~root /\ StopWriter /\ Go(c, "join")
        /\ UNCHANGED <<InCall, closing, job, failed, closed, faults>>
     \/ root /\ CloseFails(c) /\ UNCHANGED faults
     \/ Fault /\ CloseFails(c)
  /\ UNCHANGED ClosePaused

(* Mutant: the writer is left to itself.                                   *)
EndedReaders == out = "ended" /\ err = "ended"

Ended == out = "ended" /\ err = "ended" /\ in = "ended"

Join(c) ==
  /\ pc[c] = "join"
  /\ \/ Ended /\ Go(c, "quiet") /\ UNCHANGED <<InCall, closing, job, writes, failed, closed>>
     \/ ~Ended /\ CloseFails(c)
  /\ UNCHANGED <<ClosePaused, faults>>

Quiet(c) ==
  /\ pc[c] = "quiet"
  /\ \/ /\ ~PipesHeld /\ closed' = TRUE
        /\ closing' = Nobody /\ Return(c)
        /\ UNCHANGED <<job, writes, failed, faults>>
     \/ PipesHeld /\ CloseFails(c) /\ UNCHANGED faults
     \/ Fault /\ CloseFails(c)
  /\ UNCHANGED ClosePaused

Step(c) ==
  \/ Check(c) \/ IdleCheck(c) \/ Submit(c) \/ AwaitDone(c) \/ Recheck(c) \/ Get(c) \/ Got(c)
  \/ Lock(c) \/ Kill(c) \/ Wait(c) \/ Join(c) \/ Quiet(c)

-----------------------------------------------------------------------------
Child == Begin \/ Answer \/ Speak \/ Flood \/ RootEnds \/ HelperEnds

Next ==
  \/ Child \/ Thread
  \/ \E c \in Caller :
       \/ (\E o \in Operation : Call(c, o))
       \/ CallClose(c) \/ Expire(c) \/ Step(c)

Spec == Init /\ [][Next]_vars

(* What is fair: every thread and every call that can go on does; a        *)
(* deadline passes; a Job that was terminated comes to its end; and a host *)
(* whose channel has failed closes it, again and again until that succeeds *)
(* (06-owned-mcp-frames.md: "the next close does not silently succeed").   *)
(* Nothing is expected of the child.                                       *)
FairSpec ==
  /\ Spec
  /\ WF_vars(Stdout)
  /\ WF_vars(~PipesHeld /\ StderrEnds)
  /\ WF_vars(Fetch) /\ WF_vars(WriteOut)
  /\ WF_vars(killed /\ RootEnds) /\ WF_vars(killed /\ HelperEnds)
  /\ \A c \in Caller :
       WF_vars(Step(c)) /\ WF_vars(Expire(c)) /\ WF_vars(failed /\ CallClose(c))

-----------------------------------------------------------------------------
(* The shape of the state: the queues are within their bounds, and the     *)
(* locks are held by those, and only by those, who are in a place where    *)
(* they need them.                                                         *)
TypeOK ==
  /\ setting \in Setting
  /\ {root, helper, killed, pending, failed, closed} \subseteq BOOLEAN
  /\ owed \in 0..MaxCalls /\ emitted \in 0..MaxEmitted
  /\ out \in {"looking", "reading", "ended"} /\ err \in {"reading", "ended"}
  /\ in \in {"waiting", "writing", "ended"} /\ (writing # 0 <=> in = "writing")
  /\ Len(frames) <= MaxQueued /\ Len(writes) <= 1 /\ Len(stdin) <= 1
  /\ done \subseteq Requests
  /\ \A c \in Caller :
       /\ op[c] \in Operation \union {"none", "close"} /\ (op[c] = "none" <=> pc[c] = "idle")
       /\ io = c <=> op[c] \in Operation
       /\ closing = c <=> pc[c] \in {"kill", "wait", "join", "quiet"}
       /\ request[c] \in 0..MaxCalls /\ expired[c] \in BOOLEAN
  /\ calls \in 0..MaxCalls /\ faults \in 0..setting.faults

(* Of the frames the child has written, those that are returned are the    *)
(* first ones, in their order: none is passed over, not even one that      *)
(* found the queue full, and none comes twice, whoever asks for them       *)
(* (duplex.py:45-72, framed_channel.py:53-92, 154-174).                    *)
InOrder == \A i \in DOMAIN delivered : delivered[i].no = i

(* To a child that speaks only when asked, and that has had one request at *)
(* a time, exchange returns the answer to its own request.  An answer that *)
(* came too late is never taken for that to a later one (duplex.py:107-136; *)
(* "one original request owns this channel").                              *)
AnswersItsRequest ==
  setting.noise = 0 /\ (\A c \in Caller : setting.operations[c] \intersect Streaming = {}) =>
    \A answer \in answers : answer[2].to = answer[1]

(* When assert_idle returns, everything the child has written until then   *)
(* has been returned to a caller: in no place between the child and the    *)
(* callers is there as much as the beginning of a frame                    *)
(* (framed_channel.py:60-87, 118-129; 06-owned-mcp-frames.md: "scheduler   *)
(* lag cannot turn unread output into an apparent idle channel").          *)
IdleMeansRead ==
  [][\A c \in Caller : pc[c] = "idle_check" /\ pc'[c] = "idle" =>
       owed = 0 /\ Len(delivered) = emitted]_vars

(* A channel that says it is closed has nothing left: no process in the    *)
(* Job, no thread; and it stays so (duplex.py:145-171).                    *)
ClosedMeansQuiet ==
  closed => /\ failed /\ killed
            /\ ~root /\ ~helper
            /\ out = "ended" /\ err = "ended" /\ in = "ended"

(* Every call comes to its end, though the child never answers, reads or   *)
(* ends, and though others hold the locks (duplex.py:103-143).             *)
CallsReturn == \A c \in Caller : pc[c] # "idle" ~> pc[c] = "idle"

(* A channel that has failed is closed in the end: no close that fails     *)
(* half way leaves something behind that keeps the next ones from          *)
(* succeeding, in particular no thread that waits for ever                 *)
(* (duplex.py:145-171, "failed close remains failed/retryable").           *)
FailedThenClosed == failed ~> closed
=============================================================================
