--------------------------- MODULE ChannelProofs ---------------------------
(***************************************************************************)
(* Theorems about Channel, for any number of callers, calls, frames and    *)
(* failed terminations: that a closed channel is quiet, its types, and     *)
(* that frames are returned in the order in which the child has written    *)
(* them.                                                                   *)
(*                                                                         *)
(* ClosedMeansQuiet is what the last step of close finds; that it still    *)
(* holds of what the earlier steps have found, and of what an earlier      *)
(* close has found that failed, is in CloseInv.                            *)
(*                                                                         *)
(* A frame is lost when it finds the queue full, and the frames behind it  *)
(* may then find room.  That nobody gets those rests on who asks: one who  *)
(* is past the look at the failure already, and he finds a queue that is   *)
(* not empty (OrderInv, below).                                            *)
(***************************************************************************)
EXTENDS Channel, TLAPS

-----------------------------------------------------------------------------
(* Closing                                                                 *)

(* What close has established at each of its steps.                        *)
CloseInv ==
  \A c \in Caller :
    /\ pc[c] \in {"kill", "wait", "join", "quiet"} => failed
    /\ pc[c] \in {"wait", "join", "quiet"} => killed
    /\ pc[c] \in {"join", "quiet"} => ~root
    /\ pc[c] = "quiet" => Ended

IInv == DOMAIN pc = Caller /\ CloseInv /\ ClosedMeansQuiet

(* Nothing that close has found is undone.                                 *)
Lasting ==
  /\ failed => failed'
  /\ killed => killed'
  /\ ~root => ~root'
  /\ ~helper => ~helper'
  /\ out = "ended" => out' = "ended"
  /\ err = "ended" => err' = "ended"
  /\ in = "ended" => in' = "ended"

-----------------------------------------------------------------------------
(* A step that moves no caller into close, and undoes nothing, keeps what  *)
(* has been established.                                                   *)
LEMMA Elsewhere ==
  ASSUME IInv, Lasting, closed' = closed,
         \/ pc' = pc
         \/ \E c \in Caller, p \in {"idle", "check", "lock", "put", "done", "recheck", "get",
                                    "got", "idle_check"} :
              pc' = [pc EXCEPT ![c] = p]
  PROVE  IInv'
BY DEF IInv, CloseInv, ClosedMeansQuiet, Lasting, Ended

(* The child and the threads: what has ended does not begin again.         *)
LEMMA ThreadsKeep == ASSUME IInv, Child \/ Thread PROVE IInv'
<1>1. CASE Child
  <2>1. Lasting /\ pc' = pc /\ closed' = closed
    BY <1>1
       DEF Child, Begin, Answer, Speak, Flood, RootEnds, HelperEnds, Lasting, job, threads,
           reader, flags, callers
  <2> QED BY <2>1, Elsewhere
<1>2. CASE Thread
  <2>1. Lasting /\ pc' = pc /\ closed' = closed
    <3>. USE DEF Lasting, job, threads, reader, flags, callers, queues
    <3>1. CASE Read
      BY <3>1 DEF Read
    <3>2. CASE Deal
      <4>1. /\ out = "reading" /\ UNCHANGED <<job, err, in, closed, callers>>
            /\ failed => failed'
        BY <3>2 DEF Deal, Put
      <4> QED BY <4>1
    <3>3. CASE EndOfOutput
      BY <3>3 DEF EndOfOutput, Put
    <3>4. CASE Look \/ FindNothing \/ StderrEnds
      BY <3>4 DEF Look, FindNothing, StderrEnds
    <3>5. CASE Fetch
      BY <3>5 DEF Fetch
    <3>6. CASE WriteOut
      BY <3>6 DEF WriteOut
    <3> QED BY <1>2, <3>1, <3>2, <3>3, <3>4, <3>5, <3>6 DEF Thread, Stdout
  <2> QED BY <2>1, Elsewhere
<1> QED BY <1>1, <1>2

(* The operations, up to where they close the channel.                     *)
LEMMA OperationsKeep ==
  ASSUME IInv, NEW c \in Caller,
         \/ (\E o \in Operation : Call(c, o)) \/ CallClose(c) \/ Expire(c)
         \/ Check(c) \/ IdleCheck(c) \/ Submit(c) \/ AwaitDone(c) \/ Recheck(c) \/ Get(c)
         \/ Got(c)
  PROVE  IInv'
<1>. USE DEF Go, Return, job, threads, reader, flags, callers
<1>1. Lasting /\ closed' = closed
  <2>. USE DEF Lasting
  <2>1. CASE (\E o \in Operation : Call(c, o)) \/ CallClose(c) \/ Expire(c)
    BY <2>1 DEF Call, CallClose, Expire
  <2>2. CASE Check(c) \/ IdleCheck(c) \/ Submit(c) \/ AwaitDone(c)
    BY <2>2 DEF Check, IdleCheck, Submit, AwaitDone
  <2>3. CASE Recheck(c) \/ Get(c) \/ Got(c)
    BY <2>3 DEF Recheck, Get, Got
  <2> QED BY <2>1, <2>2, <2>3
<1>2. \/ pc' = pc
      \/ \E p \in {"idle", "check", "lock", "put", "done", "recheck", "get", "got",
                   "idle_check"} : pc' = [pc EXCEPT ![c] = p]
  <2>1. CASE (\E o \in Operation : Call(c, o)) \/ CallClose(c) \/ Expire(c)
    BY <2>1 DEF Call, CallClose, Expire
  <2>2. CASE Check(c)
    BY <2>2 DEF Check
  <2>3. CASE IdleCheck(c) \/ Submit(c) \/ AwaitDone(c)
    BY <2>3 DEF IdleCheck, Submit, AwaitDone
  <2>4. CASE Recheck(c)
    BY <2>4 DEF Recheck
  <2>5. CASE Get(c)
    BY <2>5 DEF Get, Deliver
  <2>6. CASE Got(c)
    BY <2>6 DEF Got, Deliver
  <2> QED BY <2>1, <2>2, <2>3, <2>4, <2>5, <2>6
<1> QED BY <1>1, <1>2, Elsewhere

(* A close that fails leaves what it has done.                             *)
LEMMA CloseFailsKeeps ==
  ASSUME IInv, NEW c \in Caller, CloseFails(c), UNCHANGED threads
  PROVE  IInv'
BY Elsewhere DEF CloseFails, Return, Go, Lasting, job, threads, reader

(* close itself, step by step.                                             *)
LEMMA CloseKeeps ==
  ASSUME IInv, NEW c \in Caller, Lock(c) \/ Kill(c) \/ Wait(c) \/ Join(c) \/ Quiet(c)
  PROVE  IInv'
<1>. USE DEF ClosePaused, Go
<1>1. CASE Lock(c)
  <2>1. CASE closed
    BY <1>1, <2>1, Elsewhere DEF Lock, Return, Lasting, job, threads, reader
  <2>2. CASE ~closed
    BY <1>1, <2>2
       DEF Lock, IInv, CloseInv, ClosedMeansQuiet, Ended, job, threads, reader
  <2> QED BY <2>1, <2>2
<1>2. CASE Kill(c)
  <2>1. CASE CloseFails(c)
    BY <1>2, <2>1, CloseFailsKeeps DEF Kill
  <2>2. CASE killed' = TRUE /\ Go(c, "wait") /\ UNCHANGED <<root, helper, failed, closed>>
    BY <1>2, <2>2
       DEF Kill, IInv, CloseInv, ClosedMeansQuiet, Ended, threads, reader
  <2> QED BY <1>2, <2>1, <2>2 DEF Kill
<1>3. CASE Wait(c)
  <2>1. CASE CloseFails(c)
    BY <1>3, <2>1, CloseFailsKeeps DEF Wait
  <2>2. CASE ~root /\ Go(c, "join") /\ UNCHANGED <<job, failed, closed>>
    BY <1>3, <2>2
       DEF Wait, IInv, CloseInv, ClosedMeansQuiet, Ended, job, threads, reader
  <2> QED BY <1>3, <2>1, <2>2 DEF Wait
<1>4. CASE Join(c)
  <2>1. CASE CloseFails(c)
    BY <1>4, <2>1, CloseFailsKeeps DEF Join
  <2>2. CASE Ended /\ Go(c, "quiet") /\ UNCHANGED <<job, failed, closed>>
    BY <1>4, <2>2
       DEF Join, IInv, CloseInv, ClosedMeansQuiet, Ended, job, threads, reader
  <2> QED BY <1>4, <2>1, <2>2 DEF Join
<1>5. CASE Quiet(c)
  <2>1. CASE CloseFails(c)
    BY <1>5, <2>1, CloseFailsKeeps DEF Quiet
  <2>2. CASE ~PipesHeld /\ closed' = TRUE /\ Go(c, "idle") /\ UNCHANGED <<job, failed>>
    BY <1>5, <2>2
       DEF Quiet, IInv, CloseInv, ClosedMeansQuiet, Ended, PipesHeld, job, threads, reader
  <2> QED BY <1>5, <2>1, <2>2 DEF Quiet, Return
<1> QED BY <1>1, <1>2, <1>3, <1>4, <1>5

(* Every step keeps the invariant.                                         *)
LEMMA NextKeeps == ASSUME IInv, [Next]_vars PROVE IInv'
<1>1. CASE Child \/ Thread
  BY <1>1, ThreadsKeep
<1>2. ASSUME NEW c \in Caller,
             (\E o \in Operation : Call(c, o)) \/ CallClose(c) \/ Expire(c) \/ Step(c)
      PROVE  IInv'
  BY <1>2, OperationsKeep, CloseKeeps DEF Step
<1>3. CASE UNCHANGED vars
  BY <1>3, Elsewhere DEF vars, Lasting, job, threads, reader, flags, callers
<1> QED BY <1>1, <1>2, <1>3 DEF Next

(* So it holds in every reachable state.                                   *)
LEMMA Invariant == Spec => []IInv
<1>1. Init => IInv
  BY DEF Init, IInv, CloseInv, ClosedMeansQuiet
<1>2. IInv /\ [Next]_vars => IInv'
  BY NextKeeps
<1> QED BY <1>1, <1>2, PTL DEF Spec

(* A channel that says it is closed has no process and no thread left,     *)
(* however many closings have failed before, and whoever's they were       *)
(* (duplex.py:145-171).                                                    *)
THEOREM ClosedIsQuiet == Spec => []ClosedMeansQuiet
<1>1. IInv => ClosedMeansQuiet
  BY DEF IInv
<1> QED BY <1>1, Invariant, PTL

-----------------------------------------------------------------------------
(* Types and order                                                         *)

(* What goes through the pipe of stdout, the reader's chunk and the queue. *)
Item == [kind : {"part", "frame", "too_much", "end"}, no : Nat, to : Nat]

LEMMA Items ==
  /\ Part \in Item /\ TooMuch \in Item /\ End \in Item
  /\ Part.kind = "part" /\ TooMuch.kind = "too_much" /\ End.kind = "end"
  /\ \A n \in Nat, r \in Nat :
       Frame(n, r) \in Item /\ Frame(n, r).kind = "frame" /\ Frame(n, r).no = n
BY DEF Item, Part, TooMuch, End, Frame

(* The frames of a sequence are those from the one after a to b, in order. *)
Run(s, a, b) ==
  /\ a <= b
  /\ \A i \in DOMAIN s : s[i].kind = "frame" => a < s[i].no /\ s[i].no <= b
  /\ \A n \in Nat : a < n /\ n <= b => \E i \in DOMAIN s : s[i].kind = "frame" /\ s[i].no = n
  /\ \A i, j \in DOMAIN s :
       s[i].kind = "frame" /\ s[j].kind = "frame" /\ i < j => s[i].no < s[j].no

LEMMA RunOfNothing ==
  ASSUME NEW a \in Nat, NEW b \in Nat PROVE Run(<<>>, a, b) <=> a = b
BY DEF Run

LEMMA RunGrows ==
  ASSUME NEW s \in Seq(Item), NEW a \in Nat, NEW b \in Nat, NEW x \in Item, Run(s, a, b)
  PROVE  /\ x.kind # "frame" => Run(Append(s, x), a, b)
         /\ x.kind = "frame" /\ x.no = b + 1 => Run(Append(s, x), a, b + 1)
<1>. DEFINE t == Append(s, x)
<1>1. /\ DOMAIN t = DOMAIN s \cup {Len(s) + 1} /\ Len(s) \in Nat /\ DOMAIN s = 1 .. Len(s)
      /\ \A i \in DOMAIN s : t[i] = s[i]
      /\ t[Len(s) + 1] = x
  OBVIOUS
<1>2. \A i \in DOMAIN s : s[i].no \in Nat
  <2>1. \A i \in DOMAIN s : s[i] \in Item
    OBVIOUS
  <2> QED BY <2>1 DEF Item
<1>. HIDE DEF t
<1>3. ASSUME x.kind # "frame" PROVE Run(t, a, b)
  BY <1>1, <1>3 DEF Run
<1>4. ASSUME x.kind = "frame", x.no = b + 1 PROVE Run(t, a, b + 1)
  <2>1. \A i \in DOMAIN t : t[i].kind = "frame" => a < t[i].no /\ t[i].no <= b + 1
    BY <1>1, <1>2, <1>4 DEF Run
  <2>2. \A n \in Nat : a < n /\ n <= b + 1 => \E i \in DOMAIN t : t[i].kind = "frame" /\ t[i].no = n
    BY <1>1, <1>4 DEF Run
  <2>3. \A i, j \in DOMAIN t :
          t[i].kind = "frame" /\ t[j].kind = "frame" /\ i < j => t[i].no < t[j].no
    BY <1>1, <1>2, <1>4 DEF Run
  <2> QED BY <2>1, <2>2, <2>3 DEF Run
<1> QED BY <1>3, <1>4 DEF t

LEMMA RunShrinks ==
  ASSUME NEW s \in Seq(Item), NEW a \in Nat, NEW b \in Nat, Run(s, a, b), s # <<>>
  PROVE  /\ Head(s).kind # "frame" => Run(Tail(s), a, b)
         /\ Head(s).kind = "frame" => Head(s).no = a + 1 /\ Run(Tail(s), a + 1, b)
<1>. DEFINE t == Tail(s)
<1>1. /\ Len(s) \in Nat \ {0} /\ DOMAIN s = 1 .. Len(s) /\ DOMAIN t = 1 .. (Len(s) - 1)
      /\ \A i \in DOMAIN t : t[i] = s[i + 1]
      /\ Head(s) = s[1]
  OBVIOUS
<1>2. \A i \in DOMAIN s : s[i].no \in Nat
  <2>1. \A i \in DOMAIN s : s[i] \in Item
    OBVIOUS
  <2> QED BY <2>1 DEF Item
<1>. HIDE DEF t
<1>3. \A i, j \in DOMAIN t :
        t[i].kind = "frame" /\ t[j].kind = "frame" /\ i < j => t[i].no < t[j].no
  <2>1. SUFFICES ASSUME NEW i \in DOMAIN t, NEW j \in DOMAIN t, t[i].kind = "frame",
                        t[j].kind = "frame", i < j
                 PROVE  t[i].no < t[j].no
    OBVIOUS
  <2>2. i + 1 \in DOMAIN s /\ j + 1 \in DOMAIN s /\ i + 1 < j + 1
    BY <1>1, <2>1
  <2> QED BY <1>1, <2>1, <2>2 DEF Run
<1>4. \A k \in DOMAIN s : k = 1 \/ (k - 1 \in DOMAIN t /\ t[k - 1] = s[k])
  BY <1>1
<1>5. ASSUME Head(s).kind # "frame" PROVE Run(t, a, b)
  <2>1. \A n \in Nat : a < n /\ n <= b => \E i \in DOMAIN t : t[i].kind = "frame" /\ t[i].no = n
    BY <1>1, <1>4, <1>5 DEF Run
  <2>2. \A i \in DOMAIN t : t[i].kind = "frame" => a < t[i].no /\ t[i].no <= b
    <3>1. \A i \in DOMAIN t : i + 1 \in DOMAIN s
      BY <1>1
    <3> QED BY <1>1, <3>1 DEF Run
  <2> QED BY <1>3, <2>1, <2>2 DEF Run
<1>6. ASSUME Head(s).kind = "frame" PROVE Head(s).no = a + 1 /\ Run(t, a + 1, b)
  <2>1. 1 \in DOMAIN s /\ a < s[1].no /\ s[1].no <= b
    BY <1>1, <1>6 DEF Run
  <2>0. a + 1 \in Nat /\ a < a + 1 /\ a + 1 <= b
    BY <1>2, <2>1
  <2>2. PICK k \in DOMAIN s : s[k].kind = "frame" /\ s[k].no = a + 1
    BY <2>0 DEF Run
  <2>3. s[1].no = a + 1
    <3>1. CASE k = 1
      BY <2>2, <3>1
    <3>2. CASE k # 1
      <4>1. 1 < k
        BY <1>1, <3>2
      <4>2. s[1].no < s[k].no
        BY <1>1, <1>6, <2>1, <2>2, <4>1 DEF Run
      <4> QED BY <1>2, <2>1, <2>2, <4>2
    <3> QED BY <3>1, <3>2
  <2>4. \A i \in DOMAIN t : t[i].kind = "frame" => a + 1 < t[i].no /\ t[i].no <= b
    <3>1. \A i \in DOMAIN t : i + 1 \in DOMAIN s /\ 1 < i + 1
      BY <1>1
    <3> QED BY <1>1, <1>6, <2>1, <2>3, <3>1 DEF Run
  <2>5. \A n \in Nat :
          a + 1 < n /\ n <= b => \E i \in DOMAIN t : t[i].kind = "frame" /\ t[i].no = n
    <3>1. SUFFICES ASSUME NEW n \in Nat, a + 1 < n, n <= b
                   PROVE  \E i \in DOMAIN t : t[i].kind = "frame" /\ t[i].no = n
      OBVIOUS
    <3>2. PICK j \in DOMAIN s : s[j].kind = "frame" /\ s[j].no = n
      BY <3>1 DEF Run
    <3>3. j # 1
      BY <2>3, <3>1, <3>2
    <3> QED BY <1>4, <3>2, <3>3
  <2> QED BY <1>1, <1>2, <1>3, <2>1, <2>3, <2>4, <2>5 DEF Run
<1> QED BY <1>5, <1>6 DEF t

-----------------------------------------------------------------------------
(* Types                                                                   *)

Calling == {"check", "put", "done", "recheck", "get", "got", "idle_check"}
Closing == {"kill", "wait", "join", "quiet"}
Place   == {"idle", "lock"} \union Calling \union Closing

(* Who is where holds the lock that is needed there.                       *)
LockInv ==
  /\ pc \in [Caller -> Place] /\ op \in [Caller -> Operation \union {"none", "close"}]
  /\ io \in Caller \union {Nobody} /\ closing \in Caller \union {Nobody}
  /\ \A c \in Caller :
       /\ op[c] = "none" <=> pc[c] = "idle"
       /\ io = c <=> op[c] \in Operation
       /\ closing = c <=> pc[c] \in Closing
       /\ pc[c] \in Calling => op[c] \in Operation

(* A call moves on, or is over.                                            *)
LEMMA MovesOn ==
  ASSUME LockInv, NEW c \in Caller, NEW p \in Calling \union {"lock"}, Go(c, p),
         pc[c] \in Calling, UNCHANGED <<op, io, closing>>
  PROVE  LockInv'
BY DEF LockInv, Go, Calling, Closing, Place

LEMMA IsOver ==
  ASSUME LockInv, NEW c \in Caller, Return(c),
         \/ pc[c] \notin Closing /\ closing' = closing
         \/ pc[c] \in Closing /\ closing' = Nobody
  PROVE  LockInv'
BY NobodyAssumption DEF LockInv, Return, Go, Calling, Closing, Place, Operation, Streaming

LEMMA CallersKeepLocks ==
  ASSUME LockInv, NEW c \in Caller,
         (\E o \in Operation : Call(c, o)) \/ CallClose(c) \/ Expire(c) \/ Step(c)
  PROVE  LockInv'
<1>. USE DEF InCall, ClosePaused
<1>1. ASSUME NEW o \in Operation, Call(c, o) PROVE LockInv'
  BY <1>1, NobodyAssumption
     DEF Call, LockInv, Go, Calling, Closing, Place, Operation, Streaming
<1>2. CASE CallClose(c)
  BY <1>2 DEF CallClose, LockInv, Go, Calling, Closing, Place, Operation, Streaming, locks
<1>3. CASE Expire(c)
  BY <1>3 DEF Expire, LockInv, locks
<1>4. CASE Check(c)
  BY <1>4, MovesOn, IsOver DEF Check, Calling, Closing
<1>5. CASE IdleCheck(c) \/ Submit(c) \/ AwaitDone(c)
  BY <1>5, MovesOn, IsOver DEF IdleCheck, Submit, AwaitDone, Calling, Closing
<1>6. CASE Recheck(c)
  BY <1>6, MovesOn DEF Recheck, Calling, locks
<1>7. CASE Get(c) \/ Got(c)
  BY <1>7, MovesOn, IsOver DEF Get, Got, Deliver, Calling, Closing
<1>8. CASE Lock(c)
  <2>1. CASE closed
    BY <1>8, <2>1, IsOver DEF Lock, Closing
  <2>2. CASE ~closed
    BY <1>8, <2>2, NobodyAssumption DEF Lock, LockInv, Go, Calling, Closing, Place
  <2> QED BY <2>1, <2>2
<1>9. CASE Kill(c) \/ Wait(c) \/ Join(c) \/ Quiet(c)
  <2>1. CASE Return(c) /\ closing' = Nobody
    BY <1>9, <2>1, IsOver DEF Kill, Wait, Join, Quiet, Closing
  <2>2. CASE UNCHANGED <<InCall, closing>> /\ pc[c] \in Closing /\ \E p \in Closing : Go(c, p)
    BY <2>2 DEF LockInv, Go, Calling, Closing, Place
  <2> QED
    BY <1>9, <2>1, <2>2 DEF Kill, Wait, Join, Quiet, CloseFails, Closing
<1> QED BY <1>1, <1>2, <1>3, <1>4, <1>5, <1>6, <1>7, <1>8, <1>9 DEF Step

(* A request, or none.                                                     *)
Ticket == 0..MaxCalls

LEMMA Tickets ==
  /\ 0 \in Ticket /\ Stop \in Ticket /\ Requests \subseteq Ticket
  /\ \A t \in Ticket : t # 0 => t \in Requests
BY ChannelAssumption DEF ChannelAssumption, Ticket, Requests, Stop

(* The values: of the system, with room for the answer that was begun; of  *)
(* the reader, of the writer, and of the calls.                            *)
SystemTypes ==
  /\ root \in BOOLEAN /\ helper \in BOOLEAN /\ killed \in BOOLEAN
  /\ owed \in Ticket /\ emitted \in 0..MaxEmitted /\ (owed # 0 => emitted < MaxEmitted)
  /\ stdout \in Seq(Item) /\ stdin \in Seq(Requests) /\ Len(stdin) <= 1

ReaderTypes ==
  /\ out \in {"looking", "reading", "ended"} /\ err \in {"reading", "ended"}
  /\ chunk \in Seq(Item) /\ pending \in BOOLEAN
  /\ frames \in Seq(Item) /\ Len(frames) <= MaxQueued /\ failed \in BOOLEAN

WriterTypes ==
  /\ in \in {"waiting", "writing", "ended"}
  /\ writing \in Ticket /\ (writing # 0 <=> in = "writing")
  /\ writes \in Seq(Ticket) /\ Len(writes) <= 1
  /\ done \subseteq Requests /\ closed \in BOOLEAN

CallTypes ==
  /\ setting \in Setting
  /\ request \in [Caller -> Ticket] /\ expired \in [Caller -> BOOLEAN]
  /\ kept \in [Caller -> Item] /\ delivered \in Seq(Item)
  /\ calls \in 0..MaxCalls /\ faults \in 0..setting.faults

DataInv == SystemTypes /\ ReaderTypes /\ WriterTypes /\ CallTypes

Quantities ==
  /\ MaxCalls \in Nat /\ MaxEmitted \in Nat /\ MaxQueued \in Nat \ {0}
  /\ setting.calls \in 0..MaxCalls /\ setting.faults \in Nat

LEMMA Quantify == DataInv => Quantities
BY ChannelAssumption DEF ChannelAssumption, DataInv, CallTypes, Quantities

(* What is left alone keeps its types.                                     *)
LEMMA SystemStays ==
  ASSUME SystemTypes, UNCHANGED <<root, helper, killed, owed, emitted, stdout, stdin>>
  PROVE  SystemTypes'
BY DEF SystemTypes

LEMMA ReaderStays ==
  ASSUME ReaderTypes, UNCHANGED <<out, err, chunk, pending, frames, failed>> PROVE ReaderTypes'
BY DEF ReaderTypes

LEMMA WriterStays ==
  ASSUME WriterTypes, UNCHANGED <<in, writing, writes, done, closed>> PROVE WriterTypes'
BY DEF WriterTypes

LEMMA CallsStay ==
  ASSUME CallTypes, UNCHANGED <<setting, request, expired, kept, delivered, calls, faults>>
  PROVE  CallTypes'
BY DEF CallTypes

(* The finally clauses, and a call that goes on.                           *)
LEMMA CallTypesKept ==
  ASSUME CallTypes, NEW c \in Caller, UNCHANGED <<setting, calls, faults>>,
         delivered' \in Seq(Item),
         Return(c) \/ UNCHANGED <<request, expired, kept>>
  PROVE  CallTypes'
<1>1. request' \in [Caller -> Ticket] /\ expired' \in [Caller -> BOOLEAN]
  BY Tickets DEF CallTypes, Return
<1>2. kept' \in [Caller -> Item]
  BY Items DEF CallTypes, Return
<1> QED BY <1>1, <1>2 DEF CallTypes

LEMMA ChildKeepsData == ASSUME DataInv, Child PROVE DataInv'
<1>n. Quantities /\ SystemTypes /\ ReaderTypes /\ WriterTypes /\ CallTypes
  BY Quantify DEF DataInv
<1>1. ReaderTypes' /\ WriterTypes' /\ CallTypes'
  <2>1. UNCHANGED <<fixed, threads, queues, flags, callers, returns, counted>>
    BY DEF Child, Begin, Answer, Speak, Flood, RootEnds, HelperEnds
  <2> QED
    BY <1>n, <2>1, ReaderStays, WriterStays, CallsStay
       DEF fixed, threads, reader, queues, flags, callers, returns, counted
<1>2. SystemTypes'
  <2>1. CASE Begin
    <3>0. Head(stdin) \in Requests /\ Tail(stdin) \in Seq(Requests) /\ Len(Tail(stdin)) <= 1
      BY <1>n, <2>1 DEF Begin, SystemTypes
    <3>1. owed' \in Ticket /\ stdin' \in Seq(Requests) /\ Len(stdin') <= 1
      BY <2>1, <3>0, Tickets DEF Begin
    <3>2. stdout' \in Seq(Item)
      BY <1>n, <2>1, Items DEF Begin, SystemTypes
    <3> QED BY <1>n, <2>1, <3>1, <3>2 DEF Begin, SystemTypes, job
  <2>2. CASE Answer
    <3>1. emitted' \in 0..MaxEmitted /\ Frame(emitted', owed) \in Item
      <4>1. emitted' \in 0..MaxEmitted /\ emitted' \in Nat
        BY <1>n, <2>2 DEF Answer, SystemTypes, Quantities
      <4>2. owed \in Nat
        BY <1>n, ChannelAssumption DEF SystemTypes, Ticket
      <4> QED BY <4>1, <4>2, Items
    <3>2. stdout' \in Seq(Item) /\ owed' = 0 /\ UNCHANGED <<root, helper, killed, stdin>>
      BY <1>n, <2>2, <3>1 DEF Answer, SystemTypes, job
    <3> QED BY <1>n, <3>1, <3>2, Tickets DEF SystemTypes
  <2>3. CASE Speak
    <3>1. emitted' \in 0..MaxEmitted /\ Frame(emitted', 0) \in Item
      BY <1>n, <2>3, Items DEF Speak, SystemTypes, Quantities
    <3> QED BY <1>n, <2>3, <3>1 DEF Speak, SystemTypes, job
  <2>4. CASE Flood
    BY <1>n, <2>4, Items DEF Flood, SystemTypes, job
  <2>5. CASE RootEnds \/ HelperEnds
    BY <1>n, <2>5 DEF RootEnds, HelperEnds, SystemTypes, pipes
  <2> QED BY <2>1, <2>2, <2>3, <2>4, <2>5 DEF Child
<1> QED BY <1>1, <1>2 DEF DataInv

LEMMA Queueing ==
  ASSUME ReaderTypes, Quantities, NEW x \in Item, Put(x)
  PROVE  frames' \in Seq(Item) /\ Len(frames') <= MaxQueued /\ failed' \in BOOLEAN
<1>1. CASE Len(frames) < MaxQueued
  BY <1>1 DEF ReaderTypes, Quantities, Put
<1>2. CASE ~(Len(frames) < MaxQueued)
  BY <1>2 DEF ReaderTypes, Put
<1> QED BY <1>1, <1>2

LEMMA ThreadKeepsData == ASSUME DataInv, Thread PROVE DataInv'
<1>n. Quantities /\ SystemTypes /\ ReaderTypes /\ WriterTypes /\ CallTypes
  BY Quantify DEF DataInv
<1>1. CallTypes'
  <2>1. UNCHANGED <<fixed, callers, returns, counted>>
    BY DEF Thread, Stdout, Read, Deal, EndOfOutput, Look, FindNothing, StderrEnds, Fetch,
           WriteOut
  <2> QED BY <1>n, <2>1, CallsStay DEF fixed, callers, returns, counted
<1>2. CASE Read
  <2>1. ReaderTypes'
    BY <1>n, <1>2 DEF Read, ReaderTypes, SystemTypes, queues, flags
  <2>2. SystemTypes'
    BY <1>n, <1>2 DEF Read, SystemTypes, job
  <2> QED
    BY <1>n, <1>1, <1>2, <2>1, <2>2, WriterStays DEF DataInv, Read, queues, flags
<1>3. CASE Deal
  <2>1. Head(chunk) \in Item /\ Tail(chunk) \in Seq(Item)
    BY <1>n, <1>3 DEF Deal, ReaderTypes
  <2>2. frames' \in Seq(Item) /\ Len(frames') <= MaxQueued /\ failed' \in BOOLEAN
    BY <1>n, <1>3, <2>1, Queueing DEF Deal, ReaderTypes
  <2>3. chunk' \in Seq(Item) /\ out' \in {"looking", "reading", "ended"} /\ pending' \in BOOLEAN
    <3>1. chunk' \in Seq(Item)
      BY <1>3, <2>1 DEF Deal
    <3>2. out' \in {"looking", "reading", "ended"} /\ pending' \in BOOLEAN
      BY <1>3 DEF Deal
    <3> QED BY <3>1, <3>2
  <2>4. ReaderTypes'
    BY <1>n, <1>3, <2>2, <2>3 DEF Deal, ReaderTypes
  <2> QED
    BY <1>n, <1>1, <1>3, <2>4, SystemStays, WriterStays DEF DataInv, Deal, job, pipes
<1>4. CASE EndOfOutput
  <2>1. frames' \in Seq(Item) /\ Len(frames') <= MaxQueued /\ failed' \in BOOLEAN
    <3>1. CASE pending
      <4>1. failed' = TRUE /\ frames' \in {frames, Append(frames, End)}
        BY <1>4, <3>1 DEF EndOfOutput
      <4>2. Len(frames) < MaxQueued \/ frames' = frames
        BY <1>4, <3>1 DEF EndOfOutput
      <4>3. CASE Len(frames) < MaxQueued /\ frames' = Append(frames, End)
        BY <1>n, <4>1, <4>3, Items DEF ReaderTypes, Quantities
      <4>4. CASE frames' = frames
        BY <1>n, <4>1, <4>4 DEF ReaderTypes
      <4> QED BY <4>1, <4>2, <4>3, <4>4
    <3>2. CASE ~pending
      BY <1>n, <1>4, <3>2, Items, Queueing DEF EndOfOutput
    <3> QED BY <3>1, <3>2
  <2>2. ReaderTypes'
    BY <1>n, <1>4, <2>1 DEF EndOfOutput, ReaderTypes
  <2> QED
    BY <1>n, <1>1, <1>4, <2>2, SystemStays, WriterStays DEF DataInv, EndOfOutput, job, pipes
<1>5. CASE Look \/ FindNothing \/ StderrEnds
  <2>1. ReaderTypes'
    BY <1>n, <1>5 DEF Look, FindNothing, StderrEnds, ReaderTypes, reader, queues, flags
  <2> QED
    BY <1>n, <1>1, <1>5, <2>1, SystemStays, WriterStays
       DEF DataInv, Look, FindNothing, StderrEnds, job, pipes, queues, flags
<1>6. CASE Fetch
  <2>1. Head(writes) \in Ticket
    BY <1>n, <1>6 DEF Fetch, WriterTypes
  <2>2. WriterTypes'
    BY <1>n, <1>6, <2>1 DEF Fetch, WriterTypes, Stop, flags
  <2> QED
    BY <1>n, <1>1, <1>6, <2>2, SystemStays, ReaderStays
       DEF DataInv, Fetch, job, pipes, reader, flags
<1>7. CASE WriteOut
  <2>1. writing \in Requests
    BY <1>n, <1>7, Tickets DEF WriteOut, WriterTypes
  <2>2. WriterTypes' /\ SystemTypes' /\ ReaderTypes'
    <3>1. WriterTypes'
      BY <1>n, <1>7, <2>1, Tickets DEF WriteOut, WriterTypes, queues
    <3>2. SystemTypes'
      <4>1. UNCHANGED <<root, helper, killed, owed, emitted, stdout>>
        BY <1>7 DEF WriteOut, job
      <4>2. stdin' = stdin \/ stdin' = <<writing>>
        BY <1>7 DEF WriteOut
      <4>3. stdin' \in Seq(Requests) /\ Len(stdin') <= 1
        <5>1. <<writing>> \in Seq(Requests) /\ Len(<<writing>>) = 1
          BY <2>1
        <5>2. CASE stdin' = <<writing>>
          BY <5>1, <5>2
        <5>3. CASE stdin' = stdin
          BY <1>n, <5>3 DEF SystemTypes
        <5> QED BY <4>2, <5>2, <5>3
      <4> QED BY <1>n, <4>1, <4>3 DEF SystemTypes
    <3>3. ReaderTypes'
      BY <1>n, <1>7 DEF WriteOut, ReaderTypes, reader, queues
    <3> QED BY <3>1, <3>2, <3>3
  <2> QED BY <1>1, <2>2 DEF DataInv
<1> QED BY <1>2, <1>3, <1>4, <1>5, <1>6, <1>7 DEF Thread, Stdout

LEMMA CallersKeepData ==
  ASSUME DataInv, NEW c \in Caller,
         (\E o \in Operation : Call(c, o)) \/ CallClose(c) \/ Expire(c) \/ Step(c)
  PROVE  DataInv'
<1>n. Quantities /\ SystemTypes /\ ReaderTypes /\ WriterTypes /\ CallTypes
  BY Quantify DEF DataInv
<1>. USE DEF fixed, job, pipes, threads, reader, queues, flags, callers, returns, counted,
         InCall, ClosePaused
<1>1. CASE (\E o \in Operation : Call(c, o)) \/ CallClose(c) \/ Expire(c)
  <2>1. CallTypes'
    <3>1. CASE (\E o \in Operation : Call(c, o)) \/ CallClose(c)
      BY <1>n, <3>1 DEF Call, CallClose, CallTypes, Quantities
    <3>2. CASE Expire(c)
      BY <1>n, <3>2 DEF Expire, CallTypes
    <3> QED BY <1>1, <3>1, <3>2
  <2> QED
    BY <1>n, <1>1, <2>1, SystemStays, ReaderStays, WriterStays
       DEF DataInv, Call, CallClose, Expire
<1>2. CASE Check(c) \/ IdleCheck(c) \/ AwaitDone(c) \/ Recheck(c)
  <2>1. CallTypes'
    <3>1. UNCHANGED <<setting, delivered, calls, faults>> /\ delivered \in Seq(Item)
      BY <1>n, <1>2 DEF Check, IdleCheck, AwaitDone, Recheck, CallTypes
    <3>2. Return(c) \/ UNCHANGED <<request, expired, kept>>
      BY <1>2 DEF Check, IdleCheck, AwaitDone, Recheck
    <3> QED BY <1>n, <3>1, <3>2, CallTypesKept
  <2> QED
    BY <1>n, <1>2, <2>1, SystemStays, ReaderStays, WriterStays
       DEF DataInv, Check, IdleCheck, AwaitDone, Recheck
<1>3. CASE Submit(c)
  <2>1. CallTypes' /\ WriterTypes'
    <3>1. CASE Return(c) /\ UNCHANGED writes
      BY <1>n, <1>3, <3>1, CallTypesKept, WriterStays DEF Submit, CallTypes
    <3>2. CASE Go(c, "lock") /\ UNCHANGED <<writes, InCall>>
      BY <1>n, <1>3, <3>2, CallsStay, WriterStays DEF Submit
    <3>3. CASE writes' = <<calls>> /\ request' = [request EXCEPT ![c] = calls]
               /\ UNCHANGED <<expired, kept>>
      <4>1. calls \in Ticket
        BY <1>n DEF CallTypes, Ticket
      <4>2. CallTypes'
        BY <1>n, <1>3, <3>3, <4>1 DEF Submit, CallTypes
      <4>3. WriterTypes'
        BY <1>n, <1>3, <3>3, <4>1 DEF Submit, WriterTypes
      <4> QED BY <4>2, <4>3
    <3>4. QED BY <1>3, <3>1, <3>2, <3>3 DEF Submit
  <2> QED
    BY <1>n, <1>3, <2>1, SystemStays, ReaderStays DEF DataInv, Submit
<1>4. CASE Get(c)
  <2>1. frames # <<>> =>
          Head(frames) \in Item /\ Tail(frames) \in Seq(Item) /\ Len(Tail(frames)) <= MaxQueued
    BY <1>n DEF ReaderTypes, Quantities
  <2>2. frames' \in Seq(Item) /\ Len(frames') <= MaxQueued
    BY <1>n, <1>4, <2>1 DEF Get, ReaderTypes
  <2>3. ReaderTypes'
    BY <1>n, <1>4, <2>2 DEF Get, ReaderTypes
  <2>4. CallTypes'
    <3>0. UNCHANGED <<setting, calls, faults>> /\ delivered \in Seq(Item)
      BY <1>n, <1>4 DEF Get, CallTypes
    <3>1. CASE Return(c) /\ frames # <<>> /\ delivered' = Append(delivered, Head(frames))
      BY <1>n, <2>1, <3>0, <3>1, CallTypesKept
    <3>2. CASE UNCHANGED <<InCall, delivered>>
      BY <1>n, <3>0, <3>2, CallsStay
    <3>3. CASE /\ frames # <<>> /\ kept' = [kept EXCEPT ![c] = Head(frames)]
               /\ UNCHANGED <<request, expired, delivered>>
      <4>1. kept' \in [Caller -> Item]
        BY <1>n, <2>1, <3>3 DEF CallTypes
      <4> QED BY <1>n, <3>0, <3>3, <4>1 DEF CallTypes
    <3> QED BY <1>4, <3>1, <3>2, <3>3 DEF Get, Deliver
  <2> QED
    BY <1>n, <1>4, <2>3, <2>4, SystemStays, WriterStays DEF DataInv, Get
<1>5. CASE Got(c)
  <2>1. CallTypes'
    <3>1. kept[c] \in Item /\ delivered \in Seq(Item)
      BY <1>n DEF CallTypes
    <3>2. CASE Return(c) /\ delivered' = Append(delivered, kept[c])
      BY <1>n, <1>5, <3>1, <3>2, CallTypesKept DEF Got
    <3>3. CASE UNCHANGED <<InCall, delivered>>
      BY <1>n, <1>5, <3>3, CallsStay DEF Got
    <3> QED BY <1>5, <3>2, <3>3 DEF Got, Deliver
  <2> QED
    BY <1>n, <1>5, <2>1, SystemStays, ReaderStays, WriterStays DEF DataInv, Got
<1>6. CASE Lock(c) \/ Kill(c) \/ Wait(c) \/ Join(c) \/ Quiet(c)
  <2>1. UNCHANGED <<setting, delivered, calls>>
    BY <1>6 DEF Lock, Kill, Wait, Join, Quiet
  <2>2. UNCHANGED <<request, expired, kept>> \/ Return(c)
    BY <1>6 DEF Lock, Kill, Wait, Join, Quiet, CloseFails
  <2>3. faults' \in 0..setting.faults
    <3>1. UNCHANGED faults \/ Fault
      BY <1>6 DEF Lock, Kill, Wait, Join, Quiet, ClosePaused
    <3> QED BY <1>n, <3>1 DEF Fault, CallTypes, Quantities
  <2>4. CallTypes'
    <3>1. request' \in [Caller -> Ticket] /\ expired' \in [Caller -> BOOLEAN]
      BY <1>n, <2>2, Tickets DEF CallTypes, Return
    <3>2. kept' \in [Caller -> Item]
      BY <1>n, <2>2, Items DEF CallTypes, Return
    <3> QED BY <1>n, <2>1, <2>3, <3>1, <3>2 DEF CallTypes
  <2>5. SystemTypes'
    BY <1>n, <1>6 DEF Lock, Kill, Wait, Join, Quiet, CloseFails, SystemTypes
  <2>6. ReaderTypes'
    BY <1>n, <1>6 DEF Lock, Kill, Wait, Join, Quiet, CloseFails, ReaderTypes
  <2>7. WriterTypes'
    <3>1. CASE UNCHANGED <<in, writing, writes, done, closed>>
      BY <1>n, <3>1, WriterStays
    <3>2. CASE StopWriter /\ UNCHANGED <<in, writing, done, closed>>
      <4>1. <<Stop>> \in Seq(Ticket) /\ Len(<<Stop>>) = 1
        BY Tickets
      <4> QED BY <1>n, <3>2, <4>1 DEF StopWriter, WriterTypes
    <3>3. CASE closed' = TRUE /\ UNCHANGED <<in, writing, writes, done>>
      BY <1>n, <3>3 DEF WriterTypes
    <3> QED
      BY <1>6, <3>1, <3>2, <3>3 DEF Lock, Kill, Wait, Join, Quiet, CloseFails
  <2> QED BY <2>4, <2>5, <2>6, <2>7 DEF DataInv
<1> QED BY <1>1, <1>2, <1>3, <1>4, <1>5, <1>6 DEF Step

LEMMA TypeInvariant == Spec => [](DataInv /\ LockInv)
<1>1. Init => DataInv /\ LockInv
  <2>1. ASSUME Init PROVE DataInv
    <3>1. SystemTypes /\ ReaderTypes
      <4>1. root \in BOOLEAN /\ helper \in BOOLEAN /\ killed \in BOOLEAN
        BY <2>1, ChannelAssumption DEF Init, ChannelAssumption
      <4>2. owed \in Ticket /\ emitted \in 0..MaxEmitted /\ (owed # 0 => emitted < MaxEmitted)
        BY <2>1, ChannelAssumption, Tickets DEF Init, ChannelAssumption
      <4>3. stdout \in Seq(Item) /\ stdin \in Seq(Requests) /\ Len(stdin) <= 1
        BY <2>1 DEF Init
      <4>4. ReaderTypes
        <5>1. frames = <<>> /\ Len(frames) <= MaxQueued
          BY <2>1, ChannelAssumption DEF Init, ChannelAssumption
        <5>2. frames \in Seq(Item) /\ chunk \in Seq(Item)
          BY <2>1 DEF Init
        <5> QED BY <2>1, <5>1, <5>2 DEF Init, ReaderTypes
      <4> QED BY <4>1, <4>2, <4>3, <4>4 DEF SystemTypes
    <3>2. WriterTypes
      <4>1. in \in {"waiting", "writing", "ended"} /\ (writing # 0 <=> in = "writing")
        BY <2>1 DEF Init
      <4>2. writing \in Ticket /\ writes \in Seq(Ticket) /\ Len(writes) <= 1
        BY <2>1, Tickets DEF Init
      <4>3. done \subseteq Requests /\ closed \in BOOLEAN
        BY <2>1 DEF Init
      <4> QED BY <4>1, <4>2, <4>3 DEF WriterTypes
    <3>3. CallTypes
      BY <2>1, ChannelAssumption, Tickets, Items DEF Init, CallTypes, ChannelAssumption
    <3> QED BY <3>1, <3>2, <3>3 DEF DataInv
  <2>2. ASSUME Init PROVE LockInv
    BY <2>2, NobodyAssumption DEF Init, LockInv, Place, Calling, Closing, Operation, Streaming
  <2> QED BY <2>1, <2>2
<1>2. DataInv /\ LockInv /\ [Next]_vars => DataInv' /\ LockInv'
  <2>1. SUFFICES ASSUME DataInv, LockInv, [Next]_vars PROVE DataInv' /\ LockInv'
    OBVIOUS
  <2>2. CASE Child
    <3>1. UNCHANGED <<locks, callers>>
      BY <2>2 DEF Child, Begin, Answer, Speak, Flood, RootEnds, HelperEnds
    <3> QED BY <2>1, <2>2, <3>1, ChildKeepsData DEF LockInv, locks, callers
  <2>3. CASE Thread
    <3>1. UNCHANGED <<locks, callers>>
      BY <2>3 DEF Thread, Stdout, Read, Deal, EndOfOutput, Look, FindNothing, StderrEnds,
                  Fetch, WriteOut
    <3> QED BY <2>1, <2>3, <3>1, ThreadKeepsData DEF LockInv, locks, callers
  <2>4. ASSUME NEW c \in Caller,
               (\E o \in Operation : Call(c, o)) \/ CallClose(c) \/ Expire(c) \/ Step(c)
        PROVE  DataInv' /\ LockInv'
    BY <2>1, <2>4, CallersKeepData, CallersKeepLocks
  <2>5. CASE UNCHANGED vars
    BY <2>1, <2>5, SystemStays, ReaderStays, WriterStays, CallsStay
       DEF vars, DataInv, LockInv, fixed, job, pipes, threads, reader, queues, flags, locks,
           callers, returns, counted
  <2> QED BY <2>1, <2>2, <2>3, <2>4, <2>5 DEF Next
<1> QED BY <1>1, <1>2, PTL DEF Spec

(* Every reachable state has its types, the queues are within their bounds *)
(* and the locks with those who need them (duplex.py:29-136).              *)
THEOREM TypeCorrect == Spec => []TypeOK
<1>1. DataInv /\ LockInv => TypeOK
  <2>1. DataInv =>
          /\ setting \in Setting
          /\ {root, helper, killed, pending, failed, closed} \subseteq BOOLEAN
          /\ owed \in 0..MaxCalls /\ emitted \in 0..MaxEmitted
          /\ out \in {"looking", "reading", "ended"} /\ err \in {"reading", "ended"}
          /\ in \in {"waiting", "writing", "ended"} /\ (writing # 0 <=> in = "writing")
    BY DEF DataInv, SystemTypes, ReaderTypes, WriterTypes, CallTypes, Ticket
  <2>2. DataInv =>
          /\ Len(frames) <= MaxQueued /\ Len(writes) <= 1 /\ Len(stdin) <= 1
          /\ done \subseteq Requests
          /\ \A c \in Caller : request[c] \in 0..MaxCalls /\ expired[c] \in BOOLEAN
          /\ calls \in 0..MaxCalls /\ faults \in 0..setting.faults
    BY DEF DataInv, SystemTypes, ReaderTypes, WriterTypes, CallTypes, Ticket
  <2> QED BY <2>1, <2>2 DEF LockInv, TypeOK, Closing
<1> QED BY <1>1, TypeInvariant, PTL

-----------------------------------------------------------------------------
(* The order of the frames                                                 *)

(* The last frame that has left the queue for a caller.                    *)
Taken == Len(delivered) + (IF \E c \in Caller : pc[c] = "got" THEN 1 ELSE 0)

(* The queue goes on where the callers are, the chunk where the queue ends *)
(* and the pipe where the chunk ends, up to what the child has written;    *)
(* the end of the output is behind everything.                             *)
QueueFrom(b) ==
  \A i \in DOMAIN frames : frames[i] = End \/ (frames[i].kind = "frame" /\ frames[i].no = b + i)

Orderly(b) ==
  /\ QueueFrom(b)
  /\ out # "ended" =>
       /\ \A i \in DOMAIN frames : frames[i].kind = "frame"
       /\ \E m \in Nat : Run(chunk, b + Len(frames), m) /\ Run(stdout, m, emitted)

(* Or a frame was lost, and the channel has failed or is about to; then    *)
(* nobody takes more than the one he may be about to take.                 *)
Spoilt ==
  /\ failed \/ \E c \in Caller : pc[c] = "lock" /\ io = c
  /\ \A c \in Caller : pc[c] = "get" =>
       frames # <<>> /\ (frames[1] = End \/ frames[1].no = Len(delivered) + 1)

KeptInv == \A c \in Caller : pc[c] = "got" => kept[c].no = Len(delivered) + 1

OrderInv == InOrder /\ KeptInv /\ (Orderly(Taken) \/ Spoilt)

(* What every step may rely on.                                            *)
Basis == DataInv /\ LockInv /\ IInv

LEMMA Sizes ==
  ASSUME Basis
  PROVE  /\ Len(delivered) \in Nat /\ Taken \in Nat /\ Len(frames) \in Nat /\ emitted \in Nat
         /\ MaxQueued \in Nat \ {0} /\ DOMAIN frames = 1..Len(frames)
         /\ \A c \in Caller : pc[c] \in Calling => io = c
         /\ \A c \in Caller : pc[c] \in Calling \ {"got"} => Taken = Len(delivered)
         /\ \A c \in Caller : pc[c] = "got" => Taken = Len(delivered) + 1
<1>1. Len(delivered) \in Nat /\ Taken \in Nat
  BY DEF Basis, DataInv, CallTypes, Taken
<1>2. Len(frames) \in Nat /\ DOMAIN frames = 1..Len(frames)
  BY DEF Basis, DataInv, ReaderTypes
<1>3. emitted \in Nat
  BY ChannelAssumption DEF ChannelAssumption, Basis, DataInv, SystemTypes
<1>4. MaxQueued \in Nat \ {0}
  BY ChannelAssumption DEF ChannelAssumption
<1>5. \A c \in Caller : pc[c] \in Calling => io = c
  BY DEF Basis, LockInv
<1>6. \A c \in Caller : pc[c] \in Calling \ {"got"} => Taken = Len(delivered)
  BY <1>1, <1>5 DEF Taken, Calling
<1>7. \A c \in Caller : pc[c] = "got" => Taken = Len(delivered) + 1
  BY DEF Taken
<1> QED BY <1>1, <1>2, <1>3, <1>4, <1>5, <1>6, <1>7

(* The child writes behind what it has written.                            *)
LEMMA ChildExtends ==
  ASSUME Basis, Child, NEW m \in Nat, Run(stdout, m, emitted)
  PROVE  Run(stdout', m, emitted')
<1>0. stdout \in Seq(Item) /\ emitted \in Nat /\ owed \in Nat
  BY Sizes, ChannelAssumption DEF Basis, DataInv, SystemTypes, Ticket, ChannelAssumption
<1>1. CASE Begin \/ Flood
  <2>1. ASSUME NEW x \in {Part, TooMuch}, stdout' = Append(stdout, x), emitted' = emitted
        PROVE  Run(stdout', m, emitted')
    <3>1. x \in Item /\ x.kind # "frame"
      BY Items
    <3> QED BY <1>0, <2>1, <3>1, RunGrows
  <2> QED BY <1>1, <2>1 DEF Begin, Flood
<1>2. CASE Answer
  <2>1. stdout' = Append(stdout, Frame(emitted + 1, owed)) /\ emitted' = emitted + 1
    BY <1>2 DEF Answer
  <2>2. /\ Frame(emitted + 1, owed) \in Item
        /\ Frame(emitted + 1, owed).kind = "frame" /\ Frame(emitted + 1, owed).no = emitted + 1
    BY <1>0, Items
  <2> QED BY <1>0, <2>1, <2>2, RunGrows
<1>3. CASE Speak
  <2>1. stdout' = Append(stdout, Frame(emitted + 1, 0)) /\ emitted' = emitted + 1
    BY <1>3 DEF Speak
  <2>2. /\ Frame(emitted + 1, 0) \in Item
        /\ Frame(emitted + 1, 0).kind = "frame" /\ Frame(emitted + 1, 0).no = emitted + 1
    BY <1>0, Items
  <2> QED BY <1>0, <2>1, <2>2, RunGrows
<1>4. CASE RootEnds \/ HelperEnds
  BY <1>4 DEF RootEnds, HelperEnds, pipes
<1> QED BY <1>1, <1>2, <1>3, <1>4 DEF Child

LEMMA ChildKeepsOrder == ASSUME Basis, OrderInv, Child PROVE OrderInv'
<1>1. UNCHANGED <<threads, queues, flags, locks, callers, returns>>
  BY DEF Child, Begin, Answer, Speak, Flood, RootEnds, HelperEnds
<1>2. InOrder' /\ KeptInv' /\ Taken' = Taken /\ (Spoilt => Spoilt')
  BY <1>1 DEF OrderInv, InOrder, KeptInv, Taken, Spoilt, queues, flags, locks, callers, returns
<1>3. ASSUME NEW m \in Nat, Run(stdout, m, emitted) PROVE Run(stdout', m, emitted')
  BY <1>3, ChildExtends
<1>4. Orderly(Taken) => Orderly(Taken)'
  BY <1>1, <1>2, <1>3 DEF Orderly, QueueFrom, threads, reader, queues
<1> QED BY <1>2, <1>4 DEF OrderInv

(* The threads move frames on, or lose one and fail.                       *)
LEMMA ThreadKeepsOrder == ASSUME Basis, OrderInv, Thread PROVE OrderInv'
<1>s. /\ Len(delivered) \in Nat /\ Taken \in Nat /\ Len(frames) \in Nat /\ emitted \in Nat
      /\ MaxQueued \in Nat \ {0} /\ DOMAIN frames = 1..Len(frames)
      /\ frames \in Seq(Item) /\ chunk \in Seq(Item) /\ stdout \in Seq(Item)
  BY Sizes DEF Basis, DataInv, ReaderTypes, SystemTypes
<1>1. UNCHANGED <<locks, callers, returns>>
  BY DEF Thread, Stdout, Read, Deal, EndOfOutput, Look, FindNothing, StderrEnds, Fetch, WriteOut
<1>2. InOrder' /\ KeptInv' /\ Taken' = Taken
  BY <1>1 DEF OrderInv, InOrder, KeptInv, Taken, callers, returns
<1>3. ASSUME failed => failed', UNCHANGED frames, Spoilt PROVE Spoilt'
  BY <1>1, <1>3 DEF Spoilt, locks, callers, returns
<1>4. ASSUME failed => failed', NEW x, frames' = Append(frames, x), Spoilt PROVE Spoilt'
  <2>1. frames # <<>> => frames' # <<>> /\ frames'[1] = frames[1]
    BY <1>s, <1>4
  <2> QED BY <1>1, <1>4, <2>1 DEF Spoilt, locks, callers, returns
<1>5. CASE Read
  <2>1. frames' = frames /\ out' = out /\ chunk = <<>> /\ chunk' = stdout /\ stdout' = <<>>
        /\ emitted' = emitted /\ failed' = failed
    BY <1>5 DEF Read, queues, flags
  <2>2. ASSUME Orderly(Taken) PROVE Orderly(Taken)'
    <3>1. ASSUME NEW m \in Nat, Run(<<>>, Taken + Len(frames), m), Run(stdout, m, emitted)
          PROVE  Run(stdout, Taken + Len(frames), emitted)
      BY <1>s, <3>1, RunOfNothing
    <3>2. Run(<<>>, emitted, emitted)
      BY <1>s, RunOfNothing
    <3> QED BY <1>s, <1>2, <2>1, <2>2, <3>1, <3>2 DEF Orderly, QueueFrom
  <2> QED BY <1>2, <1>3, <2>1, <2>2 DEF OrderInv
<1>6. CASE Deal
  <2>0. /\ chunk # <<>> /\ out = "reading" /\ UNCHANGED <<stdout, emitted>>
        /\ chunk' = (IF Head(chunk) = TooMuch THEN <<>> ELSE Tail(chunk))
        /\ failed => failed'
    BY <1>6 DEF Deal, pipes, Put
  <2>1. CASE Head(chunk).kind = "frame" /\ Put(Head(chunk))
    <3>1. CASE Len(frames) < MaxQueued
      <4>1. frames' = Append(frames, Head(chunk)) /\ failed' = failed
        BY <2>1, <3>1 DEF Put
      <4>2. ASSUME Orderly(Taken) PROVE Orderly(Taken)'
        <5>1. PICK m \in Nat : Run(chunk, Taken + Len(frames), m) /\ Run(stdout, m, emitted)
          BY <2>0, <4>2 DEF Orderly
        <5>2. /\ Head(chunk).no = Taken + Len(frames) + 1
              /\ Run(Tail(chunk), Taken + Len(frames) + 1, m)
          BY <1>s, <2>0, <2>1, <5>1, RunShrinks
        <5>3. chunk' = Tail(chunk)
          BY <2>0, <2>1, Items
        <5>4. /\ Len(frames') = Len(frames) + 1 /\ DOMAIN frames' = 1..(Len(frames) + 1)
              /\ \A i \in DOMAIN frames : frames'[i] = frames[i]
              /\ frames'[Len(frames) + 1] = Head(chunk)
          BY <1>s, <4>1
        <5>5. \A i \in DOMAIN frames' : i \in DOMAIN frames \/ i = Len(frames) + 1
          BY <1>s, <5>4
        <5>6. \A i \in DOMAIN frames' :
                /\ frames'[i] = End \/ (frames'[i].kind = "frame" /\ frames'[i].no = Taken + i)
                /\ frames'[i].kind = "frame"
          <6>1. \A i \in DOMAIN frames :
                  /\ frames[i] = End \/ (frames[i].kind = "frame" /\ frames[i].no = Taken + i)
                  /\ frames[i].kind = "frame"
            BY <2>0, <4>2 DEF Orderly, QueueFrom
          <6>2. Head(chunk).no = Taken + (Len(frames) + 1)
            BY <1>s, <5>2
          <6> QED BY <2>1, <5>4, <5>5, <6>1, <6>2
        <5>7. Run(chunk', Taken + Len(frames'), m) /\ Run(stdout', m, emitted')
          <6>1. Taken + Len(frames') = Taken + Len(frames) + 1
            BY <1>s, <5>4
          <6> QED BY <2>0, <5>1, <5>2, <5>3, <6>1
        <5> QED BY <1>2, <5>6, <5>7 DEF Orderly, QueueFrom
      <4> QED BY <1>2, <1>4, <2>0, <4>1, <4>2 DEF OrderInv
    <3>2. CASE ~(Len(frames) < MaxQueued)
      <4>1. frames' = frames /\ failed' = TRUE
        BY <2>1, <3>2 DEF Put
      <4>2. ASSUME Orderly(Taken) PROVE Spoilt'
        <5>1. frames # <<>> /\ 1 \in DOMAIN frames
          BY <1>s, <3>2
        <5>2. frames[1] = End \/ frames[1].no = Taken + 1
          BY <4>2, <5>1 DEF Orderly, QueueFrom
        <5>3. \A c \in Caller : pc[c] = "get" => Taken = Len(delivered)
          BY Sizes DEF Calling
        <5> QED BY <1>1, <4>1, <5>1, <5>2, <5>3 DEF Spoilt, callers, returns
      <4> QED BY <1>2, <1>3, <4>1, <4>2 DEF OrderInv
    <3> QED BY <3>1, <3>2
  <2>2. CASE Head(chunk).kind # "frame" /\ UNCHANGED frames
             /\ (Head(chunk).kind # "part" => failed')
    <3>1. ASSUME Orderly(Taken) PROVE Orderly(Taken)'
      <4>1. PICK m \in Nat : Run(chunk, Taken + Len(frames), m) /\ Run(stdout, m, emitted)
        BY <2>0, <3>1 DEF Orderly
      <4>2. Run(Tail(chunk), Taken + Len(frames), m)
        BY <1>s, <2>0, <2>2, <4>1, RunShrinks
      <4>3. out' # "ended" => chunk' = Tail(chunk)
        BY <1>6, <2>0 DEF Deal
      <4> QED BY <1>2, <2>0, <2>2, <3>1, <4>1, <4>2, <4>3 DEF Orderly, QueueFrom
    <3> QED BY <1>2, <1>3, <2>0, <2>2, <3>1 DEF OrderInv
  <2> QED BY <1>6, <2>1, <2>2 DEF Deal
<1>7. CASE EndOfOutput
  <2>1. out' = "ended" /\ (failed => failed')
    BY <1>7 DEF EndOfOutput, Put
  <2>2. frames' = frames \/ frames' = Append(frames, End)
    BY <1>7 DEF EndOfOutput, Put
  <2>3. CASE frames' = frames
    BY <1>2, <1>3, <2>1, <2>3 DEF OrderInv, Orderly, QueueFrom
  <2>4. CASE frames' = Append(frames, End)
    <3>1. \A i \in DOMAIN frames' :
            (i \in DOMAIN frames /\ frames'[i] = frames[i]) \/ frames'[i] = End
      BY <1>s, <2>4
    <3>2. Orderly(Taken) => Orderly(Taken)'
      BY <1>2, <2>1, <3>1 DEF Orderly, QueueFrom
    <3> QED BY <1>2, <1>4, <2>1, <2>4, <3>2 DEF OrderInv
  <2> QED BY <2>2, <2>3, <2>4
<1>8. CASE Look \/ FindNothing \/ StderrEnds \/ Fetch \/ WriteOut
  <2>1. /\ UNCHANGED <<frames, chunk, stdout, emitted>> /\ (failed => failed')
        /\ out' # "ended" => out # "ended"
    BY <1>8 DEF Look, FindNothing, StderrEnds, Fetch, WriteOut, queues, flags, reader, pipes
  <2>2. Orderly(Taken) => Orderly(Taken)'
    BY <1>2, <2>1 DEF Orderly, QueueFrom
  <2> QED BY <1>2, <1>3, <2>1, <2>2 DEF OrderInv
<1> QED BY <1>5, <1>6, <1>7, <1>8 DEF Thread, Stdout

(* A caller that neither takes a frame nor has one moves on.  He asks for  *)
(* a frame only when the channel has not failed.                           *)
LEMMA CallerMoves ==
  ASSUME Basis, OrderInv, NEW c \in Caller, NEW p, Go(c, p), pc[c] # "got", p # "got",
         UNCHANGED <<frames, chunk, stdout, out, emitted, delivered>>,
         p = "get" => ~failed /\ pc[c] \in Calling,
         failed => failed', pc[c] = "lock" => failed',
         \A d \in Caller \ {c} : (io = d => io' = d) /\ kept'[d] = kept[d]
  PROVE  OrderInv'
<1>1. pc'[c] = p /\ \A d \in Caller \ {c} : pc'[d] = pc[d]
  BY DEF Go, Basis, IInv
<1>2. InOrder' /\ KeptInv'
  BY <1>1 DEF OrderInv, InOrder, KeptInv
<1>3. Taken' = Taken
  BY <1>1 DEF Taken
<1>4. Orderly(Taken) => Orderly(Taken)'
  BY <1>3 DEF Orderly, QueueFrom
<1>5. ASSUME Spoilt PROVE Spoilt'
  <2>1. failed' \/ \E d \in Caller : pc'[d] = "lock" /\ io' = d
    BY <1>1, <1>5 DEF Spoilt
  <2>2. p # "get"
    <3>1. pc[c] \in Calling => io = c /\ pc[c] # "lock"
      BY Sizes DEF Calling
    <3> QED BY <1>5, <3>1 DEF Spoilt
  <2> QED BY <1>1, <1>5, <2>1, <2>2 DEF Spoilt
<1> QED BY <1>2, <1>4, <1>5 DEF OrderInv

(* A frame is returned: the first one nobody has.                          *)
LEMMA DeliverKeeps ==
  ASSUME Basis, InOrder, NEW c \in Caller, NEW x \in Item, Deliver(c, x),
         io = c, pc[c] \in Calling, x.no = Len(delivered) + 1
  PROVE  /\ InOrder' /\ KeptInv' /\ Taken' = Len(delivered) + 1
         /\ \A d \in Caller : pc'[d] # "get"
<1>1. delivered \in Seq(Item) /\ Len(delivered) \in Nat
  BY DEF Basis, DataInv, CallTypes
<1>2. /\ Len(delivered') = Len(delivered) + 1
      /\ \A i \in DOMAIN delivered' :
           (i \in DOMAIN delivered /\ delivered'[i] = delivered[i])
           \/ (i = Len(delivered) + 1 /\ delivered'[i] = x)
  BY <1>1 DEF Deliver
<1>3. InOrder'
  BY <1>2 DEF InOrder
<1>4. pc'[c] = "idle" /\ \A d \in Caller \ {c} : pc'[d] = pc[d]
  BY DEF Deliver, Return, Go, Basis, IInv
<1>5. \A d \in Caller : pc'[d] # "get" /\ pc'[d] # "got"
  BY <1>4, Sizes DEF Calling
<1>6. KeptInv'
  BY <1>5 DEF KeptInv
<1>7. Taken' = Len(delivered')
  BY <1>1, <1>2, <1>5 DEF Taken
<1> QED BY <1>2, <1>3, <1>5, <1>6, <1>7

(* What is behind the frame that leaves the queue.                         *)
LEMMA QueueMoves ==
  ASSUME Basis, Orderly(Taken), frames # <<>>, Head(frames) # End, frames' = Tail(frames),
         UNCHANGED <<chunk, stdout, out, emitted>>, Taken' = Taken + 1
  PROVE  Orderly(Taken)'
<1>1. /\ Taken \in Nat /\ Len(frames) \in Nat /\ frames \in Seq(Item)
      /\ DOMAIN frames = 1..Len(frames)
  BY Sizes DEF Basis, DataInv, ReaderTypes
<1>2. /\ Len(frames') \in Nat /\ Len(frames') + 1 = Len(frames)
      /\ DOMAIN frames' = 1..Len(frames')
      /\ \A i \in DOMAIN frames' : frames'[i] = frames[i + 1] /\ i + 1 \in DOMAIN frames
  BY <1>1
<1>3. QueueFrom(Taken)'
  <2>1. \A i \in DOMAIN frames' : (Taken + 1) + i = Taken + (i + 1)
    BY <1>1, <1>2
  <2> QED BY <1>2, <2>1 DEF Orderly, QueueFrom
<1>4. Taken' + Len(frames') = Taken + Len(frames)
  BY <1>1, <1>2
<1> QED BY <1>2, <1>3, <1>4 DEF Orderly

LEMMA GetKeepsOrder == ASSUME Basis, OrderInv, NEW c \in Caller, Get(c) PROVE OrderInv'
<1>1. /\ pc[c] = "get" /\ io = c /\ pc[c] \in Calling /\ Taken = Len(delivered)
      /\ Taken \in Nat /\ pc[c] # "lock"
  BY Sizes DEF Get, Calling
<1>2. UNCHANGED <<chunk, stdout, out, emitted, failed>>
  BY DEF Get, pipes, threads, reader, flags
<1>3. \A d \in Caller \ {c} : pc[d] # "get" /\ pc[d] # "got"
  BY <1>1, Sizes DEF Calling
<1>4. Spoilt => failed
  BY <1>1 DEF Spoilt
<1>5. CASE frames = <<>>
  <2>1. Go(c, "recheck") /\ UNCHANGED <<frames, delivered, io, kept>>
    BY <1>5 DEF Get, InCall, returns
  <2> QED BY <1>1, <1>2, <2>1, CallerMoves
<1>6. CASE frames # <<>>
  <2>1. frames' = Tail(frames)
    BY <1>6 DEF Get
  <2>2. Head(frames) \in Item /\ Head(frames) = frames[1] /\ 1 \in DOMAIN frames
    BY <1>6 DEF Basis, DataInv, ReaderTypes
  <2>3. Head(frames) # End => Head(frames).no = Len(delivered) + 1
    BY <1>1, <2>2 DEF OrderInv, Orderly, QueueFrom, Spoilt
  <2>4. CASE Head(frames) = End
    <3>1. Go(c, "lock") /\ UNCHANGED <<delivered, io, kept>>
      BY <1>6, <2>4 DEF Get, InCall, returns
    <3>2. pc'[c] = "lock" /\ \A d \in Caller \ {c} : pc'[d] = pc[d]
      BY <3>1 DEF Go, Basis, IInv
    <3>3. InOrder' /\ KeptInv'
      BY <1>3, <3>1, <3>2 DEF OrderInv, InOrder, KeptInv
    <3>4. Spoilt'
      BY <1>1, <1>3, <3>1, <3>2 DEF Spoilt
    <3> QED BY <3>3, <3>4 DEF OrderInv
  <2>5. CASE Head(frames) # End /\ Deliver(c, Head(frames))
    <3>1. InOrder' /\ KeptInv' /\ Taken' = Taken + 1 /\ \A d \in Caller : pc'[d] # "get"
      BY <1>1, <2>2, <2>3, <2>5, DeliverKeeps DEF OrderInv
    <3>2. Orderly(Taken) => Orderly(Taken)'
      BY <1>2, <1>6, <2>1, <2>5, <3>1, QueueMoves
    <3>3. Spoilt => Spoilt'
      BY <1>2, <1>4, <3>1 DEF Spoilt
    <3> QED BY <3>1, <3>2, <3>3 DEF OrderInv
  <2>6. CASE /\ Head(frames) # End /\ kept' = [kept EXCEPT ![c] = Head(frames)] /\ Go(c, "got")
             /\ UNCHANGED <<io, delivered>>
    <3>1. pc'[c] = "got" /\ \A d \in Caller \ {c} : pc'[d] = pc[d]
      BY <2>6 DEF Go, Basis, IInv
    <3>2. kept'[c] = Head(frames)
      BY <2>6 DEF Basis, DataInv, CallTypes
    <3>3. InOrder' /\ KeptInv'
      BY <1>3, <2>3, <2>6, <3>1, <3>2 DEF OrderInv, InOrder, KeptInv
    <3>4. Taken' = Taken + 1
      BY <1>1, <2>6, <3>1 DEF Taken
    <3>5. Orderly(Taken) => Orderly(Taken)'
      BY <1>2, <1>6, <2>1, <2>6, <3>4, QueueMoves
    <3>6. Spoilt => Spoilt'
      BY <1>2, <1>3, <1>4, <3>1 DEF Spoilt
    <3> QED BY <3>3, <3>5, <3>6 DEF OrderInv
  <2> QED BY <1>6, <2>4, <2>5, <2>6 DEF Get, returns
<1> QED BY <1>5, <1>6

LEMMA GotKeepsOrder == ASSUME Basis, OrderInv, NEW c \in Caller, Got(c) PROVE OrderInv'
<1>1. /\ pc[c] = "got" /\ io = c /\ pc[c] \in Calling /\ Taken = Len(delivered) + 1
      /\ kept[c].no = Len(delivered) + 1 /\ pc[c] # "lock"
  BY Sizes DEF Got, Calling, OrderInv, KeptInv
<1>2. UNCHANGED <<frames, chunk, stdout, out, emitted, failed>>
  BY DEF Got, pipes, threads, reader, queues, flags
<1>3. \A d \in Caller \ {c} : pc[d] # "get" /\ pc[d] # "got"
  BY <1>1, Sizes DEF Calling
<1>4. CASE Late(c)
  <2>1. Go(c, "lock") /\ UNCHANGED <<delivered, io>>
    BY <1>4 DEF Got, InCall
  <2>2. pc'[c] = "lock" /\ \A d \in Caller \ {c} : pc'[d] = pc[d]
    BY <2>1 DEF Go, Basis, IInv
  <2>3. InOrder' /\ KeptInv'
    BY <1>3, <2>1, <2>2 DEF OrderInv, InOrder, KeptInv
  <2>4. Spoilt'
    BY <1>1, <1>3, <2>1, <2>2 DEF Spoilt
  <2> QED BY <2>3, <2>4 DEF OrderInv
<1>5. CASE ~Late(c)
  <2>1. Deliver(c, kept[c]) /\ ~failed /\ kept[c] \in Item
    BY <1>5 DEF Got, Late, Basis, DataInv, CallTypes
  <2>2. InOrder' /\ KeptInv' /\ Taken' = Taken
    BY <1>1, <2>1, DeliverKeeps DEF OrderInv
  <2>3. Orderly(Taken)
    BY <1>1, <2>1 DEF OrderInv, Spoilt
  <2>4. Orderly(Taken)'
    BY <1>2, <2>2, <2>3 DEF Orderly, QueueFrom
  <2> QED BY <2>2, <2>4 DEF OrderInv
<1> QED BY <1>4, <1>5

(* The other steps of a caller.                                            *)
LEMMA CallersKeepOrder ==
  ASSUME Basis, OrderInv, NEW c \in Caller,
         (\E o \in Operation : Call(c, o)) \/ CallClose(c) \/ Expire(c) \/ Step(c)
  PROVE  OrderInv'
<1>1. CASE Get(c) \/ Got(c)
  BY <1>1, GetKeepsOrder, GotKeepsOrder
<1>2. CASE Expire(c)
  <2>1. UNCHANGED <<pc, kept, io, failed, frames, chunk, stdout, out, emitted, delivered>>
    BY <1>2 DEF Expire, pipes, threads, reader, queues, flags, locks, returns
  <2> QED BY <2>1 DEF OrderInv, InOrder, KeptInv, Taken, Orderly, QueueFrom, Spoilt
<1>3. CASE ~(Get(c) \/ Got(c)) /\ ~Expire(c)
  <2>0. (\E o \in Operation : Call(c, o)) \/ CallClose(c) \/ (Step(c) /\ ~(Get(c) \/ Got(c)))
    BY <1>3
  <2>. USE DEF pipes, threads, reader, queues, flags, locks, returns, InCall, ClosePaused
  <2>1. UNCHANGED <<frames, chunk, stdout, out, emitted, delivered>>
    BY <2>0 DEF Call, CallClose, Step, Check, IdleCheck, Submit, AwaitDone, Recheck, Lock, Kill,
                Wait, Join, Quiet
  <2>2. /\ failed => failed'
        /\ pc[c] = "lock" => failed'
        /\ pc[c] # "got"
    <3>1. CASE Lock(c)
      BY <3>1 DEF Lock, Basis, IInv, ClosedMeansQuiet
    <3>2. CASE ~Lock(c)
      BY <2>0, <3>2 DEF Call, CallClose, Step, Check, IdleCheck, Submit, AwaitDone, Recheck,
                        Kill, Wait, Join, Quiet, CloseFails
    <3> QED BY <3>1, <3>2
  <2>3. \A d \in Caller \ {c} : (io = d => io' = d) /\ kept'[d] = kept[d]
    <3>1. CASE Return(c)
      BY <3>1 DEF Return
    <3>2. CASE UNCHANGED <<io, kept>>
      BY <3>2
    <3>3. CASE io = Nobody /\ UNCHANGED kept
      BY <3>3, NobodyAssumption
    <3> QED
      BY <2>0, <3>1, <3>2, <3>3
         DEF Call, CallClose, Step, Check, IdleCheck, Submit, AwaitDone, Recheck, Lock, Kill,
             Wait, Join, Quiet, CloseFails
  <2>4. \E p : Go(c, p) /\ p # "got" /\ (p = "get" => ~failed /\ pc[c] \in Calling)
    <3>1. CASE Recheck(c)
      BY <3>1 DEF Recheck, Late, Calling
    <3>2. CASE ~Recheck(c)
      BY <2>0, <3>2
         DEF Call, CallClose, Step, Check, IdleCheck, Submit, AwaitDone, Lock, Kill, Wait, Join,
             Quiet, CloseFails, Return
    <3> QED BY <3>1, <3>2
  <2> QED BY <2>1, <2>2, <2>3, <2>4, CallerMoves
<1> QED BY <1>1, <1>2, <1>3

LEMMA NextKeepsOrder == ASSUME Basis, OrderInv, [Next]_vars PROVE OrderInv'
<1>1. CASE UNCHANGED vars
  BY <1>1
     DEF OrderInv, InOrder, KeptInv, Taken, Orderly, QueueFrom, Spoilt, vars, pipes, threads,
         reader, queues, flags, locks, callers, returns
<1> QED BY <1>1, ChildKeepsOrder, ThreadKeepsOrder, CallersKeepOrder DEF Next

LEMMA OrderInvariant == Spec => [](Basis /\ OrderInv)
<1>1. Init => OrderInv
  <2>1. ASSUME Init PROVE OrderInv
    <3>1. Taken = 0 /\ frames = <<>> /\ chunk = <<>> /\ stdout = <<>> /\ emitted = 0
          /\ delivered = <<>> /\ \A c \in Caller : pc[c] = "idle"
      BY <2>1 DEF Init, Taken
    <3>2. Run(<<>>, 0, 0)
      BY RunOfNothing
    <3>3. Orderly(Taken)
      BY <3>1, <3>2 DEF Orderly, QueueFrom
    <3> QED BY <3>1, <3>3 DEF OrderInv, InOrder, KeptInv
  <2> QED BY <2>1
<1>2. Basis /\ OrderInv /\ [Next]_vars => OrderInv'
  BY NextKeepsOrder
<1>3. Spec => []Basis
  BY TypeInvariant, Invariant, PTL DEF Basis
<1> QED BY <1>1, <1>2, <1>3, PTL DEF Spec

(* Of the frames the child has written, the callers are returned the first *)
(* ones in their order, however many callers, operations and frames there  *)
(* are, whatever the queue holds and whatever fails (duplex.py:45-72,      *)
(* framed_channel.py:53-92, 154-174).                                      *)
THEOREM DeliversInOrder == Spec => []InOrder
<1>1. OrderInv => InOrder
  BY DEF OrderInv
<1> QED BY <1>1, OrderInvariant, PTL
=============================================================================
