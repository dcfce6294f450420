--------------------------- MODULE ChannelAnswers ---------------------------
(***************************************************************************)
(* Theorems about what the callers of a Channel may conclude from its      *)
(* queues: that a channel found idle has been read to the end, and that    *)
(* exchange returns the answer to its own request.                         *)
(*                                                                         *)
(* A channel is found idle in two looks, at the queue (Check) and at what  *)
(* the reader and the pipe hold (IdleCheck), and the child and the reader  *)
(* go on between them.  IdleInv says that at the second everything was     *)
(* passed on without loss, or the second sees that it was not; OwedInv     *)
(* that an answer once begun can be seen until it is complete.             *)
(*                                                                         *)
(* An answer carries no number of its request.  It belongs to the caller   *)
(* because nothing is under way when he puts his request (Settled), and    *)
(* because whoever leaves something behind closes the channel to the       *)
(* others (AnswerInv).                                                     *)
(***************************************************************************)
EXTENDS ChannelProofs, SequenceTheorems

-----------------------------------------------------------------------------
(* A channel that is found idle                                            *)

(* An answer that was begun is still behind everything that is complete.   *)
Open(s) == s[Len(s)].kind # "frame"

OwedInv ==
  owed # 0 =>
    /\ stdout # <<>> => Open(stdout)
    /\ stdout = <<>> /\ chunk # <<>> => Open(chunk)
    /\ stdout = <<>> /\ chunk = <<>> => pending

(* Nothing was lost on the way to the queue.                               *)
Lossless == \E m \in Nat : Run(chunk, Len(delivered) + Len(frames), m) /\ Run(stdout, m, emitted)

(* The reader ends with an empty hand, and unless everybody has left the   *)
(* pipe, because of a failure.  Whoever looks whether the channel is idle  *)
(* sees everything, or sees that he does not.                              *)
IdleInv ==
  /\ OwedInv
  /\ out = "ended" => chunk = <<>> /\ (failed \/ ~PipesHeld)
  /\ \A c \in Caller : pc[c] = "idle_check" /\ PipesHeld =>
       frames # <<>> \/ (pending /\ out = "ended") \/ Lossless

LEMMA ChildKeepsOwed == ASSUME Basis, OwedInv, Child PROVE OwedInv'
<1>1. UNCHANGED <<chunk, pending>> /\ stdout \in Seq(Item)
  BY DEF Child, Begin, Answer, Speak, Flood, RootEnds, HelperEnds, threads, reader, Basis,
         DataInv, SystemTypes
<1>2. ASSUME NEW x \in {Part, TooMuch}, stdout' = Append(stdout, x) PROVE OwedInv'
  <2>1. x \in Item /\ x.kind # "frame"
    BY Items
  <2>2. stdout' # <<>> /\ stdout'[Len(stdout')] = x
    BY <1>1, <1>2, <2>1
  <2> QED BY <1>1, <2>1, <2>2 DEF OwedInv, Open
<1>3. CASE Begin \/ Flood
  BY <1>2, <1>3 DEF Begin, Flood
<1>4. CASE Answer \/ Speak
  BY <1>4 DEF Answer, Speak, OwedInv
<1>5. CASE RootEnds \/ HelperEnds
  BY <1>1, <1>5 DEF RootEnds, HelperEnds, pipes, OwedInv, Open
<1> QED BY <1>3, <1>4, <1>5 DEF Child

LEMMA ThreadKeepsOwed == ASSUME Basis, OwedInv, Thread PROVE OwedInv'
<1>1. chunk \in Seq(Item) /\ stdout \in Seq(Item)
  BY DEF Basis, DataInv, ReaderTypes, SystemTypes
<1>2. CASE Read
  BY <1>2 DEF Read, OwedInv, Open
<1>3. CASE Deal
  <2>1. UNCHANGED <<owed, stdout>> /\ chunk # <<>>
        /\ chunk' = IF Head(chunk) = TooMuch THEN <<>> ELSE Tail(chunk)
    BY <1>3 DEF Deal, pipes
  <2>2. Head(chunk).kind # "frame" => pending' = TRUE
    BY <1>3 DEF Deal
  <2>3. Head(chunk) = TooMuch => Head(chunk).kind # "frame"
    BY Items
  <2>4. Tail(chunk) # <<>> => Tail(chunk)[Len(Tail(chunk))] = chunk[Len(chunk)]
    BY <1>1, <2>1
  <2>5. Tail(chunk) = <<>> => Head(chunk) = chunk[Len(chunk)]
    <3>1. Len(chunk) \in Nat /\ Len(chunk) # 0 /\ Len(Tail(chunk)) = Len(chunk) - 1
          /\ Head(chunk) = chunk[1]
      BY <1>1, <2>1
    <3>2. Tail(chunk) \in Seq(Item)
      BY <1>1, <2>1
    <3>3. Tail(chunk) = <<>> => Len(Tail(chunk)) = 0
      BY <3>2, EmptySeq
    <3> QED BY <3>1, <3>3
  <2> QED BY <2>1, <2>2, <2>3, <2>4, <2>5 DEF OwedInv, Open
<1>4. CASE EndOfOutput \/ Look \/ FindNothing \/ StderrEnds \/ Fetch \/ WriteOut
  BY <1>4 DEF EndOfOutput, Look, FindNothing, StderrEnds, Fetch, WriteOut, pipes, reader,
              OwedInv, Open
<1> QED BY <1>2, <1>3, <1>4 DEF Thread, Stdout

LEMMA ChildKeepsIdle == ASSUME Basis, IdleInv, Child PROVE IdleInv'
<1>1. /\ UNCHANGED <<frames, chunk, pending, out, failed, pc, delivered>>
      /\ PipesHeld' => PipesHeld
  BY DEF Child, Begin, Answer, Speak, Flood, RootEnds, HelperEnds, threads, reader, queues,
         flags, callers, returns, job, PipesHeld
<1>2. OwedInv'
  BY ChildKeepsOwed DEF IdleInv
<1>3. Lossless => Lossless'
  BY <1>1, ChildExtends DEF Lossless
<1> QED BY <1>1, <1>2, <1>3 DEF IdleInv

LEMMA ThreadKeepsIdle == ASSUME Basis, IdleInv, Thread PROVE IdleInv'
<1>s. /\ Len(delivered) \in Nat /\ Len(frames) \in Nat /\ emitted \in Nat
      /\ MaxQueued \in Nat \ {0}
      /\ frames \in Seq(Item) /\ chunk \in Seq(Item) /\ stdout \in Seq(Item)
  BY Sizes DEF Basis, DataInv, ReaderTypes, SystemTypes
<1>1. /\ UNCHANGED <<pc, delivered, emitted>> /\ PipesHeld' = PipesHeld
      /\ failed => failed'
  BY DEF Thread, Stdout, Read, Deal, EndOfOutput, Look, FindNothing, StderrEnds, Fetch,
         WriteOut, callers, returns, job, flags, Put, PipesHeld, pipes
<1>2. OwedInv'
  BY ThreadKeepsOwed DEF IdleInv
<1>3. out' = "ended" => chunk' = <<>> /\ (failed' \/ ~PipesHeld')
  <2>1. CASE Deal
    <3>1. out' = "ended" => Head(chunk) = TooMuch
      BY <2>1 DEF Deal
    <3>2. Head(chunk) = TooMuch => chunk' = <<>> /\ failed'
      BY <2>1, Items DEF Deal
    <3> QED BY <3>1, <3>2
  <2>2. CASE Look \/ FindNothing \/ Read \/ EndOfOutput
    BY <1>1, <2>2 DEF Look, FindNothing, Read, EndOfOutput, flags, PipesHeld
  <2>3. CASE StderrEnds \/ Fetch \/ WriteOut
    BY <1>1, <2>3 DEF StderrEnds, Fetch, WriteOut, reader, IdleInv
  <2> QED BY <2>1, <2>2, <2>3 DEF Thread, Stdout
<1>4. ASSUME NEW c \in Caller, pc[c] = "idle_check", PipesHeld
      PROVE  frames' # <<>> \/ (pending' /\ out' = "ended") \/ Lossless'
  <2>1. frames # <<>> \/ (pending /\ out = "ended") \/ Lossless
    BY <1>4 DEF IdleInv
  <2>2. frames # <<>> => frames' # <<>>
    BY <1>s DEF Thread, Stdout, Read, Deal, EndOfOutput, Look, FindNothing, StderrEnds, Fetch,
                WriteOut, queues, Put
  <2>3. out = "ended" => out' = "ended" /\ pending' = pending
    BY DEF Thread, Stdout, Read, Deal, EndOfOutput, Look, FindNothing, StderrEnds, Fetch,
           WriteOut, reader
  <2>4. ASSUME Lossless, frames = <<>>
        PROVE  frames' # <<>> \/ (pending' /\ out' = "ended") \/ Lossless'
    <3>1. PICK m \in Nat : Run(chunk, Len(delivered) + Len(frames), m) /\ Run(stdout, m, emitted)
      BY <2>4 DEF Lossless
    <3>2. CASE Read
      <4>1. chunk = <<>> /\ chunk' = stdout /\ stdout' = <<>> /\ frames' = frames
        BY <3>2 DEF Read, queues
      <4>2. m = Len(delivered) + Len(frames)
        BY <1>s, <3>1, <4>1, RunOfNothing
      <4>3. Run(<<>>, emitted, emitted)
        BY <1>s, RunOfNothing
      <4> QED BY <1>1, <1>s, <3>1, <4>1, <4>2, <4>3 DEF Lossless
    <3>3. CASE Deal
      <4>1. /\ chunk # <<>> /\ stdout' = stdout
            /\ chunk' = IF Head(chunk) = TooMuch THEN <<>> ELSE Tail(chunk)
        BY <3>3 DEF Deal, pipes
      <4>2. CASE Head(chunk).kind = "frame"
        <5>1. frames' = Append(frames, Head(chunk))
          BY <1>s, <2>4, <3>3, <4>2 DEF Deal, Put
        <5> QED BY <1>s, <2>4, <5>1
      <4>3. CASE Head(chunk).kind # "frame" /\ Head(chunk) # TooMuch
        <5>1. frames' = frames /\ chunk' = Tail(chunk)
          BY <3>3, <4>1, <4>3 DEF Deal
        <5>2. Run(Tail(chunk), Len(delivered) + Len(frames), m)
          BY <1>s, <3>1, <4>1, <4>3, RunShrinks
        <5> QED BY <1>1, <3>1, <4>1, <5>1, <5>2 DEF Lossless
      <4>4. CASE Head(chunk) = TooMuch
        <5>1. Head(chunk).kind = "too_much"
          BY <4>4, Items
        <5>2. pending' = TRUE /\ failed' = TRUE /\ chunk' = <<>>
          BY <3>3, <4>1, <4>4, <5>1 DEF Deal
        <5> QED BY <3>3, <4>4, <5>2 DEF Deal
      <4> QED BY <4>2, <4>3, <4>4
    <3>4. CASE EndOfOutput
      BY <1>4, <3>4 DEF EndOfOutput
    <3>5. CASE Look \/ FindNothing \/ StderrEnds \/ Fetch \/ WriteOut
      BY <1>1, <2>4, <3>5
         DEF Look, FindNothing, StderrEnds, Fetch, WriteOut, reader, queues, pipes, Lossless
    <3> QED BY <3>2, <3>3, <3>4, <3>5 DEF Thread, Stdout
  <2> QED BY <2>1, <2>2, <2>3, <2>4
<1> QED BY <1>1, <1>2, <1>3, <1>4 DEF IdleInv

(* Only the one who has the channel can take frames away from under the    *)
(* one who looks, and he is that one himself.                              *)
LEMMA CallersKeepIdle ==
  ASSUME Basis, OrderInv, IdleInv, NEW c \in Caller,
         (\E o \in Operation : Call(c, o)) \/ CallClose(c) \/ Expire(c) \/ Step(c)
  PROVE  IdleInv'
<1>. USE DEF pipes, threads, reader, queues, flags, job, returns, InCall, ClosePaused
<1>1. /\ UNCHANGED <<stdout, owed, emitted, out, chunk, pending>>
      /\ PipesHeld' = PipesHeld
      /\ failed => failed'
  <2>1. UNCHANGED <<stdout, owed, emitted, out, chunk, pending>>
    BY DEF Call, CallClose, Expire, Step, Check, IdleCheck, Submit, AwaitDone, Recheck, Get, Got,
           Lock, Kill, Wait, Join, Quiet
  <2>2. UNCHANGED <<root, helper>>
    BY DEF Call, CallClose, Expire, Step, Check, IdleCheck, Submit, AwaitDone, Recheck, Get, Got,
           Lock, Kill, Wait, Join, Quiet, CloseFails
  <2>3. failed => failed'
    BY DEF Call, CallClose, Expire, Step, Check, IdleCheck, Submit, AwaitDone, Recheck, Get, Got,
           Lock, Kill, Wait, Join, Quiet, CloseFails
  <2> QED BY <2>1, <2>2, <2>3 DEF PipesHeld
<1>2. OwedInv'
  BY <1>1 DEF IdleInv, OwedInv, Open
<1>3. out' = "ended" => chunk' = <<>> /\ (failed' \/ ~PipesHeld')
  BY <1>1 DEF IdleInv
<1>4. ASSUME NEW d \in Caller, pc'[d] = "idle_check", PipesHeld
      PROVE  frames' # <<>> \/ (pending' /\ out' = "ended") \/ Lossless'
  <2>1. CASE pc[d] = "idle_check"
    <3>1. UNCHANGED <<frames, delivered>>
      <4>1. ~(Get(c) \/ Got(c))
        BY <2>1, Sizes DEF Get, Got, Calling
      <4> QED
        BY <4>1 DEF Call, CallClose, Expire, Step, Check, IdleCheck, Submit, AwaitDone, Recheck,
                    Lock, Kill, Wait, Join, Quiet
    <3> QED BY <1>1, <1>4, <2>1, <3>1 DEF IdleInv, Lossless
  <2>2. CASE pc[d] # "idle_check"
    <3>1. d = c /\ Check(c) /\ Usable(op[c])
      <4>1. Check(c)
        BY <1>4, <2>2
           DEF Basis, IInv, Call, CallClose, Expire, Step, Check, IdleCheck, Submit, AwaitDone,
               Recheck, Get, Got, Lock, Kill, Wait, Join, Quiet, CloseFails, Return, Deliver, Go
      <4> QED BY <1>4, <2>2, <4>1 DEF Check, Basis, IInv, Go, Return
    <3>2. pc[c] = "check" /\ ~failed /\ UNCHANGED <<frames, delivered>>
      BY <3>1 DEF Check, Usable
    <3>3. Orderly(Taken) /\ Taken = Len(delivered)
      BY <3>2, Sizes DEF OrderInv, Spoilt, Calling
    <3>4. out # "ended"
      BY <1>4, <3>2 DEF IdleInv, Basis, DataInv, ReaderTypes
    <3>5. Lossless
      BY <3>3, <3>4 DEF Orderly, Lossless
    <3> QED BY <1>1, <3>2, <3>5 DEF Lossless
  <2> QED BY <2>1, <2>2
<1> QED BY <1>1, <1>2, <1>3, <1>4 DEF IdleInv

(* When assert_idle returns, everything the child has written until then   *)
(* has been returned to a caller, and it has begun nothing                 *)
(* (framed_channel.py:60-87, 118-129).                                     *)
THEOREM IdleIsRead == Spec => IdleMeansRead
<1>1. Init => IdleInv
  BY DEF Init, IdleInv, OwedInv
<1>2. Basis /\ OrderInv /\ IdleInv /\ [Next]_vars => IdleInv'
  <2>1. ASSUME Basis, OrderInv, IdleInv, UNCHANGED vars PROVE IdleInv'
    BY <2>1
       DEF IdleInv, OwedInv, Open, Lossless, vars, job, pipes, threads, reader, queues, flags,
           callers, returns, PipesHeld
  <2> QED BY <2>1, ChildKeepsIdle, ThreadKeepsIdle, CallersKeepIdle DEF Next
<1>3. Basis /\ IdleInv /\ [Next]_vars =>
        [\A c \in Caller : pc[c] = "idle_check" /\ pc'[c] = "idle" =>
           owed = 0 /\ Len(delivered) = emitted]_vars
  <2>1. ASSUME Basis, IdleInv, Next, NEW c \in Caller, pc[c] = "idle_check", pc'[c] = "idle"
        PROVE  owed = 0 /\ Len(delivered) = emitted
    <3>1. IdleCheck(c)
      <4>1. pc' # pc
        BY <2>1
      <4>2. PICK d \in Caller :
              (\E o \in Operation : Call(d, o)) \/ CallClose(d) \/ Expire(d) \/ Step(d)
        BY <2>1, <4>1
           DEF Next, Child, Begin, Answer, Speak, Flood, RootEnds, HelperEnds, Thread, Stdout, Read,
               Deal, EndOfOutput, Look, FindNothing, StderrEnds, Fetch, WriteOut, callers
      <4>3. d = c
        BY <2>1, <4>2
           DEF Basis, IInv, Call, CallClose, Expire, Step, Check, IdleCheck, Submit, AwaitDone,
               Recheck, Get, Got, Lock, Kill, Wait, Join, Quiet, CloseFails, Return, Deliver, Go
      <4> QED
        BY <2>1, <4>2, <4>3
           DEF Call, CallClose, Expire, Step, Check, Submit, AwaitDone, Recheck, Get, Got, Lock,
               Kill, Wait, Join, Quiet
    <3>2. BufferFree /\ ~pending /\ frames = <<>> /\ stdout = <<>> /\ PipesHeld
      BY <2>1, <3>1 DEF IdleCheck, Go, Basis, IInv
    <3>3. chunk = <<>>
      BY <2>1, <3>2 DEF BufferFree, IdleInv
    <3>4. owed = 0
      BY <2>1, <3>2, <3>3 DEF IdleInv, OwedInv
    <3>5. PICK m \in Nat : Run(<<>>, Len(delivered) + Len(frames), m) /\ Run(<<>>, m, emitted)
      BY <2>1, <3>2, <3>3 DEF IdleInv, Lossless
    <3>6. /\ Len(delivered) \in Nat /\ Len(frames) = 0 /\ emitted \in Nat
          /\ Len(delivered) + Len(frames) \in Nat
      BY <2>1, <3>2, Sizes
    <3>7. m = Len(delivered) + Len(frames) /\ m = emitted
      BY <3>5, <3>6, RunOfNothing
    <3> QED BY <3>4, <3>6, <3>7
  <2> QED BY <2>1
<1>4. Spec => [](Basis /\ OrderInv)
  BY OrderInvariant
<1> QED BY <1>1, <1>2, <1>3, <1>4, PTL DEF Spec, IdleMeansRead

-----------------------------------------------------------------------------
(* Requests and their answers                                              *)

Exchanging ==
  setting.noise = 0 /\ \A c \in Caller : setting.operations[c] \intersect Streaming = {}

Unframed(s) == \A i \in DOMAIN s : s[i].kind # "frame"

(* There is one frame at most, and it is the answer to r.                  *)
Sole(s, r) ==
  /\ \A i \in DOMAIN s : s[i].kind = "frame" => s[i].to = r
  /\ \A i, j \in DOMAIN s : s[i].kind = "frame" /\ s[j].kind = "frame" => i = j

LEMMA SoleGrows ==
  ASSUME NEW s \in Seq(Item), NEW x \in Item, NEW r
  PROVE  /\ x.kind # "frame" => /\ Unframed(s) => Unframed(Append(s, x))
                                /\ Sole(s, r) => Sole(Append(s, x), r)
         /\ x.kind = "frame" /\ x.to = r /\ Unframed(s) => Sole(Append(s, x), r)
<1>. DEFINE t == Append(s, x)
<1>1. /\ DOMAIN t = DOMAIN s \cup {Len(s) + 1}
      /\ \A i \in DOMAIN s : t[i] = s[i]
      /\ t[Len(s) + 1] = x
  OBVIOUS
<1>. HIDE DEF t
<1>2. x.kind # "frame" => (Unframed(s) => Unframed(t)) /\ (Sole(s, r) => Sole(t, r))
  BY <1>1 DEF Unframed, Sole
<1>3. x.kind = "frame" /\ x.to = r /\ Unframed(s) => Sole(t, r)
  BY <1>1 DEF Unframed, Sole
<1> QED BY <1>2, <1>3 DEF t

LEMMA SoleShrinks ==
  ASSUME NEW s \in Seq(Item), s # <<>>, NEW r
  PROVE  /\ Unframed(s) => Unframed(Tail(s)) /\ Head(s).kind # "frame"
         /\ Sole(s, r) => /\ Sole(Tail(s), r)
                          /\ Head(s).kind = "frame" => Head(s).to = r /\ Unframed(Tail(s))
<1>. DEFINE t == Tail(s)
<1>1. /\ Head(s) = s[1] /\ 1 \in DOMAIN s
      /\ \A i \in DOMAIN t : i + 1 \in DOMAIN s /\ t[i] = s[i + 1] /\ i + 1 # 1 /\ i \in Nat
  OBVIOUS
<1>. HIDE DEF t
<1>2. Unframed(s) => Unframed(t) /\ Head(s).kind # "frame"
  BY <1>1 DEF Unframed
<1>3. ASSUME Sole(s, r) PROVE Sole(t, r)
  <2>1. \A i, j \in DOMAIN t : t[i].kind = "frame" /\ t[j].kind = "frame" => i + 1 = j + 1
    BY <1>1, <1>3 DEF Sole
  <2> QED BY <1>1, <1>3, <2>1 DEF Sole
<1>4. Sole(s, r) /\ Head(s).kind = "frame" => Head(s).to = r /\ Unframed(t)
  BY <1>1 DEF Sole, Unframed
<1> QED BY <1>2, <1>3, <1>4 DEF t

(* Where a request and its answer are, one after the other.                *)
Stage == {"writes", "writer", "stdin", "child", "stdout", "chunk", "frames"}

Nothing(q) ==
  /\ q = "writes" => \A i \in DOMAIN writes : writes[i] = Stop
  /\ q = "writer" => writing = 0
  /\ q = "stdin"  => stdin = <<>>
  /\ q = "child"  => owed = 0
  /\ q = "stdout" => Unframed(stdout)
  /\ q = "chunk"  => Unframed(chunk)
  /\ q = "frames" => Unframed(frames)

Only(r) ==
  /\ \A i \in DOMAIN writes : writes[i] \in {Stop, r}
  /\ writing \in {0, r} /\ owed \in {0, r}
  /\ \A i \in DOMAIN stdin : stdin[i] = r
  /\ Sole(stdout, r) /\ Sole(chunk, r) /\ Sole(frames, r)

AllBut(p) == \A q \in Stage \ {p} : Nothing(q)

(* No request is under way; at most the request r is, or its answer.       *)
Settled   == \A q \in Stage : Nothing(q)
Single(r) == Only(r) /\ \E p \in Stage : AllBut(p)

Waiting == {"done", "recheck", "get"}

(* A request is put into a channel in which nothing is under way, and what *)
(* it leaves behind when its caller gives up is behind a failure.          *)
AnswerInv ==
  Exchanging =>
    /\ noise = 0
    /\ \A i \in DOMAIN frames : frames[i] = End \/ frames[i].kind = "frame"
    /\ \A c \in Caller : op[c] \in {"exchange", "close", "none"}
    /\ \A c \in Caller : pc[c] = "put" => Settled
    /\ \A c \in Caller : \A r : pc[c] \in Waiting /\ request[c] = r => Single(r)
    /\ Settled \/ failed \/ \E c \in Caller : (pc[c] = "lock" /\ io = c) \/ pc[c] \in Waiting
    /\ \A answer \in answers : answer[2].to = answer[1]

stages == <<writes, writing, stdin, owed, stdout, chunk, frames>>

LEMMA StagesStay ==
  ASSUME UNCHANGED stages
  PROVE  Settled' = Settled /\ \A r : Single(r)' = Single(r)
BY DEF stages, Settled, Single, Nothing, Only, AllBut, Unframed, Sole

(* The child takes a request, and answers it.                              *)
LEMMA ChildCarries ==
  ASSUME Basis, Child, noise = 0, setting.noise = 0
  PROVE  (Settled => Settled') /\ \A r : Single(r) => Single(r)'
<1>1. /\ stdout \in Seq(Item) /\ stdin \in Seq(Requests) /\ Len(stdin) <= 1
      /\ emitted \in Nat /\ owed \in Nat
  BY Sizes, ChannelAssumption DEF Basis, DataInv, SystemTypes, Ticket, ChannelAssumption
<1>2. UNCHANGED <<writes, writing, chunk, frames>>
  BY DEF Child, Begin, Answer, Speak, Flood, RootEnds, HelperEnds, threads, reader, queues
<1>3. ASSUME NEW x \in {Part, TooMuch}, stdout' = Append(stdout, x)
      PROVE  /\ Unframed(stdout) => Unframed(stdout')
             /\ \A r : Sole(stdout, r) => Sole(stdout', r)
  <2>1. x \in Item /\ x.kind # "frame"
    BY Items
  <2> QED BY <1>1, <1>3, <2>1, SoleGrows
<1>4. CASE Begin
  <2>1. /\ stdin # <<>> /\ owed = 0 /\ owed' = Head(stdin) /\ stdin' = Tail(stdin)
        /\ stdout' = Append(stdout, Part)
    BY <1>4 DEF Begin
  <2>2. Tail(stdin) = <<>> /\ Head(stdin) = stdin[1] /\ 1 \in DOMAIN stdin
    BY <1>1, <2>1
  <2>3. ~Settled
    BY <2>1 DEF Settled, Nothing, Stage
  <2>4. ASSUME NEW r, Single(r) PROVE Single(r)'
    <3>1. PICK p \in Stage : AllBut(p)
      BY <2>4 DEF Single
    <3>2. p = "stdin"
      BY <2>1, <3>1 DEF AllBut, Nothing, Stage
    <3>3. Only(r)'
      BY <1>2, <1>3, <2>1, <2>2, <2>4 DEF Single, Only
    <3>4. AllBut("child")'
      BY <1>2, <1>3, <2>1, <2>2, <3>1, <3>2 DEF AllBut, Nothing, Stage
    <3> QED BY <3>3, <3>4 DEF Single, Stage
  <2> QED BY <2>3, <2>4
<1>5. CASE Answer
  <2>1. /\ owed # 0 /\ owed' = 0 /\ stdin' = stdin
        /\ stdout' = Append(stdout, Frame(emitted + 1, owed))
    BY <1>5 DEF Answer
  <2>2. /\ Frame(emitted + 1, owed) \in Item /\ Frame(emitted + 1, owed).kind = "frame"
        /\ Frame(emitted + 1, owed).to = owed
    BY <1>1, Items DEF Frame
  <2>3. ~Settled
    BY <2>1 DEF Settled, Nothing, Stage
  <2>4. ASSUME NEW r, Single(r) PROVE Single(r)'
    <3>1. PICK p \in Stage : AllBut(p)
      BY <2>4 DEF Single
    <3>2. p = "child"
      BY <2>1, <3>1 DEF AllBut, Nothing, Stage
    <3>3. Unframed(stdout) /\ owed = r
      BY <2>1, <2>4, <3>1, <3>2 DEF AllBut, Nothing, Stage, Single, Only
    <3>4. Sole(stdout', r)
      BY <1>1, <2>1, <2>2, <3>3, SoleGrows
    <3>5. Only(r)'
      BY <1>2, <2>1, <2>4, <3>4 DEF Single, Only
    <3>6. AllBut("stdout")'
      BY <1>2, <2>1, <3>1, <3>2 DEF AllBut, Nothing, Stage
    <3> QED BY <3>5, <3>6 DEF Single, Stage
  <2> QED BY <2>3, <2>4
<1>6. CASE Speak
  BY <1>6 DEF Speak
<1>7. CASE Flood
  <2>1. stdout' = Append(stdout, TooMuch) /\ UNCHANGED <<stdin, owed>>
    BY <1>7 DEF Flood
  <2> QED BY <1>2, <1>3, <2>1 DEF Settled, Single, Nothing, Only, AllBut
<1>8. CASE RootEnds \/ HelperEnds
  BY <1>2, <1>8, StagesStay DEF RootEnds, HelperEnds, pipes, stages
<1> QED BY <1>4, <1>5, <1>6, <1>7, <1>8 DEF Child

(* The threads pass the request on, and the answer, or lose it.            *)
LEMMA ThreadCarries ==
  ASSUME Basis, Thread
  PROVE  (Settled => Settled') /\ \A r : Single(r) => Single(r)'
<1>1. /\ stdout \in Seq(Item) /\ chunk \in Seq(Item) /\ frames \in Seq(Item)
      /\ writes \in Seq(Ticket) /\ Len(writes) <= 1
      /\ Unframed(<<>>) /\ \A r : Sole(<<>>, r)
  BY DEF Basis, DataInv, SystemTypes, ReaderTypes, WriterTypes, Unframed, Sole
<1>2. CASE Read
  <2>1. /\ chunk = <<>> /\ chunk' = stdout /\ stdout' = <<>>
        /\ UNCHANGED <<writes, writing, stdin, owed, frames>>
    BY <1>2 DEF Read, queues
  <2>2. Settled => Settled'
    BY <1>1, <2>1 DEF Settled, Nothing, Stage
  <2>3. ASSUME NEW r, Single(r) PROVE Single(r)'
    <3>1. PICK p \in Stage : AllBut(p)
      BY <2>3 DEF Single
    <3>2. Only(r)'
      BY <1>1, <2>1, <2>3 DEF Single, Only
    <3>3. CASE p \in {"stdout", "chunk"}
      <4>1. AllBut("chunk")'
        BY <1>1, <2>1, <3>1, <3>3 DEF AllBut, Nothing, Stage
      <4> QED BY <3>2, <4>1 DEF Single, Stage
    <3>4. CASE p \notin {"stdout", "chunk"}
      <4>1. AllBut(p)'
        BY <1>1, <2>1, <3>1, <3>4 DEF AllBut, Nothing, Stage
      <4> QED BY <3>2, <4>1 DEF Single
    <3> QED BY <3>3, <3>4
  <2> QED BY <2>2, <2>3
<1>3. CASE Deal
  <2>1. /\ chunk # <<>> /\ UNCHANGED <<writes, writing, stdin, owed, stdout>>
        /\ chunk' = IF Head(chunk) = TooMuch THEN <<>> ELSE Tail(chunk)
    BY <1>3 DEF Deal, pipes
  <2>2. /\ Unframed(chunk) => Unframed(chunk') /\ Head(chunk).kind # "frame"
        /\ \A r : Sole(chunk, r) =>
             /\ Sole(chunk', r)
             /\ Head(chunk).kind = "frame" => Head(chunk).to = r /\ Unframed(chunk')
    BY <1>1, <2>1, SoleShrinks
  <2>3. CASE frames' = frames
    BY <2>1, <2>2, <2>3 DEF Settled, Single, Nothing, Only, AllBut
  <2>4. CASE Head(chunk).kind = "frame" /\ frames' = Append(frames, Head(chunk))
    <3>1. ~Settled
      BY <2>2, <2>4 DEF Settled, Nothing, Stage
    <3>2. ASSUME NEW r, Single(r) PROVE Single(r)'
      <4>1. PICK p \in Stage : AllBut(p)
        BY <3>2 DEF Single
      <4>2. p = "chunk"
        BY <2>2, <2>4, <4>1 DEF AllBut, Nothing, Stage
      <4>3. Unframed(frames) /\ Sole(chunk, r)
        BY <3>2, <4>1, <4>2 DEF AllBut, Nothing, Stage, Single, Only
      <4>4. Head(chunk) \in Item
        BY <1>1, <2>1
      <4>5. Sole(frames', r) /\ Sole(chunk', r) /\ Unframed(chunk')
        BY <1>1, <2>2, <2>4, <4>3, <4>4, SoleGrows
      <4>6. Only(r)'
        BY <2>1, <3>2, <4>5 DEF Single, Only
      <4>7. AllBut("frames")'
        BY <2>1, <4>1, <4>2, <4>5 DEF AllBut, Nothing, Stage
      <4> QED BY <4>6, <4>7 DEF Single, Stage
    <3> QED BY <3>1, <3>2
  <2>5. QED BY <1>3, <2>3, <2>4 DEF Deal, Put
<1>4. CASE EndOfOutput
  <2>1. UNCHANGED <<writes, writing, stdin, owed, stdout, chunk>>
        /\ (frames' = frames \/ frames' = Append(frames, End))
    BY <1>4 DEF EndOfOutput, Put, pipes
  <2>2. /\ Unframed(frames) => Unframed(frames')
        /\ \A r : Sole(frames, r) => Sole(frames', r)
    <3>1. End \in Item /\ End.kind # "frame"
      BY Items
    <3>2. CASE frames' = Append(frames, End)
      BY <1>1, <3>1, <3>2, SoleGrows
    <3> QED BY <2>1, <3>2
  <2> QED BY <2>1, <2>2 DEF Settled, Single, Nothing, Only, AllBut
<1>5. CASE Look \/ FindNothing \/ StderrEnds
  BY <1>5, StagesStay DEF Look, FindNothing, StderrEnds, pipes, queues, reader, stages
<1>6. CASE Fetch
  <2>1. /\ writes # <<>> /\ writes' = <<>> /\ UNCHANGED <<stdin, owed, stdout, chunk, frames>>
        /\ writing' = IF Head(writes) = Stop THEN writing ELSE Head(writes)
        /\ Head(writes) = writes[1] /\ 1 \in DOMAIN writes
    BY <1>1, <1>6 DEF Fetch, pipes, reader
  <2>2. Settled => Settled'
    BY <2>1 DEF Settled, Nothing, Stage
  <2>3. ASSUME NEW r, Single(r) PROVE Single(r)'
    <3>1. PICK p \in Stage : AllBut(p)
      BY <2>3 DEF Single
    <3>2. Only(r)'
      BY <2>1, <2>3 DEF Single, Only, Stop
    <3>3. CASE Head(writes) = Stop
      <4>1. AllBut(p)'
        BY <2>1, <3>1, <3>3 DEF AllBut, Nothing, Stage
      <4> QED BY <3>2, <4>1 DEF Single
    <3>4. CASE Head(writes) # Stop
      <4>1. p = "writes"
        BY <2>1, <3>1, <3>4 DEF AllBut, Nothing, Stage
      <4>2. AllBut("writer")'
        BY <2>1, <3>1, <4>1 DEF AllBut, Nothing, Stage
      <4> QED BY <3>2, <4>2 DEF Single, Stage
    <3> QED BY <3>3, <3>4
  <2> QED BY <2>2, <2>3
<1>7. CASE WriteOut
  <2>1. /\ writing # 0 /\ writing' = 0 /\ UNCHANGED <<writes, owed, stdout, chunk, frames>>
        /\ stdin' = stdin \/ stdin' = <<writing>>
    BY <1>7 DEF WriteOut, pipes, queues, reader, Basis, DataInv, WriterTypes
  <2>2. ~Settled
    BY <2>1 DEF Settled, Nothing, Stage
  <2>3. ASSUME NEW r, Single(r) PROVE Single(r)'
    <3>1. PICK p \in Stage : AllBut(p)
      BY <2>3 DEF Single
    <3>2. p = "writer" /\ writing = r
      BY <2>1, <2>3, <3>1 DEF AllBut, Nothing, Stage, Single, Only
    <3>3. Only(r)'
      BY <2>1, <2>3, <3>2 DEF Single, Only
    <3>4. AllBut("stdin")'
      BY <2>1, <3>1, <3>2 DEF AllBut, Nothing, Stage
    <3> QED BY <3>3, <3>4 DEF Single, Stage
  <2> QED BY <2>2, <2>3
<1> QED BY <1>2, <1>3, <1>4, <1>5, <1>6, <1>7 DEF Thread, Stdout

(* What neither the child nor the threads change.                          *)
LEMMA SystemKeepsAnswers ==
  ASSUME Basis, AnswerInv, Child \/ Thread
  PROVE  AnswerInv'
<1>1. UNCHANGED <<setting, io, op, pc, request, answers>>
  BY DEF Child, Begin, Answer, Speak, Flood, RootEnds, HelperEnds, Thread, Stdout, Read, Deal,
         EndOfOutput, Look, FindNothing, StderrEnds, Fetch, WriteOut, fixed, locks, callers,
         returns
<1>. SUFFICES ASSUME Exchanging PROVE AnswerInv'
  BY <1>1 DEF AnswerInv, Exchanging
<1>2. failed => failed'
  BY DEF Child, Begin, Answer, Speak, Flood, RootEnds, HelperEnds, Thread, Stdout, Read, Deal,
         EndOfOutput, Look, FindNothing, StderrEnds, Fetch, WriteOut, flags, Put
<1>3. noise' = 0
  BY DEF Child, Begin, Answer, Speak, Flood, RootEnds, HelperEnds, Thread, Stdout, Read, Deal,
         EndOfOutput, Look, FindNothing, StderrEnds, Fetch, WriteOut, pipes, AnswerInv,
         Exchanging
<1>4. (Settled => Settled') /\ \A r : Single(r) => Single(r)'
  BY ChildCarries, ThreadCarries DEF AnswerInv, Exchanging
<1>5. \A i \in DOMAIN frames' : frames'[i] = End \/ frames'[i].kind = "frame"
  <2>1. \/ frames' = frames
        \/ \E x : frames' = Append(frames, x) /\ (x = End \/ x.kind = "frame")
    BY DEF Child, Begin, Answer, Speak, Flood, RootEnds, HelperEnds, Thread, Stdout, Read, Deal,
           EndOfOutput, Look, FindNothing, StderrEnds, Fetch, WriteOut, queues, Put
  <2>2. frames \in Seq(Item)
    BY DEF Basis, DataInv, ReaderTypes
  <2> QED BY <2>1, <2>2 DEF AnswerInv
<1> QED BY <1>1, <1>2, <1>3, <1>4, <1>5 DEF AnswerInv

(* A step of a caller that touches none of it.                             *)
LEMMA CallerGoes ==
  ASSUME Basis, AnswerInv, Exchanging, NEW c \in Caller, NEW p, Go(c, p),
         UNCHANGED <<stages, noise, answers>>,
         op'[c] \in {"exchange", "close", "none"},
         p = "put" => pc[c] = "check" /\ ~failed,
         p \in Waiting => pc[c] \in Waiting /\ request'[c] = request[c],
         pc[c] \in Waiting => p \in Waiting \/ (p = "lock" /\ io' = c),
         failed => failed', pc[c] = "lock" => failed',
         \A d \in Caller \ {c} : (io = d => io' = d) /\ op'[d] = op[d] /\ request'[d] = request[d]
  PROVE  AnswerInv'
<1>1. pc'[c] = p /\ \A d \in Caller \ {c} : pc'[d] = pc[d]
  BY DEF Go, Basis, IInv
<1>2. Settled' = Settled /\ \A r : Single(r)' = Single(r)
  BY StagesStay
<1>3. p = "put" => Settled
  <2>1. ASSUME pc[c] = "check", ~failed, ~Settled PROVE FALSE
    <3>1. PICK d \in Caller : (pc[d] = "lock" /\ io = d) \/ pc[d] \in Waiting
      BY <2>1 DEF AnswerInv
    <3>2. io = c /\ (pc[d] \in Waiting => io = d)
      BY <2>1, Sizes DEF Calling, Waiting
    <3> QED BY <2>1, <3>1, <3>2 DEF Waiting
  <2> QED BY <2>1
<1>4. \A i \in DOMAIN frames' : frames'[i] = End \/ frames'[i].kind = "frame"
  BY DEF AnswerInv, stages
<1>5. \A d \in Caller : pc'[d] = "put" => Settled'
  BY <1>1, <1>2, <1>3 DEF AnswerInv
<1>6. \A d \in Caller : \A r : pc'[d] \in Waiting /\ request'[d] = r => Single(r)'
  BY <1>1, <1>2 DEF AnswerInv
<1>7. Settled' \/ failed' \/ \E d \in Caller : (pc'[d] = "lock" /\ io' = d) \/ pc'[d] \in Waiting
  BY <1>1, <1>2 DEF AnswerInv
<1> QED BY <1>4, <1>5, <1>6, <1>7 DEF AnswerInv

(* Nothing is under way when a request is put, so it is alone.             *)
LEMMA SubmitKeepsAnswers ==
  ASSUME Basis, AnswerInv, Exchanging, NEW c \in Caller, Submit(c), writes' # writes
  PROVE  AnswerInv'
<1>1. /\ pc[c] = "put" /\ writes' = <<calls>> /\ request' = [request EXCEPT ![c] = calls]
      /\ Go(c, "done") /\ UNCHANGED <<op, io, answers, noise, failed>>
      /\ UNCHANGED <<writing, stdin, owed, stdout, chunk, frames>>
  BY DEF Submit, Return, InCall, pipes, threads, reader, flags, returns
<1>2. pc'[c] = "done" /\ \A d \in Caller \ {c} : pc'[d] = pc[d]
  BY <1>1 DEF Go, Basis, IInv
<1>3. request'[c] = calls
  BY <1>1 DEF Basis, DataInv, CallTypes
<1>4. \A d \in Caller \ {c} : pc[d] # "put" /\ pc[d] \notin Waiting
  BY <1>1, Sizes DEF Calling, Waiting
<1>5. Settled
  BY <1>1 DEF AnswerInv
<1>6. \A r : r = calls => Only(r)'
  <2>1. \A i \in DOMAIN writes' : writes'[i] = calls
    BY <1>1
  <2> QED BY <1>1, <1>5, <2>1 DEF Settled, Stage, Nothing, Only, Unframed, Sole
<1>7. AllBut("writes")'
  BY <1>1, <1>5 DEF Settled, AllBut, Stage, Nothing
<1>8. \A r : r = calls => Single(r)'
  BY <1>1, <1>6, <1>7 DEF Single, Stage
<1>9. \A d \in Caller : \A r : pc'[d] \in Waiting /\ request'[d] = r => Single(r)'
  BY <1>2, <1>3, <1>4, <1>8
<1>10. \A d \in Caller : pc'[d] # "put"
  BY <1>2, <1>4
<1> QED BY <1>1, <1>2, <1>9, <1>10 DEF AnswerInv, Waiting

(* What exchange takes out of the queue is its answer, and nothing is left *)
(* behind it.                                                              *)
LEMMA GetKeepsAnswers ==
  ASSUME Basis, AnswerInv, Exchanging, NEW c \in Caller, Get(c), frames # <<>>
  PROVE  AnswerInv'
<1>1. /\ pc[c] = "get" /\ io = c /\ frames' = Tail(frames)
      /\ UNCHANGED <<noise, failed, writes, writing, stdin, owed, stdout, chunk>>
  BY Sizes DEF Get, Calling, pipes, threads, reader, flags
<1>2. /\ op[c] = "exchange" /\ Single(request[c])
  BY <1>1 DEF AnswerInv, Waiting, Basis, LockInv, Operation, Streaming, Calling
<1>3. /\ frames \in Seq(Item) /\ Head(frames) = frames[1] /\ 1 \in DOMAIN frames
      /\ \A i \in DOMAIN frames' : i + 1 \in DOMAIN frames /\ frames'[i] = frames[i + 1]
  BY <1>1 DEF Basis, DataInv, ReaderTypes
<1>4. /\ Unframed(frames) => Unframed(frames')
      /\ \A r : Sole(frames, r) =>
           /\ Sole(frames', r)
           /\ Head(frames).kind = "frame" => Head(frames).to = r /\ Unframed(frames')
  BY <1>1, <1>3, SoleShrinks
<1>5. \A d \in Caller \ {c} : pc[d] # "put" /\ pc[d] \notin Waiting
  BY <1>1, Sizes DEF Calling, Waiting
<1>6. \A i \in DOMAIN frames' : frames'[i] = End \/ frames'[i].kind = "frame"
  BY <1>3 DEF AnswerInv
<1>7. CASE Head(frames) = End
  <2>1. Go(c, "lock") /\ UNCHANGED <<op, io, answers>>
    BY <1>7 DEF Get, InCall, returns
  <2>2. pc'[c] = "lock" /\ \A d \in Caller \ {c} : pc'[d] = pc[d]
    BY <2>1 DEF Go, Basis, IInv
  <2>3. \A d \in Caller : pc'[d] # "put" /\ pc'[d] \notin Waiting
    BY <1>5, <2>2 DEF Waiting
  <2> QED BY <1>1, <1>6, <2>1, <2>2, <2>3 DEF AnswerInv
<1>8. CASE Head(frames) # End
  <2>1. Head(frames).kind = "frame"
    BY <1>3, <1>8 DEF AnswerInv
  <2>2. Return(c) /\ answers' = answers \union {<<request[c], Head(frames)>>}
    BY <1>2, <1>8 DEF Get, Deliver
  <2>3. pc'[c] = "idle" /\ \A d \in Caller \ {c} : pc'[d] = pc[d]
    BY <2>2 DEF Return, Go, Basis, IInv
  <2>4. \A d \in Caller : pc'[d] # "put" /\ pc'[d] \notin Waiting
    BY <1>5, <2>3 DEF Waiting
  <2>5. Head(frames).to = request[c] /\ Unframed(frames')
    BY <1>2, <1>4, <2>1 DEF Single, Only
  <2>6. Settled'
    <3>1. PICK p \in Stage : AllBut(p)
      BY <1>2 DEF Single
    <3>2. p = "frames"
      BY <1>3, <2>1, <3>1 DEF AllBut, Stage, Nothing, Unframed
    <3> QED BY <1>1, <2>5, <3>1, <3>2 DEF Settled, AllBut, Stage, Nothing
  <2>7. \A d \in Caller : op'[d] \in {"exchange", "close", "none"}
    BY <2>2 DEF Return, AnswerInv, Basis, LockInv
  <2>8. \A answer \in answers' : answer[2].to = answer[1]
    BY <2>2, <2>5 DEF AnswerInv
  <2> QED BY <1>1, <1>6, <2>4, <2>6, <2>7, <2>8 DEF AnswerInv
<1> QED BY <1>7, <1>8

LEMMA CallersKeepAnswers ==
  ASSUME Basis, AnswerInv, NEW c \in Caller,
         (\E o \in Operation : Call(c, o)) \/ CallClose(c) \/ Expire(c) \/ Step(c)
  PROVE  AnswerInv'
<1>. USE DEF pipes, threads, reader, queues, flags, locks, returns, InCall, ClosePaused
<1>1. setting' = setting
  BY DEF Call, CallClose, Expire, Step, Check, IdleCheck, Submit, AwaitDone, Recheck, Get, Got,
         Lock, Kill, Wait, Join, Quiet, fixed
<1>. SUFFICES ASSUME Exchanging PROVE AnswerInv'
  BY <1>1 DEF AnswerInv, Exchanging
<1>2. CASE Submit(c) /\ writes' # writes
  BY <1>2, SubmitKeepsAnswers
<1>3. CASE Get(c) /\ frames # <<>>
  BY <1>3, GetKeepsAnswers
<1>4. CASE Expire(c)
  <2>1. UNCHANGED <<pc, op, io, request, failed, noise, answers, stages>>
    BY <1>4 DEF Expire, stages
  <2>2. Settled' = Settled /\ \A r : Single(r)' = Single(r)
    BY <2>1, StagesStay
  <2>3. frames' = frames
    BY <2>1 DEF stages
  <2> QED BY <2>1, <2>2, <2>3 DEF AnswerInv
<1>5. CASE Wait(c)
  <2>1. /\ UNCHANGED <<writing, stdin, owed, stdout, chunk, frames, noise, answers>>
        /\ failed => failed'
        /\ writes' = writes \/ (writes = <<>> /\ writes' = <<Stop>>)
    BY <1>5 DEF Wait, StopWriter, CloseFails
  <2>2. (Settled => Settled') /\ \A r : Single(r) => Single(r)'
    BY <2>1 DEF Settled, Single, Only, AllBut, Nothing
  <2>3. failed
    BY <1>5 DEF Wait, Basis, IInv, CloseInv
  <2>4. /\ \E p : Go(c, p) /\ p # "put" /\ p \notin Waiting
        /\ \A d \in Caller \ {c} : op'[d] = op[d] /\ request'[d] = request[d]
        /\ op'[c] = op[c] \/ op'[c] = "none"
    <3>1. CASE Go(c, "join") /\ UNCHANGED InCall
      BY <3>1 DEF Waiting
    <3>2. CASE Return(c)
      BY <3>2 DEF Return, Waiting, Basis, LockInv, DataInv, CallTypes
    <3> QED BY <1>5, <3>1, <3>2 DEF Wait, CloseFails
  <2>5. \A d \in Caller : pc'[d] = "put" \/ pc'[d] \in Waiting => d # c /\ pc'[d] = pc[d]
    BY <2>4 DEF Go, Basis, IInv
  <2>6. \A d \in Caller : \A r : pc'[d] \in Waiting /\ request'[d] = r => Single(r)'
    BY <2>2, <2>4, <2>5 DEF AnswerInv
  <2>7. \A d \in Caller : pc'[d] = "put" => Settled'
    BY <2>2, <2>5 DEF AnswerInv
  <2>8. \A d \in Caller : op'[d] \in {"exchange", "close", "none"}
    BY <2>4 DEF AnswerInv
  <2> QED BY <2>1, <2>3, <2>6, <2>7, <2>8 DEF AnswerInv
<1>6. CASE /\ ~(Submit(c) /\ writes' # writes) /\ ~(Get(c) /\ frames # <<>>)
           /\ ~Expire(c) /\ ~Wait(c)
  <2>0. \/ (\E o \in Operation : Call(c, o)) \/ CallClose(c) \/ Check(c) \/ IdleCheck(c)
        \/ (Submit(c) /\ writes' = writes) \/ AwaitDone(c) \/ Recheck(c)
        \/ (Get(c) /\ frames = <<>>) \/ Got(c)
        \/ Lock(c) \/ Kill(c) \/ Join(c) \/ Quiet(c)
    BY <1>6 DEF Step
  <2>1. UNCHANGED <<stages, noise, answers>>
    BY <2>0 DEF Call, CallClose, Check, IdleCheck, Submit, AwaitDone, Recheck, Get, Got,
                Lock, Kill, Join, Quiet, CloseFails, stages
  <2>2. /\ op[c] \in {"exchange", "close", "none"}
        /\ pc[c] \in Calling => op[c] = "exchange" /\ io = c
    BY Sizes DEF AnswerInv, Basis, LockInv, Operation, Streaming
  <2>3. failed => failed'
    BY <2>0 DEF Call, CallClose, Check, IdleCheck, Submit, AwaitDone, Recheck, Get, Got,
                Lock, Kill, Join, Quiet, CloseFails
  <2>4. pc[c] = "lock" => failed'
    <3>1. CASE Lock(c)
      BY <3>1 DEF Lock, Basis, IInv, ClosedMeansQuiet
    <3>2. CASE ~Lock(c)
      BY <2>0, <3>2 DEF Call, CallClose, Check, IdleCheck, Submit, AwaitDone, Recheck, Get, Got,
                        Kill, Join, Quiet
    <3> QED BY <3>1, <3>2
  <2>5. \A d \in Caller \ {c} : (io = d => io' = d) /\ op'[d] = op[d] /\ request'[d] = request[d]
    <3>1. CASE Return(c)
      BY <3>1 DEF Return, Basis, LockInv, DataInv, CallTypes
    <3>2. CASE UNCHANGED InCall
      BY <3>2
    <3>3. CASE \E o \in Operation : Call(c, o)
      BY <3>3, NobodyAssumption DEF Call, Basis, LockInv
    <3>4. CASE CallClose(c)
      BY <3>4 DEF CallClose, Basis, LockInv
    <3>5. CASE Get(c) \/ Lock(c) \/ Kill(c)
      BY <3>1, <3>2, <3>5 DEF Get, Deliver, Lock, Kill, CloseFails, Basis, LockInv
    <3>6. CASE \/ Check(c) \/ IdleCheck(c) \/ (Submit(c) /\ writes' = writes)
               \/ AwaitDone(c) \/ Recheck(c)
      BY <3>1, <3>2, <3>6 DEF Check, IdleCheck, Submit, AwaitDone, Recheck
    <3>7. CASE Got(c) \/ Join(c) \/ Quiet(c)
      BY <3>1, <3>2, <3>7 DEF Got, Deliver, Join, Quiet, CloseFails
    <3> QED BY <2>0, <3>3, <3>4, <3>5, <3>6, <3>7
  <2>6. op'[c] \in {"exchange", "close", "none"}
    <3>1. CASE Return(c)
      BY <3>1 DEF Return, Basis, LockInv
    <3>2. CASE op' = op
      BY <2>2, <3>2
    <3>3. ASSUME NEW o \in Operation, Call(c, o) PROVE op'[c] \in {"exchange", "close", "none"}
      <4>1. o = "exchange"
        BY <3>3 DEF Call, Exchanging, Operation
      <4> QED BY <3>3, <4>1 DEF Call, Basis, LockInv
    <3>4. CASE CallClose(c)
      BY <3>4 DEF CallClose, Basis, LockInv
    <3> QED
      BY <2>0, <3>1, <3>2, <3>3, <3>4
         DEF Check, IdleCheck, Submit, AwaitDone, Recheck, Get, Got, Deliver, Lock, Kill, Join,
             Quiet, CloseFails
  <2>7. \E p : /\ Go(c, p)
               /\ p = "put" => pc[c] = "check" /\ ~failed
               /\ p \in Waiting => pc[c] \in Waiting /\ request'[c] = request[c]
               /\ pc[c] \in Waiting => p \in Waiting \/ (p = "lock" /\ io' = c)
    <3>1. CASE (\E o \in Operation : Call(c, o)) \/ CallClose(c)
      BY <3>1 DEF Call, CallClose, Waiting
    <3>2. CASE Check(c)
      BY <2>2, <3>2 DEF Check, Waiting, Calling, Usable, Return
    <3>3. CASE IdleCheck(c) \/ (Submit(c) /\ writes' = writes)
      <4>1. <<calls>> # <<>>
        OBVIOUS
      <4> QED BY <3>3, <4>1 DEF IdleCheck, Submit, Waiting, Return
    <3>4. CASE AwaitDone(c)
      BY <2>2, <3>4 DEF AwaitDone, Waiting, Calling
    <3>5. CASE Recheck(c) \/ (Get(c) /\ frames = <<>>)
      BY <2>2, <3>5 DEF Recheck, Get, Waiting, Calling
    <3>6. CASE Got(c) \/ Lock(c)
      BY <3>6 DEF Got, Deliver, Lock, Waiting, Return
    <3>7. CASE Kill(c) \/ Join(c) \/ Quiet(c)
      BY <3>7 DEF Kill, Join, Quiet, CloseFails, Waiting, Return
    <3> QED BY <2>0, <3>1, <3>2, <3>3, <3>4, <3>5, <3>6, <3>7
  <2> QED BY <2>1, <2>3, <2>4, <2>5, <2>6, <2>7, CallerGoes
<1> QED BY <1>2, <1>3, <1>4, <1>5, <1>6

(* exchange returns the answer to its own request, and never one that came *)
(* too late for an earlier caller, to a child that speaks only when asked  *)
(* (duplex.py:107-136).                                                    *)
THEOREM AnswersBelong == Spec => []AnswersItsRequest
<1>1. Init => AnswerInv
  <2>1. ASSUME Init PROVE AnswerInv
    <3>1. /\ writes = <<>> /\ writing = 0 /\ stdin = <<>> /\ owed = 0 /\ stdout = <<>>
          /\ chunk = <<>> /\ frames = <<>>
      BY <2>1 DEF Init
    <3>2. Settled
      BY <3>1 DEF Settled, Nothing, Unframed
    <3>3. \A c \in Caller : pc[c] = "idle" /\ op[c] = "none"
      BY <2>1 DEF Init
    <3> QED BY <2>1, <3>1, <3>2, <3>3 DEF Init, AnswerInv, Waiting
  <2> QED BY <2>1
<1>2. Basis /\ AnswerInv /\ [Next]_vars => AnswerInv'
  <2>1. ASSUME Basis, AnswerInv, UNCHANGED vars PROVE AnswerInv'
    <3>1. UNCHANGED <<setting, pc, op, io, request, failed, noise, answers, stages, frames>>
      BY <2>1
         DEF vars, fixed, pipes, threads, reader, queues, flags, locks, callers, returns, stages
    <3>2. Settled' = Settled /\ \A r : Single(r)' = Single(r)
      BY <3>1, StagesStay
    <3> QED BY <2>1, <3>1, <3>2 DEF AnswerInv, Exchanging
  <2> QED BY <2>1, SystemKeepsAnswers, CallersKeepAnswers DEF Next
<1>3. AnswerInv => AnswersItsRequest
  BY DEF AnswerInv, AnswersItsRequest, Exchanging
<1> QED BY <1>1, <1>2, <1>3, OrderInvariant, PTL DEF Spec
=============================================================================
