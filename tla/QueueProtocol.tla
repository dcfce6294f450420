--------------------------- MODULE QueueProtocol ---------------------------
(***************************************************************************)
(* The frames of a one-shot queue worker (queue_protocol.py) as functions. *)
(*                                                                         *)
(* A line of output is a frame, a line that the protocol does not concern  *)
(* (noise: text, other JSON, a line too long to be kept), or one it cannot *)
(* accept (malformed).  A frame has its status, its result and what it     *)
(* identifies: job, queue and connection in one.                           *)
(***************************************************************************)
EXTENDS Sequences

Noise     == [kind |-> "noise"]
Malformed == [kind |-> "malformed"]
Frame(status, result, job) ==
  [kind |-> "frame", status |-> status, result |-> result, job |-> job]

FrameStatus == {"starting", "success", "released_after_exception", "failed"}

IsLine(line) ==
  \/ line.kind \in {"noise", "malformed"}
  \/ line.kind = "frame" /\ line.status \in FrameStatus

IsStart(frame) == frame.status = "starting"

(* Mutant: the terminal frame of another job is taken.                     *)
FollowsAnyJob(frames, frame) ==
  IF IsStart(frame) THEN frames = <<>>
  ELSE Len(frames) = 1 /\ IsStart(frames[1])

(* One starting frame, and one terminal frame of the same job.             *)
Follows(frames, frame) ==
  IF IsStart(frame) THEN frames = <<>>
  ELSE Len(frames) = 1 /\ IsStart(frames[1]) /\ frames[1].job = frame.job

(* consume_line raises for anything else that claims to be a frame.        *)
Raises(frames, line) ==
  \/ line.kind = "malformed"
  \/ line.kind = "frame" /\ ~Follows(frames, line)

Consume(frames, line) ==
  IF line.kind = "frame" /\ Follows(frames, line) THEN Append(frames, line) ELSE frames

(* What a terminal frame says became of the job.                           *)
OutcomeOf(frame) ==
  CASE frame.status = "success" -> "success"
    [] frame.status = "released_after_exception" \/
       (frame.status # "success" /\ frame.result = "released") -> "released"
    [] frame.status = "failed" /\ frame.result # "released" -> "failed"

Verdict(healthy, outcome) == [healthy |-> healthy, outcome |-> outcome]
Unknown == Verdict(FALSE, "unknown")

(* completion: an error or an exit code decides before any frame does, and *)
(* a start without an end is not the end of a job.                         *)
Completion(frames, code, error) ==
  CASE error \/ code # 0 -> Unknown
    [] ~error /\ code = 0 /\ frames = <<>> -> Verdict(TRUE, "empty")
    [] ~error /\ code = 0 /\ Len(frames) = 1 -> Unknown
    [] OTHER -> Verdict(TRUE, OutcomeOf(frames[Len(frames)]))
=============================================================================
