---------------------------- MODULE FrameNumbers ----------------------------
(***************************************************************************)
(* The frames of a job by number and by index (job.c), and what a task is  *)
(* told of the frame it renders (task.c).  A range is a record with the    *)
(* start, the end, the step and the block size of a job.  The code's       *)
(* numbers are unsigned: they are taken modulo 2^Width.                    *)
(***************************************************************************)
EXTENDS Integers, FiniteSets

CONSTANT Width
ASSUME WidthAssumption == Width \in Nat \ {0} /\ 2 ^ Width \in Nat \ {0}

Wrap(n) == n % (2 ^ Width)

(* Frames of a job: blocks of steps, the last block may not be full.  The  *)
(* sum wraps, so a range that ends before it starts has a great many.      *)
job_nframes(r) ==
  IF r.step = 0 \/ r.block = 0 THEN 0
  ELSE LET steps == Wrap(r.end - r.start + r.step) \div r.step
       IN  Wrap(steps + r.block - 1) \div r.block

NumberWithoutBlock(r, i) == Wrap(r.start + i * r.step)   \* mutant: the block is forgotten
job_frame_index_to_number(r, i) == Wrap(r.start + i * r.block * r.step)
job_frame_number_to_index(r, n) == Wrap(n - r.start) \div Wrap(r.block * r.step)
job_frame_number_correct(r, n) ==
  r.start <= n /\ n <= r.end /\ (n - r.start) % r.step = 0

(* What a generated job is asked for, and what the frame of index i stands *)
(* for in it.                                                              *)
FramesAsked(r) == {n \in r.start .. r.end : job_frame_number_correct(r, n)}
FramesOfIndex(r, i) ==
  {n \in FramesAsked(r) : job_frame_number_to_index(r, n) = i}

(* A task: the frame's number and a copy of the job's range.               *)
task_set_to_job_frame(r, n) ==
  [frame |-> n, end |-> r.end, step |-> r.step, block |-> r.block]

(* DRQUEUE_PADFRAMES: the frame, then the next ones up to the block's end. *)
PadFrames(t) == {t.frame} \cup {n \in t.frame .. t.end : n < t.frame + t.block}
=============================================================================
