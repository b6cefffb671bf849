-------------------------------- MODULE Farm --------------------------------
(***************************************************************************)
(* What the queue promises about the frames of the jobs, without hosts,    *)
(* messages or shared memory: a frame is rendered by one worker at a time, *)
(* shown as finished only once it has been rendered, and a job that        *)
(* depends on another starts only when every frame of that one was         *)
(* rendered or ended in error.  Master implements it (MasterFarm).         *)
(***************************************************************************)
CONSTANTS
  Works,          \* frames to render, over all jobs
  Workers,        \* task slots of all computers
  Idle            \* not in Works

VARIABLES
  at,             \* what each worker renders
  ended,          \* frames rendered, or that ended in error, at least once
  done,           \* frames shown as finished
  queued,         \* frames in the queue, with those they have to wait for
  before          \* pairs of frames: the first waits for the second

vars == <<at, ended, done, queued, before>>

Init ==
  /\ at = [w \in Workers |-> Idle]
  /\ ended = {}
  /\ done = {}
  /\ queued = {}
  /\ before = {}

(* Jobs come into the queue; what a frame that is there waits for stays.   *)
Submit ==
  /\ UNCHANGED <<at, ended, done>>
  /\ queued \subseteq queued' /\ queued' \subseteq Works
  /\ before' \subseteq queued' \X Works
  /\ \A x \in queued, y \in Works : <<x, y>> \in before' <=> <<x, y>> \in before

Start(w, x) ==
  /\ at[w] = Idle
  /\ \A v \in Workers : at[v] # x
  /\ x \in queued /\ \A y \in Works : <<x, y>> \in before => y \in ended
  /\ at' = [at EXCEPT ![w] = x]
  /\ UNCHANGED <<ended, done, queued, before>>

End(w) ==
  /\ at[w] # Idle
  /\ ended' = ended \cup {at[w]}
  /\ at' = [at EXCEPT ![w] = Idle]
  /\ UNCHANGED <<done, queued, before>>

(* Workers stop without a result.                                          *)
Abort(W) ==
  /\ at' = [w \in Workers |-> IF w \in W THEN Idle ELSE at[w]]
  /\ UNCHANGED <<ended, done, queued, before>>

Show(x) ==
  /\ x \in ended
  /\ done' = done \cup {x}
  /\ UNCHANGED <<at, ended, queued, before>>

(* Frames are put back in the queue.                                       *)
Forget(X) ==
  /\ done' = done \ X
  /\ UNCHANGED <<at, ended, queued, before>>

Next ==
  \/ \E w \in Workers, x \in Works : Start(w, x)
  \/ \E w \in Workers : End(w)
  \/ \E W \in SUBSET Workers : Abort(W)
  \/ \E x \in Works : Show(x)
  \/ \E X \in SUBSET Works : Forget(X)
  \/ Submit

Spec == Init /\ [][Next]_vars
=============================================================================
