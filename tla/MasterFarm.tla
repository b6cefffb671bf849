----------------------------- MODULE MasterFarm -----------------------------
(***************************************************************************)
(* Master with a history variable, the frames whose task ended by itself,  *)
(* and the refinement mapping under which it implements Farm.  Frames are  *)
(* told apart by the name of their job, as handle_r_r_taskfini does.       *)
(***************************************************************************)
EXTENDS Master

VARIABLE ended

hvars == <<job, comp, conn, chk, regs, todo, slave, ucs, fin, kills, disturb,
           ended>>

Works   == Names \X Frames
Workers == Comps \X Tasks

ASSUME IdleAssumption == NoTask \notin Works

HInit == Init /\ ended = {}

(* A task that ends by itself is one whose slot a step empties while its   *)
(* report leaves.                                                          *)
HNext ==
  /\ Next
  /\ ended' = ended \cup
       {<<slave[w[1]].task[w[2]].name, slave[w[1]].task[w[2]].frame>> :
          w \in {v \in Workers : \/ TaskExits(v[1], v[2])
                                 \/ TaskCrashes(v[1], v[2])}}

HSpec == HInit /\ [][HNext]_hvars

Rendering(w) ==
  LET tk == slave[w[1]].task[w[2]] IN
  IF slave[w[1]].run[w[2]] THEN <<tk.name, tk.frame>> ELSE NoTask

Shown ==
  {x \in Works : \E j \in Jobs : /\ Attached(job[j]) /\ JobName(job[j]) = x[1]
                                 /\ job[j].fi[x[2]].status = "FINISHED"}

(* The frames of jobs in the queue; a job that depends on another counts   *)
(* once that one is there, and waits for its frames.                       *)
JobFrames(j) == {JobName(job[j])} \X Frames
Depends(j) == DependOf[job[j].sub] # NoJob
Before(j) == DependOf[job[j].sub]
InQueue(j) == Attached(job[j]) /\ (Depends(j) => Attached(job[Before(j)]))
Queued == UNION {JobFrames(j) : j \in {k \in Jobs : InQueue(k)}}
Waits ==
  UNION {JobFrames(j) \X JobFrames(Before(j)) : j \in {k \in Jobs : InQueue(k) /\ Depends(k)}}

F == INSTANCE Farm WITH
       at <- [w \in Workers |-> Rendering(w)], done <- Shown,
       queued <- Queued, before <- Waits, Idle <- NoTask

(* Master implements Farm: no frame is rendered twice at once, none is     *)
(* shown FINISHED before a task ended rendering it, although reports name  *)
(* slots that may hold another job by then, and no dependent job starts    *)
(* too early, although the status it looks at is computed from old copies. *)
ImplementsFarm == F!Spec
=============================================================================
