----------------------------- MODULE Submission -----------------------------
(***************************************************************************)
(* From a client that asks for the frames of a scene to the frames that    *)
(* are rendered: sendjob and drqman have a script generated (jobscript.c,  *)
(* the generators and the templates), register a job with a range of       *)
(* frames, slaves run the script once for every frame, the master keeps    *)
(* the status of the frames and lets the range be changed meanwhile.       *)
(***************************************************************************)
EXTENDS Templates, Generators

CONSTANTS
  Clients,        \* each submits one job; all scenes have the same file name
  Workloads,      \* what the clients ask for, and the slots that serve them:
                  \* an order is a record of the tool, the engine, the variables
                  \* given, the kind of image, the range and later ranges
  Slots,          \* task slots of the slaves
  Systems,        \* operating systems of the slaves
  LastSecond,     \* bound: seconds the clients take
  MaxFrames,      \* frames whose records fit in a segment of shared memory
  MaxRequeues,    \* MAX_REQUEUES
  MaxUpdates      \* bound: changes of range

VARIABLES
  now,            \* the second of the clock
  scripts,        \* what each script file holds, by its name
  client,         \* per client: where it is, its order, its script, what it is told
  job,            \* per client: its job at the master
  slot,           \* per slot: the task it holds
  rendered,       \* per client: how often each frame of its scene was rendered
  history         \* per client: what happened to its job, for the properties
vars == <<now, scripts, client, job, slot, rendered, history>>

Seconds == 1 .. LastSecond
FrameNumbersUsed == 0 .. 2 ^ Width - 1
Free == [held |-> FALSE]
NoJob == [queued |-> FALSE, frames |-> <<>>]

(* The file is named after the scene and the second.  A user's own command *)
(* is a file of its own.                                                   *)
ScriptName(c, order) == IF order.engine = "own" THEN c ELSE now
FrontEndFor(order) == FrontEndOf(order.tool, order.engine)
GeneratorFor(order) == FrontEndFor(order).generator

Init ==
  /\ now = 1
  /\ scripts = [name \in Seconds \cup Clients |-> <<>>]
  /\ \E w \in Workloads :
       /\ slot = [s \in w.slots |-> Free]
       /\ client = [c \in Clients |->
            [at |-> IF c \in DOMAIN w.orders THEN "starts" ELSE "done",
             order |-> IF c \in DOMAIN w.orders THEN w.orders[c] ELSE <<>>,
             script |-> 1, told |-> "no"]]
  /\ job = [c \in Clients |-> NoJob]
  /\ rendered = [c \in Clients |-> [n \in FrameNumbersUsed |-> 0]]
  /\ history = [c \in Clients |-> {}]

At(c, where) == client[c].at = where
Moved(c, where) == client' = [client EXCEPT ![c].at = where]
Refused(c) == client' = [client EXCEPT ![c].at = "done", ![c].told = "failed"]
Happened(c, what) == history' = [history EXCEPT ![c] = @ \cup what]

----------------------------------------------------------------------------
(* The clients.                                                            *)

(* A second passes while a client writes its script or before it starts.   *)
Tick ==
  /\ now < LastSecond
  /\ now' = now + 1
  /\ UNCHANGED <<scripts, client, job, slot, rendered, history>>

(* The parameters are checked and the file is opened to be appended to.    *)
Writes(c, where) ==
  client' = [client EXCEPT ![c].at = where, ![c].script = ScriptName(c, client[c].order)]
xxxsg_create(c) ==
  /\ At(c, "starts") /\ client[c].order.engine # "own"
  /\ Writes(c, "open")
  /\ UNCHANGED <<now, scripts, job, slot, rendered, history>>

(* A parameter is missing, or the file cannot be created.                  *)
ScriptRefused(c) ==
  /\ At(c, "starts") /\ client[c].order.engine # "own"
  /\ Refused(c)
  /\ UNCHANGED <<now, scripts, job, slot, rendered, history>>

(* A job with a command of the user's: drqman registers it as it is.       *)
OwnCommand(c) ==
  /\ At(c, "starts") /\ client[c].order.engine = "own"
  /\ Writes(c, "closed")
  /\ scripts' = [scripts EXCEPT ![c] = <<Body(c, "own")>>]
  /\ UNCHANGED <<now, job, slot, rendered, history>>

(* The variables reach the file in one piece: before the template is read, *)
(* or when the file is closed, or when the client that gave up exits.      *)
Append1(c, part) ==
  scripts' = [scripts EXCEPT ![client[c].script] = Append(@, part)]
jobscript_set_variable(c) ==
  LET order == client[c].order
  IN  /\ At(c, "open")
      /\ Append1(c, Names(c, Written(GeneratorFor(order), order.given, order.kind), order.kind))
      /\ IF ~ Accepts(GeneratorFor(order), order.kind)
         THEN Refused(c) /\ UNCHANGED history
         ELSE \/ Moved(c, "named") /\ UNCHANGED history
              \/ Moved(c, "closed") /\ Happened(c, {"no template"})
      /\ UNCHANGED <<now, job, slot, rendered>>

(* The template is copied after them.                                      *)
jobscript_template_write(c) ==
  /\ At(c, "named")
  /\ Append1(c, Body(c, client[c].order.engine))
  /\ Moved(c, "closed")
  /\ UNCHANGED <<now, job, slot, rendered, history>>

(* The range as the client sends it and as the master takes it.            *)
Sent(order) ==
  LET r == order.range
      how == IF order.engine = "own" THEN "given" ELSE FrontEndFor(order).block
  IN  [r EXCEPT !.block = IF how = "one" THEN 1 ELSE IF how = "step" THEN r.step ELSE @]
job_bswap_from_network(r) == [r EXCEPT !.step = IF @ = 0 THEN 1 ELSE @]

(* What is asked for are numbers of the code's width, and so is the length *)
(* of a block: the code divides by it and does not look.                   *)
InNumbers(r) ==
  {r.start, r.end, r.step, r.block, r.block * r.step} \subseteq FrameNumbersUsed
ASSUME WorkloadsAssumption ==
  \A w \in Workloads : \A c \in DOMAIN w.orders :
    /\ InNumbers(job_bswap_from_network(Sent(w.orders[c])))
    /\ \A r \in w.orders[c].changes : InNumbers(r)
(* The engine is one the tool knows.                                       *)
ASSUME OrdersAssumption ==
  \A w \in Workloads : \A c \in DOMAIN w.orders :
    w.orders[c].engine \in
      {"own"} \cup IF w.orders[c].tool = "sendjob" THEN DOMAIN str2toj ELSE DOMAIN Drqman
(* A user's command is no file that is named after a second.               *)
ASSUME FilesAssumption == Clients \cap Seconds = {} /\ Systems \subseteq {Linux, Windows}
ASSUME BoundsAssumption == LastSecond \in Nat \ {0} /\ {MaxFrames, MaxRequeues, MaxUpdates} \subseteq Nat

NewFrame == [status |-> "waiting", exit |-> "none", requeued |-> 0, slot |-> "none"]
FitsMemory(n) == 0 < n /\ n <= MaxFrames
RegistersLuxAlways(order) == order.tool = "sendjob"   \* mutant: no case ends in a break
RegistersLux(order) == order.tool = "sendjob" /\ order.engine = "xsi"

(* The job is registered, unless there is no room for its frames.  sendjob *)
(* goes on from an XSI job to a Luxrender job, for which it has no scene.  *)
register_job(c) ==
  LET r == job_bswap_from_network(Sent(client[c].order))
      n == job_nframes(r)
  IN  /\ At(c, "closed")
      /\ IF FitsMemory(n)
         THEN /\ job' = [job EXCEPT ![c] =
                   [queued |-> TRUE, range |-> r, frames |-> [i \in 0 .. n - 1 |-> NewFrame]]]
              /\ client' = [client EXCEPT ![c].at = "done", ![c].told =
                   IF RegistersLux(client[c].order) THEN "failed" ELSE "sent"]
         ELSE Refused(c) /\ UNCHANGED job
      /\ UNCHANGED <<now, scripts, slot, rendered, history>>

----------------------------------------------------------------------------
(* The frames.                                                             *)
Frame(c, i) == job[c].frames[i]
Indices(c) == DOMAIN job[c].frames
WithFrame(c, i, record) == job' = [job EXCEPT ![c].frames[i] = record]
Waiting(c) == {i \in Indices(c) : Frame(c, i).status = "waiting"}
Holds(s, c) == slot[s].held /\ slot[s].job = c
Renders(s) == s \in DOMAIN slot /\ slot[s].held /\ slot[s].exit = "none"

(* The master gives the first waiting frame to a slave with a free slot.   *)
job_available(c, s) ==
  /\ job[c].queued /\ Waiting(c) # {} /\ s \in DOMAIN slot /\ ~ slot[s].held
  /\ LET i == CHOOSE k \in Waiting(c) : \A m \in Waiting(c) : k <= m
     IN  /\ WithFrame(c, i, [Frame(c, i) EXCEPT !.status = "assigned", !.slot = s])
         /\ slot' = [slot EXCEPT ![s] =
              [held |-> TRUE, job |-> c, exit |-> "none", task |->
                 task_set_to_job_frame(job[c].range, job_frame_index_to_number(job[c].range, i))]]
  /\ UNCHANGED <<now, scripts, client, rendered, history>>

(* A user's command renders the frames of the list it is given.            *)
OwnRun(c, t, bad) ==
  [rendered |-> IF bad THEN <<>> ELSE <<[of |-> c, frames |-> PadFrames(t)]>>,
   exit |-> IF bad THEN "failed" ELSE "zero"]
Times(run, c, n) ==
  Cardinality({k \in DOMAIN run.rendered :
                 run.rendered[k].of = c /\ n \in run.rendered[k].frames})
Capped(n) == IF n \in {0, 1} THEN n ELSE 2

(* The slave runs the script as the file is now.  When the command fails   *)
(* the template sends SIGINT to its parent: the shell, which dies of it,   *)
(* or, where the shell has replaced itself by the script, the process that *)
(* waits for the task, which ignores it.                                   *)
ExitOf(run) ==
  CASE run.exit = "zero" -> {"zero"}
    [] run.exit = "failed" -> {"signal", "one"}
    [] OTHER -> {"one"}
Runs(c, t) ==
  IF client[c].order.engine = "own" THEN {OwnRun(c, t, bad) : bad \in BOOLEAN}
  ELSE {RunScript(scripts[client[c].script], t, system, bad) :
          system \in Systems, bad \in BOOLEAN}
launch_task(s) ==
  /\ Renders(s)
  /\ \E run \in Runs(slot[s].job, slot[s].task) :
       /\ \E exit \in ExitOf(run) : slot' = [slot EXCEPT ![s].exit = exit]
       /\ rendered' =
            IF run.rendered = <<>> THEN rendered
            ELSE [c \in Clients |-> [n \in FrameNumbersUsed |->
                    Capped(rendered[c][n] + Times(run, c, n))]]
       /\ Happened(slot[s].job, IF run.exit = "undefined" THEN {run.system} ELSE {})
  /\ UNCHANGED <<now, scripts, client, job>>

(* The slave reports the frame's number, which the master turns into an    *)
(* index of the range the job has now.                                     *)
Left(f, status) == [f EXCEPT !.status = status, !.slot = "none"]
Settled(f, exit) == [Left(f, "finished") EXCEPT !.exit = exit]
Requeued(f) == [Left(f, "waiting") EXCEPT !.requeued = @ + 1]
InterruptedAlways(f, again) ==                   \* mutant: requeues are not counted
  IF f.status # "assigned" THEN f ELSE IF again THEN Requeued(f) ELSE Left(f, "error")
Interrupted(f, again) ==
  IF f.status # "assigned" THEN f
  ELSE IF again /\ f.requeued < MaxRequeues THEN Requeued(f)
  ELSE Left(f, "error")
TriesAgain(order) == IF order.engine = "own" THEN TRUE ELSE FrontEndFor(order).requeues
handle_r_r_taskfini(s) ==
  /\ s \in DOMAIN slot /\ slot[s].held /\ slot[s].exit # "none"
  /\ LET c == slot[s].job
         n == slot[s].task.frame
         i == job_frame_number_to_index(job[c].range, n)
     IN  IF job_frame_number_correct(job[c].range, n)
         THEN WithFrame(c, i, IF slot[s].exit = "signal"
                              THEN Interrupted(Frame(c, i), TriesAgain(client[c].order))
                              ELSE Settled(Frame(c, i), slot[s].exit))
         ELSE UNCHANGED job
  /\ slot' = [slot EXCEPT ![s] = Free]
  /\ UNCHANGED <<now, scripts, client, rendered, history>>

(* An assigned frame whose slot is free, holds another job's task or one   *)
(* that is over is made to wait again.                                     *)
TaskIsGoneUsed(c, s) == Holds(s, c) /\ ~ Renders(s)   \* mutant: free slots are passed over
TaskIsGone(c, s) == ~ Holds(s, c) \/ ~ Renders(s)
job_check_frame_status(c, i) ==
  /\ job[c].queued /\ i \in Indices(c)
  /\ Frame(c, i).status = "assigned" /\ TaskIsGone(c, Frame(c, i).slot)
  /\ (Holds(Frame(c, i).slot, c) => "requeued" \notin history[c])
  /\ WithFrame(c, i, Left(Frame(c, i), "waiting"))
  /\ Happened(c, {"requeued"})
  /\ UNCHANGED <<now, scripts, client, slot, rendered>>

(* The range is changed: a frame of the new range that has a number of the *)
(* old one keeps the record of the block it was in.  Tasks of frames that  *)
(* are no longer asked for go on: the address they would be stopped at is  *)
(* never set.                                                              *)
Record(c, r, i) == IF i \in Indices(c) THEN Frame(c, i) ELSE NewFrame   \* mutant: by index
OldRecord(c, r, i) ==
  LET n == job_frame_index_to_number(r, i)
  IN  IF job_frame_number_correct(job[c].range, n)
      THEN Frame(c, job_frame_number_to_index(job[c].range, n))
      ELSE NewFrame
Updates(c) == Cardinality(history[c] \cap {"updated", "reblocked"})
handle_r_r_jobsesup(c) ==
  /\ job[c].queued /\ Updates(c) < MaxUpdates
  /\ \E r \in client[c].order.changes :
       /\ r # job[c].range /\ FitsMemory(job_nframes(r))
       /\ job' = [job EXCEPT ![c].range = r,
                             ![c].frames = [i \in 0 .. job_nframes(r) - 1 |-> OldRecord(c, r, i)]]
       /\ Happened(c, IF {r.block, job[c].range.block} = {1} THEN {"updated"} ELSE {"reblocked"})
  /\ UNCHANGED <<now, scripts, client, slot, rendered>>

----------------------------------------------------------------------------
Next ==
  \/ Tick
  \/ \E c \in Clients :
       \/ xxxsg_create(c) \/ ScriptRefused(c) \/ OwnCommand(c)
       \/ jobscript_set_variable(c) \/ jobscript_template_write(c) \/ register_job(c)
       \/ handle_r_r_jobsesup(c)
       \/ \E s \in Slots : job_available(c, s)
       \/ \E i \in 0 .. MaxFrames - 1 : job_check_frame_status(c, i)
  \/ \E s \in Slots : launch_task(s) \/ handle_r_r_taskfini(s)

(* Slaves with a free slot ask, their tasks end and are reported, and the  *)
(* consistency process looks at every frame again and again.               *)
Fairness ==
  /\ WF_vars(\E c \in Clients, s \in Slots : job_available(c, s))
  /\ \A s \in Slots : WF_vars(launch_task(s)) /\ WF_vars(handle_r_r_taskfini(s))
  /\ WF_vars(\E c \in Clients, i \in 0 .. MaxFrames - 1 : job_check_frame_status(c, i))
Spec == Init /\ [][Next]_vars /\ Fairness

----------------------------------------------------------------------------
(* Properties.                                                             *)

(* The records are those the code keeps; a job has as many frame records   *)
(* as its range asks for, and an assigned frame a slot.                    *)
TypeOK ==
  /\ now \in Seconds
  /\ \A c \in Clients :
       /\ client[c].at \in {"starts", "open", "named", "closed", "done"}
       /\ client[c].script \in Seconds \cup Clients
       /\ client[c].told \in {"no", "failed", "sent"}
       /\ rendered[c] \in [FrameNumbersUsed -> 0 .. 2]
       /\ job[c].queued =>
            /\ Indices(c) = 0 .. job_nframes(job[c].range) - 1
            /\ \A i \in Indices(c) :
                 /\ Frame(c, i).status \in {"waiting", "assigned", "finished", "error"}
                 /\ Frame(c, i).requeued \in 0 .. MaxRequeues
                 /\ Frame(c, i).status = "assigned" => Frame(c, i).slot \in DOMAIN slot
  /\ \A s \in DOMAIN slot : slot[s].held =>
       job[slot[s].job].queued /\ slot[s].exit \in {"none", "zero", "one", "signal"}

Shared(c) == \E k \in DOMAIN scripts[client[c].script] : scripts[client[c].script][k].by # c
Origin(order) == job_bswap_from_network(Sent(order))
Original(c) == Origin(client[c].order)
Strides(r) == r.step > 1 /\ r.block > 1
Has(c, what) == history[c] \cap what # {}

(* No range ends before it starts and has, as the sum wraps, few frames    *)
(* after all: of such a job the frames of its start are rendered.          *)
RangesOf(order) == {Origin(order)} \cup order.changes
NoBackwards ==
  \A w \in Workloads : \A c \in DOMAIN w.orders : \A r \in RangesOf(w.orders[c]) :
    FitsMemory(job_nframes(r)) => r.start <= r.end

(* A frame that is finished with exit code 0 is rendered: every frame its  *)
(* index stands for was rendered from the client's own scene (task.c:161,  *)
(* job.c:831, the templates).  Not so if another client wrote to the same  *)
(* script (jobscript.c:43), the template was not found (jobscript.c:237),  *)
(* the range was changed with blocks of several frames (request.c:3600),   *)
(* the blocks have a step (task.c:170) or the engine renders the scene.    *)
ExitZeroIsRendered ==
  \A c \in Clients :
    job[c].queued /\ ~ Shared(c) /\ ~ Has(c, {"no template", "reblocked"})
    /\ client[c].order.engine # "luxrender" /\ ~ Strides(Original(c)) =>
      \A i \in Indices(c) :
        Frame(c, i).status = "finished" /\ Frame(c, i).exit = "zero" =>
          \A n \in FramesOfIndex(job[c].range, i) : rendered[c][n] > 0

(* No frame is rendered that nobody asked for: what is rendered of a scene *)
(* is in the range its job was registered with or, after a change, has     *)
(* now, unless a script was shared or blocks with a step were asked for.   *)
RenderedAsAsked ==
  \A c \in Clients :
    job[c].queued /\ ~ Shared(c) /\ ~ Strides(Original(c)) /\ ~ Strides(job[c].range) =>
      {n \in FrameNumbersUsed : rendered[c][n] > 0}
        \subseteq FramesAsked(Original(c)) \cup FramesAsked(job[c].range)

(* No frame is rendered twice from one job: not by two indices, not after  *)
(* a change of range, while blocks are single frames and the check of the  *)
(* master did not requeue a task that was over (job.c:694).  A frame that  *)
(* one change takes out and a later one puts back is a new frame.          *)
RenderedOnce ==
  \A c \in Clients :
    ~ Shared(c) /\ ~ Has(c, {"reblocked", "requeued"}) =>
      \A n \in FrameNumbersUsed : rendered[c][n] <= 1

(* The generators set every name the templates read: a script stops at a   *)
(* missing name only if another client wrote to it, or in one of the cases *)
(* the code is known to miss: a width without a height (maya_sg.py:71), an *)
(* unknown renderer (mayasg.c:92), a single image of Mental Ray            *)
(* (mentalray_sg.py:108), five engines on Windows.                         *)
HalfSize(order) == "RESX" \in order.given /\ "RESY" \notin order.given
LacksOnWindows == {"nuke", "pixie", "shake", "terragen", "vray"}
NamesAreSet ==
  \A c \in Clients :
    Has(c, Systems) /\ ~ Shared(c) =>
      LET order == client[c].order
      IN  \/ HalfSize(order)
          \/ order.engine = "maya" /\ "RENDERER" \notin order.given
          \/ order.engine = "mentalray" /\ order.kind = "single image"
          \/ order.engine \in LacksOnWindows /\ Linux \notin history[c]

SaysFailed(order) == order.tool = "sendjob" /\ order.engine = "xsi"
(* What the user is told is what happened: a job is in the queue if and    *)
(* only if its client says so; sendjob never says so of an XSI job         *)
(* (sendjob.cpp:208).                                                      *)
ToldTheTruth ==
  \A c \in Clients :
    /\ client[c].told = "sent" => job[c].queued
    /\ client[c].told = "failed" => ~ job[c].queued \/ SaysFailed(client[c].order)

(* Every frame of a job that was registered is settled in the end, by its  *)
(* number or by the check, whatever becomes of its range.                  *)
AllSettled(c) ==
  /\ \A i \in Indices(c) : Frame(c, i).status \in {"finished", "error"}
  /\ \A s \in DOMAIN slot : ~ Holds(s, c)
JobEnds == \A c \in Clients : job[c].queued ~> AllSettled(c)
=============================================================================
