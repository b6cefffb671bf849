-------------------------- MODULE MasterFarmProofs --------------------------
(***************************************************************************)
(* Master implements Farm: every step of Master, where nothing deletes a   *)
(* job and slaves answer, is a step of Farm or changes nothing of it.      *)
(***************************************************************************)
EXTENDS MasterFarm, MasterProofs

(***************************************************************************)
(* What a run of Farm has in common: users stop and continue jobs, no job  *)
(* is deleted, names tell jobs apart, and a slave answers its master: it   *)
(* is a request, a report or a status that gets lost, or a task that dies. *)
(***************************************************************************)
Quiet ==
  /\ Ops \subseteq {"STOPJOB", "CONTJOB"} /\ Faults \subseteq {"signal", "lost", "taskcrash"}
  /\ AutoDelete = {}
  /\ \A s, r \in Subs : NameOf[s] = NameOf[r] => s = r

(* Every submission is in one place: not sent, being received or in a slot *)
(* of its own.  A slot without a job has no frames that were given out.    *)
RegsApart ==
  \A p \in regs :
    /\ job[p[1]].used /\ job[p[1]].sub = NoSub /\ p[2] \notin todo
    /\ \A q \in regs : p[1] = q[1] \/ p[2] = q[2] => p = q
SentOnce ==
  \A j \in Jobs : Attached(job[j]) =>
    /\ job[j].sub \notin todo /\ \A p \in regs : p[2] # job[j].sub
    /\ \A k \in Jobs : Attached(job[k]) /\ job[k].sub = job[j].sub => k = j
EmptySlots ==
  \A j \in Jobs : ~Attached(job[j]) =>
    /\ job[j].sub = NoSub /\ job[j].status # "FINISHED"
    /\ \A f \in Frames : job[j].fi[f].status = "WAITING"
NoRequeue == \A j \in Jobs, f \in Frames : ~job[j].fi[f].requeue
CheckAttached == chk.pc = "frames" => Attached(job[chk.j])
QueueInv == RegsApart /\ SentOnce /\ EmptySlots /\ NoRequeue /\ CheckAttached

(* One request of a slave at a time, and no status on its way meanwhile.   *)
OneRequest ==
  /\ \A h \in Handlers : conn[h].up <=> conn[h].pc # "idle"
  /\ \A h \in Handlers : conn[h].up =>
       /\ slave[conn[h].c].up /\ ~ucs[conn[h].c].sent
       /\ \A g \in Handlers : conn[g].up /\ conn[g].c = conn[h].c => g = h
       /\ conn[h].pc \in {"confirmed", "send"} => ~slave[conn[h].c].run[conn[h].t]
SlavesKnown ==
  \A c \in Comps : /\ slave[c].up <=> comp[c].used
                   /\ \A t \in Tasks : slave[c].run[t] => slave[c].up
SlavesInv == OneRequest /\ SlavesKnown /\ kills = {}

(* A task that runs is the master's record of it, and that of a status.    *)
Giving == {"offered", "confirmed", "send"}
IsTask(tk) ==
  /\ tk.used /\ tk.busy /\ tk.job \in Jobs
  /\ Attached(job[tk.job]) /\ tk.name = JobName(job[tk.job])
RunRecorded(c, t) ==
  /\ IsTask(slave[c].task[t]) /\ comp[c].task[t] = slave[c].task[t]
  /\ ucs[c].sent => ucs[c].task[t] = slave[c].task[t]
RunsRecorded == \A c \in Comps, t \in Tasks : slave[c].run[t] => RunRecorded(c, t)
SendRecorded(h) ==
  /\ Attached(job[conn[h].j])
  /\ conn[h].pc = "send" =>
       comp[conn[h].c].task[conn[h].t] = TaskAssigned(conn[h].j, job[conn[h].j], conn[h].f)
SendsRecord == \A h \in Handlers : conn[h].pc \in Giving => SendRecorded(h)
CopiesInv == RunsRecorded /\ SendsRecord

(* A frame has one holder, the handler that gives it out or the slot that  *)
(* runs it.  It is not waiting then, and its record names no other slot.   *)
Gives(h, j, f) == conn[h].pc \in Giving /\ conn[h].j = j /\ conn[h].f = f
RunsFrame(c, t, j, f) ==
  slave[c].run[t] /\ slave[c].task[t].job = j /\ slave[c].task[t].frame = f
OneHolder ==
  \A j \in Jobs, f \in Frames :
    /\ \A g, h \in Handlers : Gives(g, j, f) /\ Gives(h, j, f) => g = h
    /\ \A h \in Handlers, c \in Comps, t \in Tasks : Gives(h, j, f) => ~RunsFrame(c, t, j, f)
    /\ \A c, d \in Comps, t, u \in Tasks :
         RunsFrame(c, t, j, f) /\ RunsFrame(d, u, j, f) => c = d /\ t = u
HeldNotWaiting ==
  \A j \in Jobs, f \in Frames : job[j].fi[f].status = "WAITING" =>
    /\ \A h \in Handlers : ~Gives(h, j, f)
    /\ \A c \in Comps, t \in Tasks : ~RunsFrame(c, t, j, f)
InPlace(fr, j, f) ==
  fr.status = "ASSIGNED" =>
    /\ fr.icomp \in Comps /\ comp[fr.icomp].used
    /\ fr.itask # NoTask =>
         /\ \A h \in Handlers : Gives(h, j, f) =>
              conn[h].pc = "send" /\ conn[h].c = fr.icomp /\ conn[h].t = fr.itask
         /\ \A c \in Comps, t \in Tasks : RunsFrame(c, t, j, f) => c = fr.icomp /\ t = fr.itask
RecordsInPlace == \A j \in Jobs, f \in Frames : InPlace(job[j].fi[f], j, f)
(* So it was when the check copied it, and it did not wait since.          *)
CopyInPlace ==
  chk.pc = "frames" => \A f \in Frames : f >= chk.i =>
    /\ InPlace(chk.snap[f], chk.j, f)
    /\ chk.snap[f].status = "ASSIGNED" => job[chk.j].fi[f].status # "WAITING"
HoldersInv == OneHolder /\ HeldNotWaiting /\ RecordsInPlace /\ CopyInPlace

(* What is settled has ended, in the records, in the check's copy and in   *)
(* the status of a job, and so what a job that is given out waits for.     *)
Ended(st) == st \in {"FINISHED", "ERROR"}
ReportsEnded ==
  \A r \in fin : <<r.name, r.frame>> \in ended /\ r.name # NoName /\ r.exit \in {"exited", "crashed"}
RecordsEnded ==
  \A j \in Jobs, f \in Frames :
    Ended(job[j].fi[f].status) => <<JobName(job[j]), f>> \in ended
CopyEnded ==
  chk.pc = "frames" => \A f \in Frames :
    Ended(chk.snap[f].status) => <<JobName(job[chk.j]), f>> \in ended
FinishedEnded ==
  \A j \in Jobs : job[j].status = "FINISHED" => Attached(job[j]) /\ JobFrames(j) \subseteq ended
GivenReady ==
  \A h \in Handlers : conn[h].pc \in Giving /\ Depends(conn[h].j) =>
    Attached(job[Before(conn[h].j)]) /\ JobFrames(Before(conn[h].j)) \subseteq ended
EndedInv == ReportsEnded /\ RecordsEnded /\ CopyEnded /\ FinishedEnded /\ GivenReady
FarmInv == QueueInv /\ SlavesInv /\ CopiesInv /\ HoldersInv /\ EndedInv

----------------------------------------------------------------------------
(* The steps that are left.                                                *)
HandlerGoesOn(h) ==
  \/ \E j \in Jobs : Reserve(h, j) \/ SkipJob(h, j)
  \/ NoAvailableJob(h) \/ (\E t \in Tasks : Confirm(h, t)) \/ Assign(h) \/ SendTask(h)
  \/ HandlerDies(h)
SlaveGoesOn(c) ==
  (\E h \in Handlers : Ask(c, h)) \/ SlaveStarts(c) \/ SendStatus(c) \/ StoreStatus(c) \/ StatusLost(c)
QuietStep ==
  \/ \E s \in Subs : RegisterReserve(s) \/ \E j \in Jobs : RegisterDone(j, s)
  \/ \E h \in Handlers : HandlerGoesOn(h)
  \/ \E c \in Comps : SlaveGoesOn(c)
  \/ \E c \in Comps, t \in Tasks : TaskExits(c, t) \/ TaskCrashes(c, t)
  \/ \E r \in fin : TaskFinished(r) \/ ReportLost(r)
  \/ \E j \in Jobs : StopJob(j) \/ ContinueJob(j)
  \/ Check

LEMMA NoRequestFails ==
  ASSUME Quiet, SlavesInv, NEW h \in Handlers, HandlerStep(h) \/ HandlerFault(h)
  PROVE  HandlerGoesOn(h)
<1>1. ~ GiveUp(h) /\ ~ SendTaskFails(h)
  BY DEF GiveUp, SendTaskFails, SlavesInv, OneRequest
<1>2. ~ LinkBreaks(h)
  BY DEF LinkBreaks, Quiet
<1> QED
  BY <1>1, <1>2 DEF HandlerStep, HandlerFault, HandlerGoesOn

LEMMA NoSlaveFails ==
  ASSUME Quiet, SlavesInv, NEW c \in Comps, SlaveStep(c) \/ SlaveFault(c) \/ ExpireComputer(c)
  PROVE  SlaveGoesOn(c)
<1>1. ~ SlaveRejected(c) /\ ~ ExpireComputer(c)
  BY DEF SlaveRejected, ExpireComputer, SlavesInv, SlavesKnown, Quiet
<1>2. ~ SlaveCrashes(c) /\ ~ SlaveExits(c)
  BY DEF SlaveCrashes, SlaveExits, Quiet
<1> QED
  BY <1>1, <1>2 DEF SlaveStep, SlaveFault, SlaveGoesOn

LEMMA OnlyStops ==
  ASSUME Quiet, NEW j \in Jobs, UserRequest(j)
  PROVE  StopJob(j) \/ ContinueJob(j)
<1>1. \A op, new, killed : op \notin {"STOPJOB", "CONTJOB"} => ~ JobRequest(op, j, new, killed)
  BY DEF JobRequest, Request, Quiet
<1>2. ~ HardStopJob(j) /\ ~ RerunJob(j) /\ ~ DeleteJob(j)
  BY <1>1 DEF HardStopJob, RerunJob, DeleteJob
<1>3. \A op, f, fr, killed : op \notin {"STOPJOB", "CONTJOB"} => ~ FrameRequest(op, j, f, fr, killed)
  BY <1>1 DEF FrameRequest
<1>4. \A f \in Frames : /\ ~ FrameWaiting(j, f) /\ ~ FrameKill(j, f) /\ ~ FrameFinish(j, f)
                        /\ ~ FrameKillFinish(j, f) /\ ~ FrameResetRequeued(j, f)
  BY <1>3 DEF FrameWaiting, FrameKill, FrameFinish, FrameKillFinish, FrameResetRequeued
<1> QED
  BY <1>2, <1>4 DEF UserRequest

LEMMA QuietSteps ==
  ASSUME Quiet, SlavesInv, Next
  PROVE  QuietStep
<1>1. CASE Registration
  <2>1. \A j, s : ~ RegisterFails(j, s)
    BY DEF RegisterFails, Quiet
  <2> QED
    BY <1>1, <2>1 DEF Registration, QuietStep
<1>2. CASE \E h \in Handlers : HandlerStep(h) \/ HandlerFault(h)
  BY <1>2, NoRequestFails DEF QuietStep
<1>3. CASE \E c \in Comps : SlaveStep(c) \/ SlaveFault(c) \/ ExpireComputer(c)
  BY <1>3, NoSlaveFails DEF QuietStep
<1>4. CASE \E c \in Comps, t \in Tasks : TaskStep(c, t)
  <2>1. \A c, t : ~ KillArrives(c, t)
    BY DEF KillArrives, SlavesInv
  <2> QED
    BY <1>4, <2>1 DEF TaskStep, QuietStep
<1>5. CASE ReportStep
  BY <1>5 DEF ReportStep, QuietStep
<1>6. CASE \E j \in Jobs : UserRequest(j)
  BY <1>6, OnlyStops DEF QuietStep
<1>7. CASE Check
  BY <1>7 DEF QuietStep
<1> QED
  BY <1>1, <1>2, <1>3, <1>4, <1>5, <1>6, <1>7 DEF Next

----------------------------------------------------------------------------
(* What the steps make of a frame and of a job.                            *)
SameJob(jb, jc) == jc.used = jb.used /\ jc.sub = jb.sub
SameFrames(jb, jc) == jc.fi = jb.fi
OneFrame(jb, jc, f, fr) == jc.fi[f] = fr /\ \A g \in Frames : g # f => jc.fi[g] = jb.fi[g]

LEMMA FrameSteps ==
  ASSUME NEW fr \in FrameInfo
  PROVE  /\ \A c, t : LET fn == AssignTo(fr, c, t)
                      IN  fn.status = "ASSIGNED" /\ fn.icomp = c /\ fn.itask = t /\ fn.requeue = fr.requeue
         /\ Requeue(fr).status = "WAITING" /\ Requeue(fr).requeue = fr.requeue
         /\ \A st : Settle(fr, st).status = st /\ Settle(fr, st).requeue = fr.requeue
BY DEF FrameInfo, AssignTo, Requeue, Settle

LEMMA FrameReported ==
  ASSUME NEW fr \in FrameInfo, ~ fr.requeue, NEW exit \in {"exited", "crashed"}, NEW auto
  PROVE  Ended(FinishedFrame(fr, exit, auto).status) /\ ~ FinishedFrame(fr, exit, auto).requeue
<1>1. CASE exit = "exited"
  BY <1>1, FrameSteps DEF FinishedFrame, Ended
<1>2. CASE exit = "crashed"
  BY <1>2, FrameSteps DEF FinishedFrame, Ended
<1> QED
  BY <1>1, <1>2

LEMMA JobReserved ==
  ASSUME NEW jb \in JobRecord, NEW f \in Frames, NEW c
  PROVE  LET jc == JobReserve(jb, f, c)
         IN  SameJob(jb, jc) /\ jc.status = jb.status /\ OneFrame(jb, jc, f, AssignTo(jb.fi[f], c, NoTask))
BY DEF JobRecord, JobReserve, SameJob, OneFrame

LEMMA JobAssigned ==
  ASSUME NEW jb \in JobRecord, NEW f \in Frames, NEW c, NEW t
  PROVE  LET jc == JobUpdateAssigned(jb, f, c, t)
         IN  /\ SameJob(jb, jc) /\ jc.status \in {jb.status, "ACTIVE"}
             /\ OneFrame(jb, jc, f, AssignTo(jb.fi[f], c, t))
BY DEF JobRecord, JobUpdateAssigned, SameJob, OneFrame

LEMMA JobStopped ==
  ASSUME NEW jb \in JobRecord, NEW jc \in {JobStop(jb), JobContinue(jb)}
  PROVE  SameJob(jb, jc) /\ SameFrames(jb, jc) /\ (jc.status = "FINISHED" => jb.status = "FINISHED")
BY DEF JobRecord, JobStop, JobContinue, SameJob, SameFrames

LEMMA JobCounted ==
  ASSUME Quiet, NEW jb \in JobRecord, NEW n \in Nat, NEW m \in Nat
  PROVE  LET jc == JobSettled(jb, n, m)
         IN  /\ SameJob(jb, jc) /\ SameFrames(jb, jc)
             /\ jc.status = "FINISHED" => jb.status = "FINISHED" \/ (n = 0 /\ m = 0)
<1> DEFINE counted == [jb EXCEPT !.nprocs = n]
<1>1. counted \in JobRecord /\ SameJob(jb, counted) /\ SameFrames(jb, counted) /\ counted.status = jb.status
  BY DEF JobRecord, SameJob, SameFrames
<1>2. \A st : LET jc == [counted EXCEPT !.status = st]
              IN  SameJob(jb, jc) /\ SameFrames(jb, jc) /\ jc.status = st
  BY <1>1 DEF JobRecord, SameJob, SameFrames
<1>3. jb.sub \notin AutoDelete /\ jb.status \in JobStatus
  BY DEF Quiet, JobRecord
<1> HIDE DEF counted
<1>4. CASE jb.status \in {"WAITING", "ACTIVE"}
  <2>1. JobSettled(jb, n, m) =
          [counted EXCEPT !.status = IF n > 0 THEN "ACTIVE" ELSE IF m > 0 THEN "WAITING" ELSE "FINISHED"]
    BY <1>3, <1>4 DEF JobSettled, counted
  <2> QED
    BY <1>2, <2>1
<1>5. CASE jb.status = "STOPPED"
  BY <1>1, <1>5 DEF JobSettled, counted
<1>6. CASE jb.status = "FINISHED"
  <2>1. JobSettled(jb, n, m) = IF m > 0 THEN [counted EXCEPT !.status = "WAITING"] ELSE counted
    BY <1>6 DEF JobSettled, counted
  <2> QED
    BY <1>1, <1>2, <1>6, <2>1
<1> QED
  BY <1>3, <1>4, <1>5, <1>6 DEF JobStatus

LEMMA JobIsReported ==
  ASSUME NEW jb \in JobRecord, Attached(jb), NEW r, r.frame \in Frames
  PROVE  LET jc == JobReported(jb, r)
         IN  /\ SameJob(jb, jc) /\ jc.status = jb.status
             /\ OneFrame(jb, jc, r.frame, FinishedFrame(jb.fi[r.frame], r.exit, jb.sub \in AutoRequeue))
BY DEF JobRecord, JobReported, SameJob, OneFrame

LEMMA JobRequeued ==
  ASSUME NEW jb \in JobRecord, NEW f \in Frames
  PROVE  LET jc == [jb EXCEPT !.fi[f] = Requeue(@)]
         IN  SameJob(jb, jc) /\ jc.status = jb.status /\ OneFrame(jb, jc, f, Requeue(jb.fi[f]))
BY DEF JobRecord, SameJob, OneFrame

LEMMA JobFilled ==
  ASSUME NEW s \in Subs
  PROVE  LET jc == JobRegistered(s)
         IN  /\ jc.used /\ jc.sub = s /\ jc.status = "WAITING" /\ Attached(jc)
             /\ \A f \in Frames : jc.fi[f].status = "WAITING" /\ ~ jc.fi[f].requeue
BY NullsAssumption DEF JobRegistered, JobInit, FrameInit, Attached

LEMMA OneJobIs ==
  ASSUME TypeOK, NEW j \in Jobs, NEW jc, job' = [job EXCEPT ![j] = jc]
  PROVE  job'[j] = jc /\ \A k \in Jobs : k # j => job'[k] = job[k]
BY DEF TypeOK

LEMMA OneConnIs ==
  ASSUME TypeOK, NEW h \in Handlers, NEW cn, conn' = [conn EXCEPT ![h] = cn]
  PROVE  conn'[h] = cn /\ \A g \in Handlers : g # h => conn'[g] = conn[g]
BY DEF TypeOK

----------------------------------------------------------------------------
(* How the steps change the jobs: a frame of a job in the queue, or only   *)
(* its counts.                                                             *)
OneFrameStep(j, f, fr) ==
  /\ Attached(job[j]) /\ SameJob(job[j], job'[j]) /\ OneFrame(job[j], job'[j], f, fr)
  /\ job'[j].status = "FINISHED" => job[j].status = "FINISHED"
  /\ \A k \in Jobs : k # j => job'[k] = job[k]
CountStep(j) ==
  /\ SameJob(job[j], job'[j]) /\ SameFrames(job[j], job'[j])
  /\ \A k \in Jobs : k # j => job'[k] = job[k]

LEMMA IsOneFrameStep ==
  ASSUME TypeOK, NEW j \in Jobs, NEW f, NEW fr, NEW jc, job' = [job EXCEPT ![j] = jc],
         Attached(job[j]), SameJob(job[j], jc), OneFrame(job[j], jc, f, fr),
         jc.status = "FINISHED" => job[j].status = "FINISHED"
  PROVE  OneFrameStep(j, f, fr)
<1>1. job'[j] = jc /\ \A k \in Jobs : k # j => job'[k] = job[k]
  BY OneJobIs
<1> QED
  BY <1>1 DEF OneFrameStep

LEMMA ReserveStep ==
  ASSUME TypeOK, NEW h \in Handlers, NEW j \in Jobs, Reserve(h, j)
  PROVE  \E f \in Frames :
           /\ job[j].fi[f].status = "WAITING"
           /\ OneFrameStep(j, f, AssignTo(job[j].fi[f], conn[h].c, NoTask))
           /\ conn[h].pc = "scan" /\ conn'[h].pc = "offered" /\ conn'[h].j = j /\ conn'[h].f = f
           /\ conn'[h].c = conn[h].c /\ conn'[h].up = conn[h].up
           /\ \A g \in Handlers : g # h => conn'[g] = conn[g]
<1>1. PICK f \in Frames :
        /\ FirstWaiting(job[j], f)
        /\ job' = [job EXCEPT ![j] = JobReserve(job[j], f, conn[h].c)]
        /\ conn' = [conn EXCEPT ![h].pc = "offered", ![h].j = j, ![h].f = f, ![h].left = {}]
  BY DEF Reserve
<1>2. Attached(job[j])
  BY DEF Reserve, JobAvailable, LimitsPassed, Attached
<1>3. job[j] \in JobRecord
  BY DEF TypeOK
<1> DEFINE jc == JobReserve(job[j], f, conn[h].c)
           fr == AssignTo(job[j].fi[f], conn[h].c, NoTask)
<1>4. SameJob(job[j], jc) /\ jc.status = job[j].status /\ OneFrame(job[j], jc, f, fr)
  BY <1>3, JobReserved
<1>5. job' = [job EXCEPT ![j] = jc]
  BY <1>1
<1> HIDE DEF jc, fr
<1>6. OneFrameStep(j, f, fr)
  BY <1>2, <1>4, <1>5, IsOneFrameStep
<1>7. conn[h].pc = "scan" /\ conn[h] \in Conn /\ conn \in [Handlers -> Conn]
  BY DEF Reserve, TypeOK
<1>8. /\ conn'[h].pc = "offered" /\ conn'[h].j = j /\ conn'[h].f = f
      /\ conn'[h].c = conn[h].c /\ conn'[h].up = conn[h].up
      /\ \A g \in Handlers : g # h => conn'[g] = conn[g]
  BY <1>1, <1>7 DEF Conn
<1> QED
  BY <1>1, <1>6, <1>7, <1>8 DEF FirstWaiting, fr

LEMMA AssignStep ==
  ASSUME TypeOK, SendsRecord, NEW h \in Handlers, Assign(h)
  PROVE  /\ conn[h].j \in Jobs /\ conn[h].f \in Frames /\ conn[h].pc = "confirmed"
         /\ OneFrameStep(conn[h].j, conn[h].f, AssignTo(job[conn[h].j].fi[conn[h].f], conn[h].c, conn[h].t))
<1> DEFINE c == conn[h].c
           t == conn[h].t
           j == conn[h].j
           f == conn[h].f
<1>1. conn[h].pc = "confirmed" /\ Attached(job[j])
  BY DEF Assign, SendsRecord, SendRecorded, Giving
<1>2. conn[h] \in Conn /\ ConnKnows(conn[h])
  BY DEF TypeOK
<1>3. j \in Jobs /\ f \in Frames
  BY <1>1, <1>2 DEF Conn, ConnKnows
<1>4. job' = [job EXCEPT ![j] = JobUpdateAssigned(job[j], f, c, t)]
  BY <1>1 DEF Assign
<1>5. job[j] \in JobRecord
  BY <1>3 DEF TypeOK
<1> HIDE DEF j, f, c, t
<1>6. OneFrameStep(j, f, AssignTo(job[j].fi[f], c, t))
  <2> DEFINE jc == JobUpdateAssigned(job[j], f, c, t)
             fr == AssignTo(job[j].fi[f], c, t)
  <2>1. SameJob(job[j], jc) /\ jc.status \in {job[j].status, "ACTIVE"} /\ OneFrame(job[j], jc, f, fr)
    BY <1>3, <1>5, JobAssigned
  <2>2. job' = [job EXCEPT ![j] = jc] /\ Attached(job[j])
    BY <1>1, <1>4 DEF j
  <2> HIDE DEF jc, fr
  <2> QED
    BY <1>3, <2>1, <2>2, IsOneFrameStep DEF fr
<1> QED
  BY <1>1, <1>3, <1>6 DEF j, f, c, t

LEMMA TaskFinishedStep ==
  ASSUME TypeOK, EmptySlots, ReportsEnded, NEW r \in fin, TaskFinished(r)
  PROVE  \/ job' = job
         \/ /\ r.job \in Jobs /\ r.frame \in Frames /\ r.name = JobName(job[r.job])
            /\ OneFrameStep(r.job, r.frame,
                 FinishedFrame(job[r.job].fi[r.frame], r.exit, job[r.job].sub \in AutoRequeue))
<1> DEFINE j == r.job
<1>1. CASE r.job \in Jobs /\ job[r.job].used /\ r.name = JobName(job[r.job])
  <2>1. r.frame \in Frames /\ job[j] \in JobRecord
    BY <1>1 DEF TypeOK, TaskReport
  <2>2. Attached(job[j])
    BY <1>1 DEF ReportsEnded, JobName, Attached
  <2>3. job' = [job EXCEPT ![j] = JobReported(job[j], r)]
    BY <1>1 DEF TaskFinished
  <2> DEFINE jc == JobReported(job[j], r)
             fr == FinishedFrame(job[j].fi[r.frame], r.exit, job[j].sub \in AutoRequeue)
  <2>4. SameJob(job[j], jc) /\ jc.status = job[j].status /\ OneFrame(job[j], jc, r.frame, fr)
    BY <2>1, <2>2, JobIsReported
  <2>5. job' = [job EXCEPT ![j] = jc] /\ j \in Jobs
    BY <1>1, <2>3
  <2> HIDE DEF jc, fr
  <2>6. OneFrameStep(j, r.frame, fr)
    BY <2>2, <2>4, <2>5, IsOneFrameStep
  <2> QED
    BY <1>1, <2>1, <2>6 DEF fr
<1>2. CASE ~ (r.job \in Jobs /\ job[r.job].used /\ r.name = JobName(job[r.job]))
  BY <1>2 DEF TaskFinished
<1> QED
  BY <1>1, <1>2

(* The check has a frame wait whose record in its copy looks lost.         *)
Lost(i) == NotRunning(chk.snap[i], chk.j, job[chk.j], comp)
LEMMA CheckFrameStep ==
  ASSUME TypeOK, CheckAttached, CheckFrame
  PROVE  /\ chk.pc = "frames" /\ chk.j \in Jobs /\ chk.i \in Frames
         /\ \/ job' = job
            \/ Lost(chk.i) /\ OneFrameStep(chk.j, chk.i, Requeue(job[chk.j].fi[chk.i]))
         /\ chk' = [chk EXCEPT !.i = chk.i + 1] \/ chk'.pc = "idle"
<1> DEFINE j == chk.j
           i == chk.i
<1>1. chk.pc = "frames" /\ j \in Jobs /\ i \in Frames /\ chk \in ChkRecord
  BY SizesAssumption DEF TypeOK, CheckFrame, ChkRecord, Frames
<1>2. Attached(job[j]) /\ job[j] \in JobRecord
  BY <1>1 DEF CheckAttached, TypeOK
<1>3. job' = job \/ (Lost(i) /\ job' = [job EXCEPT ![j].fi[i] = Requeue(@)])
  BY DEF CheckFrame, Lost
<1>4. ASSUME job' = [job EXCEPT ![j].fi[i] = Requeue(@)]
      PROVE  OneFrameStep(j, i, Requeue(job[j].fi[i]))
  <2>1. job' = [job EXCEPT ![j] = [job[j] EXCEPT !.fi[i] = Requeue(@)]]
    BY <1>4
  <2> DEFINE jc == [job[j] EXCEPT !.fi[i] = Requeue(@)]
             fr == Requeue(job[j].fi[i])
  <2>2. SameJob(job[j], jc) /\ jc.status = job[j].status /\ OneFrame(job[j], jc, i, fr)
    BY <1>1, <1>2, JobRequeued
  <2>3. job' = [job EXCEPT ![j] = jc] /\ j \in Jobs /\ Attached(job[j])
    BY <1>1, <1>2, <2>1
  <2> HIDE DEF jc, fr, i, j
  <2>4. OneFrameStep(j, i, fr)
    BY <2>2, <2>3, IsOneFrameStep
  <2> QED
    BY <2>4 DEF fr
<1>5. chk' = [chk EXCEPT !.i = i + 1] \/ chk'.pc = "idle"
  BY DEF CheckFrame, NextCheck, ChkIdle
<1> QED
  BY <1>1, <1>3, <1>4, <1>5

LEMMA CountsAreNumbers ==
  ASSUME TypeOK
  PROVE  \A st : /\ Count(chk.snap, st) \in Nat
                 /\ Count(chk.snap, st) = 0 => \A f \in Frames : chk.snap[f].status # st
<1> SUFFICES ASSUME NEW st
             PROVE  /\ Count(chk.snap, st) \in Nat
                    /\ Count(chk.snap, st) = 0 => \A f \in Frames : chk.snap[f].status # st
  OBVIOUS
<1> DEFINE S == {f \in Frames : chk.snap[f].status = st}
<1>1. IsFiniteSet(Frames)
  BY SizesAssumption, FS_Interval DEF Frames
<1>2. IsFiniteSet(S)
  BY <1>1, FS_Subset
<1>3. Cardinality(S) \in Nat /\ (Cardinality(S) = 0 => S = {})
  BY <1>2, FS_CardinalityType, FS_EmptySet
<1> QED
  BY <1>3 DEF Count

LEMMA StopStep ==
  ASSUME TypeOK, NEW j \in Jobs, StopJob(j) \/ ContinueJob(j)
  PROVE  /\ CountStep(j) /\ (job'[j].status = "FINISHED" => job[j].status = "FINISHED")
         /\ UNCHANGED <<comp, conn, chk, regs, todo, slave, ucs, fin, kills>>
<1>1. job[j] \in JobRecord
  BY DEF TypeOK
<1>2. /\ job' = [job EXCEPT ![j] = JobStop(job[j])] \/ job' = [job EXCEPT ![j] = JobContinue(job[j])]
      /\ UNCHANGED <<comp, conn, chk, regs, todo, slave, ucs, fin, kills>>
  BY DEF StopJob, ContinueJob, Request
<1> QED
  BY <1>1, <1>2, OneJobIs, JobStopped DEF CountStep

LEMMA CheckDoneStep ==
  ASSUME Quiet, TypeOK, CheckAttached, CheckDone
  PROVE  /\ chk.pc = "frames" /\ chk.j \in Jobs /\ chk'.pc = "idle"
         /\ CountStep(chk.j)
         /\ job'[chk.j].status = "FINISHED" =>
              \/ job[chk.j].status = "FINISHED"
              \/ \A f \in Frames : Ended(chk.snap[f].status)
<1> DEFINE j == chk.j
           n == Count(chk.snap, "ASSIGNED")
           m == Count(chk.snap, "WAITING")
<1>1. chk.pc = "frames" /\ j \in Jobs /\ chk'.pc = "idle"
  BY DEF TypeOK, CheckDone, ChkRecord, NextCheck, ChkIdle
<1>2. Attached(job[j]) /\ job[j] \in JobRecord
  BY <1>1 DEF CheckAttached, TypeOK
<1>3. job' = [job EXCEPT ![j] = JobSettled(job[j], n, m)]
  BY <1>2 DEF CheckDone, Attached
<1>4. n \in Nat /\ m \in Nat
  BY CountsAreNumbers
<1>5. n = 0 /\ m = 0 => \A f \in Frames : Ended(chk.snap[f].status)
  <2>1. \A f \in Frames : chk.snap[f].status \in FrameStatus
    BY DEF TypeOK, ChkRecord, FrameInfo
  <2>2. n = 0 /\ m = 0 => \A f \in Frames : chk.snap[f].status \notin {"ASSIGNED", "WAITING"}
    BY CountsAreNumbers
  <2> QED
    BY <2>1, <2>2 DEF FrameStatus, Ended
<1> DEFINE jc == JobSettled(job[j], n, m)
<1> HIDE DEF n, m
<1>6. /\ SameJob(job[j], jc) /\ SameFrames(job[j], jc)
      /\ jc.status = "FINISHED" => job[j].status = "FINISHED" \/ (n = 0 /\ m = 0)
  BY <1>2, <1>4, JobCounted
<1>7. job' = [job EXCEPT ![j] = jc] /\ j \in Jobs
  BY <1>1, <1>3
<1> HIDE DEF jc
<1>8. job'[j] = jc /\ \A k \in Jobs : k # j => job'[k] = job[k]
  BY <1>7, OneJobIs
<1> QED
  BY <1>1, <1>5, <1>6, <1>8 DEF CountStep

----------------------------------------------------------------------------
(* The queue: submissions stay apart, and no job goes or is replaced.      *)
LEMMA QueueQuiet ==
  ASSUME TypeOK, QueueInv, UNCHANGED <<regs, todo>>, CheckAttached', NoRequeue',
         \A j \in Jobs : /\ SameJob(job[j], job'[j])
                         /\ Attached(job[j]) \/ SameFrames(job[j], job'[j])
                         /\ Attached(job[j]) \/ (job'[j].status = "FINISHED" => job[j].status = "FINISHED")
  PROVE  QueueInv'
<1>1. \A j \in Jobs : Attached(job'[j]) = Attached(job[j])
  BY DEF SameJob, Attached
<1>2. RegsApart'
  <2>1. SUFFICES ASSUME NEW p \in regs PROVE job'[p[1]].used /\ job'[p[1]].sub = NoSub
    BY DEF QueueInv, RegsApart
  <2>2. p[1] \in Jobs /\ job[p[1]].used /\ job[p[1]].sub = NoSub
    BY DEF QueueInv, RegsApart, TypeOK
  <2> QED
    BY <2>2 DEF SameJob
<1>3. SentOnce'
  BY <1>1 DEF QueueInv, SentOnce, SameJob
<1>4. EmptySlots'
  BY <1>1 DEF QueueInv, EmptySlots, SameJob, SameFrames
<1> QED
  BY <1>2, <1>3, <1>4 DEF QueueInv

LEMMA QueueFrame ==
  ASSUME TypeOK, QueueInv, NEW j \in Jobs, NEW f \in Frames, NEW fr, OneFrameStep(j, f, fr), ~ fr.requeue,
         UNCHANGED <<regs, todo>>, chk'.pc = "frames" => chk.pc = "frames" /\ chk'.j = chk.j
  PROVE  QueueInv'
<1>1. \A k \in Jobs : /\ SameJob(job[k], job'[k])
                      /\ Attached(job[k]) \/ SameFrames(job[k], job'[k])
                      /\ Attached(job[k]) \/ (job'[k].status = "FINISHED" => job[k].status = "FINISHED")
  BY DEF OneFrameStep, SameJob, SameFrames
<1>2. NoRequeue'
  BY DEF QueueInv, NoRequeue, OneFrameStep, OneFrame
<1>3. CheckAttached'
  <2>1. chk.j \in Jobs
    BY DEF TypeOK, ChkRecord
  <2> QED
    BY <1>1, <2>1 DEF QueueInv, CheckAttached, SameJob, Attached
<1> QED
  BY <1>1, <1>2, <1>3, QueueQuiet

LEMMA QueueCount ==
  ASSUME TypeOK, QueueInv, NEW j \in Jobs, CountStep(j), UNCHANGED <<regs, todo>>,
         Attached(job[j]) \/ (job'[j].status = "FINISHED" => job[j].status = "FINISHED"),
         chk'.pc = "frames" => chk.pc = "frames" /\ chk'.j = chk.j
  PROVE  QueueInv'
<1>1. \A k \in Jobs : /\ SameJob(job[k], job'[k]) /\ SameFrames(job[k], job'[k])
                      /\ Attached(job[k]) \/ (job'[k].status = "FINISHED" => job[k].status = "FINISHED")
  BY DEF CountStep, SameJob, SameFrames
<1>2. NoRequeue'
  BY <1>1 DEF QueueInv, NoRequeue, SameFrames
<1>3. CheckAttached'
  <2>1. chk.j \in Jobs
    BY DEF TypeOK, ChkRecord
  <2> QED
    BY <1>1, <2>1 DEF QueueInv, CheckAttached, SameJob, Attached
<1> QED
  BY <1>1, <1>2, <1>3, QueueQuiet

LEMMA QueueSame ==
  ASSUME QueueInv, UNCHANGED <<job, regs, todo>>, CheckAttached'
  PROVE  QueueInv'
BY DEF QueueInv, RegsApart, SentOnce, EmptySlots, NoRequeue

LEMMA QueueReserve ==
  ASSUME TypeOK, QueueInv, NEW s \in Subs, RegisterReserve(s)
  PROVE  QueueInv'
<1>1. PICK j \in Jobs : JobIndexFree(j) /\ job' = [job EXCEPT ![j].used = TRUE] /\ regs' = regs \cup {<<j, s>>}
  BY DEF RegisterReserve
<1>2. s \in todo /\ todo' = todo \ {s} /\ chk' = chk
  BY DEF RegisterReserve
<1>3. ~ job[j].used /\ job[j].sub = NoSub
  BY <1>1 DEF JobIndexFree, QueueInv, EmptySlots, Attached
<1>4. /\ job'[j].used /\ job'[j].sub = NoSub /\ job'[j].status = job[j].status /\ job'[j].fi = job[j].fi
      /\ \A k \in Jobs : k # j => job'[k] = job[k]
  BY <1>1, <1>3 DEF TypeOK, JobRecord
<1>5. \A k \in Jobs : Attached(job'[k]) = Attached(job[k]) /\ job'[k].sub = job[k].sub
  BY <1>3, <1>4 DEF Attached
<1>6. RegsApart'
  <2>1. \A p \in regs : p[1] \in Jobs /\ p[1] # j /\ p[2] # s
    BY <1>2, <1>3 DEF QueueInv, RegsApart, TypeOK
  <2>2. \A p \in regs : job'[p[1]] = job[p[1]]
    BY <1>4, <2>1
  <2> QED
    BY <1>1, <1>2, <1>4, <2>1, <2>2 DEF QueueInv, RegsApart
<1>7. SentOnce'
  <2>1. \A k \in Jobs : Attached(job[k]) => job[k].sub # s /\ job[k].sub \notin todo
    BY <1>2 DEF QueueInv, SentOnce
  <2>2. \A k \in Jobs : Attached(job'[k]) <=> Attached(job[k])
    BY <1>5
  <2> SUFFICES ASSUME NEW k \in Jobs, Attached(job[k])
               PROVE  /\ job[k].sub \notin todo' /\ \A p \in regs' : p[2] # job[k].sub
                      /\ \A i \in Jobs : Attached(job[i]) /\ job[i].sub = job[k].sub => i = k
    BY <1>5, <2>2 DEF SentOnce
  <2> QED
    BY <1>1, <1>2, <2>1 DEF QueueInv, SentOnce
<1>8. EmptySlots'
  BY <1>4, <1>5 DEF QueueInv, EmptySlots
<1>9. NoRequeue' /\ CheckAttached'
  <2>1. chk.j \in Jobs
    BY DEF TypeOK, ChkRecord
  <2> QED
    BY <1>2, <1>4, <1>5, <2>1 DEF QueueInv, NoRequeue, CheckAttached
<1> QED
  BY <1>6, <1>7, <1>8, <1>9 DEF QueueInv

LEMMA QueueFill ==
  ASSUME TypeOK, QueueInv, NEW s \in Subs, NEW j \in Jobs, RegisterDone(j, s)
  PROVE  /\ QueueInv' /\ ~ Attached(job[j])
         /\ job'[j] = JobRegistered(s) /\ \A k \in Jobs : k # j => job'[k] = job[k]
<1>1. <<j, s>> \in regs /\ regs' = regs \ {<<j, s>>} /\ chk' = chk /\ todo' = todo
  BY DEF RegisterDone
<1>2. job[j].used /\ job[j].sub = NoSub /\ s \notin todo
  BY <1>1 DEF QueueInv, RegsApart
<1>3. job' = [job EXCEPT ![j] = JobRegistered(s)]
  BY <1>2 DEF RegisterDone
<1>4. job'[j] = JobRegistered(s) /\ \A k \in Jobs : k # j => job'[k] = job[k]
  BY <1>3 DEF TypeOK
<1>5. /\ Attached(job'[j]) /\ job'[j].sub = s /\ ~ Attached(job[j])
      /\ \A f \in Frames : job'[j].fi[f].status = "WAITING" /\ ~ job'[j].fi[f].requeue
  BY <1>2, <1>4, JobFilled DEF Attached
<1>6. \A p \in regs : p # <<j, s>> => p[1] \in Jobs /\ p[1] # j /\ p[2] # s
  BY <1>1 DEF QueueInv, RegsApart, TypeOK
<1>7. RegsApart'
  <2>1. \A p \in regs' : job'[p[1]] = job[p[1]]
    BY <1>1, <1>4, <1>6
  <2> QED
    BY <1>1, <2>1 DEF QueueInv, RegsApart
<1>8. SentOnce'
  <2>1. \A k \in Jobs : Attached(job[k]) => job[k].sub # s
    BY <1>1 DEF QueueInv, SentOnce
  <2>2. \A k \in Jobs : k # j => Attached(job'[k]) = Attached(job[k]) /\ job'[k].sub = job[k].sub
    BY <1>4
  <2> SUFFICES ASSUME NEW k \in Jobs, Attached(job'[k])
               PROVE  /\ job'[k].sub \notin todo' /\ \A p \in regs' : p[2] # job'[k].sub
                      /\ \A i \in Jobs : Attached(job'[i]) /\ job'[i].sub = job'[k].sub => i = k
    BY DEF SentOnce
  <2>3. CASE k = j
    BY <1>1, <1>2, <1>5, <1>6, <2>1, <2>2, <2>3
  <2>4. CASE k # j
    BY <1>1, <1>2, <1>5, <1>6, <2>1, <2>2, <2>4 DEF QueueInv, SentOnce
  <2> QED
    BY <2>3, <2>4
<1>9. EmptySlots' /\ NoRequeue'
  BY <1>4, <1>5 DEF QueueInv, EmptySlots, NoRequeue
<1>10. CheckAttached'
  <2>1. chk.j \in Jobs
    BY DEF TypeOK, ChkRecord
  <2> QED
    BY <1>1, <1>4, <1>5, <2>1 DEF QueueInv, CheckAttached
<1> QED
  BY <1>4, <1>5, <1>7, <1>8, <1>9, <1>10 DEF QueueInv

LEMMA QueueStep ==
  ASSUME Quiet, TypeOK, FarmInv, QuietStep
  PROVE  QueueInv'
<1>a. QueueInv /\ SendsRecord /\ ReportsEnded
  BY DEF FarmInv, CopiesInv, EndedInv
<1>b. RegsApart /\ SentOnce /\ EmptySlots /\ NoRequeue /\ CheckAttached
  BY <1>a DEF QueueInv
<1>c. UNCHANGED <<job, regs, todo, chk>> => QueueInv'
  BY <1>a, <1>b, QueueSame DEF CheckAttached
<1>d. \A j \in Jobs, f \in Frames : job[j].fi[f] \in FrameInfo /\ ~ job[j].fi[f].requeue
  BY <1>b DEF TypeOK, JobRecord, NoRequeue
<1>1. ASSUME NEW s \in Subs, RegisterReserve(s) \/ \E j \in Jobs : RegisterDone(j, s) PROVE QueueInv'
  BY <1>a, <1>1, QueueReserve, QueueFill
<1>2. ASSUME NEW h \in Handlers, HandlerGoesOn(h) PROVE QueueInv'
  <2>1. ASSUME NEW j \in Jobs, Reserve(h, j) PROVE QueueInv'
    <3>1. PICK f \in Frames : OneFrameStep(j, f, AssignTo(job[j].fi[f], conn[h].c, NoTask))
      BY <2>1, ReserveStep
    <3>2. ~ AssignTo(job[j].fi[f], conn[h].c, NoTask).requeue
      BY <1>d, FrameSteps
    <3>3. UNCHANGED <<regs, todo, chk>>
      BY <2>1 DEF Reserve
    <3> QED
      BY <1>a, <3>1, <3>2, <3>3, QueueFrame
  <2>2. CASE Assign(h)
    <3> DEFINE j == conn[h].j
               f == conn[h].f
    <3>1. j \in Jobs /\ f \in Frames /\ OneFrameStep(j, f, AssignTo(job[j].fi[f], conn[h].c, conn[h].t))
      BY <1>a, <2>2, AssignStep
    <3>2. ~ AssignTo(job[j].fi[f], conn[h].c, conn[h].t).requeue
      BY <1>d, <3>1, FrameSteps
    <3>3. UNCHANGED <<regs, todo, chk>>
      BY <2>2 DEF Assign
    <3> HIDE DEF j, f
    <3> QED
      BY <1>a, <3>1, <3>2, <3>3, QueueFrame
  <2>3. CASE \/ \E j \in Jobs : SkipJob(h, j)
             \/ NoAvailableJob(h) \/ (\E t \in Tasks : Confirm(h, t)) \/ SendTask(h) \/ HandlerDies(h)
    BY <1>c, <2>3 DEF SkipJob, NoAvailableJob, Confirm, SendTask, HandlerDies
  <2> QED
    BY <1>2, <2>1, <2>2, <2>3 DEF HandlerGoesOn
<1>3. ASSUME NEW c \in Comps, SlaveGoesOn(c) PROVE QueueInv'
  BY <1>c, <1>3 DEF SlaveGoesOn, Ask, SlaveStarts, SendStatus, StoreStatus, StatusLost
<1>4. ASSUME NEW c \in Comps, NEW t \in Tasks, TaskExits(c, t) \/ TaskCrashes(c, t) PROVE QueueInv'
  BY <1>c, <1>4 DEF TaskExits, TaskCrashes, TaskEnds
<1>5. ASSUME NEW r \in fin, TaskFinished(r) \/ ReportLost(r) PROVE QueueInv'
  <2>1. UNCHANGED <<regs, todo, chk>> /\ (ReportLost(r) => job' = job)
    BY <1>5 DEF TaskFinished, ReportLost
  <2>2. CASE job' = job
    BY <1>c, <2>1, <2>2
  <2>3. CASE job' # job
    <3> DEFINE j == r.job
               f == r.frame
               fr == FinishedFrame(job[j].fi[f], r.exit, job[j].sub \in AutoRequeue)
    <3>1. j \in Jobs /\ f \in Frames /\ OneFrameStep(j, f, fr)
      BY <1>a, <1>b, <1>5, <2>1, <2>3, TaskFinishedStep
    <3>2. ~ fr.requeue
      BY <1>a, <1>d, <3>1, FrameReported DEF ReportsEnded
    <3> HIDE DEF j, f, fr
    <3> QED
      BY <1>a, <2>1, <3>1, <3>2, QueueFrame
  <2> QED
    BY <2>2, <2>3
<1>6. ASSUME NEW j \in Jobs, StopJob(j) \/ ContinueJob(j) PROVE QueueInv'
  BY <1>a, <1>6, StopStep, QueueCount
<1>7. CASE Check
  <2>1. CASE CheckJob
    <3>1. UNCHANGED <<job, regs, todo>> /\ (chk'.pc = "frames" => Attached(job[chk.j]) /\ chk'.j = chk.j)
      BY <2>1 DEF CheckJob, NextCheck, ChkIdle, TypeOK, ChkRecord
    <3> QED
      BY <1>a, <3>1, QueueSame DEF CheckAttached
  <2>2. CASE CheckFrame
    <3>1. UNCHANGED <<regs, todo>> /\ (chk'.pc = "frames" => chk.pc = "frames" /\ chk'.j = chk.j)
      BY <2>2 DEF CheckFrame, NextCheck, ChkIdle, TypeOK, ChkRecord
    <3> DEFINE j == chk.j
               i == chk.i
    <3>2. j \in Jobs /\ i \in Frames /\ (job' = job \/ OneFrameStep(j, i, Requeue(job[j].fi[i])))
      BY <1>b, <2>2, CheckFrameStep
    <3>3. ~ Requeue(job[j].fi[i]).requeue
      BY <1>d, <3>2, FrameSteps
    <3>4. job' = job => CheckAttached'
      BY <1>b, <3>1 DEF CheckAttached
    <3> QED
      BY <1>a, <3>1, <3>2, <3>3, <3>4, QueueFrame, QueueSame
  <2>3. CASE CheckDone
    <3>1. UNCHANGED <<regs, todo>>
      BY <2>3 DEF CheckDone
    <3>2. chk.pc = "frames" /\ chk.j \in Jobs /\ chk'.pc = "idle" /\ CountStep(chk.j)
      BY <1>b, <2>3, CheckDoneStep
    <3>3. Attached(job[chk.j])
      BY <1>b, <3>2 DEF CheckAttached
    <3> QED
      BY <1>a, <3>1, <3>2, <3>3, QueueCount
  <2> QED
    BY <1>7, <2>1, <2>2, <2>3 DEF Check
<1> QED
  BY <1>1, <1>2, <1>3, <1>4, <1>5, <1>6, <1>7 DEF QuietStep

LEMMA KeepsJobs ==
  ASSUME Quiet, TypeOK, FarmInv, QuietStep
  PROVE  \A j \in Jobs : Attached(job[j]) => Attached(job'[j]) /\ job'[j].sub = job[j].sub
<1> DEFINE Kept == \A j \in Jobs : Attached(job[j]) => Attached(job'[j]) /\ job'[j].sub = job[j].sub
<1>a. QueueInv /\ SendsRecord /\ ReportsEnded /\ EmptySlots /\ CheckAttached
  BY DEF FarmInv, CopiesInv, EndedInv, QueueInv
<1>b. \A j, f, fr : OneFrameStep(j, f, fr) => Kept
  BY DEF OneFrameStep, SameJob, Attached
<1>c. \A j : CountStep(j) => Kept
  BY DEF CountStep, SameJob, Attached
<1>1. ASSUME NEW s \in Subs, RegisterReserve(s) PROVE Kept
  <2>1. PICK j \in Jobs : JobIndexFree(j) /\ job' = [job EXCEPT ![j].used = TRUE]
    BY <1>1 DEF RegisterReserve
  <2> QED
    BY <2>1 DEF TypeOK, JobRecord, JobIndexFree, Attached
<1>2. ASSUME NEW s \in Subs, NEW j \in Jobs, RegisterDone(j, s) PROVE Kept
  <2>1. ~ Attached(job[j]) /\ \A k \in Jobs : k # j => job'[k] = job[k]
    BY <1>a, <1>2, QueueFill
  <2> QED
    BY <2>1
<1>3. ASSUME NEW h \in Handlers, HandlerGoesOn(h) PROVE Kept
  <2>1. ASSUME NEW j \in Jobs, Reserve(h, j) PROVE Kept
    <3>1. PICK f \in Frames : OneFrameStep(j, f, AssignTo(job[j].fi[f], conn[h].c, NoTask))
      BY <2>1, ReserveStep
    <3> QED
      BY <1>b, <3>1
  <2>2. CASE Assign(h)
    BY <1>a, <1>b, <2>2, AssignStep
  <2>3. CASE \/ \E j \in Jobs : SkipJob(h, j)
             \/ NoAvailableJob(h) \/ (\E t \in Tasks : Confirm(h, t)) \/ SendTask(h) \/ HandlerDies(h)
    BY <2>3 DEF SkipJob, NoAvailableJob, Confirm, SendTask, HandlerDies
  <2> QED
    BY <1>3, <2>1, <2>2, <2>3 DEF HandlerGoesOn
<1>4. ASSUME NEW c \in Comps, SlaveGoesOn(c) PROVE Kept
  BY <1>4 DEF SlaveGoesOn, Ask, SlaveStarts, SendStatus, StoreStatus, StatusLost
<1>5. ASSUME NEW c \in Comps, NEW t \in Tasks, TaskExits(c, t) \/ TaskCrashes(c, t) PROVE Kept
  BY <1>5 DEF TaskExits, TaskCrashes, TaskEnds
<1>6. ASSUME NEW r \in fin, TaskFinished(r) \/ ReportLost(r) PROVE Kept
  <2>1. CASE ReportLost(r)
    BY <2>1 DEF ReportLost
  <2>2. CASE TaskFinished(r)
    BY <1>a, <1>b, <2>2, TaskFinishedStep
  <2> QED
    BY <1>6, <2>1, <2>2
<1>7. ASSUME NEW j \in Jobs, StopJob(j) \/ ContinueJob(j) PROVE Kept
  BY <1>c, <1>7, StopStep
<1>8. CASE Check
  <2>1. CASE CheckJob
    BY <2>1 DEF CheckJob
  <2>2. CASE CheckFrame
    BY <1>a, <1>b, <2>2, CheckFrameStep
  <2>3. CASE CheckDone
    BY <1>a, <1>c, <2>3, CheckDoneStep
  <2> QED
    BY <1>8, <2>1, <2>2, <2>3 DEF Check
<1> QED
  BY <1>1, <1>2, <1>3, <1>4, <1>5, <1>6, <1>7, <1>8 DEF QuietStep

----------------------------------------------------------------------------
(* The slaves: what a handler serves has no other request under way.       *)
LEMMA SlavesSame ==
  ASSUME SlavesInv, UNCHANGED <<conn, slave, comp, ucs, kills>>
  PROVE  SlavesInv'
BY DEF SlavesInv, OneRequest, SlavesKnown

LEMMA SlavesHandler ==
  ASSUME Quiet, TypeOK, SlavesInv, NEW h \in Handlers, HandlerGoesOn(h)
  PROVE  SlavesInv'
<1> DEFINE c == conn[h].c
           t == conn[h].t
<1>a. OneRequest /\ SlavesKnown /\ kills = {}
  BY DEF SlavesInv
<1>b. conn[h] \in Conn /\ ConnKnows(conn[h]) /\ slave \in [Comps -> SlaveRecord] /\ comp \in [Comps -> CompRecord]
  BY DEF TypeOK
<1>c. ~ NoConn.up /\ NoConn.pc = "idle"
  BY DEF NoConn
<1>d. ASSUME \A g \in Handlers : g # h => conn'[g] = conn[g], ucs' = ucs,
             conn'[h].up <=> conn'[h].pc # "idle", conn'[h].up => conn'[h].c = conn[h].c /\ conn[h].up,
             \A g \in Handlers : conn'[g].up =>
               /\ slave'[conn'[g].c].up = slave[conn'[g].c].up
               /\ conn'[g].pc \in {"confirmed", "send"} => ~ slave'[conn'[g].c].run[conn'[g].t]
      PROVE  OneRequest'
  <2>1. \A g \in Handlers : conn'[g].up => conn[g].up /\ conn'[g].c = conn[g].c
    BY <1>d
  <2> QED
    BY <1>a, <1>d, <2>1 DEF OneRequest
<1>e. ASSUME NEW cn, conn' = [conn EXCEPT ![h] = cn], cn.up => cn.c = conn[h].c /\ conn[h].up,
             NEW d \in Comps,
             \A e \in Comps : e # d => slave'[e] = slave[e], slave'[d].up = slave[d].up,
             \/ slave'[d].run = slave[d].run
             \/ ~ cn.up /\ conn[h].up /\ d = conn[h].c
             \* the second: only the slot of the request may start
      PROVE  \A g \in Handlers : g # h /\ conn'[g].up =>
               /\ slave'[conn'[g].c].up = slave[conn'[g].c].up
               /\ conn'[g].pc \in {"confirmed", "send"} => ~ slave'[conn'[g].c].run[conn'[g].t]
  <2>1. \A g \in Handlers : g # h => conn'[g] = conn[g]
    BY <1>e, OneConnIs
  <2>2. \A g \in Handlers : conn[g].up => conn[g].c \in Comps
    BY <1>a DEF TypeOK, ConnKnows, OneRequest
  <2>3. \A g \in Handlers : g # h /\ conn[g].up /\ conn[h].up => conn[g].c # conn[h].c
    BY <1>a DEF OneRequest
  <2> QED
    BY <1>a, <1>e, <2>1, <2>2, <2>3 DEF OneRequest
<1>1. ASSUME NEW j \in Jobs, Reserve(h, j) \/ SkipJob(h, j) PROVE SlavesInv'
  <2>1. /\ \A g \in Handlers : g # h => conn'[g] = conn[g]
        /\ conn'[h].pc \in {"scan", "offered"} /\ conn'[h].c = conn[h].c /\ conn'[h].up = conn[h].up
    <3>1. CASE Reserve(h, j)
      BY <3>1, ReserveStep
    <3>2. CASE SkipJob(h, j)
      <4>1. conn' = [conn EXCEPT ![h] = [conn[h] EXCEPT !.left = @ \ {j}]] /\ conn[h].pc = "scan"
        BY <3>2 DEF SkipJob
      <4>2. conn \in [Handlers -> Conn]
        BY DEF TypeOK
      <4> QED
        BY <1>b, <4>1, <4>2 DEF Conn
    <3> QED
      BY <1>1, <3>1, <3>2
  <2>2. UNCHANGED <<slave, comp, ucs, kills>> /\ conn[h].pc = "scan"
    BY <1>1 DEF Reserve, SkipJob
  <2>3. \A g \in Handlers : conn'[g].up =>
          /\ slave'[conn'[g].c].up = slave[conn'[g].c].up
          /\ conn'[g].pc \in {"confirmed", "send"} => ~ slave'[conn'[g].c].run[conn'[g].t]
    BY <1>a, <2>1, <2>2 DEF OneRequest
  <2>4. conn'[h].up <=> conn'[h].pc # "idle"
    BY <1>a, <2>1, <2>2 DEF OneRequest
  <2> QED
    BY <1>a, <1>d, <2>1, <2>2, <2>3, <2>4 DEF SlavesInv, SlavesKnown
<1>2. CASE NoAvailableJob(h)
  <2>1. UNCHANGED <<slave, comp, ucs, kills>> /\ conn' = [conn EXCEPT ![h] = NoConn]
    BY <1>2 DEF NoAvailableJob
  <2>2. \A g \in Handlers : conn'[g].up =>
          /\ slave'[conn'[g].c].up = slave[conn'[g].c].up
          /\ conn'[g].pc \in {"confirmed", "send"} => ~ slave'[conn'[g].c].run[conn'[g].t]
    BY <1>a, <1>c, <2>1, OneConnIs DEF OneRequest
  <2> QED
    BY <1>a, <1>c, <1>d, <2>1, <2>2, OneConnIs, ZenonT(60) DEF SlavesInv, SlavesKnown
<1>3. ASSUME NEW u \in Tasks, Confirm(h, u) PROVE SlavesInv'
  <2> DEFINE cn == [conn[h] EXCEPT !.pc = "confirmed", !.t = u]
  <2>1. conn' = [conn EXCEPT ![h] = cn] /\ UNCHANGED <<comp, ucs, kills>>
    BY <1>3 DEF Confirm
  <2>2. cn.pc = "confirmed" /\ cn.t = u /\ cn.c = c /\ cn.up = conn[h].up /\ conn[h].up /\ ~ slave[c].run[u]
    BY <1>b, <1>3 DEF Conn, Confirm, FreeSlot
  <2>3. c \in Comps
    BY <1>b, <1>3 DEF Confirm, ConnKnows
  <2>4. /\ \A e \in Comps : e # c => slave'[e] = slave[e]
        /\ slave'[c].up = slave[c].up /\ slave'[c].run = slave[c].run
    <3>1. slave' = [slave EXCEPT ![c] = [slave[c] EXCEPT !.task[u] = [@ EXCEPT !.used = TRUE, !.busy = TRUE]]]
      BY <1>3 DEF Confirm
    <3> QED
      BY <1>b, <2>3, <3>1 DEF SlaveRecord
  <2> HIDE DEF cn
  <2>5. conn'[h] = cn
    BY <2>1, OneConnIs
  <2>6. \A g \in Handlers : conn'[g].up =>
          /\ slave'[conn'[g].c].up = slave[conn'[g].c].up
          /\ conn'[g].pc \in {"confirmed", "send"} => ~ slave'[conn'[g].c].run[conn'[g].t]
    BY <1>e, <2>1, <2>2, <2>3, <2>4, <2>5, ZenonT(60)
  <2>7. SlavesKnown'
    BY <1>a, <2>1, <2>3, <2>4 DEF SlavesKnown
  <2> QED
    BY <1>a, <1>d, <2>1, <2>2, <2>5, <2>6, <2>7, OneConnIs DEF SlavesInv
<1>4. CASE Assign(h)
  <2> DEFINE cn == [conn[h] EXCEPT !.pc = "send"]
  <2>1. conn' = [conn EXCEPT ![h] = cn] /\ UNCHANGED <<slave, ucs, kills>> /\ conn[h].pc = "confirmed"
    BY <1>4 DEF Assign
  <2>2. cn.pc = "send" /\ cn.t = t /\ cn.c = c /\ cn.up = conn[h].up /\ conn[h].up /\ ~ slave[c].run[t]
    BY <1>a, <1>b, <2>1 DEF Conn, OneRequest
  <2> HIDE DEF cn
  <2>3. conn'[h] = cn /\ \A g \in Handlers : g # h => conn'[g] = conn[g]
    BY <2>1, OneConnIs
  <2>4. \A g \in Handlers : conn'[g].up =>
          /\ slave'[conn'[g].c].up = slave[conn'[g].c].up
          /\ conn'[g].pc \in {"confirmed", "send"} => ~ slave'[conn'[g].c].run[conn'[g].t]
    BY <1>a, <2>1, <2>2, <2>3 DEF OneRequest
  <2>5. \A d \in Comps : comp'[d].used = comp[d].used
    <3>1. c \in Comps /\ t \in Tasks
      BY <1>b, <2>1 DEF ConnKnows
    <3>2. comp' = comp \/ comp' = [comp EXCEPT ![c] = [comp[c] EXCEPT !.task[t] = TaskAssigned(conn[h].j, job[conn[h].j], conn[h].f)]]
      BY <1>4 DEF Assign
    <3> QED
      BY <1>b, <3>1, <3>2 DEF CompRecord
  <2>6. SlavesKnown'
    BY <1>a, <2>1, <2>5 DEF SlavesKnown
  <2> QED
    BY <1>a, <1>d, <2>1, <2>2, <2>3, <2>4, <2>6 DEF SlavesInv
<1>5. CASE SendTask(h)
  <2>1. conn' = [conn EXCEPT ![h] = NoConn] /\ UNCHANGED <<comp, ucs, kills>> /\ conn[h].pc = "send" /\ conn[h].up
    BY <1>5 DEF SendTask
  <2>2. c \in Comps /\ t \in Tasks
    BY <1>b, <2>1 DEF ConnKnows
  <2>3. /\ \A e \in Comps : e # c => slave'[e] = slave[e]
        /\ slave'[c].up = slave[c].up
    <3>1. slave' = [slave EXCEPT ![c] = [slave[c] EXCEPT !.task[t] = [comp[c].task[t] EXCEPT !.busy = TRUE], !.run[t] = TRUE]]
      BY <1>5 DEF SendTask
    <3> QED
      BY <1>b, <2>2, <3>1 DEF SlaveRecord
  <2>4. \A g \in Handlers : g # h /\ conn'[g].up =>
          /\ slave'[conn'[g].c].up = slave[conn'[g].c].up
          /\ conn'[g].pc \in {"confirmed", "send"} => ~ slave'[conn'[g].c].run[conn'[g].t]
    BY <1>c, <1>e, <2>1, <2>2, <2>3
  <2>5. conn'[h] = NoConn
    BY <2>1, OneConnIs
  <2>6. SlavesKnown'
    <3>1. slave[c].up
      BY <1>a, <2>1 DEF OneRequest
    <3> QED
      BY <1>a, <2>1, <2>2, <2>3, <3>1 DEF SlavesKnown
  <2> QED
    BY <1>a, <1>c, <1>d, <2>1, <2>4, <2>5, <2>6, OneConnIs DEF SlavesInv
<1>6. CASE HandlerDies(h)
  <2>1. conn' = [conn EXCEPT ![h] = NoConn] /\ UNCHANGED <<comp, ucs, kills>> /\ slave' = SlotCleared(h) /\ conn[h].pc # "idle"
    BY <1>6 DEF HandlerDies
  <2>2. c \in Comps
    BY <1>b, <2>1 DEF ConnKnows
  <2>3. /\ \A e \in Comps : e # c => slave'[e] = slave[e]
        /\ slave'[c].up = slave[c].up /\ slave'[c].run = slave[c].run
    <3>1. slave' = slave \/ slave' = [slave EXCEPT ![c] = [slave[c] EXCEPT !.task[t] = TaskInit]]
      BY <2>1 DEF SlotCleared
    <3> QED
      BY <1>b, <2>2, <3>1 DEF SlaveRecord
  <2>4. \A g \in Handlers : g # h /\ conn'[g].up =>
          /\ slave'[conn'[g].c].up = slave[conn'[g].c].up
          /\ conn'[g].pc \in {"confirmed", "send"} => ~ slave'[conn'[g].c].run[conn'[g].t]
    BY <1>c, <1>e, <2>1, <2>2, <2>3
  <2>5. conn'[h] = NoConn
    BY <2>1, OneConnIs
  <2>6. SlavesKnown'
    BY <1>a, <2>1, <2>2, <2>3 DEF SlavesKnown
  <2> QED
    BY <1>a, <1>c, <1>d, <2>1, <2>4, <2>5, <2>6, OneConnIs DEF SlavesInv
<1> QED
  BY <1>1, <1>2, <1>3, <1>4, <1>5, <1>6 DEF HandlerGoesOn

LEMMA SlavesSlave ==
  ASSUME Quiet, TypeOK, SlavesInv, NEW c \in Comps, SlaveGoesOn(c)
  PROVE  SlavesInv'
<1>a. OneRequest /\ SlavesKnown /\ kills = {}
  BY DEF SlavesInv
<1>b. slave \in [Comps -> SlaveRecord] /\ comp \in [Comps -> CompRecord] /\ ucs \in [Comps -> Status]
  BY DEF TypeOK
<1>1. ASSUME NEW h \in Handlers, Ask(c, h) PROVE SlavesInv'
  <2> DEFINE cn == [NoConn EXCEPT !.pc = "scan", !.c = c, !.left = Jobs, !.up = TRUE]
  <2>1. /\ conn' = [conn EXCEPT ![h] = cn] /\ UNCHANGED <<slave, comp, ucs, kills>>
        /\ slave[c].up /\ conn[h].pc = "idle" /\ ~ ucs[c].sent /\ \A g \in Handlers : ~ (conn[g].c = c /\ conn[g].up)
    BY <1>1 DEF Ask, Quiet, Serving
  <2>2. cn.pc = "scan" /\ cn.c = c /\ cn.up
    BY DEF NoConn
  <2> HIDE DEF cn
  <2>3. conn'[h] = cn /\ \A g \in Handlers : g # h => conn'[g] = conn[g]
    BY <2>1, OneConnIs
  <2>4. OneRequest'
    BY <1>a, <2>1, <2>2, <2>3 DEF OneRequest
  <2> QED
    BY <1>a, <2>1, <2>4 DEF SlavesInv, SlavesKnown
<1>2. CASE SlaveStarts(c)
  <2>1. /\ ~ slave[c].up /\ UNCHANGED <<conn, ucs, kills>>
        /\ slave' = [slave EXCEPT ![c] = [slave[c] EXCEPT !.up = TRUE]]
        /\ comp' = [comp EXCEPT ![c] = [CompInit EXCEPT !.used = TRUE]]
    BY <1>2 DEF SlaveStarts
  <2>2. /\ slave'[c].up /\ slave'[c].run = slave[c].run /\ comp'[c].used
        /\ \A d \in Comps : d # c => slave'[d] = slave[d] /\ comp'[d] = comp[d]
    BY <1>b, <2>1 DEF SlaveRecord, CompInit
  <2>3. SlavesKnown'
    BY <1>a, <2>2 DEF SlavesKnown
  <2>4. \A h \in Handlers : conn[h].up => conn[h].c \in Comps /\ conn[h].c # c
    BY <1>a, <2>1 DEF TypeOK, ConnKnows, OneRequest
  <2>5. OneRequest'
    BY <1>a, <2>1, <2>2, <2>4 DEF OneRequest
  <2> QED
    BY <1>a, <2>1, <2>3, <2>5 DEF SlavesInv
<1>3. CASE SendStatus(c)
  <2>1. /\ UNCHANGED <<conn, slave, comp, kills>> /\ \A g \in Handlers : ~ (conn[g].c = c /\ conn[g].up)
        /\ \A d \in Comps : d # c => ucs'[d] = ucs[d]
    BY <1>b, <1>3 DEF SendStatus, Serving
  <2>2. \A h \in Handlers : conn[h].up => conn[h].c \in Comps
    BY <1>a DEF TypeOK, ConnKnows, OneRequest
  <2> QED
    BY <1>a, <2>1, <2>2 DEF SlavesInv, OneRequest, SlavesKnown
<1>4. CASE StoreStatus(c) \/ StatusLost(c)
  <2>1. UNCHANGED <<conn, slave, kills>> /\ ucs' = [ucs EXCEPT ![c] = NoStatus]
    BY <1>4 DEF StoreStatus, StatusLost
  <2>2. \A d \in Comps : ucs'[d].sent => ucs[d].sent
    BY <1>b, <2>1 DEF NoStatus
  <2>3. \A d \in Comps : comp'[d].used = comp[d].used
    <3>1. comp' = comp \/ comp' = [comp EXCEPT ![c] = [comp[c] EXCEPT !.task = ucs[c].task]]
      BY <1>4 DEF StoreStatus, StatusLost
    <3> QED
      BY <1>b, <3>1 DEF CompRecord
  <2>4. \A h \in Handlers : conn[h].up => conn[h].c \in Comps
    BY <1>a DEF TypeOK, ConnKnows, OneRequest
  <2> QED
    BY <1>a, <2>1, <2>2, <2>3, <2>4 DEF SlavesInv, OneRequest, SlavesKnown
<1> QED
  BY <1>1, <1>2, <1>3, <1>4 DEF SlaveGoesOn

LEMMA TaskIsOver ==
  ASSUME TypeOK, NEW c \in Comps, NEW t \in Tasks, TaskExits(c, t) \/ TaskCrashes(c, t)
  PROVE  /\ UNCHANGED <<job, comp, conn, chk, regs, todo, ucs, kills>>
         /\ \E exit \in {"exited", "crashed"} : fin' = fin \cup {Report(c, t, exit)}
         /\ slave[c].run[t] /\ ~ slave'[c].run[t] /\ slave'[c].up = slave[c].up
         /\ \A u \in Tasks : u # t => slave'[c].run[u] = slave[c].run[u] /\ slave'[c].task[u] = slave[c].task[u]
         /\ \A d \in Comps : d # c => slave'[d] = slave[d]
<1>1. PICK exit \in {"exited", "crashed"} : TaskEnds(c, t, exit) /\ kills' = kills
  BY DEF TaskExits, TaskCrashes
<1>2. slave' = [slave EXCEPT ![c] = [slave[c] EXCEPT !.run[t] = FALSE,
                                                     !.task[t] = [@ EXCEPT !.used = FALSE, !.busy = FALSE]]]
  BY <1>1 DEF TaskEnds
<1>3. slave[c] \in SlaveRecord /\ slave \in [Comps -> SlaveRecord]
  BY DEF TypeOK
<1> QED
  BY <1>1, <1>2, <1>3 DEF TaskEnds, SlaveRecord

LEMMA SlavesStep ==
  ASSUME Quiet, TypeOK, FarmInv, QuietStep
  PROVE  SlavesInv'
<1>a. SlavesInv /\ OneRequest /\ SlavesKnown /\ kills = {}
  BY DEF FarmInv, SlavesInv
<1>1. ASSUME NEW s \in Subs, RegisterReserve(s) \/ \E j \in Jobs : RegisterDone(j, s) PROVE SlavesInv'
  BY <1>a, <1>1, SlavesSame DEF RegisterReserve, RegisterDone
<1>2. ASSUME NEW c \in Comps, NEW t \in Tasks, TaskExits(c, t) \/ TaskCrashes(c, t) PROVE SlavesInv'
  <2>1. /\ UNCHANGED <<comp, conn, ucs, kills>>
        /\ \A d \in Comps : slave'[d].up = slave[d].up /\ \A u \in Tasks : slave'[d].run[u] => slave[d].run[u]
    BY <1>2, TaskIsOver
  <2>2. \A h \in Handlers : conn[h].up => conn[h].c \in Comps /\ (conn[h].pc \in {"confirmed", "send"} => conn[h].t \in Tasks)
    BY <1>a DEF TypeOK, ConnKnows, OneRequest
  <2> QED
    BY <1>a, <2>1, <2>2 DEF SlavesInv, OneRequest, SlavesKnown
<1>3. ASSUME NEW r \in fin, TaskFinished(r) \/ ReportLost(r) PROVE SlavesInv'
  BY <1>a, <1>3, SlavesSame DEF TaskFinished, ReportLost
<1>4. ASSUME NEW j \in Jobs, StopJob(j) \/ ContinueJob(j) PROVE SlavesInv'
  BY <1>a, <1>4, StopStep, SlavesSame
<1>5. CASE Check
  BY <1>a, <1>5, SlavesSame DEF Check, CheckJob, CheckFrame, CheckDone
<1> QED
  BY <1>a, <1>1, <1>2, <1>3, <1>4, <1>5, SlavesHandler, SlavesSlave DEF QuietStep

----------------------------------------------------------------------------
(* What a handler and a slave keep of the tasks that run.                  *)
SameTasks ==
  \A c \in Comps, t \in Tasks :
    /\ slave'[c].run[t] = slave[c].run[t]
    /\ slave[c].run[t] => slave'[c].task[t] = slave[c].task[t]

LEMMA ConfirmStep ==
  ASSUME TypeOK, NEW h \in Handlers, NEW u \in Tasks, Confirm(h, u)
  PROVE  /\ conn[h].pc = "offered" /\ conn'[h].pc = "confirmed"
         /\ conn'[h].j = conn[h].j /\ conn'[h].f = conn[h].f
         /\ \A g \in Handlers : g # h => conn'[g] = conn[g]
         /\ SameTasks /\ UNCHANGED <<job, comp, chk, ucs, fin>>
<1> DEFINE c == conn[h].c
           cn == [conn[h] EXCEPT !.pc = "confirmed", !.t = u]
<1>1. conn[h] \in Conn /\ ConnKnows(conn[h]) /\ slave \in [Comps -> SlaveRecord]
  BY DEF TypeOK
<1>2. /\ conn[h].pc = "offered" /\ ~ slave[c].run[u] /\ conn' = [conn EXCEPT ![h] = cn]
      /\ UNCHANGED <<job, comp, chk, ucs, fin>>
      /\ slave' = [slave EXCEPT ![c] = [slave[c] EXCEPT !.task[u] = [@ EXCEPT !.used = TRUE, !.busy = TRUE]]]
  BY DEF Confirm, FreeSlot
<1>3. cn.pc = "confirmed" /\ cn.j = conn[h].j /\ cn.f = conn[h].f
  BY <1>1 DEF Conn
<1>4. c \in Comps
  BY <1>1, <1>2 DEF ConnKnows
<1>5. SameTasks
  BY <1>1, <1>2, <1>4 DEF SlaveRecord, SameTasks
<1> HIDE DEF cn
<1>6. conn'[h] = cn /\ \A g \in Handlers : g # h => conn'[g] = conn[g]
  BY <1>2, OneConnIs
<1> QED
  BY <1>2, <1>3, <1>5, <1>6

LEMMA AssignRecords ==
  ASSUME TypeOK, SlavesInv, SendsRecord, NEW h \in Handlers, Assign(h)
  PROVE  /\ conn[h].c \in Comps /\ conn[h].t \in Tasks
         /\ conn[h].pc = "confirmed" /\ conn'[h].pc = "send"
         /\ conn'[h].c = conn[h].c /\ conn'[h].t = conn[h].t
         /\ conn'[h].j = conn[h].j /\ conn'[h].f = conn[h].f
         /\ \A g \in Handlers : g # h => conn'[g] = conn[g]
         /\ \A d \in Comps : /\ comp'[d].used = comp[d].used
                             /\ d # conn[h].c => comp'[d] = comp[d]
         /\ comp[conn[h].c].used
         /\ \A u \in Tasks : u # conn[h].t => comp'[conn[h].c].task[u] = comp[conn[h].c].task[u]
         /\ comp'[conn[h].c].task[conn[h].t] = TaskAssigned(conn[h].j, job[conn[h].j], conn[h].f)
         /\ UNCHANGED <<slave, chk, ucs, fin>>
<1> DEFINE c == conn[h].c
           t == conn[h].t
           tk == TaskAssigned(conn[h].j, job[conn[h].j], conn[h].f)
           cn == [conn[h] EXCEPT !.pc = "send"]
<1>1. conn[h] \in Conn /\ ConnKnows(conn[h]) /\ comp \in [Comps -> CompRecord]
  BY DEF TypeOK
<1>2. conn[h].pc = "confirmed" /\ conn' = [conn EXCEPT ![h] = cn] /\ UNCHANGED <<slave, chk, ucs, fin>>
  BY DEF Assign
<1>3. c \in Comps /\ t \in Tasks /\ job[conn[h].j].used
  BY <1>1, <1>2 DEF ConnKnows, SendsRecord, SendRecorded, Giving, Attached
<1>4. comp[c].used
  BY <1>2, <1>3 DEF SlavesInv, OneRequest, SlavesKnown
<1>5. comp' = [comp EXCEPT ![c].task[t] = tk]
  BY <1>3, <1>4 DEF Assign
<1>6. comp' = [comp EXCEPT ![c] = [comp[c] EXCEPT !.task[t] = tk]]
  BY <1>5
<1>7. cn.pc = "send" /\ cn.c = c /\ cn.t = t /\ cn.j = conn[h].j /\ cn.f = conn[h].f
  BY <1>1 DEF Conn
<1> HIDE DEF tk, cn
<1>8. /\ \A d \in Comps : comp'[d].used = comp[d].used /\ (d # c => comp'[d] = comp[d])
      /\ \A u \in Tasks : u # t => comp'[c].task[u] = comp[c].task[u]
      /\ comp'[c].task[t] = tk
  BY <1>1, <1>3, <1>6 DEF CompRecord
<1>9. conn'[h] = cn /\ \A g \in Handlers : g # h => conn'[g] = conn[g]
  BY <1>2, OneConnIs
<1> QED
  BY <1>2, <1>3, <1>4, <1>7, <1>8, <1>9 DEF tk

LEMMA BusyAlready ==
  ASSUME NEW tk \in Task, tk.busy = TRUE
  PROVE  [tk EXCEPT !.busy = TRUE] = tk
BY Zenon DEF Task

LEMMA SendStep ==
  ASSUME TypeOK, SlavesInv, SendsRecord, NEW h \in Handlers, SendTask(h)
  PROVE  /\ conn[h].c \in Comps /\ conn[h].t \in Tasks /\ conn[h].j \in Jobs /\ conn[h].f \in Frames
         /\ conn[h].pc = "send" /\ conn'[h] = NoConn
         /\ \A g \in Handlers : g # h => conn'[g] = conn[g]
         /\ ~ slave[conn[h].c].run[conn[h].t] /\ slave'[conn[h].c].run[conn[h].t]
         /\ Attached(job[conn[h].j])
         /\ slave'[conn[h].c].task[conn[h].t] = TaskAssigned(conn[h].j, job[conn[h].j], conn[h].f)
         /\ comp[conn[h].c].task[conn[h].t] = TaskAssigned(conn[h].j, job[conn[h].j], conn[h].f)
         /\ ~ ucs[conn[h].c].sent
         /\ \A d \in Comps, u \in Tasks : d # conn[h].c \/ u # conn[h].t =>
              slave'[d].run[u] = slave[d].run[u] /\ slave'[d].task[u] = slave[d].task[u]
         /\ UNCHANGED <<job, comp, chk, ucs, fin>>
<1> DEFINE c == conn[h].c
           t == conn[h].t
           tk == TaskAssigned(conn[h].j, job[conn[h].j], conn[h].f)
<1>1. conn[h] \in Conn /\ ConnKnows(conn[h]) /\ slave \in [Comps -> SlaveRecord]
  BY DEF TypeOK
<1>2. conn[h].pc = "send" /\ conn' = [conn EXCEPT ![h] = NoConn] /\ UNCHANGED <<job, comp, chk, ucs, fin>>
  BY DEF SendTask
<1>3. c \in Comps /\ t \in Tasks /\ conn[h].j \in Jobs /\ conn[h].f \in Frames
  BY <1>1, <1>2 DEF ConnKnows, Conn
<1>4. Attached(job[conn[h].j]) /\ comp[c].task[t] = tk
  BY <1>2 DEF SendsRecord, SendRecorded, Giving
<1>5. ~ slave[c].run[t] /\ ~ ucs[c].sent
  BY <1>2 DEF SlavesInv, OneRequest
<1>6. [comp[c].task[t] EXCEPT !.busy = TRUE] = tk
  <2>1. tk \in Task
    <3>1. job[conn[h].j] \in JobRecord
      BY <1>3 DEF TypeOK
    <3> QED
      BY <1>3, <3>1, TaskTypes
  <2>2. tk.busy = TRUE
    BY DEF TaskAssigned
  <2> HIDE DEF tk
  <2> QED
    BY <1>4, <2>1, <2>2, BusyAlready
<1> HIDE DEF tk
<1>7. slave' = [slave EXCEPT ![c].task[t] = tk, ![c].run[t] = TRUE]
  BY <1>6 DEF SendTask
<1>8. slave' = [slave EXCEPT ![c] = [slave[c] EXCEPT !.task[t] = tk, !.run[t] = TRUE]]
  BY <1>7
<1>9. /\ slave'[c].run[t] /\ slave'[c].task[t] = tk
      /\ \A d \in Comps, u \in Tasks : d # c \/ u # t =>
           slave'[d].run[u] = slave[d].run[u] /\ slave'[d].task[u] = slave[d].task[u]
  BY <1>1, <1>3, <1>8 DEF SlaveRecord
<1>10. conn'[h] = NoConn /\ \A g \in Handlers : g # h => conn'[g] = conn[g]
  BY <1>2, OneConnIs
<1> QED
  BY <1>2, <1>3, <1>4, <1>5, <1>9, <1>10 DEF tk

LEMMA HandlerEnds ==
  ASSUME TypeOK, SlavesInv, NEW h \in Handlers, NoAvailableJob(h) \/ HandlerDies(h)
  PROVE  /\ conn'[h] = NoConn /\ \A g \in Handlers : g # h => conn'[g] = conn[g]
         /\ SameTasks /\ UNCHANGED <<job, comp, chk, ucs, fin>>
<1> DEFINE c == conn[h].c
           t == conn[h].t
<1>1. conn[h] \in Conn /\ ConnKnows(conn[h]) /\ slave \in [Comps -> SlaveRecord]
  BY DEF TypeOK
<1>2. conn' = [conn EXCEPT ![h] = NoConn] /\ UNCHANGED <<job, comp, chk, ucs, fin>>
  BY DEF NoAvailableJob, HandlerDies
<1>3. \/ slave' = slave
      \/ conn[h].pc \in {"confirmed", "send"} /\ slave' = [slave EXCEPT ![c].task[t] = TaskInit]
  BY DEF NoAvailableJob, HandlerDies, SlotCleared
<1>4. SameTasks
  <2>1. CASE slave' = slave
    BY <2>1 DEF SameTasks
  <2>2. CASE conn[h].pc \in {"confirmed", "send"} /\ slave' = [slave EXCEPT ![c].task[t] = TaskInit]
    <3>1. c \in Comps /\ ~ slave[c].run[t]
      BY <1>1, <2>2 DEF ConnKnows, SlavesInv, OneRequest
    <3>2. slave' = [slave EXCEPT ![c] = [slave[c] EXCEPT !.task[t] = TaskInit]]
      BY <2>2
    <3> QED
      BY <1>1, <3>1, <3>2 DEF SlaveRecord, SameTasks
  <2> QED
    BY <1>3, <2>1, <2>2
<1> QED
  BY <1>2, <1>4, OneConnIs

LEMMA SkipStep ==
  ASSUME TypeOK, NEW h \in Handlers, NEW j \in Jobs, SkipJob(h, j)
  PROVE  /\ conn[h].pc = "scan" /\ conn'[h].pc = "scan"
         /\ \A g \in Handlers : g # h => conn'[g] = conn[g]
         /\ SameTasks /\ UNCHANGED <<job, comp, chk, ucs, fin>>
<1> DEFINE cn == [conn[h] EXCEPT !.left = @ \ {j}]
<1>1. conn[h] \in Conn
  BY DEF TypeOK
<1>2. conn[h].pc = "scan" /\ conn' = [conn EXCEPT ![h] = cn] /\ UNCHANGED <<job, comp, chk, ucs, fin, slave>>
  BY DEF SkipJob
<1>3. cn.pc = conn[h].pc
  BY <1>1 DEF Conn
<1> HIDE DEF cn
<1> QED
  BY <1>2, <1>3, OneConnIs DEF SameTasks

----------------------------------------------------------------------------
(* The copies of the tasks that run.                                       *)
JobsKept ==
  \A j \in Jobs : Attached(job[j]) => Attached(job'[j]) /\ job'[j].sub = job[j].sub

LEMMA RunKept ==
  ASSUME RunsRecorded, JobsKept, NEW c \in Comps, NEW t \in Tasks,
         slave[c].run[t], slave'[c].task[t] = slave[c].task[t],
         comp'[c].task[t] = comp[c].task[t] \/ comp'[c].task[t] = slave[c].task[t],
         ucs'[c].sent => \/ ucs[c].sent /\ ucs'[c].task[t] = ucs[c].task[t]
                         \/ ucs'[c].task[t] = slave[c].task[t]
  PROVE  RunRecorded(c, t)'
<1> DEFINE tk == slave[c].task[t]
<1>1. RunRecorded(c, t)
  BY DEF RunsRecorded
<1>2. /\ tk.used /\ tk.busy /\ tk.job \in Jobs
      /\ Attached(job[tk.job]) /\ tk.name = JobName(job[tk.job])
  BY <1>1 DEF RunRecorded, IsTask
<1>3. Attached(job'[tk.job]) /\ tk.name = JobName(job'[tk.job])
  BY <1>2 DEF JobsKept, JobName
<1>4. slave'[c].task[t] = tk /\ comp'[c].task[t] = tk /\ (ucs'[c].sent => ucs'[c].task[t] = tk)
  BY <1>1 DEF RunRecorded
<1> QED
  BY <1>2, <1>3, <1>4 DEF RunRecorded, IsTask

LEMMA RunsSame ==
  ASSUME RunsRecorded, JobsKept, SameTasks, UNCHANGED <<comp, ucs>>
  PROVE  RunsRecorded'
<1> SUFFICES ASSUME NEW c \in Comps, NEW t \in Tasks, slave'[c].run[t] PROVE RunRecorded(c, t)'
  BY DEF RunsRecorded
<1>1. slave[c].run[t] /\ slave'[c].task[t] = slave[c].task[t]
  BY DEF SameTasks
<1> QED
  BY <1>1, RunKept

LEMMA RunsHandler ==
  ASSUME Quiet, TypeOK, SlavesInv, RunsRecorded, SendsRecord, JobsKept, NEW h \in Handlers, HandlerGoesOn(h)
  PROVE  RunsRecorded'
<1>1. ASSUME NEW j \in Jobs, Reserve(h, j) \/ SkipJob(h, j) PROVE RunsRecorded'
  BY <1>1, RunsSame DEF Reserve, SkipJob, SameTasks
<1>2. ASSUME NEW u \in Tasks, Confirm(h, u) PROVE RunsRecorded'
  BY <1>2, RunsSame, ConfirmStep
<1>3. CASE NoAvailableJob(h) \/ HandlerDies(h)
  BY <1>3, RunsSame, HandlerEnds
<1>4. CASE Assign(h)
  <2> SUFFICES ASSUME NEW c \in Comps, NEW t \in Tasks, slave'[c].run[t] PROVE RunRecorded(c, t)'
    BY DEF RunsRecorded
  <2>1. UNCHANGED <<slave, ucs>> /\ conn[h].pc = "confirmed"
    BY <1>4, AssignRecords
  <2>2. ~ (c = conn[h].c /\ t = conn[h].t)
    BY <2>1 DEF SlavesInv, OneRequest
  <2>3. comp'[c].task[t] = comp[c].task[t]
    BY <1>4, <2>2, AssignRecords
  <2> QED
    BY <2>1, <2>3, RunKept
<1>5. CASE SendTask(h)
  <2> SUFFICES ASSUME NEW c \in Comps, NEW t \in Tasks, slave'[c].run[t] PROVE RunRecorded(c, t)'
    BY DEF RunsRecorded
  <2>1. /\ UNCHANGED <<comp, ucs, job>>
        /\ \A d \in Comps, u \in Tasks : d # conn[h].c \/ u # conn[h].t =>
             slave'[d].run[u] = slave[d].run[u] /\ slave'[d].task[u] = slave[d].task[u]
    BY <1>5, SendStep
  <2>2. CASE c = conn[h].c /\ t = conn[h].t
    <3> DEFINE tk == TaskAssigned(conn[h].j, job[conn[h].j], conn[h].f)
    <3>1. slave'[c].task[t] = tk /\ comp'[c].task[t] = tk /\ ~ ucs'[c].sent
      BY <1>5, <2>1, <2>2, SendStep
    <3>2. conn[h].j \in Jobs /\ Attached(job[conn[h].j])
      BY <1>5, SendStep
    <3>3. tk.used /\ tk.busy /\ tk.job = conn[h].j /\ tk.name = JobName(job[conn[h].j])
      BY DEF TaskAssigned
    <3> HIDE DEF tk
    <3> QED
      BY <2>1, <3>1, <3>2, <3>3 DEF RunRecorded, IsTask
  <2>3. CASE ~ (c = conn[h].c /\ t = conn[h].t)
    <3>1. slave'[c].run[t] = slave[c].run[t] /\ slave'[c].task[t] = slave[c].task[t]
      BY <2>1, <2>3
    <3> QED
      BY <2>1, <3>1, RunKept
  <2> QED
    BY <2>2, <2>3
<1> QED
  BY <1>1, <1>2, <1>3, <1>4, <1>5 DEF HandlerGoesOn

LEMMA SlaveSteps ==
  ASSUME TypeOK, SlavesInv, NEW c \in Comps, SlaveGoesOn(c)
  PROVE  /\ SameTasks /\ UNCHANGED <<job, chk, fin>>
         /\ \A d \in Comps : comp[d].used => comp'[d].used
         /\ \A d \in Comps : comp'[d].task = comp[d].task \/ ~ slave[d].up
                             \/ (ucs[d].sent /\ comp'[d].task = ucs[d].task)
         /\ \A d \in Comps : ucs'[d].sent => ucs'[d] = ucs[d] \/ ucs'[d].task = slave[d].task
         /\ \A h \in Handlers : conn'[h] = conn[h] \/ conn'[h].pc = "scan"
<1>a. slave \in [Comps -> SlaveRecord] /\ comp \in [Comps -> CompRecord] /\ ucs \in [Comps -> Status]
  BY DEF TypeOK
<1>1. ASSUME NEW h \in Handlers, Ask(c, h)
      PROVE  /\ UNCHANGED <<slave, comp, ucs, job, chk, fin>>
             /\ \A g \in Handlers : conn'[g] = conn[g] \/ conn'[g].pc = "scan"
  <2> DEFINE cn == [NoConn EXCEPT !.pc = "scan", !.c = c, !.left = Jobs, !.up = TRUE]
  <2>1. conn' = [conn EXCEPT ![h] = cn] /\ UNCHANGED <<slave, comp, ucs, job, chk, fin>>
    BY <1>1 DEF Ask
  <2>2. cn.pc = "scan"
    BY DEF NoConn
  <2> HIDE DEF cn
  <2> QED
    BY <2>1, <2>2, OneConnIs
<1>2. CASE SlaveStarts(c)
  <2>1. /\ UNCHANGED <<conn, ucs, job, chk, fin>> /\ ~ slave[c].up
        /\ slave' = [slave EXCEPT ![c] = [slave[c] EXCEPT !.up = TRUE]]
        /\ comp' = [comp EXCEPT ![c] = [CompInit EXCEPT !.used = TRUE]]
    BY <1>2 DEF SlaveStarts
  <2>2. SameTasks
    BY <1>a, <2>1 DEF SameTasks, SlaveRecord
  <2>3. \A d \in Comps : (comp[d].used => comp'[d].used) /\ (d # c => comp'[d] = comp[d])
    BY <1>a, <2>1 DEF CompInit
  <2> QED
    BY <2>1, <2>2, <2>3
<1>3. CASE SendStatus(c)
  <2>1. /\ UNCHANGED <<slave, comp, conn, job, chk, fin>>
        /\ ucs' = [ucs EXCEPT ![c] = [sent |-> TRUE, task |-> slave[c].task]]
    BY <1>3 DEF SendStatus
  <2>2. \A d \in Comps : ucs'[d] = ucs[d] \/ ucs'[d].task = slave[d].task
    BY <1>a, <2>1
  <2> QED
    BY <2>1, <2>2 DEF SameTasks
<1>4. CASE StoreStatus(c) \/ StatusLost(c)
  <2>1. UNCHANGED <<slave, conn, job, chk, fin>> /\ ucs' = [ucs EXCEPT ![c] = NoStatus] /\ ucs[c].sent
    BY <1>4 DEF StoreStatus, StatusLost
  <2>2. \A d \in Comps : ucs'[d].sent => ucs'[d] = ucs[d]
    BY <1>a, <2>1 DEF NoStatus
  <2>3. comp' = comp \/ comp' = [comp EXCEPT ![c] = [comp[c] EXCEPT !.task = ucs[c].task]]
    BY <1>4 DEF StoreStatus, StatusLost
  <2>4. \A d \in Comps : comp'[d].used = comp[d].used /\ (comp'[d].task = comp[d].task \/ (d = c /\ comp'[d].task = ucs[c].task))
    BY <1>a, <2>3 DEF CompRecord
  <2> QED
    BY <2>1, <2>2, <2>4 DEF SameTasks
<1> QED
  BY <1>1, <1>2, <1>3, <1>4 DEF SlaveGoesOn, SameTasks

LEMMA CopiesStep ==
  ASSUME Quiet, TypeOK, FarmInv, QuietStep
  PROVE  CopiesInv'
<1>a. SlavesInv /\ RunsRecorded /\ SendsRecord /\ SlavesKnown /\ JobsKept /\ OneRequest
  BY KeepsJobs DEF FarmInv, CopiesInv, SlavesInv, JobsKept
<1>b. \A h \in Handlers : conn[h] \in Conn /\ ConnKnows(conn[h])
  BY DEF TypeOK
<1>1. RunsRecorded'
  <2>1. ASSUME NEW h \in Handlers, HandlerGoesOn(h) PROVE RunsRecorded'
    BY <1>a, <2>1, RunsHandler
  <2>2. ASSUME NEW c \in Comps, SlaveGoesOn(c) PROVE RunsRecorded'
    <3> SUFFICES ASSUME NEW d \in Comps, NEW t \in Tasks, slave'[d].run[t] PROVE RunRecorded(d, t)'
      BY DEF RunsRecorded
    <3>1. slave[d].run[t] /\ slave'[d].task[t] = slave[d].task[t] /\ slave[d].up
      BY <1>a, <2>2, SlaveSteps DEF SameTasks, SlavesKnown
    <3>2. ucs[d].sent => ucs[d].task[t] = slave[d].task[t]
      BY <1>a, <3>1 DEF RunsRecorded, RunRecorded
    <3>3. comp'[d].task[t] = comp[d].task[t] \/ comp'[d].task[t] = slave[d].task[t]
      BY <1>a, <2>2, <3>1, <3>2, SlaveSteps
    <3>4. ucs'[d].sent => \/ ucs[d].sent /\ ucs'[d].task[t] = ucs[d].task[t]
                          \/ ucs'[d].task[t] = slave[d].task[t]
      BY <1>a, <2>2, SlaveSteps
    <3> QED
      BY <1>a, <3>1, <3>3, <3>4, RunKept
  <2>3. ASSUME NEW c \in Comps, NEW t \in Tasks, TaskExits(c, t) \/ TaskCrashes(c, t) PROVE RunsRecorded'
    <3> SUFFICES ASSUME NEW d \in Comps, NEW u \in Tasks, slave'[d].run[u] PROVE RunRecorded(d, u)'
      BY DEF RunsRecorded
    <3>1. slave[d].run[u] /\ slave'[d].task[u] = slave[d].task[u] /\ UNCHANGED <<comp, ucs>>
      BY <2>3, TaskIsOver
    <3> QED
      BY <1>a, <3>1, RunKept
  <2>4. CASE UNCHANGED <<slave, comp, ucs>>
    BY <1>a, <2>4, RunsSame DEF SameTasks
  <2>5. ASSUME NEW j \in Jobs, StopJob(j) \/ ContinueJob(j) PROVE RunsRecorded'
    BY <2>4, <2>5, StopStep
  <2> QED
    BY <2>1, <2>2, <2>3, <2>4, <2>5 DEF QuietStep, RegisterReserve, RegisterDone, TaskFinished, ReportLost,
       Check, CheckJob, CheckFrame, CheckDone
<1>2. SendsRecord'
  <2>a. ASSUME NEW g \in Handlers, conn[g].pc \in Giving, conn'[g].j = conn[g].j, conn'[g].f = conn[g].f,
               conn'[g].pc = "send" =>
                 /\ conn[g].pc = "send" /\ conn'[g].c = conn[g].c /\ conn'[g].t = conn[g].t
                 /\ comp'[conn[g].c].task[conn[g].t] = comp[conn[g].c].task[conn[g].t]
        PROVE  SendRecorded(g)'
    <3>1. conn[g].j \in Jobs
      BY <1>b, <2>a DEF ConnKnows, Giving
    <3>2. Attached(job[conn[g].j])
      BY <1>a, <2>a DEF SendsRecord, SendRecorded
    <3>3. Attached(job'[conn[g].j]) /\ JobName(job'[conn[g].j]) = JobName(job[conn[g].j])
      BY <1>a, <3>1, <3>2 DEF JobsKept, JobName
    <3>4. conn[g].pc = "send" => comp[conn[g].c].task[conn[g].t] = TaskAssigned(conn[g].j, job[conn[g].j], conn[g].f)
      BY <1>a, <2>a DEF SendsRecord, SendRecorded
    <3> QED
      BY <2>a, <3>3, <3>4 DEF SendRecorded, TaskAssigned
  <2>b. ASSUME NEW g \in Handlers, conn'[g] = conn[g], conn[g].pc \in Giving,
               conn[g].pc = "send" => comp'[conn[g].c].task[conn[g].t] = comp[conn[g].c].task[conn[g].t]
        PROVE  SendRecorded(g)'
    BY <2>a, <2>b
  <2>1. ASSUME NEW h \in Handlers, HandlerGoesOn(h), NEW g \in Handlers, conn'[g].pc \in Giving PROVE SendRecorded(g)'
    <3>1. CASE g # h
      <4>1. conn'[g] = conn[g]
        BY <1>a, <2>1, <3>1, ReserveStep, SkipStep, ConfirmStep, AssignRecords, SendStep, HandlerEnds DEF HandlerGoesOn
      <4>2. conn[g].pc = "send" => comp'[conn[g].c].task[conn[g].t] = comp[conn[g].c].task[conn[g].t]
        <5>1. CASE Assign(h)
          <6>1. conn[g].pc = "send" => conn[g].c \in Comps /\ conn[g].c # conn[h].c
            BY <1>a, <1>b, <3>1, <5>1 DEF OneRequest, ConnKnows, Assign
          <6> QED
            BY <1>a, <5>1, <6>1, AssignRecords
        <5>2. CASE ~ Assign(h)
          BY <2>1, <5>2 DEF HandlerGoesOn, Reserve, SkipJob, NoAvailableJob, Confirm, SendTask, HandlerDies
        <5> QED
          BY <5>1, <5>2
      <4> QED
        BY <2>1, <2>b, <4>1, <4>2
    <3>2. CASE g = h
      <4>1. ASSUME NEW j \in Jobs, Reserve(h, j) PROVE SendRecorded(g)'
        <5>1. conn'[h].pc = "offered" /\ conn'[h].j = j /\ Attached(job[j])
          BY <4>1, ReserveStep DEF OneFrameStep
        <5>2. Attached(job'[j])
          BY <1>a, <5>1 DEF JobsKept
        <5> QED
          BY <3>2, <5>1, <5>2 DEF SendRecorded
      <4>2. ASSUME NEW j \in Jobs, SkipJob(h, j) PROVE SendRecorded(g)'
        BY <2>1, <3>2, <4>2, SkipStep DEF Giving
      <4>3. CASE NoAvailableJob(h) \/ HandlerDies(h) \/ SendTask(h)
        BY <1>a, <2>1, <3>2, <4>3, HandlerEnds, SendStep DEF Giving, NoConn
      <4>4. ASSUME NEW u \in Tasks, Confirm(h, u) PROVE SendRecorded(g)'
        BY <2>a, <3>2, <4>4, ConfirmStep DEF Giving
      <4>5. CASE Assign(h)
        <5> DEFINE j == conn[h].j
        <5>1. /\ conn'[h].pc = "send" /\ conn'[h].j = j /\ conn'[h].f = conn[h].f /\ conn[h].pc = "confirmed"
              /\ conn'[h].c = conn[h].c /\ conn'[h].t = conn[h].t
              /\ comp'[conn[h].c].task[conn[h].t] = TaskAssigned(j, job[j], conn[h].f)
          BY <1>a, <4>5, AssignRecords
        <5>2. j \in Jobs /\ Attached(job[j])
          BY <1>a, <1>b, <5>1 DEF ConnKnows, Giving, SendsRecord, SendRecorded
        <5>3. Attached(job'[j]) /\ JobName(job'[j]) = JobName(job[j])
          BY <1>a, <5>2 DEF JobsKept, JobName
        <5> QED
          BY <3>2, <5>1, <5>3 DEF SendRecorded, TaskAssigned
      <4> QED
        BY <2>1, <4>1, <4>2, <4>3, <4>4, <4>5 DEF HandlerGoesOn
    <3> QED
      BY <3>1, <3>2
  <2>2. ASSUME NEW c \in Comps, SlaveGoesOn(c), NEW g \in Handlers, conn'[g].pc \in Giving PROVE SendRecorded(g)'
    <3>1. conn'[g] = conn[g]
      BY <1>a, <2>2, SlaveSteps DEF Giving
    <3>2. conn[g].pc = "send" => conn[g].c \in Comps /\ slave[conn[g].c].up /\ ~ ucs[conn[g].c].sent
      BY <1>a, <1>b DEF OneRequest, ConnKnows
    <3>3. conn[g].pc = "send" => comp'[conn[g].c].task = comp[conn[g].c].task
      BY <1>a, <2>2, <3>2, SlaveSteps
    <3> QED
      BY <2>2, <2>b, <3>1, <3>3
  <2>3. ASSUME NEW c \in Comps, NEW t \in Tasks, TaskExits(c, t) \/ TaskCrashes(c, t) PROVE UNCHANGED <<conn, comp>>
    BY <2>3, TaskIsOver
  <2>4. ASSUME UNCHANGED <<conn, comp>> PROVE SendsRecord'
    <3> SUFFICES ASSUME NEW g \in Handlers, conn'[g].pc \in Giving PROVE SendRecorded(g)'
      BY DEF SendsRecord
    <3> QED
      BY <2>4, <2>b
  <2>5. ASSUME NEW j \in Jobs, StopJob(j) \/ ContinueJob(j) PROVE UNCHANGED <<conn, comp>>
    BY <2>5, StopStep
  <2>6. (\E h \in Handlers : HandlerGoesOn(h)) \/ (\E c \in Comps : SlaveGoesOn(c)) => SendsRecord'
    BY <2>1, <2>2 DEF SendsRecord
  <2> QED
    BY <2>3, <2>4, <2>5, <2>6 DEF QuietStep, RegisterReserve, RegisterDone, TaskFinished, ReportLost,
       Check, CheckJob, CheckFrame, CheckDone
<1> QED
  BY <1>1, <1>2 DEF CopiesInv

----------------------------------------------------------------------------
(* The holders of a frame.  Most steps take no new one.                    *)
NoNewHolder ==
  /\ \A h \in Handlers : conn'[h].pc \in Giving =>
       /\ conn[h].pc \in Giving /\ conn'[h].j = conn[h].j /\ conn'[h].f = conn[h].f
       /\ conn[h].pc = "send" => conn'[h].pc = "send" /\ conn'[h].c = conn[h].c /\ conn'[h].t = conn[h].t
  /\ \A c \in Comps, t \in Tasks :
       slave'[c].run[t] => slave[c].run[t] /\ slave'[c].task[t] = slave[c].task[t]
CompsStay == \A c \in Comps : comp[c].used => comp'[c].used
NoNewRecord ==
  \A j \in Jobs, f \in Frames :
    \/ job'[j].fi[f] = job[j].fi[f]
    \/ job[j].fi[f].status = "WAITING" /\ job'[j].fi[f].status = "WAITING"
    \/ job'[j].fi[f].status \notin {"ASSIGNED", "WAITING"}

LEMMA FewerHolders ==
  ASSUME NoNewHolder
  PROVE  \A j \in Jobs, f \in Frames :
           /\ \A h \in Handlers : Gives(h, j, f)' => Gives(h, j, f)
           /\ \A c \in Comps, t \in Tasks : RunsFrame(c, t, j, f)' => RunsFrame(c, t, j, f)
BY DEF NoNewHolder, Gives, RunsFrame

LEMMA OneHolderKept ==
  ASSUME OneHolder, NoNewHolder
  PROVE  OneHolder'
BY FewerHolders DEF OneHolder

LEMMA PlaceKept ==
  ASSUME NoNewHolder, CompsStay, NEW fr, NEW j \in Jobs, NEW f \in Frames, InPlace(fr, j, f)
  PROVE  InPlace(fr, j, f)'
<1>1. SUFFICES ASSUME fr.status = "ASSIGNED"
      PROVE  /\ fr.icomp \in Comps /\ comp'[fr.icomp].used
             /\ fr.itask # NoTask =>
                  /\ \A h \in Handlers : Gives(h, j, f)' =>
                       conn'[h].pc = "send" /\ conn'[h].c = fr.icomp /\ conn'[h].t = fr.itask
                  /\ \A c \in Comps, t \in Tasks : RunsFrame(c, t, j, f)' => c = fr.icomp /\ t = fr.itask
  BY DEF InPlace
<1>2. /\ fr.icomp \in Comps /\ comp[fr.icomp].used
      /\ fr.itask # NoTask =>
           /\ \A h \in Handlers : Gives(h, j, f) =>
                conn[h].pc = "send" /\ conn[h].c = fr.icomp /\ conn[h].t = fr.itask
           /\ \A c \in Comps, t \in Tasks : RunsFrame(c, t, j, f) => c = fr.icomp /\ t = fr.itask
  BY <1>1 DEF InPlace
<1>3. \A h \in Handlers : Gives(h, j, f)' /\ conn[h].pc = "send" =>
        conn'[h].pc = "send" /\ conn'[h].c = conn[h].c /\ conn'[h].t = conn[h].t
  BY DEF NoNewHolder, Gives
<1> QED
  BY <1>1, <1>2, <1>3, FewerHolders DEF CompsStay

LEMMA HoldersQuiet ==
  ASSUME TypeOK, HoldersInv, NoNewHolder, CompsStay, NoNewRecord, chk' = chk \/ chk'.pc = "idle"
  PROVE  HoldersInv'
<1>1. OneHolder'
  BY OneHolderKept DEF HoldersInv
<1>2. HeldNotWaiting'
  BY FewerHolders DEF HoldersInv, HeldNotWaiting, NoNewRecord
<1>3. RecordsInPlace'
  <2> SUFFICES ASSUME NEW j \in Jobs, NEW f \in Frames, job'[j].fi[f].status = "ASSIGNED"
               PROVE  InPlace(job[j].fi[f], j, f)'
    BY DEF RecordsInPlace, InPlace
  <2> DEFINE fr == job[j].fi[f]
  <2>1. job'[j].fi[f] = fr
    BY DEF NoNewRecord
  <2>2. InPlace(fr, j, f)
    BY DEF HoldersInv, RecordsInPlace
  <2> HIDE DEF fr
  <2>3. \A x : InPlace(x, j, f) => InPlace(x, j, f)'
    BY PlaceKept
  <2> QED
    BY <2>1, <2>2, <2>3 DEF InPlace
<1>4. CopyInPlace'
  <2> SUFFICES ASSUME chk' = chk, chk.pc = "frames", NEW f \in Frames, f >= chk.i
               PROVE  /\ InPlace(chk.snap[f], chk.j, f)'
                      /\ chk.snap[f].status = "ASSIGNED" => job'[chk.j].fi[f].status # "WAITING"
    BY DEF CopyInPlace
  <2> DEFINE fr == chk.snap[f]
             j == chk.j
  <2>1. j \in Jobs
    BY DEF TypeOK, ChkRecord
  <2>2. InPlace(fr, j, f) /\ (fr.status = "ASSIGNED" => job[j].fi[f].status # "WAITING")
    BY DEF HoldersInv, CopyInPlace
  <2>3. fr.status = "ASSIGNED" => job'[j].fi[f].status # "WAITING"
    BY <2>1, <2>2 DEF NoNewRecord
  <2>4. chk'.snap[f] = fr /\ chk'.j = j
    OBVIOUS
  <2> HIDE DEF fr, j
  <2>5. \A x : \A k \in Jobs : InPlace(x, k, f) => InPlace(x, k, f)'
    BY PlaceKept
  <2>6. InPlace(fr, j, f)'
    BY <2>1, <2>2, <2>4, <2>5 DEF InPlace, fr, j
  <2> QED
    BY <2>3, <2>6 DEF fr, j
<1> QED
  BY <1>1, <1>2, <1>3, <1>4 DEF HoldersInv

LEMMA RecordsPlaced ==
  ASSUME RecordsInPlace,
         \A j \in Jobs, f \in Frames : \A x :
           x = job'[j].fi[f] /\ (x = job[j].fi[f] => InPlace(x, j, f)) => InPlace(x, j, f)'
  PROVE  RecordsInPlace'
<1> SUFFICES ASSUME NEW j \in Jobs, NEW f \in Frames PROVE InPlace(job[j].fi[f], j, f)'
  BY DEF RecordsInPlace
<1>1. PICK x : x = job'[j].fi[f]
  OBVIOUS
<1>2. x = job[j].fi[f] => InPlace(x, j, f)
  BY DEF RecordsInPlace
<1>3. InPlace(x, j, f)'
  BY <1>1, <1>2
<1> QED
  BY <1>1, <1>3 DEF InPlace

LEMMA CopyPlaced ==
  ASSUME TypeOK, CopyInPlace, chk' = chk,
         \A j \in Jobs, f \in Frames : \A x :
           InPlace(x, j, f) /\ (x.status = "ASSIGNED" => job[j].fi[f].status # "WAITING")
             => InPlace(x, j, f)' /\ (x.status = "ASSIGNED" => job'[j].fi[f].status # "WAITING")
  PROVE  CopyInPlace'
<1> SUFFICES ASSUME chk.pc = "frames", NEW f \in Frames, f >= chk.i
             PROVE  /\ InPlace(chk.snap[f], chk.j, f)'
                    /\ chk.snap[f].status = "ASSIGNED" => job'[chk.j].fi[f].status # "WAITING"
  BY DEF CopyInPlace
<1>1. PICK x, j : x = chk.snap[f] /\ j = chk.j
  OBVIOUS
<1>2. j \in Jobs
  BY <1>1 DEF TypeOK, ChkRecord
<1>3. InPlace(x, j, f) /\ (x.status = "ASSIGNED" => job[j].fi[f].status # "WAITING")
  BY <1>1 DEF CopyInPlace
<1>4. InPlace(x, j, f)' /\ (x.status = "ASSIGNED" => job'[j].fi[f].status # "WAITING")
  BY <1>2, <1>3
<1>5. InPlace(chk.snap[f], chk.j, f)'
  <2>1. chk'.snap[f] = x /\ chk'.j = j
    BY <1>1
  <2> QED
    BY <1>4, <2>1 DEF InPlace
<1> QED
  BY <1>1, <1>4, <1>5

(* The frame that a handler gives out was waiting: it has no other holder, *)
(* and no copy has it for assigned.                                        *)
LEMMA HoldersReserve ==
  ASSUME TypeOK, SlavesInv, HoldersInv, NEW h \in Handlers, NEW j \in Jobs, Reserve(h, j)
  PROVE  HoldersInv'
<1>1. PICK f \in Frames :
           /\ job[j].fi[f].status = "WAITING"
           /\ OneFrameStep(j, f, AssignTo(job[j].fi[f], conn[h].c, NoTask))
           /\ conn[h].pc = "scan" /\ conn'[h].pc = "offered" /\ conn'[h].j = j /\ conn'[h].f = f
           /\ \A g \in Handlers : g # h => conn'[g] = conn[g]
  BY ReserveStep
<1>2. UNCHANGED <<slave, comp, chk>>
  BY DEF Reserve
<1>3. /\ job'[j].fi[f].status = "ASSIGNED" /\ job'[j].fi[f].icomp = conn[h].c
      /\ job'[j].fi[f].itask = NoTask
  <2>1. job[j].fi[f] \in FrameInfo
    BY DEF TypeOK, JobRecord
  <2> QED
    BY <1>1, <2>1, FrameSteps DEF OneFrameStep, OneFrame
<1>4. \A k \in Jobs, e \in Frames : k # j \/ e # f => job'[k].fi[e] = job[k].fi[e]
  BY <1>1 DEF OneFrameStep, OneFrame
<1>5. conn[h].c \in Comps /\ comp[conn[h].c].used
  BY <1>1 DEF TypeOK, ConnKnows, SlavesInv, OneRequest, SlavesKnown
<1>6. \A k \in Jobs, e \in Frames :
        /\ \A g \in Handlers : Gives(g, k, e)' => Gives(g, k, e) \/ (g = h /\ k = j /\ e = f)
        /\ \A c \in Comps, t \in Tasks : RunsFrame(c, t, k, e)' <=> RunsFrame(c, t, k, e)
  BY <1>1, <1>2 DEF Gives, RunsFrame
<1>7. (\A g \in Handlers : ~ Gives(g, j, f)) /\ \A c \in Comps, t \in Tasks : ~ RunsFrame(c, t, j, f)
  BY <1>1 DEF HoldersInv, HeldNotWaiting
<1>8. OneHolder'
  <2> SUFFICES ASSUME NEW k \in Jobs, NEW e \in Frames
               PROVE  /\ \A g, i \in Handlers : Gives(g, k, e)' /\ Gives(i, k, e)' => g = i
                      /\ \A g \in Handlers, d \in Comps, u \in Tasks : Gives(g, k, e)' => ~ RunsFrame(d, u, k, e)'
                      /\ \A d, m \in Comps, u, v \in Tasks :
                           RunsFrame(d, u, k, e)' /\ RunsFrame(m, v, k, e)' => d = m /\ u = v
    BY DEF OneHolder
  <2>1. CASE k = j /\ e = f
    BY <1>6, <1>7, <2>1
  <2>2. CASE k # j \/ e # f
    BY <1>6, <2>2 DEF HoldersInv, OneHolder
  <2> QED
    BY <2>1, <2>2
<1>9. HeldNotWaiting'
  <2> SUFFICES ASSUME NEW k \in Jobs, NEW e \in Frames, job'[k].fi[e].status = "WAITING"
               PROVE  /\ \A g \in Handlers : ~ Gives(g, k, e)'
                      /\ \A c \in Comps, t \in Tasks : ~ RunsFrame(c, t, k, e)'
    BY DEF HeldNotWaiting
  <2>1. k # j \/ e # f
    BY <1>3
  <2> QED
    BY <1>4, <1>6, <2>1 DEF HoldersInv, HeldNotWaiting
<1>10. \A k \in Jobs, e \in Frames : \A x : (k # j \/ e # f) /\ InPlace(x, k, e) => InPlace(x, k, e)'
  <2> SUFFICES ASSUME NEW k \in Jobs, NEW e \in Frames, NEW x, k # j \/ e # f, InPlace(x, k, e)
               PROVE  InPlace(x, k, e)'
    OBVIOUS
  <2>1. \A g \in Handlers : Gives(g, k, e)' => Gives(g, k, e) /\ conn'[g] = conn[g]
    BY <1>1 DEF Gives
  <2> QED
    BY <1>2, <1>6, <2>1 DEF InPlace
<1>11. RecordsInPlace'
  <2>1. ASSUME NEW k \in Jobs, NEW e \in Frames, NEW x, x = job'[k].fi[e], x = job[k].fi[e] => InPlace(x, k, e)
        PROVE  InPlace(x, k, e)'
    <3>1. CASE k = j /\ e = f
      BY <1>2, <1>3, <1>5, <2>1, <3>1 DEF InPlace
    <3>2. CASE k # j \/ e # f
      BY <1>4, <1>10, <2>1, <3>2
    <3> QED
      BY <3>1, <3>2
  <2> QED
    BY <2>1, RecordsPlaced DEF HoldersInv
<1>12. CopyInPlace'
  <2>1. ASSUME NEW k \in Jobs, NEW e \in Frames, NEW x, InPlace(x, k, e),
               x.status = "ASSIGNED" => job[k].fi[e].status # "WAITING"
        PROVE  InPlace(x, k, e)' /\ (x.status = "ASSIGNED" => job'[k].fi[e].status # "WAITING")
    <3>1. CASE k = j /\ e = f
      BY <1>1, <2>1, <3>1 DEF InPlace
    <3>2. CASE k # j \/ e # f
      BY <1>4, <1>10, <2>1, <3>2
    <3> QED
      BY <3>1, <3>2
  <2> QED
    BY <1>2, <2>1, CopyPlaced DEF HoldersInv
<1> QED
  BY <1>8, <1>9, <1>11, <1>12 DEF HoldersInv

(* Its record is filled with the slot that will run it.                    *)
LEMMA HoldersAssign ==
  ASSUME TypeOK, SlavesInv, SendsRecord, HoldersInv, NEW h \in Handlers, Assign(h)
  PROVE  HoldersInv'
<1>0. PICK j, f, c, t : conn[h].j = j /\ conn[h].f = f /\ conn[h].c = c /\ conn[h].t = t
  OBVIOUS
<1>1. /\ c \in Comps /\ t \in Tasks /\ comp[c].used
      /\ conn[h].pc = "confirmed" /\ conn'[h].pc = "send"
      /\ conn'[h].c = c /\ conn'[h].t = t /\ conn'[h].j = j /\ conn'[h].f = f
      /\ \A g \in Handlers : g # h => conn'[g] = conn[g]
      /\ \A d \in Comps : comp'[d].used = comp[d].used
      /\ UNCHANGED <<slave, chk>>
  BY <1>0, AssignRecords
<1>2. j \in Jobs /\ f \in Frames /\ OneFrameStep(j, f, AssignTo(job[j].fi[f], c, t))
  BY <1>0, AssignStep
<1>3. job'[j].fi[f].status = "ASSIGNED" /\ job'[j].fi[f].icomp = c /\ job'[j].fi[f].itask = t
  <2>1. job[j].fi[f] \in FrameInfo
    BY <1>2 DEF TypeOK, JobRecord
  <2> QED
    BY <1>2, <2>1, FrameSteps DEF OneFrameStep, OneFrame
<1>4. \A k \in Jobs, e \in Frames : k # j \/ e # f => job'[k].fi[e] = job[k].fi[e]
  BY <1>2 DEF OneFrameStep, OneFrame
<1>5. NoNewHolder /\ CompsStay
  BY <1>0, <1>1 DEF NoNewHolder, CompsStay, Giving
<1>6. OneHolder'
  BY <1>5, OneHolderKept DEF HoldersInv
<1>7. HeldNotWaiting'
  <2> SUFFICES ASSUME NEW k \in Jobs, NEW e \in Frames, job'[k].fi[e].status = "WAITING"
               PROVE  /\ \A g \in Handlers : ~ Gives(g, k, e)'
                      /\ \A d \in Comps, u \in Tasks : ~ RunsFrame(d, u, k, e)'
    BY DEF HeldNotWaiting
  <2>1. job[k].fi[e].status = "WAITING"
    BY <1>3, <1>4
  <2> QED
    BY <1>5, <2>1, FewerHolders DEF HoldersInv, HeldNotWaiting
<1>8. /\ \A g \in Handlers : Gives(g, j, f)' => g = h
      /\ \A d \in Comps, u \in Tasks : ~ RunsFrame(d, u, j, f)'
  <2>1. Gives(h, j, f)
    BY <1>0, <1>1 DEF Gives, Giving
  <2> QED
    BY <1>1, <1>2, <1>5, <2>1, FewerHolders DEF HoldersInv, OneHolder
<1>9. RecordsInPlace'
  <2>1. ASSUME NEW k \in Jobs, NEW e \in Frames, NEW x, x = job'[k].fi[e], x = job[k].fi[e] => InPlace(x, k, e)
        PROVE  InPlace(x, k, e)'
    <3>1. CASE k = j /\ e = f
      BY <1>1, <1>3, <1>8, <2>1, <3>1 DEF InPlace
    <3>2. CASE k # j \/ e # f
      BY <1>4, <1>5, <2>1, <3>2, PlaceKept
    <3> QED
      BY <3>1, <3>2
  <2> QED
    BY <2>1, RecordsPlaced DEF HoldersInv
<1>10. CopyInPlace'
  <2>1. ASSUME NEW k \in Jobs, NEW e \in Frames, NEW x, InPlace(x, k, e),
               x.status = "ASSIGNED" => job[k].fi[e].status # "WAITING"
        PROVE  InPlace(x, k, e)' /\ (x.status = "ASSIGNED" => job'[k].fi[e].status # "WAITING")
    BY <1>3, <1>4, <1>5, <2>1, PlaceKept
  <2> QED
    BY <1>1, <2>1, CopyPlaced DEF HoldersInv
<1> QED
  BY <1>6, <1>7, <1>9, <1>10 DEF HoldersInv

(* The handler hands it over to the slot its record names.                 *)
LEMMA HoldersSend ==
  ASSUME TypeOK, SlavesInv, SendsRecord, HoldersInv, NEW h \in Handlers, SendTask(h)
  PROVE  HoldersInv'
<1>0. PICK j, f, c, t : conn[h].j = j /\ conn[h].f = f /\ conn[h].c = c /\ conn[h].t = t
  OBVIOUS
<1>1. /\ c \in Comps /\ t \in Tasks /\ j \in Jobs /\ f \in Frames
      /\ conn[h].pc = "send" /\ conn'[h] = NoConn
      /\ \A g \in Handlers : g # h => conn'[g] = conn[g]
      /\ ~ slave[c].run[t]
      /\ slave'[c].task[t] = TaskAssigned(j, job[j], f)
      /\ \A d \in Comps, u \in Tasks : d # c \/ u # t =>
           slave'[d].run[u] = slave[d].run[u] /\ slave'[d].task[u] = slave[d].task[u]
      /\ UNCHANGED <<job, comp, chk>>
  BY <1>0, SendStep
<1>2. TaskAssigned(j, job[j], f).job = j /\ TaskAssigned(j, job[j], f).frame = f
  BY DEF TaskAssigned
<1>3. Gives(h, j, f)
  BY <1>0, <1>1 DEF Gives, Giving
<1>4. \A k \in Jobs, e \in Frames, g \in Handlers : Gives(g, k, e)' => Gives(g, k, e) /\ g # h /\ conn'[g] = conn[g]
  BY <1>1 DEF Gives, Giving, NoConn
<1>5. \A k \in Jobs, e \in Frames, d \in Comps, u \in Tasks :
        RunsFrame(d, u, k, e)' => RunsFrame(d, u, k, e) \/ (d = c /\ u = t /\ k = j /\ e = f)
  BY <1>1, <1>2 DEF RunsFrame
<1>6. /\ \A g \in Handlers : Gives(g, j, f) => g = h
      /\ \A d \in Comps, u \in Tasks : ~ RunsFrame(d, u, j, f)
  BY <1>1, <1>3 DEF HoldersInv, OneHolder
<1>7. OneHolder'
  <2> SUFFICES ASSUME NEW k \in Jobs, NEW e \in Frames
               PROVE  /\ \A g, i \in Handlers : Gives(g, k, e)' /\ Gives(i, k, e)' => g = i
                      /\ \A g \in Handlers, d \in Comps, u \in Tasks : Gives(g, k, e)' => ~ RunsFrame(d, u, k, e)'
                      /\ \A d, m \in Comps, u, v \in Tasks :
                           RunsFrame(d, u, k, e)' /\ RunsFrame(m, v, k, e)' => d = m /\ u = v
    BY DEF OneHolder
  <2>1. CASE k = j /\ e = f
    <3>1. \A g \in Handlers : ~ Gives(g, k, e)'
      BY <1>4, <1>6, <2>1
    <3>2. \A d \in Comps, u \in Tasks : RunsFrame(d, u, k, e)' => d = c /\ u = t
      BY <1>5, <1>6, <2>1
    <3> QED
      BY <3>1, <3>2
  <2>2. CASE k # j \/ e # f
    BY <1>4, <1>5, <2>2 DEF HoldersInv, OneHolder
  <2> QED
    BY <2>1, <2>2
<1>8. HeldNotWaiting'
  <2> SUFFICES ASSUME NEW k \in Jobs, NEW e \in Frames, job[k].fi[e].status = "WAITING"
               PROVE  /\ \A g \in Handlers : ~ Gives(g, k, e)'
                      /\ \A d \in Comps, u \in Tasks : ~ RunsFrame(d, u, k, e)'
    BY <1>1 DEF HeldNotWaiting
  <2> QED
    BY <1>1, <1>3, <1>4, <1>5 DEF HoldersInv, HeldNotWaiting
<1>9. \A k \in Jobs, e \in Frames : \A x : InPlace(x, k, e) => InPlace(x, k, e)'
  <2> SUFFICES ASSUME NEW k \in Jobs, NEW e \in Frames, NEW x, InPlace(x, k, e) PROVE InPlace(x, k, e)'
    OBVIOUS
  <2>1. x.status = "ASSIGNED" /\ x.itask # NoTask /\ k = j /\ e = f => x.icomp = c /\ x.itask = t
    BY <1>0, <1>1, <1>3 DEF InPlace
  <2> QED
    BY <1>1, <1>4, <1>5, <2>1 DEF InPlace
<1>10. RecordsInPlace'
  BY <1>1, <1>9, RecordsPlaced DEF HoldersInv
<1>11. CopyInPlace'
  BY <1>1, <1>9, CopyPlaced DEF HoldersInv
<1> QED
  BY <1>7, <1>8, <1>10, <1>11 DEF HoldersInv

(* The check copies the records, and has a frame wait that no record, its  *)
(* copy's or a newer one, could hold: its slot runs something else.        *)
LEMMA HoldersCopy ==
  ASSUME TypeOK, HoldersInv, CheckJob
  PROVE  HoldersInv'
<1>1. UNCHANGED <<job, comp, conn, slave>>
  BY DEF CheckJob
<1>2. OneHolder' /\ HeldNotWaiting' /\ RecordsInPlace'
  BY <1>1 DEF HoldersInv, OneHolder, HeldNotWaiting, RecordsInPlace, InPlace, Gives, RunsFrame
<1>3. CopyInPlace'
  <2> SUFFICES ASSUME chk'.pc = "frames", NEW f \in Frames
               PROVE  /\ InPlace(chk.snap[f], chk.j, f)'
                      /\ chk'.snap[f].status = "ASSIGNED" => job'[chk'.j].fi[f].status # "WAITING"
    BY DEF CopyInPlace
  <2>1. PICK j : j = chk.j
    OBVIOUS
  <2>2. j \in Jobs
    BY <2>1 DEF TypeOK, ChkRecord
  <2>3. chk' = [chk EXCEPT !.pc = "frames", !.i = 0, !.snap = job[j].fi]
    BY <2>1 DEF CheckJob, NextCheck, ChkIdle
  <2>4. chk'.j = j /\ chk'.snap = job[j].fi
    BY <2>1, <2>3 DEF TypeOK, ChkRecord
  <2>5. PICK x : x = job[j].fi[f]
    OBVIOUS
  <2>6. InPlace(x, j, f)
    BY <2>2, <2>5 DEF HoldersInv, RecordsInPlace
  <2>7. InPlace(x, j, f)'
    BY <1>1, <2>6 DEF InPlace, Gives, RunsFrame
  <2>8. InPlace(chk.snap[f], chk.j, f)'
    BY <2>4, <2>5, <2>7 DEF InPlace
  <2> QED
    BY <1>1, <2>4, <2>8
<1> QED
  BY <1>2, <1>3 DEF HoldersInv

LEMMA LostNotHeld ==
  ASSUME TypeOK, CopiesInv, CopyInPlace, chk.pc = "frames", NEW j \in Jobs, chk.j = j,
         NEW f \in Frames, chk.i = f, Lost(f)
  PROVE  (\A h \in Handlers : ~ Gives(h, j, f)) /\ \A c \in Comps, t \in Tasks : ~ RunsFrame(c, t, j, f)
<1>1. PICK x : x = chk.snap[f]
  OBVIOUS
<1>2. InPlace(x, j, f) /\ NotRunning(x, j, job[j], comp)
  BY <1>1 DEF CopyInPlace, Lost, Frames
<1>3. /\ x.status = "ASSIGNED" /\ x.icomp \in Comps /\ x.itask # NoTask
      /\ LET tk == comp[x.icomp].task[x.itask]
         IN  ~ tk.used \/ ~ tk.busy \/ tk.job # j \/ tk.name # JobName(job[j])
  BY <1>2 DEF InPlace, NotRunning
<1>4. ASSUME NEW h \in Handlers, Gives(h, j, f) PROVE FALSE
  <2>1. conn[h].pc = "send" /\ conn[h].c = x.icomp /\ conn[h].t = x.itask /\ conn[h].j = j /\ conn[h].f = f
    BY <1>2, <1>3, <1>4 DEF InPlace, Gives
  <2>2. comp[x.icomp].task[x.itask] = TaskAssigned(j, job[j], f)
    BY <2>1 DEF CopiesInv, SendsRecord, SendRecorded, Giving
  <2> QED
    BY <1>3, <2>2 DEF TaskAssigned
<1>5. ASSUME NEW c \in Comps, NEW t \in Tasks, RunsFrame(c, t, j, f) PROVE FALSE
  <2>1. c = x.icomp /\ t = x.itask /\ slave[c].run[t] /\ slave[c].task[t].job = j
    BY <1>2, <1>3, <1>5 DEF InPlace, RunsFrame
  <2>2. RunRecorded(c, t)
    BY <2>1 DEF CopiesInv, RunsRecorded
  <2> QED
    BY <1>3, <2>1, <2>2 DEF RunRecorded, IsTask
<1> QED
  BY <1>4, <1>5

LEMMA HoldersCheck ==
  ASSUME TypeOK, CheckAttached, CopiesInv, HoldersInv, CheckFrame
  PROVE  HoldersInv'
<1>0. PICK j, f : j = chk.j /\ f = chk.i
  OBVIOUS
<1>1. /\ chk.pc = "frames" /\ j \in Jobs /\ f \in Frames
      /\ job' = job \/ (Lost(f) /\ OneFrameStep(j, f, Requeue(job[j].fi[f])))
      /\ chk' = [chk EXCEPT !.i = f + 1] \/ chk'.pc = "idle"
  BY <1>0, CheckFrameStep
<1>2. UNCHANGED <<comp, conn, slave>>
  BY DEF CheckFrame
<1>3. \A k \in Jobs, e \in Frames : job'[k].fi[e] = job[k].fi[e] \/ (k = j /\ e = f /\ Lost(f))
  BY <1>1 DEF OneFrameStep, OneFrame
<1>4. job'[j].fi[f] = job[j].fi[f] \/ job'[j].fi[f].status = "WAITING"
  <2>1. job[j].fi[f] \in FrameInfo
    BY <1>1 DEF TypeOK, JobRecord
  <2> QED
    BY <1>1, <2>1, FrameSteps DEF OneFrameStep, OneFrame
<1>5. NoNewHolder /\ CompsStay
  BY <1>2 DEF NoNewHolder, CompsStay
<1>6. OneHolder'
  BY <1>5, OneHolderKept DEF HoldersInv
<1>7. HeldNotWaiting'
  <2> SUFFICES ASSUME NEW k \in Jobs, NEW e \in Frames, job'[k].fi[e].status = "WAITING"
               PROVE  /\ \A g \in Handlers : ~ Gives(g, k, e)
                      /\ \A d \in Comps, u \in Tasks : ~ RunsFrame(d, u, k, e)
    BY <1>5, FewerHolders DEF HeldNotWaiting
  <2>1. CASE job'[k].fi[e] = job[k].fi[e]
    BY <2>1 DEF HoldersInv, HeldNotWaiting
  <2>2. CASE k = j /\ e = f /\ Lost(f)
    BY <1>0, <1>1, <2>2, LostNotHeld DEF HoldersInv
  <2> QED
    BY <1>3, <2>1, <2>2
<1>8. RecordsInPlace'
  <2>1. ASSUME NEW k \in Jobs, NEW e \in Frames, NEW x, x = job'[k].fi[e], x = job[k].fi[e] => InPlace(x, k, e)
        PROVE  InPlace(x, k, e)'
    <3>1. CASE x = job[k].fi[e]
      BY <1>5, <2>1, <3>1, PlaceKept
    <3>2. CASE x.status = "WAITING"
      BY <3>2 DEF InPlace
    <3> QED
      BY <1>3, <1>4, <2>1, <3>1, <3>2
  <2> QED
    BY <2>1, RecordsPlaced DEF HoldersInv
<1>9. CopyInPlace'
  <2> SUFFICES ASSUME chk'.pc = "frames", NEW e \in Frames, e >= chk'.i
               PROVE  /\ InPlace(chk.snap[e], chk.j, e)'
                      /\ chk'.snap[e].status = "ASSIGNED" => job'[chk'.j].fi[e].status # "WAITING"
    BY DEF CopyInPlace
  <2>1. chk'.i = f + 1 /\ chk'.j = j /\ chk'.snap = chk.snap
    BY <1>0, <1>1 DEF TypeOK, ChkRecord
  <2>2. e >= f /\ e # f
    BY <1>1, <2>1 DEF Frames
  <2>3. PICK x : x = chk.snap[e]
    OBVIOUS
  <2>4. InPlace(x, j, e) /\ (x.status = "ASSIGNED" => job[j].fi[e].status # "WAITING")
    BY <1>0, <1>1, <2>2, <2>3 DEF HoldersInv, CopyInPlace
  <2>5. InPlace(x, j, e)' /\ job'[j].fi[e] = job[j].fi[e]
    BY <1>1, <1>3, <1>5, <2>2, <2>4, PlaceKept
  <2>6. InPlace(chk.snap[e], chk.j, e)'
    BY <2>1, <2>3, <2>5 DEF InPlace
  <2> QED
    BY <2>1, <2>3, <2>4, <2>5, <2>6
<1> QED
  BY <1>6, <1>7, <1>8, <1>9 DEF HoldersInv

LEMMA HoldersStep ==
  ASSUME Quiet, TypeOK, FarmInv, QuietStep
  PROVE  HoldersInv'
<1>a. /\ SlavesInv /\ CopiesInv /\ SendsRecord /\ HoldersInv /\ EmptySlots /\ CheckAttached /\ ReportsEnded
      /\ QueueInv
  BY DEF FarmInv, CopiesInv, QueueInv, EndedInv
<1>b. \A f \in Frames, j \in Jobs : job[j].fi[f] \in FrameInfo
  BY DEF TypeOK, JobRecord
<1>c. SameTasks /\ UNCHANGED <<comp, conn>> => NoNewHolder /\ CompsStay
  BY DEF SameTasks, NoNewHolder, CompsStay
<1>d. UNCHANGED slave => SameTasks
  BY DEF SameTasks
<1>e. UNCHANGED job => NoNewRecord
  BY DEF NoNewRecord
<1>1. ASSUME NEW s \in Subs, RegisterReserve(s) PROVE HoldersInv'
  <2>1. UNCHANGED <<comp, conn, slave, chk>> /\ \E j \in Jobs : job' = [job EXCEPT ![j].used = TRUE]
    BY <1>1 DEF RegisterReserve
  <2>2. NoNewRecord
    BY <2>1 DEF NoNewRecord, TypeOK, JobRecord
  <2> QED
    BY <1>a, <1>c, <1>d, <2>1, <2>2, HoldersQuiet
<1>2. ASSUME NEW s \in Subs, NEW j \in Jobs, RegisterDone(j, s) PROVE HoldersInv'
  <2>1. UNCHANGED <<comp, conn, slave, chk>>
    BY <1>2 DEF RegisterDone
  <2>2. /\ ~ Attached(job[j]) /\ job'[j] = JobRegistered(s)
        /\ \A k \in Jobs : k # j => job'[k] = job[k]
    BY <1>a, <1>2, QueueFill
  <2>3. \A f \in Frames : job[j].fi[f].status = "WAITING" /\ job'[j].fi[f].status = "WAITING"
    BY <1>a, <2>2, JobFilled DEF EmptySlots
  <2>4. NoNewRecord
    BY <2>2, <2>3 DEF NoNewRecord
  <2> QED
    BY <1>a, <1>c, <1>d, <2>1, <2>4, HoldersQuiet
<1>3. ASSUME NEW h \in Handlers, HandlerGoesOn(h) PROVE HoldersInv'
  <2>1. ASSUME NEW j \in Jobs, Reserve(h, j) PROVE HoldersInv'
    BY <1>a, <2>1, HoldersReserve
  <2>2. ASSUME NEW j \in Jobs, SkipJob(h, j) PROVE HoldersInv'
    <3>1. NoNewHolder /\ CompsStay /\ UNCHANGED <<job, chk>>
      BY <2>2, SkipStep DEF NoNewHolder, CompsStay, SameTasks, Giving
    <3> QED
      BY <1>a, <1>e, <3>1, HoldersQuiet
  <2>3. CASE NoAvailableJob(h) \/ HandlerDies(h)
    <3>1. NoNewHolder /\ CompsStay /\ UNCHANGED <<job, chk>>
      BY <1>a, <2>3, HandlerEnds DEF NoNewHolder, CompsStay, SameTasks, Giving, NoConn
    <3> QED
      BY <1>a, <1>e, <3>1, HoldersQuiet
  <2>4. ASSUME NEW u \in Tasks, Confirm(h, u) PROVE HoldersInv'
    <3>1. NoNewHolder /\ CompsStay /\ UNCHANGED <<job, chk>>
      BY <2>4, ConfirmStep DEF NoNewHolder, CompsStay, SameTasks, Giving
    <3> QED
      BY <1>a, <1>e, <3>1, HoldersQuiet
  <2>5. CASE Assign(h)
    BY <1>a, <2>5, HoldersAssign
  <2>6. CASE SendTask(h)
    BY <1>a, <2>6, HoldersSend
  <2> QED
    BY <1>3, <2>1, <2>2, <2>3, <2>4, <2>5, <2>6 DEF HandlerGoesOn
<1>4. ASSUME NEW c \in Comps, SlaveGoesOn(c) PROVE HoldersInv'
  <2>1. NoNewHolder /\ CompsStay /\ UNCHANGED <<job, chk>>
    BY <1>a, <1>4, SlaveSteps DEF NoNewHolder, CompsStay, SameTasks, Giving
  <2> QED
    BY <1>a, <1>e, <2>1, HoldersQuiet
<1>5. ASSUME NEW c \in Comps, NEW t \in Tasks, TaskExits(c, t) \/ TaskCrashes(c, t) PROVE HoldersInv'
  <2>1. UNCHANGED <<comp, conn, job, chk>>
    BY <1>5, TaskIsOver
  <2>2. NoNewHolder /\ CompsStay
    BY <1>5, <2>1, TaskIsOver DEF NoNewHolder, CompsStay
  <2> QED
    BY <1>a, <1>e, <2>1, <2>2, HoldersQuiet
<1>6. ASSUME NEW r \in fin, TaskFinished(r) \/ ReportLost(r) PROVE HoldersInv'
  <2>1. UNCHANGED <<comp, conn, slave, chk>> /\ (ReportLost(r) => job' = job)
    BY <1>6 DEF TaskFinished, ReportLost
  <2>2. NoNewRecord
    <3>1. CASE job' = job
      BY <1>e, <3>1
    <3>2. CASE job' # job
      <4>1. PICK j, f, fr : j \in Jobs /\ f \in Frames /\ OneFrameStep(j, f, fr) /\ Ended(fr.status)
        <5>1. /\ r.job \in Jobs /\ r.frame \in Frames
              /\ OneFrameStep(r.job, r.frame,
                   FinishedFrame(job[r.job].fi[r.frame], r.exit, job[r.job].sub \in AutoRequeue))
          BY <1>a, <1>6, <2>1, <3>2, TaskFinishedStep
        <5>2. ~ job[r.job].fi[r.frame].requeue /\ r.exit \in {"exited", "crashed"}
          BY <1>a, <5>1 DEF QueueInv, NoRequeue, ReportsEnded
        <5> QED
          BY <1>b, <5>1, <5>2, FrameReported
      <4> QED
        BY <4>1 DEF NoNewRecord, OneFrameStep, OneFrame, Ended
    <3> QED
      BY <3>1, <3>2
  <2> QED
    BY <1>a, <1>c, <1>d, <2>1, <2>2, HoldersQuiet
<1>7. ASSUME NEW j \in Jobs, StopJob(j) \/ ContinueJob(j) PROVE HoldersInv'
  <2>1. UNCHANGED <<comp, conn, slave, chk>> /\ CountStep(j)
    BY <1>7, StopStep
  <2>2. NoNewRecord
    BY <2>1 DEF CountStep, SameFrames, NoNewRecord
  <2> QED
    BY <1>a, <1>c, <1>d, <2>1, <2>2, HoldersQuiet
<1>8. CASE Check
  <2>1. CASE CheckDone
    <3>1. UNCHANGED <<comp, conn, slave>>
      BY <2>1 DEF CheckDone
    <3>2. chk'.pc = "idle" /\ CountStep(chk.j)
      BY <1>a, <2>1, CheckDoneStep
    <3>3. NoNewRecord
      BY <3>2 DEF CountStep, SameFrames, NoNewRecord
    <3> QED
      BY <1>a, <1>c, <1>d, <3>1, <3>2, <3>3, HoldersQuiet
  <2> QED
    BY <1>a, <1>8, <2>1, HoldersCopy, HoldersCheck DEF Check
<1> QED
  BY <1>1, <1>2, <1>3, <1>4, <1>5, <1>6, <1>7, <1>8 DEF QuietStep

----------------------------------------------------------------------------
(* What has ended: what a step settles had ended before.                   *)
TaskOver == \E c \in Comps, t \in Tasks : TaskExits(c, t) \/ TaskCrashes(c, t)

LEMMA EndedNow ==
  ASSUME TypeOK, HNext
  PROVE  /\ ended \subseteq ended'
         /\ ~ TaskOver => ended' = ended
         /\ \A c \in Comps, t \in Tasks : TaskExits(c, t) \/ TaskCrashes(c, t) =>
              ended' = ended \cup {<<slave[c].task[t].name, slave[c].task[t].frame>>}
<1> DEFINE W == {v \in Workers : TaskExits(v[1], v[2]) \/ TaskCrashes(v[1], v[2])}
<1>1. ended' = ended \cup {<<slave[w[1]].task[w[2]].name, slave[w[1]].task[w[2]].frame>> : w \in W}
  BY DEF HNext
<1>2. ~ TaskOver => W = {}
  BY DEF TaskOver, Workers
<1>3. ASSUME NEW c \in Comps, NEW t \in Tasks, TaskExits(c, t) \/ TaskCrashes(c, t)
      PROVE  W = {<<c, t>>}
  <2>1. \A d \in Comps, u \in Tasks : TaskExits(d, u) \/ TaskCrashes(d, u) => slave[d].run[u] /\ ~ slave'[d].run[u]
    BY TaskIsOver
  <2>2. \A d \in Comps, u \in Tasks : d # c \/ u # t => slave'[d].run[u] = slave[d].run[u]
    BY <1>3, TaskIsOver
  <2>3. \A v \in W : v = <<c, t>>
    BY <2>1, <2>2 DEF Workers
  <2>4. <<c, t>> \in W
    BY <1>3 DEF Workers
  <2> QED
    BY <2>3, <2>4
<1> DEFINE P(w) == <<slave[w[1]].task[w[2]].name, slave[w[1]].task[w[2]].frame>>
<1>4. ended' = ended \cup {P(w) : w \in W}
  BY <1>1
<1>5. \A c \in Comps, t \in Tasks : P(<<c, t>>) = <<slave[c].task[t].name, slave[c].task[t].frame>>
  OBVIOUS
<1> HIDE DEF W, P
<1>6. ASSUME NEW c \in Comps, NEW t \in Tasks, TaskExits(c, t) \/ TaskCrashes(c, t)
      PROVE  ended' = ended \cup {<<slave[c].task[t].name, slave[c].task[t].frame>>}
  <2>1. {P(w) : w \in W} = {P(<<c, t>>)}
    BY <1>3, <1>6
  <2> QED
    BY <1>4, <1>5, <2>1
<1>7. ~ TaskOver => ended' = ended
  BY <1>2, <1>4
<1>8. ended \subseteq ended'
  BY <1>4
<1> QED
  BY <1>6, <1>7, <1>8

LEMMA NamesOfJobs ==
  ASSUME TypeOK, NEW j \in Jobs, Attached(job[j])
  PROVE  JobName(job[j]) \in Names /\ (Depends(j) => Before(j) \in Jobs) /\ JobFrames(j) \subseteq Works
<1>1. job[j].sub \in Subs
  BY DEF TypeOK, JobRecord, Attached
<1>2. JobName(job[j]) \in Names
  BY <1>1, NullsAssumption, SubsAssumption DEF JobName
<1> QED
  BY <1>1, <1>2, SubsAssumption DEF Depends, Before, JobFrames, Works

LEMMA ReportsStep ==
  ASSUME TypeOK, FarmInv, QuietStep, HNext
  PROVE  ReportsEnded'
<1>a. SlavesInv /\ RunsRecorded /\ ReportsEnded /\ ended \subseteq ended'
  BY EndedNow DEF FarmInv, CopiesInv, EndedInv
<1>1. ASSUME NEW c \in Comps, NEW t \in Tasks, TaskExits(c, t) \/ TaskCrashes(c, t) PROVE ReportsEnded'
  <2>1. PICK exit \in {"exited", "crashed"} : fin' = fin \cup {Report(c, t, exit)}
    BY <1>1, TaskIsOver
  <2> DEFINE r == Report(c, t, exit)
  <2>2. r.name = slave[c].task[t].name /\ r.frame = slave[c].task[t].frame /\ r.exit = exit
    BY DEF Report
  <2>3. <<slave[c].task[t].name, slave[c].task[t].frame>> \in ended'
    BY <1>1, EndedNow
  <2>4. slave[c].task[t].name # NoName
    <3>1. RunRecorded(c, t)
      BY <1>a, <1>1, TaskIsOver DEF RunsRecorded
    <3>2. PICK k \in Jobs : Attached(job[k]) /\ slave[c].task[t].name = JobName(job[k])
      BY <3>1 DEF RunRecorded, IsTask
    <3>3. JobName(job[k]) \in Names
      BY <3>2, NamesOfJobs
    <3> QED
      BY <3>2, <3>3, NullsAssumption
  <2> HIDE DEF r
  <2> QED
    BY <1>a, <2>1, <2>2, <2>3, <2>4 DEF ReportsEnded, r
<1>2. CASE fin' \subseteq fin
  BY <1>a, <1>2 DEF ReportsEnded
<1>3. ASSUME NEW h \in Handlers, HandlerGoesOn(h) PROVE fin' = fin
  BY <1>3 DEF HandlerGoesOn, Reserve, SkipJob, NoAvailableJob, Confirm, Assign, SendTask, HandlerDies
<1>4. ASSUME NEW c \in Comps, SlaveGoesOn(c) PROVE fin' = fin
  BY <1>a, <1>4, SlaveSteps
<1>5. ASSUME NEW j \in Jobs, StopJob(j) \/ ContinueJob(j) PROVE fin' = fin
  BY <1>5, StopStep
<1>6. ASSUME NEW r \in fin, TaskFinished(r) \/ ReportLost(r) PROVE fin' \subseteq fin
  BY <1>6 DEF TaskFinished, ReportLost
<1> QED
  BY <1>1, <1>2, <1>3, <1>4, <1>5, <1>6 DEF QuietStep, RegisterReserve, RegisterDone,
     Check, CheckJob, CheckFrame, CheckDone

LEMMA FinishedFrames ==
  ASSUME RecordsEnded, CopyEnded, FinishedEnded, chk.pc = "frames", NEW j, j = chk.j,
         \A f \in Frames : Ended(chk.snap[f].status)
  PROVE  JobFrames(j) \subseteq ended
BY DEF CopyEnded, JobFrames

(* A record is settled because its job's was, or because a task ended.     *)
SettledJob(j) ==
  /\ \A f \in Frames : Ended(job'[j].fi[f].status) =>
       Attached(job[j]) /\ (Ended(job[j].fi[f].status) \/ <<JobName(job[j]), f>> \in ended)
  /\ job'[j].status = "FINISHED" =>
       Attached(job[j]) /\ (job[j].status = "FINISHED" \/ JobFrames(j) \subseteq ended)
Settled == \A j \in Jobs : SettledJob(j)

LEMMA SettledFrame ==
  ASSUME EmptySlots, NEW j \in Jobs, NEW f \in Frames, NEW fr, OneFrameStep(j, f, fr),
         Ended(fr.status) => <<JobName(job[j]), f>> \in ended
  PROVE  Settled
<1> SUFFICES ASSUME NEW k \in Jobs PROVE SettledJob(k)
  BY DEF Settled
<1>1. ~ Attached(job[k]) => job[k].status # "FINISHED" /\ \A e \in Frames : ~ Ended(job[k].fi[e].status)
  BY DEF EmptySlots, Ended
<1>2. CASE k = j
  BY <1>2 DEF OneFrameStep, OneFrame, SettledJob
<1>3. CASE k # j
  BY <1>1, <1>3 DEF OneFrameStep, SettledJob
<1> QED
  BY <1>2, <1>3

LEMMA SettledCount ==
  ASSUME EmptySlots, NEW j \in Jobs, CountStep(j),
         job'[j].status = "FINISHED" =>
           job[j].status = "FINISHED" \/ (Attached(job[j]) /\ JobFrames(j) \subseteq ended)
  PROVE  Settled
<1> SUFFICES ASSUME NEW k \in Jobs PROVE SettledJob(k)
  BY DEF Settled
<1>1. ~ Attached(job[k]) => job[k].status # "FINISHED" /\ \A e \in Frames : ~ Ended(job[k].fi[e].status)
  BY DEF EmptySlots, Ended
<1> QED
  BY <1>1 DEF CountStep, SameFrames, SettledJob

LEMMA SettledSame ==
  ASSUME EmptySlots, UNCHANGED job
  PROVE  Settled
BY DEF EmptySlots, Ended, Settled, SettledJob

LEMMA SettledStep ==
  ASSUME Quiet, TypeOK, FarmInv, QuietStep
  PROVE  Settled
<1>a. /\ SlavesInv /\ CopiesInv /\ SendsRecord /\ EmptySlots /\ CheckAttached /\ QueueInv
      /\ ReportsEnded /\ CopyEnded /\ RecordsEnded /\ FinishedEnded
  BY DEF FarmInv, CopiesInv, QueueInv, EndedInv
<1>b. \A f \in Frames, j \in Jobs : job[j].fi[f] \in FrameInfo
  BY DEF TypeOK, JobRecord
<1>c. UNCHANGED job => Settled
  BY <1>a, SettledSame
<1>1. ASSUME NEW s \in Subs, RegisterReserve(s) PROVE Settled
  <2>1. \E j \in Jobs : job' = [job EXCEPT ![j].used = TRUE]
    BY <1>1 DEF RegisterReserve
  <2>2. \A j \in Jobs : job'[j].fi = job[j].fi /\ job'[j].status = job[j].status
    BY <2>1 DEF TypeOK, JobRecord
  <2> QED
    BY <1>a, <2>2 DEF EmptySlots, Ended, Settled, SettledJob
<1>2. ASSUME NEW s \in Subs, NEW j \in Jobs, RegisterDone(j, s) PROVE Settled
  <2>1. job'[j] = JobRegistered(s) /\ \A k \in Jobs : k # j => job'[k] = job[k]
    BY <1>a, <1>2, QueueFill
  <2>2. job'[j].status = "WAITING" /\ \A f \in Frames : job'[j].fi[f].status = "WAITING"
    BY <2>1, JobFilled
  <2> QED
    BY <1>a, <2>1, <2>2 DEF EmptySlots, Ended, Settled, SettledJob
<1>3. ASSUME NEW h \in Handlers, HandlerGoesOn(h) PROVE Settled
  <2>1. ASSUME NEW j \in Jobs, Reserve(h, j) PROVE Settled
    <3>1. PICK f \in Frames : OneFrameStep(j, f, AssignTo(job[j].fi[f], conn[h].c, NoTask))
      BY <2>1, ReserveStep
    <3>2. AssignTo(job[j].fi[f], conn[h].c, NoTask).status = "ASSIGNED"
      BY <1>b, FrameSteps
    <3> QED
      BY <1>a, <3>1, <3>2, SettledFrame DEF Ended
  <2>2. CASE Assign(h)
    <3>1. PICK j, f, c, t : j = conn[h].j /\ f = conn[h].f /\ c = conn[h].c /\ t = conn[h].t
      OBVIOUS
    <3>2. j \in Jobs /\ f \in Frames /\ OneFrameStep(j, f, AssignTo(job[j].fi[f], c, t))
      BY <1>a, <2>2, <3>1, AssignStep
    <3>3. AssignTo(job[j].fi[f], c, t).status = "ASSIGNED"
      BY <1>b, <3>2, FrameSteps
    <3> QED
      BY <1>a, <3>2, <3>3, SettledFrame DEF Ended
  <2> QED
    BY <1>c, <1>3, <2>1, <2>2 DEF HandlerGoesOn, SkipJob, NoAvailableJob, Confirm, SendTask, HandlerDies
<1>4. ASSUME NEW c \in Comps, SlaveGoesOn(c) PROVE Settled
  BY <1>a, <1>c, <1>4, SlaveSteps
<1>5. ASSUME NEW c \in Comps, NEW t \in Tasks, TaskExits(c, t) \/ TaskCrashes(c, t) PROVE Settled
  BY <1>c, <1>5, TaskIsOver
<1>6. ASSUME NEW r \in fin, TaskFinished(r) \/ ReportLost(r) PROVE Settled
  <2>1. CASE job' = job
    BY <1>c, <2>1
  <2>2. CASE job' # job
    <3>1. TaskFinished(r)
      BY <1>6, <2>2 DEF ReportLost
    <3>2. PICK fr : r.job \in Jobs /\ r.frame \in Frames /\ r.name = JobName(job[r.job])
                    /\ OneFrameStep(r.job, r.frame, fr)
      BY <1>a, <2>2, <3>1, TaskFinishedStep
    <3>3. <<JobName(job[r.job]), r.frame>> \in ended
      BY <1>a, <3>2 DEF ReportsEnded
    <3> QED
      BY <1>a, <3>2, <3>3, SettledFrame
  <2> QED
    BY <2>1, <2>2
<1>7. ASSUME NEW j \in Jobs, StopJob(j) \/ ContinueJob(j) PROVE Settled
  BY <1>a, <1>7, StopStep, SettledCount
<1>8. CASE CheckJob
  BY <1>c, <1>8 DEF CheckJob
<1>9. CASE CheckFrame
  <2>1. PICK j, f : j = chk.j /\ f = chk.i
    OBVIOUS
  <2>2. j \in Jobs /\ f \in Frames /\ (job' = job \/ OneFrameStep(j, f, Requeue(job[j].fi[f])))
    BY <1>a, <1>9, <2>1, CheckFrameStep
  <2>3. Requeue(job[j].fi[f]).status = "WAITING"
    BY <1>b, <2>2, FrameSteps
  <2> QED
    BY <1>a, <1>c, <2>2, <2>3, SettledFrame DEF Ended
<1>10. CASE CheckDone
  <2>1. PICK j : j = chk.j
    OBVIOUS
  <2>2. /\ chk.pc = "frames" /\ j \in Jobs /\ CountStep(j)
        /\ job'[j].status = "FINISHED" =>
             job[j].status = "FINISHED" \/ \A f \in Frames : Ended(chk.snap[f].status)
    BY <1>a, <1>10, <2>1, CheckDoneStep
  <2>3. Attached(job[j])
    BY <1>a, <2>1, <2>2 DEF CheckAttached
  <2>4. (\A f \in Frames : Ended(chk.snap[f].status)) => JobFrames(j) \subseteq ended
    BY <1>a, <2>1, <2>2, FinishedFrames
  <2> QED
    BY <1>a, <2>2, <2>3, <2>4, SettledCount
<1> QED
  BY <1>1, <1>2, <1>3, <1>4, <1>5, <1>6, <1>7, <1>8, <1>9, <1>10 DEF QuietStep, Check

LEMMA NewGivers ==
  ASSUME TypeOK, SlavesInv, SendsRecord, QuietStep, NEW h \in Handlers, conn'[h].pc \in Giving
  PROVE  \/ conn[h].pc \in Giving /\ conn'[h].j = conn[h].j
         \/ \E j \in Jobs : Reserve(h, j) /\ conn'[h].j = j
<1>1. ASSUME NEW g \in Handlers, HandlerGoesOn(g), g # h PROVE conn'[h] = conn[h]
  BY <1>1, ReserveStep, SkipStep, ConfirmStep, AssignRecords, SendStep, HandlerEnds DEF HandlerGoesOn
<1>2. CASE HandlerGoesOn(h)
  <2>1. ASSUME NEW j \in Jobs, Reserve(h, j) PROVE conn'[h].j = j
    BY <2>1, ReserveStep
  <2>2. \A j \in Jobs : ~ SkipJob(h, j)
    BY SkipStep DEF Giving
  <2>3. ~ NoAvailableJob(h) /\ ~ HandlerDies(h) /\ ~ SendTask(h)
    BY HandlerEnds, SendStep DEF Giving, NoConn
  <2>4. ASSUME NEW u \in Tasks, Confirm(h, u) PROVE conn[h].pc \in Giving /\ conn'[h].j = conn[h].j
    BY <2>4, ConfirmStep DEF Giving
  <2>5. Assign(h) => conn[h].pc \in Giving /\ conn'[h].j = conn[h].j
    BY AssignRecords DEF Giving
  <2> QED
    BY <1>2, <2>1, <2>2, <2>3, <2>4, <2>5 DEF HandlerGoesOn
<1>3. ASSUME NEW c \in Comps, SlaveGoesOn(c) PROVE conn'[h] = conn[h]
  BY <1>3, SlaveSteps DEF Giving
<1>4. ASSUME NEW c \in Comps, NEW t \in Tasks, TaskExits(c, t) \/ TaskCrashes(c, t) PROVE conn' = conn
  BY <1>4, TaskIsOver
<1>5. ASSUME NEW j \in Jobs, StopJob(j) \/ ContinueJob(j) PROVE conn' = conn
  BY <1>5, StopStep
<1> QED
  BY <1>1, <1>2, <1>3, <1>4, <1>5 DEF QuietStep, RegisterReserve, RegisterDone, TaskFinished, ReportLost,
     Check, CheckJob, CheckFrame, CheckDone

LEMMA EndedStep ==
  ASSUME Quiet, TypeOK, FarmInv, QuietStep, HNext
  PROVE  EndedInv'
<1>a. /\ SlavesInv /\ SendsRecord /\ CheckAttached /\ EmptySlots /\ QueueInv
      /\ RecordsEnded /\ CopyEnded /\ FinishedEnded /\ GivenReady
  BY DEF FarmInv, CopiesInv, QueueInv, EndedInv
<1>b. JobsKept /\ Settled /\ ended \subseteq ended'
  BY KeepsJobs, SettledStep, EndedNow DEF JobsKept
<1>c. \A j \in Jobs : Attached(job[j]) =>
        Attached(job'[j]) /\ job'[j].sub = job[j].sub /\ JobName(job'[j]) = JobName(job[j])
  BY <1>b DEF JobsKept, JobName
<1>1. ReportsEnded'
  BY ReportsStep
<1>2. RecordsEnded'
  BY <1>a, <1>b, <1>c DEF RecordsEnded, Settled, SettledJob
<1>3. CopyEnded'
  <2> SUFFICES ASSUME chk'.pc = "frames", NEW f \in Frames, Ended(chk'.snap[f].status)
               PROVE  <<JobName(job'[chk'.j]), f>> \in ended'
    BY DEF CopyEnded
  <2>1. CASE chk.pc = "frames" /\ chk'.j = chk.j /\ chk'.snap = chk.snap
    <3>1. chk.j \in Jobs /\ Attached(job[chk.j]) /\ <<JobName(job[chk.j]), f>> \in ended
      BY <1>a, <2>1 DEF CheckAttached, CopyEnded, TypeOK, ChkRecord
    <3> QED
      BY <1>b, <1>c, <2>1, <3>1
  <2>2. CASE CheckJob
    <3>1. /\ chk.j \in Jobs /\ chk'.j = chk.j /\ chk'.snap = job[chk.j].fi /\ job' = job
      BY <2>2 DEF CheckJob, NextCheck, ChkIdle, TypeOK, ChkRecord
    <3>2. <<JobName(job[chk.j]), f>> \in ended
      BY <1>a, <3>1 DEF RecordsEnded
    <3> QED
      BY <1>b, <3>1, <3>2
  <2>3. CASE CheckFrame \/ CheckDone
    <3>1. chk.pc = "frames" /\ chk'.j = chk.j /\ chk'.snap = chk.snap
      BY <1>a, <2>3, CheckFrameStep, CheckDoneStep DEF TypeOK, ChkRecord
    <3> QED
      BY <2>1, <3>1
  <2>4. CASE chk' = chk
    BY <2>1, <2>4
  <2>5. ASSUME NEW c \in Comps, SlaveGoesOn(c) PROVE chk' = chk
    BY <1>a, <2>5, SlaveSteps
  <2>6. ASSUME NEW h \in Handlers, HandlerGoesOn(h) PROVE chk' = chk
    BY <2>6 DEF HandlerGoesOn, Reserve, SkipJob, NoAvailableJob, Confirm, Assign, SendTask, HandlerDies
  <2>7. ASSUME NEW j \in Jobs, StopJob(j) \/ ContinueJob(j) PROVE chk' = chk
    BY <2>7, StopStep
  <2>8. ASSUME NEW c \in Comps, NEW t \in Tasks, TaskExits(c, t) \/ TaskCrashes(c, t) PROVE chk' = chk
    BY <2>8, TaskIsOver
  <2> QED
    BY <2>2, <2>3, <2>4, <2>5, <2>6, <2>7, <2>8 DEF QuietStep, RegisterReserve, RegisterDone, TaskFinished,
       ReportLost, Check
<1>4. FinishedEnded'
  <2> SUFFICES ASSUME NEW j \in Jobs, job'[j].status = "FINISHED"
               PROVE  Attached(job'[j]) /\ JobFrames(j)' \subseteq ended'
    BY DEF FinishedEnded
  <2>1. Attached(job[j]) /\ JobFrames(j) \subseteq ended
    BY <1>a, <1>b DEF Settled, SettledJob, FinishedEnded
  <2> QED
    BY <1>b, <1>c, <2>1 DEF JobFrames
<1>5. GivenReady'
  <2> SUFFICES ASSUME NEW h \in Handlers, conn'[h].pc \in Giving, NEW j, j = conn'[h].j, Depends(j)',
                      NEW m, m = DependOf[job'[j].sub]
               PROVE  Attached(job'[m]) /\ {JobName(job'[m])} \X Frames \subseteq ended'
    BY DEF GivenReady, Before, Depends, JobFrames
  <2>1. CASE conn[h].pc \in Giving /\ conn'[h].j = conn[h].j
    <3>1. j \in Jobs /\ Attached(job[j])
      BY <1>a, <2>1 DEF TypeOK, ConnKnows, Giving, SendsRecord, SendRecorded
    <3>2. Depends(j) /\ m = Before(j)
      BY <1>c, <3>1 DEF Depends, Before
    <3>3. Attached(job[m]) /\ JobFrames(m) \subseteq ended
      BY <1>a, <2>1, <3>2 DEF GivenReady
    <3>4. m \in Jobs
      BY <3>1, <3>2, SubsAssumption DEF Depends, Before, TypeOK, JobRecord, Attached
    <3> QED
      BY <1>b, <1>c, <3>3, <3>4 DEF JobFrames
  <2>2. ASSUME Reserve(h, j), j \in Jobs PROVE Attached(job'[m]) /\ {JobName(job'[m])} \X Frames \subseteq ended'
    <3>1. Attached(job[j])
      BY <2>2, ReserveStep DEF OneFrameStep
    <3>2. Depends(j) /\ m = Before(j)
      BY <1>c, <2>2, <3>1 DEF Depends, Before
    <3>3. job[m].status = "FINISHED"
      BY <2>2, <3>2 DEF Reserve, JobAvailable, Depends, Before
    <3>4. m \in Jobs
      BY <2>2, <3>1, <3>2, SubsAssumption DEF Depends, Before, TypeOK, JobRecord, Attached
    <3>5. Attached(job[m]) /\ JobFrames(m) \subseteq ended
      BY <1>a, <3>3, <3>4 DEF FinishedEnded
    <3> QED
      BY <1>b, <1>c, <3>4, <3>5 DEF JobFrames
  <2> QED
    BY <1>a, <2>1, <2>2, NewGivers
<1> QED
  BY <1>1, <1>2, <1>3, <1>4, <1>5 DEF EndedInv

----------------------------------------------------------------------------
(* The invariant.                                                          *)
LEMMA FarmInit ==
  ASSUME HInit
  PROVE  FarmInv
<1> USE DEF HInit, Init
<1>1. \A j \in Jobs : /\ ~ job[j].used /\ job[j].sub = NoSub /\ job[j].status = "WAITING"
                      /\ \A f \in Frames : job[j].fi[f].status = "WAITING" /\ ~ job[j].fi[f].requeue
  BY DEF JobInit, FrameInit
<1>2. \A h \in Handlers : conn[h].pc = "idle" /\ ~ conn[h].up
  BY DEF NoConn
<1>3. \A c \in Comps : /\ ~ slave[c].up /\ ~ comp[c].used
                       /\ \A t \in Tasks : ~ slave[c].run[t]
  BY DEF SlaveDown, CompInit
<1>4. chk.pc = "idle" /\ regs = {} /\ fin = {} /\ kills = {}
  BY DEF ChkIdle
<1> USE DEF HInit
<1>5. QueueInv
  BY <1>1, <1>4 DEF QueueInv, RegsApart, SentOnce, EmptySlots, NoRequeue, CheckAttached, Attached
<1>6. SlavesInv
  BY <1>2, <1>3, <1>4 DEF SlavesInv, OneRequest, SlavesKnown
<1>7. CopiesInv
  BY <1>2, <1>3 DEF CopiesInv, RunsRecorded, SendsRecord, Giving
<1>8. HoldersInv
  BY <1>1, <1>2, <1>3, <1>4 DEF HoldersInv, OneHolder, HeldNotWaiting, RecordsInPlace, InPlace, CopyInPlace,
     Gives, RunsFrame, Giving
<1>9. EndedInv
  BY <1>1, <1>2, <1>4 DEF EndedInv, ReportsEnded, RecordsEnded, Ended, CopyEnded, FinishedEnded, GivenReady, Giving
<1> QED
  BY <1>5, <1>6, <1>7, <1>8, <1>9 DEF FarmInv

LEMMA FarmSame ==
  ASSUME FarmInv, UNCHANGED hvars
  PROVE  FarmInv'
<1> USE DEF hvars
<1>1. QueueInv'
  BY DEF FarmInv, QueueInv, RegsApart, SentOnce, EmptySlots, NoRequeue, CheckAttached
<1>2. SlavesInv'
  BY DEF FarmInv, SlavesInv, OneRequest, SlavesKnown
<1>3. CopiesInv'
  BY DEF FarmInv, CopiesInv, RunsRecorded, RunRecorded, IsTask, SendsRecord, SendRecorded
<1>4. HoldersInv'
  BY SMTT(30) DEF FarmInv, HoldersInv, OneHolder, HeldNotWaiting, RecordsInPlace, InPlace, CopyInPlace,
     Gives, RunsFrame
<1>5. EndedInv'
  BY DEF FarmInv, EndedInv, ReportsEnded, RecordsEnded, CopyEnded, FinishedEnded, GivenReady,
     JobFrames, Depends, Before
<1> QED
  BY <1>1, <1>2, <1>3, <1>4, <1>5 DEF FarmInv

LEMMA FarmNext ==
  ASSUME Quiet, TypeOK, FarmInv, HNext
  PROVE  FarmInv'
<1>1. QuietStep
  BY QuietSteps DEF HNext, FarmInv
<1> QED
  BY <1>1, QueueStep, SlavesStep, CopiesStep, HoldersStep, EndedStep DEF FarmInv

LEMMA TypesOfFarm == HSpec => []TypeOK
<1>1. HInit => Init
  BY DEF HInit
<1>2. [HNext]_hvars => [Next]_vars
  BY DEF HNext, hvars, vars
<1> QED
  BY <1>1, <1>2, TypeCorrect, PTL DEF HSpec, Spec

(* While nothing deletes a job and slaves answer, a frame has one holder   *)
(* at most, its record is in place or empty, and what is settled has       *)
(* ended.                                                                  *)
THEOREM FarmInvariant == ASSUME Quiet PROVE HSpec => []FarmInv
<1>1. TypeOK /\ FarmInv /\ [HNext]_hvars => FarmInv'
  BY FarmSame, FarmNext
<1> QED
  BY <1>1, FarmInit, TypesOfFarm, PTL DEF HSpec

(* No two registrations receive into one slot, and no job is replaced that *)
(* was not deleted.                                                        *)
THEOREM JobsAreKept == ASSUME Quiet PROVE HSpec => SlotsKept
<1>1. ASSUME TypeOK, FarmInv, [HNext]_hvars
      PROVE  [\A j \in Jobs : Attached(job[j]) /\ job'[j].sub # job[j].sub => job'[j] = JobInit]_vars
  <2>1. CASE UNCHANGED hvars
    BY <2>1 DEF hvars, vars
  <2>2. CASE HNext
    <3>1. QuietStep
      BY <1>1, <2>2, QuietSteps DEF HNext, FarmInv
    <3> QED
      BY <1>1, <3>1, KeepsJobs
  <2> QED
    BY <1>1, <2>1, <2>2
<1> QED
  BY <1>1, TypesOfFarm, FarmInvariant, PTL DEF HSpec, SlotsKept

----------------------------------------------------------------------------
(* Every step is one of Farm's, or changes nothing of it.                  *)
SameQueue ==
  \A j \in Jobs : /\ Attached(job'[j]) <=> Attached(job[j])
                  /\ Attached(job[j]) => job'[j].sub = job[j].sub
NoneShown ==
  \A j \in Jobs, f \in Frames : job'[j].fi[f].status = "FINISHED" => job[j].fi[f].status = "FINISHED"
QuietJobs == SameQueue /\ NoneShown

LEMMA QuietFrame ==
  ASSUME NEW j \in Jobs, NEW f \in Frames, NEW fr, OneFrameStep(j, f, fr), fr.status # "FINISHED"
  PROVE  QuietJobs
BY DEF OneFrameStep, OneFrame, SameJob, Attached, QuietJobs, SameQueue, NoneShown

LEMMA QuietCount ==
  ASSUME NEW j \in Jobs, CountStep(j)
  PROVE  QuietJobs
BY DEF CountStep, SameFrames, SameJob, Attached, QuietJobs, SameQueue, NoneShown

LEMMA OtherSteps ==
  ASSUME Quiet, TypeOK, FarmInv, QuietStep, ~ TaskOver,
         \A j \in Jobs, s \in Subs : ~ RegisterDone(j, s), \A h \in Handlers : ~ SendTask(h),
         \A r \in fin : ~ TaskFinished(r)
  PROVE  SameTasks /\ QuietJobs
<1>a. SlavesInv /\ CopiesInv /\ SendsRecord /\ EmptySlots /\ CheckAttached /\ QueueInv
  BY DEF FarmInv, CopiesInv, QueueInv
<1>b. \A f \in Frames, j \in Jobs : job[j].fi[f] \in FrameInfo
  BY DEF TypeOK, JobRecord
<1>c. UNCHANGED job => QuietJobs
  BY DEF QuietJobs, SameQueue, NoneShown
<1>d. UNCHANGED slave => SameTasks
  BY DEF SameTasks
<1>1. ASSUME NEW s \in Subs, RegisterReserve(s) PROVE SameTasks /\ QuietJobs
  <2>1. PICK j \in Jobs : JobIndexFree(j) /\ job' = [job EXCEPT ![j].used = TRUE]
    BY <1>1 DEF RegisterReserve
  <2>2. ~ Attached(job[j]) /\ job[j].sub = NoSub
    BY <1>a, <2>1 DEF JobIndexFree, EmptySlots, Attached
  <2>3. \A k \in Jobs : job'[k].sub = job[k].sub /\ job'[k].fi = job[k].fi /\ (k # j => job'[k] = job[k])
    BY <2>1 DEF TypeOK, JobRecord
  <2>4. QuietJobs
    BY <2>2, <2>3 DEF QuietJobs, SameQueue, NoneShown, Attached
  <2> QED
    BY <1>1, <1>d, <2>4 DEF RegisterReserve
<1>2. ASSUME NEW h \in Handlers, HandlerGoesOn(h) PROVE SameTasks /\ QuietJobs
  <2>1. ASSUME NEW j \in Jobs, Reserve(h, j) PROVE QuietJobs
    <3>1. PICK f \in Frames : OneFrameStep(j, f, AssignTo(job[j].fi[f], conn[h].c, NoTask))
      BY <2>1, ReserveStep
    <3>2. AssignTo(job[j].fi[f], conn[h].c, NoTask).status = "ASSIGNED"
      BY <1>b, FrameSteps
    <3> QED
      BY <3>1, <3>2, QuietFrame
  <2>2. CASE Assign(h)
    <3>1. PICK j, f, c, t : j = conn[h].j /\ f = conn[h].f /\ c = conn[h].c /\ t = conn[h].t
      OBVIOUS
    <3>2. j \in Jobs /\ f \in Frames /\ OneFrameStep(j, f, AssignTo(job[j].fi[f], c, t))
      BY <1>a, <2>2, <3>1, AssignStep
    <3>3. AssignTo(job[j].fi[f], c, t).status = "ASSIGNED"
      BY <1>b, <3>2, FrameSteps
    <3>4. QuietJobs
      BY <3>2, <3>3, QuietFrame
    <3> QED
      BY <1>d, <2>2, <3>4 DEF Assign
  <2>3. ASSUME NEW j \in Jobs, Reserve(h, j) PROVE SameTasks
    BY <1>d, <2>3 DEF Reserve
  <2>4. ASSUME NEW j \in Jobs, SkipJob(h, j) PROVE SameTasks /\ QuietJobs
    BY <1>c, <2>4, SkipStep
  <2>5. ASSUME NEW u \in Tasks, Confirm(h, u) PROVE SameTasks /\ QuietJobs
    BY <1>c, <2>5, ConfirmStep
  <2>6. CASE NoAvailableJob(h) \/ HandlerDies(h)
    BY <1>a, <1>c, <2>6, HandlerEnds
  <2> QED
    BY <1>2, <2>1, <2>2, <2>3, <2>4, <2>5, <2>6 DEF HandlerGoesOn
<1>3. ASSUME NEW c \in Comps, SlaveGoesOn(c) PROVE SameTasks /\ QuietJobs
  BY <1>a, <1>c, <1>3, SlaveSteps
<1>4. ASSUME NEW r \in fin, ReportLost(r) PROVE SameTasks /\ QuietJobs
  BY <1>c, <1>d, <1>4 DEF ReportLost
<1>5. ASSUME NEW j \in Jobs, StopJob(j) \/ ContinueJob(j) PROVE SameTasks /\ QuietJobs
  BY <1>d, <1>5, StopStep, QuietCount
<1>6. CASE CheckJob
  BY <1>c, <1>d, <1>6 DEF CheckJob
<1>7. CASE CheckFrame
  <2>1. PICK j, f : j = chk.j /\ f = chk.i
    OBVIOUS
  <2>2. j \in Jobs /\ f \in Frames /\ (job' = job \/ OneFrameStep(j, f, Requeue(job[j].fi[f])))
    BY <1>a, <1>7, <2>1, CheckFrameStep
  <2>3. Requeue(job[j].fi[f]).status = "WAITING"
    BY <1>b, <2>2, FrameSteps
  <2>4. QuietJobs
    BY <1>c, <2>2, <2>3, QuietFrame
  <2> QED
    BY <1>7, <1>d, <2>4 DEF CheckFrame
<1>8. CASE CheckDone
  <2>1. CountStep(chk.j) /\ chk.j \in Jobs
    BY <1>a, <1>8, CheckDoneStep
  <2>2. QuietJobs
    BY <2>1, QuietCount
  <2> QED
    BY <1>8, <1>d, <2>2 DEF CheckDone
<1> QED
  BY <1>1, <1>2, <1>3, <1>4, <1>5, <1>6, <1>7, <1>8 DEF QuietStep, Check, TaskOver

LEMMA NamesApart ==
  ASSUME Quiet, TypeOK, SentOnce, NEW j \in Jobs, NEW k \in Jobs, Attached(job[j]), Attached(job[k]),
         JobName(job[j]) = JobName(job[k])
  PROVE  j = k
<1>1. job[j].sub \in Subs /\ job[k].sub \in Subs
  BY DEF TypeOK, JobRecord, Attached
<1>2. job[j].sub = job[k].sub
  BY <1>1, NullsAssumption DEF JobName, Quiet
<1> QED
  BY <1>2 DEF SentOnce

LEMMA SameAt ==
  ASSUME SameTasks
  PROVE  [w \in Workers |-> Rendering(w)]' = [w \in Workers |-> Rendering(w)]
<1>1. \A w \in Workers : Rendering(w)' = Rendering(w)
  BY DEF SameTasks, Rendering, Workers
<1> QED
  BY <1>1

LEMMA SameWaits ==
  ASSUME TypeOK, SameQueue
  PROVE  Queued' = Queued /\ Waits' = Waits
<1>1. \A j \in Jobs : InQueue(j) => JobFrames(j)' = JobFrames(j)
  BY DEF SameQueue, InQueue, JobFrames, JobName
<1>2. \A j \in Jobs : Attached(job[j]) => (Depends(j)' <=> Depends(j)) /\ Before(j)' = Before(j)
  BY DEF SameQueue, Depends, Before
<1>3. \A j \in Jobs : InQueue(j)' <=> InQueue(j)
  <2> SUFFICES ASSUME NEW j \in Jobs PROVE InQueue(j)' <=> InQueue(j)
    OBVIOUS
  <2>1. Attached(job'[j]) <=> Attached(job[j])
    BY DEF SameQueue
  <2>2. CASE ~ Attached(job[j])
    BY <2>1, <2>2 DEF InQueue
  <2>3. CASE Attached(job[j])
    <3>1. Depends(j) => Before(j) \in Jobs
      BY <2>3, NamesOfJobs
    <3>2. Depends(j) => (Attached(job'[Before(j)]) <=> Attached(job[Before(j)]))
      BY <3>1 DEF SameQueue
    <3>3. job'[j].sub = job[j].sub
      BY <2>3 DEF SameQueue
    <3> QED
      BY <2>1, <2>3, <3>2, <3>3 DEF InQueue, Depends, Before
  <2> QED
    BY <2>2, <2>3
<1>4. \A j \in Jobs : InQueue(j) /\ Depends(j) => JobFrames(Before(j))' = JobFrames(Before(j))
  <2> SUFFICES ASSUME NEW j \in Jobs, InQueue(j), Depends(j) PROVE JobFrames(Before(j))' = JobFrames(Before(j))
    OBVIOUS
  <2>1. Attached(job[j]) /\ Attached(job[Before(j)]) /\ Before(j) \in Jobs
    BY NamesOfJobs DEF InQueue
  <2>2. job'[j].sub = job[j].sub /\ job'[Before(j)].sub = job[Before(j)].sub
    BY <2>1 DEF SameQueue
  <2> QED
    BY <2>2 DEF JobFrames, JobName, Before
<1>5. Queued' = Queued
  <2>1. \A x : x \in Queued <=> \E j \in Jobs : InQueue(j) /\ x \in JobFrames(j)
    BY DEF Queued
  <2>2. \A x : x \in Queued' <=> \E j \in Jobs : InQueue(j)' /\ x \in JobFrames(j)'
    BY DEF Queued
  <2> QED
    BY <1>1, <1>3, <2>1, <2>2
<1>6. Waits' = Waits
  <2>1. \A x : x \in Waits <=> \E j \in Jobs : InQueue(j) /\ Depends(j) /\ x \in JobFrames(j) \X JobFrames(Before(j))
    BY DEF Waits
  <2>2. \A x : x \in Waits' <=> \E j \in Jobs : InQueue(j)' /\ Depends(j)' /\ x \in (JobFrames(j) \X JobFrames(Before(j)))'
    BY DEF Waits
  <2>3. \A j \in Jobs : InQueue(j) => (Depends(j)' <=> Depends(j))
    BY <1>2 DEF InQueue
  <2>4. \A j \in Jobs : InQueue(j) /\ Depends(j) =>
          (JobFrames(j) \X JobFrames(Before(j)))' = JobFrames(j) \X JobFrames(Before(j))
    BY <1>1, <1>4
  <2> QED
    BY <1>3, <2>1, <2>2, <2>3, <2>4
<1> QED
  BY <1>5, <1>6

(* Frames that are not shown any more are put back.                        *)
LEMMA FewerShown ==
  ASSUME QuietJobs
  PROVE  Shown' \subseteq Shown
<1>1. \A j \in Jobs : Attached(job'[j]) => Attached(job[j]) /\ JobName(job'[j]) = JobName(job[j])
  BY DEF QuietJobs, SameQueue, JobName
<1>2. \A x \in Works : x[2] \in Frames
  BY DEF Works
<1>3. \A x : x \in Shown <=> /\ x \in Works
                            /\ \E j \in Jobs : /\ Attached(job[j]) /\ JobName(job[j]) = x[1]
                                               /\ job[j].fi[x[2]].status = "FINISHED"
  BY DEF Shown
<1>4. \A x : x \in Shown' <=> /\ x \in Works
                             /\ \E j \in Jobs : /\ Attached(job'[j]) /\ JobName(job'[j]) = x[1]
                                                /\ job'[j].fi[x[2]].status = "FINISHED"
  BY DEF Shown
<1> QED
  BY <1>1, <1>2, <1>3, <1>4 DEF QuietJobs, NoneShown

LEMMA ForgetStep ==
  ASSUME TypeOK, SameTasks, SameQueue, ended' = ended, Shown' \subseteq Shown
  PROVE  F!Next
<1> DEFINE X == Shown \ Shown'
<1>1. PICK Y : Y = X
  OBVIOUS
<1>2. Y \in SUBSET Works /\ Shown' = Shown \ Y
  BY <1>1 DEF Shown
<1>3. UNCHANGED <<[w \in Workers |-> Rendering(w)], ended, Queued, Waits>>
  BY SameAt, SameWaits
<1>4. F!Forget(Y)
  BY <1>2, <1>3 DEF F!Forget
<1> QED
  BY <1>2, <1>4 DEF F!Next

(* A report shows its frame, or an error hides it.                         *)
LEMMA ShowStep ==
  ASSUME TypeOK, FarmInv, NEW r \in fin, TaskFinished(r), ended' = ended
  PROVE  F!Next
<1>a. EmptySlots /\ ReportsEnded
  BY DEF FarmInv, QueueInv, EndedInv
<1>1. SameTasks
  BY DEF TaskFinished, SameTasks
<1>2. CASE job' = job
  <2>1. QuietJobs
    BY <1>2 DEF QuietJobs, SameQueue, NoneShown
  <2> QED
    BY <1>1, <2>1, FewerShown, ForgetStep DEF QuietJobs
<1>3. CASE job' # job
  <2>1. PICK j, f, fr : /\ j \in Jobs /\ f \in Frames /\ r.name = JobName(job[j]) /\ r.frame = f
                        /\ OneFrameStep(j, f, fr)
    BY <1>a, <1>3, TaskFinishedStep
  <2>2. /\ Attached(job[j]) /\ SameJob(job[j], job'[j])
        /\ \A e \in Frames : e # f => job'[j].fi[e] = job[j].fi[e]
        /\ \A k \in Jobs : k # j => job'[k] = job[k]
    BY <2>1 DEF OneFrameStep, OneFrame
  <2>3. SameQueue
    BY <2>2 DEF SameQueue, SameJob, Attached
  <2>4. PICK x : x = <<JobName(job[j]), f>>
    OBVIOUS
  <2>5. x \in Works /\ x \in ended /\ x[1] = JobName(job[j]) /\ x[2] = f
    BY <1>a, <2>1, <2>2, <2>4, NamesOfJobs DEF ReportsEnded, Works
  <2>6. \A y : y \in Shown <=> /\ y \in Works
                              /\ \E k \in Jobs : /\ Attached(job[k]) /\ JobName(job[k]) = y[1]
                                                 /\ job[k].fi[y[2]].status = "FINISHED"
    BY DEF Shown
  <2>7. \A y : y \in Shown' <=> /\ y \in Works
                               /\ \E k \in Jobs : /\ Attached(job'[k]) /\ JobName(job'[k]) = y[1]
                                                  /\ job'[k].fi[y[2]].status = "FINISHED"
    BY DEF Shown
  <2>8. \A y \in Works : y # x => (y \in Shown' <=> y \in Shown)
    <3> SUFFICES ASSUME NEW y \in Works, y # x PROVE y \in Shown' <=> y \in Shown
      OBVIOUS
    <3>1. y[2] \in Frames /\ y = <<y[1], y[2]>>
      BY DEF Works
    <3>2. y[1] = JobName(job[j]) => y[2] # f
      BY <2>4, <3>1
    <3>3. \A k \in Jobs : Attached(job'[k]) = Attached(job[k]) /\ JobName(job'[k]) = JobName(job[k])
      BY <2>2 DEF SameJob, Attached, JobName
    <3>4. \A k \in Jobs : JobName(job[k]) = y[1] => job'[k].fi[y[2]] = job[k].fi[y[2]]
      BY <2>2, <3>1, <3>2
    <3> QED
      BY <2>6, <2>7, <3>3, <3>4
  <2>9. CASE x \in Shown'
    <3>1. Shown' = Shown \cup {x}
      BY <2>6, <2>7, <2>8, <2>9
    <3>2. UNCHANGED <<[w \in Workers |-> Rendering(w)], ended, Queued, Waits>>
      BY <1>1, <2>3, SameAt, SameWaits
    <3>3. F!Show(x)
      BY <2>5, <3>1, <3>2 DEF F!Show
    <3> QED
      BY <2>5, <3>3 DEF F!Next
  <2>10. CASE x \notin Shown'
    <3>1. Shown' \subseteq Shown
      BY <2>7, <2>8, <2>10
    <3> QED
      BY <1>1, <2>3, <3>1, ForgetStep
  <2> QED
    BY <2>9, <2>10
<1> QED
  BY <1>2, <1>3

(* A task that ends leaves its slot.                                       *)
LEMMA EndStep ==
  ASSUME TypeOK, FarmInv, HNext, NEW c \in Comps, NEW t \in Tasks, TaskExits(c, t) \/ TaskCrashes(c, t)
  PROVE  F!Next
<1> DEFINE At == [w \in Workers |-> Rendering(w)]
<1>1. PICK w : w = <<c, t>>
  OBVIOUS
<1>2. PICK x : x = <<slave[c].task[t].name, slave[c].task[t].frame>>
  OBVIOUS
<1>3. w \in Workers /\ w[1] = c /\ w[2] = t
  BY <1>1 DEF Workers
<1>4. /\ UNCHANGED job /\ slave[c].run[t] /\ ~ slave'[c].run[t]
      /\ \A u \in Tasks : u # t => slave'[c].run[u] = slave[c].run[u] /\ slave'[c].task[u] = slave[c].task[u]
      /\ \A d \in Comps : d # c => slave'[d] = slave[d]
  BY TaskIsOver
<1>5. x # NoTask
  <2>1. RunRecorded(c, t)
    BY <1>4 DEF FarmInv, CopiesInv, RunsRecorded
  <2>2. slave[c].task[t].name \in Names
    BY <2>1, NamesOfJobs DEF RunRecorded, IsTask
  <2>3. slave[c].task[t].frame \in Frames
    BY DEF TypeOK, SlaveRecord, Task
  <2> QED
    BY <1>2, <2>2, <2>3, IdleAssumption DEF Works
<1>6. Rendering(w) = x /\ Rendering(w)' = NoTask
  BY <1>2, <1>3, <1>4 DEF Rendering
<1>7. \A v \in Workers : v # w => Rendering(v)' = Rendering(v)
  <2> SUFFICES ASSUME NEW v \in Workers, v # w PROVE Rendering(v)' = Rendering(v)
    OBVIOUS
  <2>1. v[1] \in Comps /\ v[2] \in Tasks /\ (v[1] # c \/ v[2] # t)
    BY <1>1 DEF Workers
  <2>2. slave'[v[1]].run[v[2]] = slave[v[1]].run[v[2]] /\ slave'[v[1]].task[v[2]] = slave[v[1]].task[v[2]]
    BY <1>4, <2>1
  <2> QED
    BY <2>2 DEF Rendering
<1>8. At' = [At EXCEPT ![w] = NoTask] /\ At[w] = x
  BY <1>3, <1>6, <1>7
<1>9. ended' = ended \cup {x}
  BY <1>2, EndedNow
<1>10. SameQueue
  BY <1>4 DEF SameQueue
<1>11. UNCHANGED <<Shown, Queued, Waits>>
  BY <1>4, <1>10, SameWaits DEF Shown
<1>12. F!End(w)
  BY <1>5, <1>8, <1>9, <1>11 DEF F!End
<1> QED
  BY <1>3, <1>12 DEF F!Next

(* A task starts where nothing ran, and no other slot runs its frame.      *)
LEMMA StartStep ==
  ASSUME Quiet, TypeOK, FarmInv, NEW h \in Handlers, SendTask(h), ended' = ended
  PROVE  F!Next
<1> DEFINE At == [w \in Workers |-> Rendering(w)]
<1>a. /\ SlavesInv /\ SendsRecord /\ RunsRecorded /\ HoldersInv /\ OneHolder /\ SentOnce /\ GivenReady
  BY DEF FarmInv, CopiesInv, QueueInv, EndedInv, HoldersInv
<1>0. PICK j, f, c, t : conn[h].j = j /\ conn[h].f = f /\ conn[h].c = c /\ conn[h].t = t
  OBVIOUS
<1>1. /\ c \in Comps /\ t \in Tasks /\ j \in Jobs /\ f \in Frames
      /\ conn[h].pc = "send" /\ ~ slave[c].run[t] /\ slave'[c].run[t] /\ Attached(job[j])
      /\ slave'[c].task[t] = TaskAssigned(j, job[j], f)
      /\ \A d \in Comps, u \in Tasks : d # c \/ u # t =>
           slave'[d].run[u] = slave[d].run[u] /\ slave'[d].task[u] = slave[d].task[u]
      /\ UNCHANGED job
  BY <1>0, <1>a, SendStep
<1>2. PICK w, x : w = <<c, t>> /\ x = <<JobName(job[j]), f>>
  OBVIOUS
<1>3. w \in Workers /\ w[1] = c /\ w[2] = t /\ x \in Works /\ x[1] = JobName(job[j]) /\ x[2] = f
  BY <1>1, <1>2, NamesOfJobs DEF Workers, Works
<1>4. Rendering(w) = NoTask /\ Rendering(w)' = x
  BY <1>1, <1>2, <1>3 DEF Rendering, TaskAssigned
<1>5. \A v \in Workers : v # w => Rendering(v)' = Rendering(v)
  <2> SUFFICES ASSUME NEW v \in Workers, v # w PROVE Rendering(v)' = Rendering(v)
    OBVIOUS
  <2>1. v[1] \in Comps /\ v[2] \in Tasks /\ (v[1] # c \/ v[2] # t)
    BY <1>2 DEF Workers
  <2>2. slave'[v[1]].run[v[2]] = slave[v[1]].run[v[2]] /\ slave'[v[1]].task[v[2]] = slave[v[1]].task[v[2]]
    BY <1>1, <2>1
  <2> QED
    BY <2>2 DEF Rendering
<1>6. \A v \in Workers : Rendering(v) # x
  <2> SUFFICES ASSUME NEW v \in Workers, Rendering(v) = x PROVE FALSE
    OBVIOUS
  <2>1. PICK d, u : d = v[1] /\ u = v[2] /\ d \in Comps /\ u \in Tasks
    BY DEF Workers
  <2>2. slave[d].run[u] /\ slave[d].task[u].name = JobName(job[j]) /\ slave[d].task[u].frame = f
    <3>1. x # NoTask
      BY <1>3, IdleAssumption
    <3> QED
      BY <1>2, <2>1, <3>1 DEF Rendering
  <2>3. PICK k : k = slave[d].task[u].job
    OBVIOUS
  <2>4. k \in Jobs /\ Attached(job[k]) /\ slave[d].task[u].name = JobName(job[k])
    <3>1. RunRecorded(d, u)
      BY <1>a, <2>1, <2>2 DEF RunsRecorded
    <3> QED
      BY <2>3, <3>1 DEF RunRecorded, IsTask
  <2>5. k = j
    BY <1>1, <1>a, <2>2, <2>4, NamesApart
  <2>6. RunsFrame(d, u, j, f) /\ Gives(h, j, f)
    BY <1>0, <1>1, <2>2, <2>3, <2>5 DEF RunsFrame, Gives, Giving
  <2> QED
    BY <1>1, <1>a, <2>1, <2>6 DEF OneHolder
<1>7. Depends(j) => Before(j) \in Jobs /\ Attached(job[Before(j)]) /\ JobFrames(Before(j)) \subseteq ended
  BY <1>0, <1>1, <1>a, NamesOfJobs DEF GivenReady, Giving
<1>8. x \in Queued
  <2>1. InQueue(j) /\ x \in JobFrames(j)
    BY <1>1, <1>2, <1>7 DEF InQueue, JobFrames
  <2> QED
    BY <1>1, <2>1 DEF Queued
<1>9. \A y \in Works : <<x, y>> \in Waits => y \in ended
  <2> SUFFICES ASSUME NEW y \in Works, <<x, y>> \in Waits PROVE y \in ended
    OBVIOUS
  <2>1. PICK k \in Jobs : InQueue(k) /\ Depends(k) /\ <<x, y>> \in JobFrames(k) \X JobFrames(Before(k))
    BY DEF Waits
  <2>2. x[1] = JobName(job[k]) /\ y \in JobFrames(Before(k)) /\ Attached(job[k])
    BY <2>1 DEF JobFrames, InQueue
  <2>3. k = j
    BY <1>1, <1>3, <1>a, <2>2, NamesApart
  <2> QED
    BY <1>7, <2>1, <2>2, <2>3
<1>10. At' = [At EXCEPT ![w] = x] /\ At[w] = NoTask /\ \A v \in Workers : At[v] # x
  BY <1>3, <1>4, <1>5, <1>6
<1>11. SameQueue
  BY <1>1 DEF SameQueue
<1>12. UNCHANGED <<Shown, Queued, Waits>>
  BY <1>1, <1>11, SameWaits DEF Shown
<1>13. F!Start(w, x)
  BY <1>8, <1>9, <1>10, <1>12 DEF F!Start
<1> QED
  BY <1>3, <1>13 DEF F!Next

(* A job comes into the queue; the others wait for what they waited for.   *)
LEMMA SubmitStep ==
  ASSUME Quiet, TypeOK, FarmInv, QueueInv', TypeOK', NEW s \in Subs, NEW i \in Jobs, RegisterDone(i, s), ended' = ended
  PROVE  F!Next
<1>a. QueueInv /\ EmptySlots /\ SentOnce
  BY DEF FarmInv, QueueInv
<1>1. /\ ~ Attached(job[i]) /\ job'[i] = JobRegistered(s)
      /\ \A k \in Jobs : k # i => job'[k] = job[k]
  BY <1>a, QueueFill
<1>2. SameTasks
  BY DEF RegisterDone, SameTasks
<1>3. \A k \in Jobs : Attached(job[k]) =>
        /\ Attached(job'[k]) /\ job'[k].sub = job[k].sub /\ JobFrames(k)' = JobFrames(k)
        /\ Depends(k)' = Depends(k) /\ Before(k)' = Before(k)
  BY <1>1 DEF JobFrames, JobName, Depends, Before
<1>4. Shown' = Shown
  <2>1. \A y : y \in Shown <=> /\ y \in Works
                              /\ \E k \in Jobs : /\ Attached(job[k]) /\ JobName(job[k]) = y[1]
                                                 /\ job[k].fi[y[2]].status = "FINISHED"
    BY DEF Shown
  <2>2. \A y : y \in Shown' <=> /\ y \in Works
                               /\ \E k \in Jobs : /\ Attached(job'[k]) /\ JobName(job'[k]) = y[1]
                                                  /\ job'[k].fi[y[2]].status = "FINISHED"
    BY DEF Shown
  <2>3. \A f \in Frames : job'[i].fi[f].status = "WAITING"
    BY <1>1, JobFilled
  <2>4. \A y \in Works : y[2] \in Frames
    BY DEF Works
  <2>5. \A k \in Jobs : Attached(job[k]) => k # i /\ job'[k] = job[k]
    BY <1>1
  <2>6. \A y \in Works, k \in Jobs : Attached(job'[k]) /\ job'[k].fi[y[2]].status = "FINISHED" =>
          k # i /\ job'[k] = job[k]
    BY <1>1, <2>3, <2>4
  <2>7. \A y : y \in Shown => y \in Shown'
    BY <2>1, <2>2, <2>5
  <2>8. \A y : y \in Shown' => y \in Shown
    BY <2>1, <2>2, <2>6
  <2> QED
    BY <2>7, <2>8
<1>5. \A x : x \in Queued <=> \E k \in Jobs : InQueue(k) /\ x \in JobFrames(k)
  BY DEF Queued
<1>6. \A x : x \in Queued' <=> \E k \in Jobs : InQueue(k)' /\ x \in JobFrames(k)'
  BY DEF Queued
<1>7. \A k \in Jobs : InQueue(k) => Attached(job[k]) /\ (Depends(k) => Before(k) \in Jobs /\ Attached(job[Before(k)]))
  BY NamesOfJobs DEF InQueue
<1>8. \A k \in Jobs : InQueue(k) => InQueue(k)'
  <2> SUFFICES ASSUME NEW k \in Jobs, InQueue(k) PROVE InQueue(k)'
    OBVIOUS
  <2>1. Attached(job'[k]) /\ job'[k].sub = job[k].sub
    BY <1>3, <1>7
  <2>2. Depends(k) => Attached(job'[Before(k)])
    BY <1>3, <1>7
  <2> QED
    BY <2>1, <2>2 DEF InQueue, Depends, Before
<1>9. Queued \subseteq Queued'
  BY <1>3, <1>5, <1>6, <1>7, <1>8
<1>10. \A k \in Jobs : Attached(job'[k]) => JobFrames(k)' \subseteq Works /\ (Depends(k)' => Before(k)' \in Jobs)
  <2> SUFFICES ASSUME NEW k \in Jobs, Attached(job'[k])
               PROVE  JobFrames(k)' \subseteq Works /\ (Depends(k)' => Before(k)' \in Jobs)
    OBVIOUS
  <2>1. job'[k].sub \in Subs
    BY DEF TypeOK, JobRecord, Attached
  <2> QED
    BY <2>1, SubsAssumption, NullsAssumption DEF JobFrames, JobName, Depends, Before, Works
<1>11. Queued' \subseteq Works
  BY <1>6, <1>10 DEF InQueue
<1>12. \A z : z \in Waits <=> \E k \in Jobs : InQueue(k) /\ Depends(k) /\ z \in JobFrames(k) \X JobFrames(Before(k))
  BY DEF Waits
<1>13. \A z : z \in Waits' <=> \E k \in Jobs : InQueue(k)' /\ Depends(k)' /\ z \in (JobFrames(k) \X JobFrames(Before(k)))'
  BY DEF Waits
<1>14. Waits' \subseteq Queued' \X Works
  <2> SUFFICES ASSUME NEW z \in Waits' PROVE z \in Queued' \X Works
    OBVIOUS
  <2>1. PICK k \in Jobs : InQueue(k)' /\ Depends(k)' /\ z \in (JobFrames(k) \X JobFrames(Before(k)))'
    BY <1>13
  <2>2. Attached(job'[k]) /\ Attached(job'[Before(k)'])
    BY <2>1 DEF InQueue, Depends, Before
  <2>3. PICK m : m = Before(k)' /\ m \in Jobs
    BY <1>10, <2>1, <2>2
  <2>4. z \in JobFrames(k)' \X JobFrames(m)'
    BY <2>1, <2>3 DEF JobFrames
  <2> QED
    BY <1>6, <1>10, <2>1, <2>2, <2>3, <2>4
<1>15. \A x \in Queued, y \in Works : <<x, y>> \in Waits' <=> <<x, y>> \in Waits
  <2> SUFFICES ASSUME NEW x \in Queued, NEW y \in Works PROVE <<x, y>> \in Waits' <=> <<x, y>> \in Waits
    OBVIOUS
  <2>1. PICK k \in Jobs : InQueue(k) /\ x \in JobFrames(k)
    BY <1>5
  <2>2. Attached(job[k]) /\ x[1] = JobName(job[k]) /\ Attached(job'[k]) /\ JobName(job'[k]) = JobName(job[k])
    BY <1>3, <1>7, <2>1 DEF JobFrames, JobName
  <2>3. \A m \in Jobs : InQueue(m) /\ x \in JobFrames(m) => m = k
    BY <1>a, <1>7, <2>2, NamesApart DEF JobFrames
  <2>4. ASSUME NEW m \in Jobs, InQueue(m)', x \in JobFrames(m)' PROVE m = k
    <3>1. Attached(job'[m]) /\ JobName(job'[m]) = JobName(job'[k])
      BY <2>2, <2>4 DEF InQueue, JobFrames
    <3>2. job'[m].sub \in Subs /\ job'[k].sub \in Subs
      BY <2>2, <3>1 DEF TypeOK, JobRecord, Attached
    <3>3. job'[m].sub = job'[k].sub
      BY <3>1, <3>2, NullsAssumption DEF JobName, Quiet
    <3> QED
      BY <2>2, <3>1, <3>3 DEF QueueInv, SentOnce
  <2>5. <<x, y>> \in Waits <=> Depends(k) /\ y \in JobFrames(Before(k))
    BY <1>12, <2>1, <2>3
  <2>6. <<x, y>> \in Waits' <=> Depends(k)' /\ y \in JobFrames(Before(k))'
    <3>1. \A m \in Jobs : InQueue(m)' /\ Depends(m)' /\ <<x, y>> \in (JobFrames(m) \X JobFrames(Before(m)))' => m = k
      BY <2>4
    <3>2. InQueue(k)' /\ x \in JobFrames(k)'
      BY <1>3, <1>7, <1>8, <2>1
    <3> QED
      BY <1>13, <3>1, <3>2
  <2>7. (Depends(k)' <=> Depends(k)) /\ (Depends(k) => JobFrames(Before(k))' = JobFrames(Before(k)))
    <3>1. Attached(job[k])
      BY <2>2
    <3>2. Depends(k) => Before(k) \in Jobs /\ Attached(job[Before(k)])
      BY <1>7, <2>1
    <3>3. job'[k].sub = job[k].sub /\ (Depends(k) => job'[Before(k)].sub = job[Before(k)].sub)
      BY <1>3, <3>1, <3>2
    <3> QED
      BY <3>3 DEF Depends, Before, JobFrames, JobName
  <2> QED
    BY <2>5, <2>6, <2>7
<1>16. UNCHANGED <<[w \in Workers |-> Rendering(w)], ended>>
  BY <1>2, SameAt
<1>17. F!Submit
  BY <1>4, <1>9, <1>11, <1>14, <1>15, <1>16 DEF F!Submit
<1> QED
  BY <1>17 DEF F!Next

LEMMA FarmInitStep ==
  ASSUME HInit
  PROVE  F!Init
<1> USE DEF HInit, Init
<1>1. \A j \in Jobs : ~ Attached(job[j])
  BY DEF JobInit, Attached
<1>2. \A w \in Workers : Rendering(w) = NoTask
  BY DEF Rendering, Workers, SlaveDown
<1>3. Shown = {}
  BY <1>1 DEF Shown
<1>4. Queued = {} /\ Waits = {}
  <2>1. {k \in Jobs : InQueue(k)} = {} /\ {k \in Jobs : InQueue(k) /\ Depends(k)} = {}
    BY <1>1 DEF InQueue
  <2> QED
    BY <2>1 DEF Queued, Waits
<1>5. [w \in Workers |-> Rendering(w)] = [w \in Workers |-> NoTask]
  BY <1>2
<1> QED
  BY <1>3, <1>4, <1>5 DEF F!Init

LEMMA FarmSimulates ==
  ASSUME Quiet, TypeOK, TypeOK', FarmInv, FarmInv', [HNext]_hvars
  PROVE  [F!Next]_F!vars
<1>1. CASE UNCHANGED hvars
  <2>1. UNCHANGED job /\ SameTasks /\ UNCHANGED ended
    BY <1>1 DEF hvars, SameTasks
  <2>2. SameQueue
    BY <2>1 DEF SameQueue
  <2>3. UNCHANGED <<[w \in Workers |-> Rendering(w)], ended, Shown, Queued, Waits>>
    BY <2>1, <2>2, SameAt, SameWaits DEF Shown
  <2> QED
    BY <2>3 DEF F!vars
<1>2. CASE HNext
  <2>1. QuietStep
    BY <1>2, QuietSteps DEF HNext, FarmInv
  <2>2. CASE TaskOver
    BY <1>2, <2>2, EndStep DEF TaskOver
  <2>3. ASSUME ~ TaskOver PROVE ended' = ended
    BY <1>2, <2>3, EndedNow
  <2>4. ASSUME ~ TaskOver, NEW j \in Jobs, NEW s \in Subs, RegisterDone(j, s) PROVE F!Next
    BY <2>3, <2>4, SubmitStep DEF FarmInv
  <2>5. ASSUME ~ TaskOver, NEW h \in Handlers, SendTask(h) PROVE F!Next
    BY <2>3, <2>5, StartStep
  <2>6. ASSUME ~ TaskOver, NEW r \in fin, TaskFinished(r) PROVE F!Next
    BY <2>3, <2>6, ShowStep
  <2>7. ASSUME ~ TaskOver, SameTasks, QuietJobs PROVE F!Next
    BY <2>3, <2>7, FewerShown, ForgetStep DEF QuietJobs
  <2> QED
    BY <2>1, <2>2, <2>4, <2>5, <2>6, <2>7, OtherSteps
<1> QED
  BY <1>1, <1>2

(* Master implements Farm: no two slots render one frame, none is shown    *)
(* FINISHED before a task ended it, and no dependent job starts too early. *)
THEOREM MasterImplementsFarm == ASSUME Quiet PROVE HSpec => ImplementsFarm
<1>1. TypeOK /\ TypeOK' /\ FarmInv /\ FarmInv' /\ [HNext]_hvars => [F!Next]_F!vars
  BY FarmSimulates
<1> QED
  BY <1>1, FarmInitStep, TypesOfFarm, FarmInvariant, PTL DEF HSpec, ImplementsFarm, F!Spec
=============================================================================
