# A TLA+ development of DrQueue

DrQueue distributes the frames of render jobs over the computers of a farm. A
*master* keeps the queue in shared memory and forks one process per connection;
a *slave* on each computer asks it for frames and runs them as tasks; users
submit and change jobs with `sendjob`, `drqman`, the command line tools and the
python bindings. This directory models the queue with everything that works on
it at the same time, both ends of every request, the inside of a slave, what the
master keeps over a stop or a crash, and the way from a scene to its rendered
frames; it checks them with TLC on small instances, and proves the main
invariants of the queue, of the order of its jobs, of a slave, of what the master
keeps, of the requests and of submissions with TLAPS for instances of every size.

Paths and line numbers are those of the repository (`src/` there is `src/`
here); `PROJECT.json` maps every definition to the lines it stands for.

## 1. Inventory

### Components

| Component | State | Operations | Makes it correct | Module |
|---|---|---|---|---|
| Job queue (`job.c`) | `wdb->job[MAXJOBS]`: used, status, nprocs, flags, limits; the frames of each job in a shared segment: status, icomp, itask, requeued, flags | `job_init_registered`, `job_available`, `job_first_frame_available`, `job_update_assigned`, `job_frame_waiting`, `job_update_info`, `job_check_frame_status`, `job_delete`, `job_stop`, `job_continue` | no frame is lost or rendered twice at once; the status of a job follows its frames | `Jobs`, `Master` |
| Request handlers (`request.c`) | one process per connection; the frame it reserved, the slave it talks to | some 60 `handle_r_r_*` | every way out of a handler leaves the queue as if the request had not come or had been done; the two ends agree on what they send | `Master`, `JobDialogues`, `FrameDialogues` |
| Communications, semaphores | sockets; one lock in the master, one in the slave | `send_*`, `recv_*`, `check_send_datasize`; lock, release, `SEM_UNDO` | mutual exclusion, nothing misread, an end to every connection | `Messages`, `Dialogue` |
| Master process (`master.c`) | children, signals | accept loop, consistency process, `SIGALRM`, `SIGPIPE`, `clean_out` | somebody always accepts; a stop ends and keeps the queue | `Storage`, `Master` |
| Database file (`database.c`) | `drqueue.db` | save, load | what is loaded is what was saved | `Storage` |
| Lists: blocked hosts, environment variables, pools (`job.c`, `envvars.c`, `computer_pool.c`) | a count and a segment each | add, remove, receive, load | the count is that of the segment | `SharedLists` |
| Job order (`handle_r_r_availjob`, `priority_job_compare`) | `wdb->lb`: saved order, `next_i`, `last_priority` | the search of a handler | no job overlooked; jobs of one priority take turns | `LoadBalance` |
| Computer table (`computer.c`) | `wdb->computer[MAXCOMPUTERS]`: used, copy of the slave's tasks, limits, last connection | registration, status, expiry, `computer_update_assigned`, `computer_nrunning_job`, `computer_available` | a record is what the slave last said | `Jobs`, `Master`, `Slave` |
| Slave (`slave.c`, `task.c`) | its task table in shared memory; a process and a waiter per task | `task_available`, `launch_task`, kill, `clean_out`, consistency process | a slot is reserved by one request, used by one task, and given back | `Slave` |
| Frame numbers and changes of range (`job.c`, `handle_r_r_jobsesup`) | start, end, step, block of a job | number from and to index; moving the frames to a new table | numbers and indices are inverse; finished frames stay finished | `FrameNumbers`, `Submission` |
| Script generators (`*sg.c`, `jobscript.c`), templates (`etc/*_sg.py`), `sendjob`, `drqman`'s submissions | script files | variables, template, registration | a script has the names it reads and renders what was asked | `Generators`, `Templates`, `Submission` |
| `drqman`'s lists and details, command line clients, configuration, logging, computer information, bindings | copies to show | one request each | | not modelled (section 5) |

### How they interact

The slave's main process alternates two connections: `R_R_UCSTATUS` with its
task table, and `R_R_AVAILJOB`. For the second, the handler searches the jobs;
`job_available` reserves the first waiting frame under the lock (status
ASSIGNED, `itask` -1) and *unlocks*. The slave answers with the index of a task
slot it reserved; the handler locks again, writes the slot into the frame and
the task into its copy of the computer, unlocks, and sends the task. When the
task's process ends, its waiter sends `R_R_TASKFINI` over a connection of its
own. Meanwhile users stop, continue, rerun and delete jobs and kill, finish and
requeue frames or change a job's range, and the consistency process copies the frames of one job after
the other, compares each with the tasks of the computer it names and writes
back what it concludes.

### What is hard

* *Two sections for one request.* Between reservation and assignment the job may
  be stopped, deleted, replaced or checked, and the handler may be ended by
  `SIGALRM` (`MAXTIMECONNECTION`, 30 s) or `SIGPIPE` wherever it is.
* *Decisions on copies.* `job_update_info` decides on a copy of the frames and
  writes its counts and requeues over what changed since.
* *Lost or late messages.* A report is sent once. A status may overtake or be
  overtaken by the assignment of a task.
* *Names for reuse.* Reports, kills and dependencies name a job slot, a frame and
  a task slot; each may hold something else by the time they arrive.
* *Unlocked state.* `wdb->lb`, the record `send_task` reads, the slot of a
  job that is being received, lists that are counted and then sent, the tasks of
  a slave that its checks look at.
* *Two ends and a lock each.* Every record is preceded by its size in both
  directions; handlers hold a semaphore over sends, receives and calls.
* *Processes end.* A queue is written to its file while children still serve; a
  slave waits for waiters that may be about to report to a master that is gone.
* *Shared names.* A script file is named after its scene and the second.

`PROJECT.json` lists these one by one under `hazards`, each at its line.

## 2. The modules

| Module | What it is |
|---|---|
| `Jobs` | records of jobs, frames and tasks, and what each critical section does to one of them (operators only) |
| `Master` | the processes around the queue: registrations, handlers of `R_R_AVAILJOB` with the slave's end, statuses, task reports, user requests, consistency process, faults |
| `Farm` | abstract specification: workers render frames, no hosts or messages |
| `MasterFarm` | `Master` with a history variable and the refinement mapping to `Farm` |
| `LoadBalance` | the order in which handlers look at the jobs |
| `Messages` | sends, receives and locks as scripts (operators only) |
| `JobDialogues`, `FrameDialogues` | the two functions of every request as scripts (operators only) |
| `Dialogue` | two ends that go through their scripts, with queues, semaphores and faults |
| `Slave` | a slave from inside |
| `SharedLists` | what each call that changes a list in a segment leaves, for each failure in it (operators only) |
| `Storage` | main, its children, the queue in memory and in the file |
| `FrameNumbers` | numbers and indices of frames, what a task is told (operators only) |
| `Generators`, `Templates` | what each script generator writes, and each template reads and renders (operators only) |
| `Submission` | from the client's order to the rendered frames |
| `MasterProofs`, `MasterFarmProofs`, `LoadBalanceProofs`, `SlaveProofs`, `StorageProofs`, `DialogueProofs`, `SubmissionProofs` | theorems |
| `SharedListsProofs` | lemmas on the operators of `SharedLists`, for lists of any length |
| `MasterMC`, `MasterFarmMC`, `DialogueMC`, `SubmissionMC` | values of constants the `.cfg` files cannot write |

`Master` composes with `Farm` by refinement and takes its records from `Jobs`;
`Dialogue` is composed of `Messages` and the scripts; `Storage` of `SharedLists`;
`Submission` of `FrameNumbers`, `Templates` and `Generators`. `Slave` and
`Dialogue` are the insides of what `Master` has as one step: the slave's table and
its processes, and the exchange of messages.

### Master

A critical section under `wdb->semid` is one action. What a process remembers
between two sections is state:

* `conn[h]`, a handler of `R_R_AVAILJOB` and the slave at the other end: `scan`
  (looking at jobs), `offered` (frame reserved, waiting for the slave's slot),
  `confirmed` (slot known, not assigned yet), `send` (assigned, task not sent),
  with `up` whether the slave still listens;
* `chk`, the consistency process: the job it is at and the copy of its frames;
* `regs`, registrations between marking the slot and filling it;
* `slave`, the slave's own table and which slots have a process, as opposed to
  `comp`, the master's copy;
* `ucs`, `fin`, `kills`: messages sent and not handled.

| Action | Code |
|---|---|
| `RegisterReserve`, `RegisterDone`, `RegisterFails` | `handle_r_r_regisjob`, `job_init_registered` |
| `Ask`, `Reserve`, `SkipJob`, `NoAvailableJob` | slave main loop; `handle_r_r_availjob` with `job_available`, `job_first_frame_available` |
| `Confirm`, `Assign`, `SendTask`, `GiveUp`, `SendTaskFails` | `request_job_available` and the second half of `handle_r_r_availjob` |
| `HandlerDies`, `LinkBreaks` | `SIGALRM`/`SIGPIPE` handlers; a connection that breaks |
| `SlaveStarts`, `SlaveRejected`, `SlaveExits`, `SlaveCrashes` | `handle_r_r_register`, answer NOREGIS, `clean_out` with `handle_r_r_slavexit`, power loss |
| `SendStatus`, `StoreStatus`, `StatusLost` | `update_computer_status`, `handle_r_r_ucstatus` |
| `TaskExits`, `TaskCrashes`, `KillArrives`, `TaskFinished`, `ReportLost` | `launch_task`'s waiter, `handle_rs_r_killtask`, `handle_r_r_taskfini` |
| `StopJob` ... `FrameResetRequeued` | ten `handle_r_r_*` requests of users |
| `ExpireComputer`, `CheckJob`, `CheckFrame`, `CheckDone` | `check_lastconn_times`, `job_update_info`, `job_check_frame_status` |

Abstractions, and why they lose nothing the properties see:

* Frames are indices; numbers are arithmetic over them (`FrameNumbers`).
* A submission is everything a client sends; limits, flags and allowed hosts are
  functions of it (`MaxCpus`, `AutoDelete`, `Allowed`, ...).
* `icomp`/`itask` are forgotten when a frame is not ASSIGNED: no code reads them
  then. `requeued` saturates at `MAX_REQUEUES`, with which alone it is compared.
* LOADING and RUNNING are one `busy`: the master treats them alike everywhere but
  in what it shows.
* A handler looks at the jobs in any order, a superset of `LoadBalance`'s.
* A dead or silent slave's messages are handled before its record expires:
  `MAXTIMENOCONN` (240 s) exceeds `MAXTIMECONNECTION` (30 s).
* A computer keeps its record in the master; `Comps` are the indices.
* A kill reaches the task it is for or nothing. For a frame whose task slot is not
  known yet the slave indexes its table with -1, and what it signals is not
  defined; for a slot without a process it signals its own group, which ends the
  slave: that is in `Slave`, and to the master it is an exit of the slave.
* A slave does not reuse a slot whose process still runs (bound, stated at `Ask`).
* At most one status of a slave is under way unless `"delay"` is among the faults.

Faults and user requests share one budget, `MaxDisturb`; a run names the ones it
lets happen (`Faults`, `Ops`).

### LoadBalance

One action per look at a job, since each takes the lock by itself, with the
reads and writes of `next_i` and `last_priority` in between unlocked: `Take`
sets `next_i` and `Offer`, a step later, `last_priority`. The five phases are the
five loops of `handle_r_r_availjob`. Whether a look finds the job available is
free, as it depends on all of `Master`; `missed` remembers the jobs found
unavailable. Comparing and saving the order is one step, though it is not
locked either: a mixture of two saved orders would at most make the next search
take them for different.

### Farm

`at` says which frame each worker renders, `ended` which ended by themselves at
least once, `done` which are shown FINISHED, `queued` which are in the queue and
`before` for which frames each of them waits. `MasterFarm` maps a task slot with a
process to a worker, `Show` to the report that makes a frame FINISHED, and `Submit` to
the end of a registration: a job that depends on another is in the queue of `Farm` once
that one is in its slot, and what a frame waits for never changes after that.
`ended` grows when a task exits or crashes, not when it is killed. The users'
"finish frame" and "kill" requests are promises of another kind (they show a frame
finished that nobody rendered) and are not among the operations of the runs that
check the refinement.

### Messages, JobDialogues, FrameDialogues, Dialogue

A function that talks over a connection is a *script*: a set of traces, one per way
it can go, of events `put`, `take`, `compare`, `lock`, `release`, `do` (a change of
shared memory), `call` (a connection to somebody else, or a signal) and giving
up. Each event says what the function does when the transfer fails: return with
the semaphore as it is, undo and return, go on, return as if nothing had happened,
or end the process. Scripts are composed as the code composes its calls:
`send_job` tells sizes (`check_send_datasize`) and sends the record, then variables.
Of a message there is its kind, and its value where the other end looks at it.

`Dialogue` takes one request out of the 36 of the master and the 8 of the slave,
and lets the asking function and the handler follow their scripts, each end with a
queue of what was sent to it, a semaphore with other users, and `SEM_UNDO`. The
link may break, the client's host may fall silent, a record may have another
size at the other end, the alarm may come at any time. What the receiver does
not get to read is lost. A handler's alarm is always possible when nobody can go on.

### Slave

Main alternates `get_computer_status`, autoenable, `computer_available`,
`request_job_available`, `launch_task`, status and `select`; each task has a waiter
and a process; the check goes round the slots; the listener's children change the
limits and kill. A section under the semaphore is a step, and each unlocked read of
the check, of the waiter's report and of a kill is a step of its own, which is
where it goes wrong. `aged` says whether MAXTASKLOADINGTIME has passed; the load is any
number. `freed` and `left` are histories the properties need. What a handler at
the master does is free: it has a job or not, and its connection may fail.

### Storage and SharedLists

Main is off, loads, serves or cleans out (`save`, `write`, `kill`, `wait`, `free`,
in the order of `clean_out`); a child is just forked (main's signal handlers still set),
accepts, receives a registration, holds the semaphore over a change, or cleans
out too. The file is emptied by the open and written job by job. A list is a
count and an identifier, `heap` has the segments; each change of a list is one
step with the system call that fails in it as a parameter. Faults: a call that
fails, a full disk, a peer that does not answer, the checker or main killed, a reboot,
a signal to the whole group. `saved`, `owed` and `spoiled` are histories. In one
behaviour one kind of list changes (`Kinds`).

### Submission, Generators, Templates, FrameNumbers

A client asks for a range of frames with an engine, a set of given parameters and
a kind of image. Its generator writes variables, one after the other, and the
template into the script file, which another client may be writing too; then the job is
registered, `job_available` hands its frames to slots, `launch_task` runs the
script with the numbers of the frame's block, and the report settles the frame
by its number. The range may be changed meanwhile; the check frees frames whose
slot is gone. `Templates` has per engine which names it reads, on which system it
fails, and which frames its command asks for: one, a block, or a range with steps.
Numbers are unsigned and taken modulo `2^Width`.

The values of parameters, the wording of commands and the exit code of the
renderer beyond its success are left out: that a frame is rendered means that a
command asked the renderer for it.

## 3. What the runs check

| Run | Properties | Instance |
|---|---|---|
| `Master_requests` | `TypeOK` | 2 submissions for 1 job slot, 2 handlers, all ten requests, broken links and signals, two in a behaviour |
| `Master_faults` | `ReservedFrameHasHandler`, `ReservedSlotHasConnection` | 1 job, 2 handlers, every fault but signals, two in a behaviour |
| `Master_progress` | `FrameSettles`, `JobSettles` | fair; slave crashes and exits, links, lost messages, crashed tasks, two in a behaviour |
| `Farm_renderer` | `ImplementsFarm` | 2 computers for 1 frame, 2 handlers, signals, lost messages, crashed tasks, stop/continue, two in a behaviour |
| `Farm_dependency` | `ImplementsFarm`, `SlotsKept` | 2 jobs, the second depends on the first, one disturbance |
| `LoadBalance_search` | `TypeOK`, `NoJobIsTrue` | 3 jobs, 2 searches, every initial table with 2 priorities, one change of the queue |
| `LoadBalance_turns` | `ForemostIsServed` | the same, fair, no change of the queue |
| `Dialogue` | `NothingIsMisread`, `NobodyWaitsForEver`, `NothingIsLeft`, `SuccessIsTrue`, `ReleasedByHolder`, `SlavesCallUnlocked`, `ChangedUnderSemaphore`, `DialogueEnds` | all 44 requests, lists of at most one entry, all faults |
| `Slave` | `TypeOK`, `CpusSuffice`, `ReportIsOwn`, `NobodyLeftBehind`, `SlotComesFree`, `IdleAsks` | 2 slots, 2 tasks, 1 processor, 1 change or kill, all faults |
| `Storage` | `TypeOK`, `ListIsValid`, `QueueKept`, `NewMasterAnswers`, `OneEntryChanges`, `RestartIsSnapshot`, `ServiceContinues`, `StopEnds` | 2 job slots, 2 children, 4 segments, 2 names, 2 requests, 1 fault |
| `Submission` | `TypeOK`, `ExitZeroIsRendered`, `RenderedAsAsked`, `RenderedOnce`, `NamesAreSet`, `ToldTheTruth`, `JobEnds` | every engine of both clients, six shapes of range, changes of range, 2 slots or 2 clients, 3-bit numbers |
| `Claim_orphan` | `ReservedFrameHasHandler` | expected to be violated, see below |

### Why these bounds

*Master.* The races are between one handler, one user, one report and
one pass of the check around *one* frame, so one frame per job is enough. A
second handler gives the reservations that interleave; a second submission for one slot
gives reuse of its index; two computers give two renderers. Two disturbances are
the least with which a repair can itself be disturbed. `MaxRequeues` 1 instead
of 3 reaches the limit. `LoadBalance` needs three ranks: a first, a last (which
the code treats apart) and one in between.

*Dialogue.* A request is one exchange, and the code handles each entry of a list
alike; an empty list and one with an entry differ, and a list sent live may have
either length whatever was announced.

*Slave.* Two slots are the least in which one can be freed and used again while a
waiter still has the other; two tasks are the least that can be mixed up; with one processor the
second is one too many.

*Storage.* Two slots, so that a save can be interrupted between jobs and a deleted
reservation can be overwritten; two children are MASTERNCHILDREN and let one clean
out while another receives; four segments are one fewer than the lists can need, so
that none is left; two requests let one change of a list meet another.

*Submission.* Three frames are the least with which a block of two leaves a part of
a block; three bits reach the wrap of the number of frames; two seconds tell
clients that share a script from those that do not. The range changes once; after
two changes a frame taken out and put back is a new one and may be rendered again.

Deadlock is checked for `LoadBalance` and `Dialogue`. The others may rightly stop:
`Master` when every frame is settled and the budget of disturbances is spent, `Slave` and
`Storage` when the process has exited, `Submission` when all frames are settled.

### What passes, in words

*Queue.* A frame that is reserved but whose task slot is not known
always has the handler that reserved it (the consistency process never repairs
such a frame, so this is what keeps it from being lost), as long as no signal ends
handlers. A slot reserved in a slave always has its request. Two registrations
never receive into one slot, unless users delete what is being received. Under
fairness, each frame is FINISHED or ERROR at
least once and its job then reads FINISHED, although up to two faults lose
slaves, links, statuses and reports. No two computers render one frame at once,
no frame is shown FINISHED before a task ended rendering it, no dependent job
starts early. A computer is told that there is no job only when its handler
found each one unavailable.

*Connections.* Neither end ever takes one kind of message for another, not even
where a list is sent live; no two ends wait for each other while the link is up, but
for four requests whose handler waits for itself; nothing that was sent stays
unread, but for live lists; who is told that a job is registered or a frame
assigned is told the truth although the link may break anywhere; shared memory
changes under the semaphore; it is released by its holder, but for one
request; no handler of a slave calls the master with the slave's semaphore held;
and whatever happens, both ends end and the master's semaphore is given back.

*Slave.* No more tasks run than processors and each waiter reports its own task, as long as
the checks freed no slot under a waiter; when main has ended through `clean_out` nothing is
left running; every slot in use is free again; an idle slave asks.

*Storage.* A list's count and segment agree whatever fails; a change costs no entry but
its own; a restart loads the queue of one moment or none; an acknowledged job
survives a stop; no child of an earlier master takes clients beside a new one;
somebody accepts again and again; a stop ends.

*Submission.* A frame finished with exit code 0 was rendered, every number of it and from its
own scene; nothing is rendered that was not asked for, nothing twice; scripts have the
names they read; the user is told what happened; every frame settles.

### Exceptions, and other behaviours met while modelling

Where a property names an exception, the code is known to do otherwise; the lines
are here. None of these contradicts a statement of the repository itself but the first.

Queue:

* `Claim_orphan`: `request.c:704` says a frame must be set back if something
  fails; a handler that a signal ends does not, and no check repairs it.
* The check requeues a frame that was reported finished since its copy
  (`job.c:733`), and a pass of it writes an old count over `nprocs` (593), so that one
  more task than `nmaxcpus` may start.
* A job stopped between reservation and assignment becomes ACTIVE again (`job.c:415`).
* `request_codes.h:41` says R_R_JOBFFINI is for waiting frames only; the handler
  also finishes assigned ones. `request_codes.h:40` says a killed frame goes to
  WAITING; without `autoRequeue`, or with no requeues left, it ends in ERROR.
* A job deleted between offer and assignment makes `send_task` send the record its
  task slot had before (`request.c:858`).
* A job that depends on one with JF_JOBDELETE never starts: the slot reads WAITING
  after the deletion.
* The last rank of the order is not looked at in a ring (`request.c:718`), so the
  newest job of the lowest priority gets a frame only when no other job does.
  Free slots have the default priority and rank before such jobs, so this needs
  no full table. A computer that no job fits sets `next_i` to 0 for all (784).

Connections:

* `R_R_JOBBLKHOSTNAME` locks twice (`request.c:4339`); `R_R_JOBLNMCS`, `R_R_JOBLNMCCS` and
  `R_R_JOBPRIUP` return locked for a bad index (3865, 3938, 4011), after which the switch
  locks again. The alarm ends the handler. `R_R_JOBLSTBLKHOST` releases what it
  never took (2809); `R_R_JOBDELBLKHOST` returns locked when it cannot attach
  (2688, 2691, 2694, 2716).
* Counts are sent before the lists and without the semaphore (`request.c:1206`, 2802,
  4154, `communications.c:646`), and the number of frames comes from an older copy (1870).
* Registration of a slave and `R_R_JOBFINFO` receive with the semaphore held
  (`request.c:306`, 1993): a silent peer stops the master until the alarm.
* `handle_r_r_jobsesup` copies an address through a pointer never set (3642).
* Copies of a slave's limits are sent after the unlock and may arrive in the other
  order (3165, 3191, 3231). `Dialogue` has one exchange at a time and does not show it.

Slave:

* Its check frees a FINISHED slot older than a minute though the waiter may still report
  (`slave.c:473`), marks a FINISHED one as RUNNING (485), and frees a reserved
  slot that still has the pid of an earlier task; `get_computer_status` frees a slot whose
  waiter has not marked it yet (`computer_status.c:84`). The waiter then reports and
  frees another task, or `nrunning` stays too high and the slave stops asking.
* A kill for a slot without a pid signals the whole slave (`request.c:1405`). A lost
  master while reporting ends the slave (`slave.c:997`). If the waiter cannot be
  forked main exits and leaves its tasks (718); a task that cannot be forked has
  pid -1 (649).
* A signal that finds main with the semaphore starts `clean_out` inside the section,
  which waits for waiters that wait for the semaphore (220). Sections are one step
  here, so this is not modelled.

Storage:

* A child just forked has main's signal handlers (`master.c:130` and 304): two
  processes clean out at once, and the file may mix or lose jobs.
* A save empties the file first (`database.c:262`): a crash, a full disk or a list that
  cannot be attached loses the queue. A failed save returns with the semaphore (274,
  279, 287, 304).
* A registration whose reservation was deleted overwrites the job that got its slot
  (`request.c:626`). A job acknowledged after the save is lost. A slot that is being received is
  saved as a job.
* Without a segment `envvars_variable_add` frees the list (`envvars.c:306`); a pool list
  that cannot be attached is forgotten; the last pool, and by name the last blocked host,
  cannot be removed, as their new list has no bytes. A slave that registers
  again leaves the segment of its pools behind (`request.c:333`).
* The death of the checker is counted as that of a child (`master.c:162`), after which there may be
  one child more than MASTERNCHILDREN.
* A handler ended between the removal of a list and its new identifier leaves
  the job with a list that is gone (`request.c:2895`, `job.c:1394`): list changes are
  one step here, so this is not modelled.

Submission:

* Templates read `DRQUEUE_PADFRAMES` as one number (`etc/maya_sg.py:43`), which fails for
  blocks of several frames, whose list has blanks (`task.c:168`): exit code 1, which finishes the
  frame (`request.c:1114`). The list ignores the step. `sendjob` sets the block to the step for
  Blender and Luxrender (`sendjob.cpp:573`, 1278).
* Script files are named after scene and second and appended to (`jobscript.c:43`).
  Nobody looks whether the template was read (237): the script does nothing and succeeds.
* A script whose renderer fails sends SIGINT to its parent; the waiter ignores
  it (`slave.c:416`), and the frame is finished with 1 and not requeued.
* Names are missing for a width without a height, an unknown Maya renderer, single images of
  Mental Ray, and Nuke, Pixie, Shake, Terragen and VRay on Windows. `mantra_sg.py` and, on
  Linux, `cinema4d_sg.py` always stop before the command. Two kinds of engine leave a file with
  variables only when the kind of image is unknown.
* `sendjob` goes on from XSI into Luxrender and reports failure (`sendjob.cpp:208`).
* A change of range with blocks copies one record to several frames (`request.c:3600`).
* Nothing refuses a job whose block size times step wraps to zero in 32 bits (65536 and 65536),
  and `job_frame_number_to_index` divides by it (`job.c:838`). `WorkloadsAssumption` leaves
  such jobs out.

### Fairness

`Master!Fairness` assumes that the kernel runs every process (weak fairness of
handlers, the check, tasks, waiters) and that the slave's loop and the check come
round again and again (strong fairness of `Ask`, `SendStatus` and
`ExpireComputer`, whose guards are false now and then: the slave sends a status
every few seconds while it is not in a request, the check visits every computer in
every round). A slave that is down is started again by its operator. Nothing is
assumed of faults and user requests. `LoadBalance!FairSpec`: slaves keep asking
while they have a free slot.

`Dialogue!Spec`: each end runs, and gets the semaphore in its turn (System V
semaphores queue their waiters), which is strong fairness of `Step`; others release it;
the alarm comes. `Slave!Spec`: each process runs; a task ends; strong fairness of
`TaskAvailable` and `ComputerAvailable(0)` says that a master with jobs gives one out at
last and that the load of an idle computer sinks. `Storage!Fairness`: main forks and waits, a
child sets its handlers and returns from its connection (its alarm), `clean_out`
goes on; clients need not talk. `Submission!Fairness`: slots ask, tasks end and are reported, the
check goes round.

## 4. What is proved

Every theorem holds for all values of the constants under the named assumptions
of `Jobs`, `Master`, `MasterFarm`, `LoadBalance`, `Slave`, `SharedLists`, `Storage`,
`Messages`, `Dialogue`, `FrameNumbers` and `Submission`,
which give them their types and keep marks apart from data: the null values from
the names, `Gone` (no segment) from the texts of segments and the records of jobs,
`Idle` from the frames, the main process from its children. `Storage` has at least one
child, as MASTERNCHILDREN is 2. Where a theorem has a further hypothesis it is named below.

The queue:

* `MasterProofs!TypeCorrect`: `Spec => []TypeOK`.
* `MasterProofs!SlotsHeld`: `Spec => []ReservedSlotHasConnection`, with every
  fault and request. Inductive relative to `TypeOK`: a slot gets reserved only by
  `Confirm`, which makes the connection that holds it, and each step that ends or
  breaks a connection clears the slot or starts the task.
* `MasterProofs!FramesHeld`: `Spec => []ReservedFrameHasHandler` if `"signal"` is
  not among the faults. Not inductive alone: `BackToWaiting` and `Assign` do nothing
  when the job's frames cannot be attached, so a reserved frame of such a job would
  be stranded. `AssignedAreAttached` (only attached jobs have assigned frames)
  excludes that; `RInv` is the conjunction.
* `MasterFarmProofs!FarmInvariant`, `!JobsAreKept` (`SlotsKept`) and `!MasterImplementsFarm`
  (`ImplementsFarm`), under `Quiet`, see below.
* `LoadBalanceProofs!TypeCorrect`, `LoadBalanceProofs!NoJobTrue`: the latter by
  `SearchInv`: the order of a search contains every slot, and a search in its last
  pass has missed every rank above the one it is at. Neither conjunct mentions
  `wdb->lb`, which is why what other handlers do to it cannot hurt.

The slave:

* `SlaveProofs!TypeCorrect`, with `AnotherTask`: while main receives or launches a
  task there is one that was not started yet, for only main starts them.
* `SlaveProofs!NobodyLeft`: `Spec => []NobodyLeftBehind` by `WaitersInv`: what
  runs has a waiter that waits or is about to (`RunsAreWaited`), a waiter that
  `waitpid` sent away never had a process (`MissedNeverRan`), and main is not off
  before its waiters, unless a failed fork ended it (`LeftAlone`). No assumption
  on faults: a kill or a signal ends processes but makes none.
* `SlaveProofs!ReportsOwn`: `Spec => []ReportIsOwn` by `OwnInv`: the slot of a waiter
  is in use for its task (`SlotIsOwn`), the slot main has reserved is no waiter's
  (`ReservedIsApart`, `ReceivedIsKept`), each for tasks whose slot nobody else freed.
  The proof is why `GiveUpTask` and `FreeTask` record in `freed` the tasks that
  lose their slot to them: a waiter whose own slot was freed can free another's.
* `SlaveProofs!CpusEnough`: `Spec => []CpusSuffice` by `RunInv`, for behaviours in
  which nothing was freed too early. Executed tasks have slots of their own (an
  injection, by `OwnInv`) and these are not FINISHED (`StartedRun`); a slot that is
  FINISHED has a waiter (`FinishedHasWaiter`), so that a check that marks it RUNNING
  counts as one that took it; slots that run are at most the processors, and one
  fewer while main asks (`RoomForOne`); main's count may be too high but never too low
  (`CountSuffices`), except while its new reservation is not counted yet. A load
  average only lowers what `computer_available` leaves, so its value does not matter.

### Master implements Farm

`MasterImplementsFarm`: `HSpec => F!Spec` for any number of jobs, frames, computers,
tasks and handlers. The hypothesis `Quiet` says what may happen: users stop and continue
jobs; handlers are ended by signals, reports and statuses get lost, tasks crash; names
tell submissions apart and no job has JF_JOBDELETE. The instances of `Farm_renderer` and
`Farm_dependency` satisfy it. What it excludes, and why:

* a slave that is lost, exits, or whose connection breaks, and statuses that arrive late:
  `send_task` that fails puts the frame back while the check still has the copy in which
  it was assigned, and the repair of that copy can put a frame back that was given
  out again meanwhile (`job.c:733`): then two computers do render it;
* deletions, which give a slot to another job while reports for it are under way;
* requests that put frames back or finish them, whose promise is another than `Farm`'s.

The invariant has five parts; each is there because the next one, or a step, needs it:

* `QueueInv`: a submission is in one place, a slot without a job has no frame given
  out, and the check copies frames of a job only. (`KeepsJobs`, hence `SlotsKept`.)
* `SlavesInv`: a slave has one request at a time, no status under way meanwhile, and its
  slot is empty until the task is sent; a slave that runs is in the master's table.
* `CopiesInv`: the task a slot runs is what the master's table says and what a status
  under way says. Without the last a status could overwrite a record with an older one.
* `HoldersInv`: a frame has one holder, the handler that gives it out or the slot that
  renders it; it is not WAITING then, and its record names no other slot (`InPlace`).
  The same holds of the check's copy, which is older (`CopyInPlace`): a frame that the copy
  has as assigned has not been WAITING since. This is what makes the repair sound: a frame
  whose record is in place and whose slot does not run it is held by nobody
  (`LostNotHeld`), although the check compares an old copy with a newer table.
* `EndedInv`: what is settled, in the records, the copy, a report or the status of a job,
  has ended, and so has all that a job given out depends on.

Of `Farm`'s actions, `Start` is `SendTask`, where `OneHolder` gives that no other worker has
the frame and `GivenReady` that it need not wait; `End` is a task that ends; `Show`
is a report; `Submit` is `RegisterDone`; every other step forgets frames or stutters.

### Storage and lists

* `SharedListsProofs` says of each operator of `SharedLists` what it leaves, whatever call
  fails in it: a list that has its segment for itself and as long as its count, other
  segments as they were, one entry more or less. The loops (copying all entries
  but one, receiving or loading entry by entry) are recursive functions over an
  interval. The library's induction is out of reach, so `IntervalInduction` and
  `RecursionExists` derive both from the least element of a set of naturals.
* `StorageProofs!NewMasterIsAlone` (`NewMasterAnswers`) by `ProcessInv`: handlers of an
  earlier master are with a client (`receives`, `holds`), a master that loads has no child yet, and
  the children, zombies and checker of one that serves are at most `n_children + 1`, one
  more since the death of the checker is counted as that of a child.
* `StorageProofs!ListsAreValid` (`ListIsValid`) and `!StorageTypes` (`TypeOK`) by
  `ListInv` (lists of different owners have different segments, each of the list's
  length; an empty list has none), `FileInv` (what the file and a snapshot hold)
  and `NumbersInv` (jobs are numbered by requests made).
* `StorageProofs!StartLoadsSnapshot` (`RestartIsSnapshot`): by `HandOverInv`, one
  process at a time writes the file, with the semaphore, and nobody saves once it is removed,
  but for two that clean out at once (`spoiled = "mixed"`), and `SnapshotInv`: unless mixed,
  the jobs in the file are those of the last snapshot, and the one who writes has
  written all before its place. The proof showed that the history `spoiled` missed a second
  process that opens the file while a first writes; it is set there now (`OpenFile`).
* `StorageProofs!QueueIsKept` (`QueueKept`) by `OwedInv`: while there is a table and a
  semaphore, an acknowledged job that is owed is in it; from the save on until it is
  loaded it is in a complete file, if nothing failed and nobody writes. Hypothesis `SegmentsSuffice`: a start finds a segment for the
  blocked hosts of each job. Segments leak when calls fail or processes die, and a
  system without one loads no blocked hosts and drops the queue, so without it the property is false.
* `StorageProofs!EntriesStay` (`OneEntryChanges`): a change of a list costs no entry but
  its own, blocked hosts whatever call fails, variables and pools when none does.

### Requests

`DialogueProofs` is about every request of the two switches (`RequestsAssumption`),
lists of any length (`MaxItemsAssumption` says only that it is a number) and every
fault. A trace is any sequence of events; what is proved of a script is proved along its
composition, from a lemma per building block (`**`, `UNION`, `Times`, `Failing`,
`Locked`, each transfer) to one lemma per function. `Times` is a recursive function, so its
lemmas are inductions over an interval (`IntervalInduction`, `RepeatsExist`).

* `ReleasedOnlyByHolder` (`ReleasedByHolder`), `SlavesNeverCallLocked`
  (`SlavesCallUnlocked`) and `ChangesUnderSemaphore` (`ChangedUnderSemaphore`) by `SemInv`. A
  script *runs* from a level (`Run`) if along each trace the level of the semaphore is what
  each event needs (`Keeps`: who releases has it, who changes has it once, a slave calls
  without it), also after the events that a failed transfer jumps over. `SemInv` says
  that what each end still has to do runs from what it has, and that semaphore, holder and
  other users add up to one. That handlers return with the semaphore in places is
  allowed: it is the exit that gives it back. `handle_r_r_joblstblkhost` may go below
  zero (mode `"list"`), and the order of jobs is changed without the semaphore
  ("load balance"); both are exceptions in the properties too.
* `SuccessIsTold` (`SuccessIsTrue`) by `TruthInv`, for the new job and the frame given out.
  Each has a key, the one message after which the asking end reports success. The handler
  has done what that promises before it sends the key and sends nothing after it
  (`HandlingKeeps`), and the asking end has no way to its end but over the key or a return
  with an error (`AskingIsHonest`). Inductive with `Sealed`: once the key is on its
  way, nothing the handler has left takes anything back, which is where the
  order of `Do("job")` and the id, and of the assignment and the task, matters.

### Submission and frame numbers

`WidthAssumption` says besides that `2^Width` is a number above zero, since the provers know
nothing of powers; `WorkloadsAssumption` that what clients ask for are numbers of that
width, and block size times step too. `SubmissionProofs` has:

* `EveryFrameHasOneIndex`: in a range that has frames, every frame asked for belongs to
  one index and every index has a frame. `Steps` shows that where a sum of `job_nframes`
  wraps, the quotient is zero and the job is refused; so none of them wraps, and the indices cover
  the range without overlap (`FramesCover`).
* `BlocksAreIndices`: what `DRQUEUE_PADFRAMES` lists and what the templates work out of a
  block are the frames of its index, unless the blocks have a step, where the code does otherwise.
* `RecordsAreKept` (`TypeOK`) and `ClientsTellTheTruth` (`ToldTheTruth`) by `IInv`. A client at
  work has told nothing and has no job in the queue; a job in the queue has one frame
  record for each index of its range. `handle_r_r_jobsesup` keeps that because of the
  lemma behind the first theorem: a number of the old range has an index in the old
  table (`IndexOfNumber`), so no record is read from outside it. For any number of changes.

Further assumptions: `OrdersAssumption`, a client asks for an engine its tool knows;
`FilesAssumption`, the command of a user is not a script file named after a second, and slaves are
Linux or Windows. What follows is proved for any number of clients that write to the
same files, any slots, and any orders, images and given parameters.

* `GeneratorsSetEveryName` (`NamesAreSet`) by `SInv`, of four parts. `FilesOK`: what a file
  holds was written by clients that are past opening it. `WriterOK`: a file nobody else wrote to holds
  exactly what its client has written so far (`Whole`), and a client that has
  written was accepted by its generator. `HistoryOK`: what a client's history says when. `NamesOK`: no
  name was missing but in the excused cases, which needs to be said of each system
  apart. A run of a script is a recursive function over its parts; of a lone writer's two parts
  the proof goes through both steps, of a shared script it needs only that each
  scene rendered is one of its writers'. One lemma `Supplied_*` for each of the 19
  engines compares the names its template reads with those its generator always
  writes, needs, or may write.
* `FinishedFramesAreRendered` (`ExitZeroIsRendered`), `OnlyWhatIsAskedFor`
  (`RenderedAsAsked`) and `EachFrameOnce` (`RenderedOnce`) by `GInv` on top of `SInv`.
  What a property says of frames is lost unless one knows what the tasks under way will
  do, so `TaskGood` says of each task that it was made from an index of a range its job has
  had, and of which: of the present one, of the first one after a single change, or one
  of single frames if no blocks were changed. `RangeGood` says the same of the
  range. With these, `DoneGood`: frames finished with 0, *and tasks that exited
  with 0 and were not reported yet*, are rendered; `AskedGood`: what is rendered is in the range
  the job had first or has now; `OnceGood`: nothing is rendered twice, and
  what is waiting, or held by a task that has not rendered, is not rendered yet, two tasks
  have different frames, and a task whose frame is in the range has its record assigned.
  The last two are what makes a change of range keep `RenderedOnce`: a record moves to the
  index of its own number (`EveryFrameHasOneIndex`), with its status. `FreshOK`: nothing is rendered of a client
  before its job exists.

Hypotheses of these three:

* `NoBackwards`: no range that ends before it starts has few enough frames to be
  registered. `end - start + step` wraps there, and with large steps or blocks the quotient may fit
  memory; then the frames of `start` are rendered though no frame was asked for, so
  `RenderedAsAsked` is false without it (TLC finds it violated from 7 to 1 by 2 in 3 bits). The invariant describes ranges by their frames, so
  the other two use it as well. TLC evaluates it on the run's workloads (`RangesGoForward` of `SubmissionMC`).
* `MaxUpdates <= 1` for `OnlyWhatIsAskedFor` and `EachFrameOnce`: TLC finds
  `RenderedAsAsked` violated with two changes, by a task of a range that was replaced
  twice; and a frame taken out by one change and put back by another is a new
  one and rendered again. `FinishedFramesAreRendered` holds for any number.

`SInv` and `GInv` were found true by TLC on the instance of the run, and on the same with two changes,
before they were proved.

### What is only model-checked

* All liveness (`FrameSettles`, `JobSettles`, `ForemostIsServed`, `DialogueEnds`,
  `SlotComesFree`, `IdleAsks`, `ServiceContinues`, `StopEnds`, `JobEnds`), which TLAPS does not reach.
* `NothingIsMisread`, `NobodyWaitsForEver`, `NothingIsLeft` of `Dialogue`: they relate the
  messages of both ends, for each of 44 pairs of scripts and each point at which one fails.
  A proof needs an invariant per pair, the set of places in the one script that go
  with a place in the other, which is what TLC enumerates.

## 5. What is not modelled, and the plan

Not modelled, and why:

* `drqman`'s lists and details: windows over requests that `Dialogue` has, with
  copies to show. The command line clients parse options and send one request
  each. The bindings are generated wrappers over the same library.
* Configuration, logging, the generic list, computer information: text handling, or reads
  of the operating system. A load average is a free number in `Slave`.
* The hour at which a computer is enabled again: enabling is a choice that main may make
  in every round. The setters of a job's limits are not
  actions of `Master`; their exchanges are in `Dialogue`, and a limit is a
  constant of a submission.
* Values of script variables, the wording of commands, byte order, formats.

Where a step is coarser than the code, so that a behaviour is missing:

* `Slave`, `Storage`: a section under the semaphore is one step, so a signal does not
  find its process inside one (`slave.c:220`, `request.c:2895`, `job.c:1394`).
* `Storage`: a signal that arrives while the file is loaded.
* `Dialogue`: one exchange at a time, so copies of limits do not overtake each other
  (`request.c:3165`, 3191, 3231). `Master` has statuses and assignments that do.
* `LoadBalance`: comparing and saving the order is one step.
* `Master`: the slave as its master sees it. What `Slave` has beyond, checks that
  free a slot under a waiter and signals to a whole group, is there a lost or late
  report, or an exit.

Next, in this order:

1. `Slave` implements the slave of `Master`: a refinement with the slots of a computer as
   the slave's table, stuttering for the check's looks, for behaviours with `freed = {}`.
2. `RenderedAsAsked` for any number of changes, against the history of a job's ranges.
3. `MasterImplementsFarm` with requests that put frames back.
4. Signals inside sections, with the semaphore as a variable of `Slave`.
