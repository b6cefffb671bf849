------------------------------ MODULE Dialogue ------------------------------
(***************************************************************************)
(* A connection: the end that asks and the end that handles go through     *)
(* their scripts, with a queue of messages each way, the semaphore of each *)
(* end's shared memory, the other processes there that use it, and the     *)
(* ways a transfer can fail.                                               *)
(***************************************************************************)
EXTENDS FrameDialogues

CONSTANTS Requests,    \* the requests that are made
          Faults       \* a subset of {"break", "silence", "size", "alarm"}

(* The requests that the master handles, and those that a slave handles.   *)
MasterRequests ==
  {"R_R_REGISTER", "R_R_UCSTATUS", "R_R_REGISJOB", "R_R_AVAILJOB", "R_R_TASKFINI", "R_R_LISTJOBS",
   "R_R_LISTCOMP", "R_R_DELETJOB", "R_R_STOPJOB", "R_R_CONTJOB", "R_R_HSTOPJOB", "R_R_RERUNJOB",
   "R_R_JOBXFER", "R_R_JOBXFERFI", "R_R_COMPXFER", "R_R_JOBFWAIT", "R_R_JOBFKILL", "R_R_JOBFFINI",
   "R_R_JOBFKFIN", "R_R_UCLIMITS", "R_R_SLAVEXIT", "R_R_JOBSESUP", "R_R_JOBLNMCS",
   "R_R_JOBLNMCCS", "R_R_JOBPRIUP", "R_R_JOBFINFO", "R_R_JOBFRSTRQD", "R_R_JOBBLKHOST",
   "R_R_JOBDELBLKHOST", "R_R_JOBLSTBLKHOST", "R_R_JOBLMS", "R_R_JOBLPS", "R_R_JOBENVVARS",
   "R_R_JOBBLKHOSTNAME", "R_R_JOBUNBLKHOSTNAME", "R_R_JOBNAME"}
OnSlave == {"RS_R_KILLTASK", "RS_R_SETNMAXCPUS", "RS_R_SETENABLED", "RS_R_SETMAXFREELOADCPU",
            "RS_R_SETAUTOENABLE", "RS_R_JOBAVAILABLE", "RS_R_LIMITSPOOLADD", "RS_R_LIMITSPOOLREMOVE"}

ASSUME RequestsAssumption == Requests \subseteq MasterRequests \cup OnSlave
ASSUME FaultsAssumption == Faults \subseteq {"break", "silence", "size", "alarm"}

Ends == {"client", "handler"}
Peer(e) == CHOOSE p \in Ends : p # e

VARIABLES
  req,      \* the request that is made
  todo,     \* todo[e]: the traces that end e may still follow
  outcome,  \* outcome[e]: how its function ended
  inbox,    \* inbox[e]: what was sent to e and not received yet
  told,     \* told[e]: the size the other end told last
  sem,      \* sem[e]: the value of the semaphore at that end
  held,     \* held[e]: what the exit of the process gives back (SEM_UNDO)
  other,    \* other[e]: whether another process has the semaphore
  done,     \* done[e]: what the end did to its shared memory
  link,     \* "up", "broken", or "silent": the client's host is gone
  odd       \* what has another size at the other end, or ""

vars == <<req, todo, outcome, inbox, told, sem, held, other, done, link, odd>>

----------------------------------------------------------------------------
(* The two switches: which function handles a request, and which asks.     *)
handle_request_slave(r) ==
  CASE r = "RS_R_KILLTASK" -> handle_rs_r_killtask
    [] r = "RS_R_SETNMAXCPUS" -> handle_rs_r_setnmaxcpus
    [] r = "RS_R_SETENABLED" -> handle_rs_r_setenabled
    [] r = "RS_R_SETMAXFREELOADCPU" -> handle_rs_r_setmaxfreeloadcpu
    [] r = "RS_R_SETAUTOENABLE" -> handle_rs_r_setautoenable
    [] r = "RS_R_JOBAVAILABLE" -> handle_rs_r_jobavailable
    [] r = "RS_R_LIMITSPOOLADD" -> handle_rs_r_limitspooladd
    [] r = "RS_R_LIMITSPOOLREMOVE" -> handle_rs_r_limitspoolremove

handle_request_master(r) ==
  CASE r = "R_R_REGISTER" -> handle_r_r_register
    [] r = "R_R_UCSTATUS" -> handle_r_r_ucstatus
    [] r = "R_R_REGISJOB" -> handle_r_r_regisjob
    [] r = "R_R_AVAILJOB" -> handle_r_r_availjob
    [] r = "R_R_TASKFINI" -> handle_r_r_taskfini
    [] r = "R_R_LISTJOBS" -> handle_r_r_listjobs
    [] r = "R_R_LISTCOMP" -> handle_r_r_listcomp
    [] r = "R_R_DELETJOB" -> handle_r_r_deletjob
    [] r = "R_R_STOPJOB" -> handle_r_r_stopjob
    [] r = "R_R_CONTJOB" -> handle_r_r_contjob
    [] r = "R_R_HSTOPJOB" -> handle_r_r_hstopjob
    [] r = "R_R_RERUNJOB" -> handle_r_r_rerunjob
    [] r = "R_R_JOBXFER" -> handle_r_r_jobxfer
    [] r = "R_R_JOBXFERFI" -> handle_r_r_jobxferfi
    [] r = "R_R_COMPXFER" -> handle_r_r_compxfer
    [] r = "R_R_JOBFWAIT" -> handle_r_r_jobfwait
    [] r = "R_R_JOBFKILL" -> handle_r_r_jobfkill
    [] r = "R_R_JOBFFINI" -> handle_r_r_jobffini
    [] r = "R_R_JOBFKFIN" -> handle_r_r_jobfkfin
    [] r = "R_R_UCLIMITS" -> handle_r_r_uclimits
    [] r = "R_R_SLAVEXIT" -> handle_r_r_slavexit
    [] r = "R_R_JOBSESUP" -> handle_r_r_jobsesup
    [] r = "R_R_JOBLNMCS" -> handle_r_r_joblnmcs
    [] r = "R_R_JOBLNMCCS" -> handle_r_r_joblnmccs
    [] r = "R_R_JOBPRIUP" -> handle_r_r_jobpriup
    [] r = "R_R_JOBFINFO" -> handle_r_r_jobfinfo
    [] r = "R_R_JOBFRSTRQD" -> handle_r_r_jobfrstrqd
    [] r = "R_R_JOBBLKHOST" -> handle_r_r_jobblkhost
    [] r = "R_R_JOBDELBLKHOST" -> handle_r_r_jobdelblkhost
    [] r = "R_R_JOBLSTBLKHOST" -> handle_r_r_joblstblkhost
    [] r = "R_R_JOBLMS" -> handle_r_r_joblms
    [] r = "R_R_JOBLPS" -> handle_r_r_joblps
    [] r = "R_R_JOBENVVARS" -> handle_r_r_jobenvvars
    [] r = "R_R_JOBBLKHOSTNAME" -> handle_r_r_jobblkhostname
    [] r = "R_R_JOBUNBLKHOSTNAME" -> handle_r_r_jobunblkhostname
    [] r = "R_R_JOBNAME" -> handle_r_r_jobname

Asking(r) ==
  CASE r = "R_R_REGISTER" -> register_slave
    [] r = "R_R_UCSTATUS" -> update_computer_status
    [] r = "R_R_REGISJOB" -> register_job
    [] r = "R_R_AVAILJOB" -> request_job_available
    [] r = "R_R_TASKFINI" -> request_task_finished
    [] r = "R_R_LISTJOBS" -> request_job_list
    [] r = "R_R_LISTCOMP" -> request_computer_list
    [] r = "R_R_DELETJOB" -> request_job_delete
    [] r = "R_R_STOPJOB" -> request_job_stop
    [] r = "R_R_CONTJOB" -> request_job_continue
    [] r = "R_R_HSTOPJOB" -> request_job_hstop
    [] r = "R_R_RERUNJOB" -> request_job_rerun
    [] r = "R_R_JOBXFER" -> request_job_xfer
    [] r = "R_R_JOBXFERFI" -> request_job_xferfi
    [] r = "R_R_COMPXFER" -> request_comp_xfer
    [] r = "R_R_JOBFWAIT" -> request_job_frame_waiting
    [] r = "R_R_JOBFKILL" -> request_job_frame_kill
    [] r = "R_R_JOBFFINI" -> request_job_frame_finish
    [] r = "R_R_JOBFKFIN" -> request_job_frame_kill_finish
    [] r = "R_R_UCLIMITS" -> update_computer_limits
    [] r = "R_R_SLAVEXIT" -> request_slavexit
    [] r = "R_R_JOBSESUP" -> request_job_sesupdate
    [] r = "R_R_JOBLNMCS" -> request_job_limits_nmaxcpus_set
    [] r = "R_R_JOBLNMCCS" -> request_job_limits_nmaxcpuscomputer_set
    [] r = "R_R_JOBPRIUP" -> request_job_priority_update
    [] r = "R_R_JOBFINFO" -> request_job_frame_info
    [] r = "R_R_JOBFRSTRQD" -> request_job_frame_reset_requeued
    [] r = "R_R_JOBBLKHOST" -> request_job_add_blocked_host
    [] r = "R_R_JOBDELBLKHOST" -> request_job_delete_blocked_host
    [] r = "R_R_JOBLSTBLKHOST" -> request_job_list_blocked_host
    [] r = "R_R_JOBLMS" -> request_job_limits_memory_set
    [] r = "R_R_JOBLPS" -> request_job_limits_pool_set
    [] r = "R_R_JOBENVVARS" -> request_job_envvars
    [] r = "R_R_JOBBLKHOSTNAME" -> request_job_block_host_by_name
    [] r = "R_R_JOBUNBLKHOSTNAME" -> request_job_unblock_host_by_name
    [] r = "R_R_JOBNAME" -> request_job_name
    [] r = "RS_R_KILLTASK" -> request_slave_killtask
    [] r = "RS_R_SETNMAXCPUS" -> request_slave_limits_nmaxcpus_set
    [] r = "RS_R_SETENABLED" -> request_slave_limits_enabled_set
    [] r = "RS_R_SETMAXFREELOADCPU" -> request_slave_limits_maxfreeloadcpu_set
    [] r = "RS_R_SETAUTOENABLE" -> request_slave_limits_autoenable_set
    [] r = "RS_R_JOBAVAILABLE" -> request_slave_job_available
    [] r = "RS_R_LIMITSPOOLADD" -> request_slave_limits_pool_add
    [] r = "RS_R_LIMITSPOOLREMOVE" -> request_slave_limits_pool_remove

(* The handler receives the request, notes that a known slave has called,  *)
(* and goes into the switch.                                               *)
Known == Nothing \cup Locked(Do("lastconn"))
Handling(r) ==
  Failing("die", recv_request("request")) **
  (IF r \in OnSlave THEN handle_request_slave(r) ELSE Known ** handle_request_master(r))

(* After these the slaves are told that there may be a frame for them.     *)
Notifies == {"R_R_REGISJOB", "R_R_TASKFINI", "R_R_CONTJOB", "R_R_UCLIMITS", "R_R_JOBSESUP",
             "R_R_JOBLNMCS", "R_R_JOBLNMCCS", "R_R_JOBPRIUP"}
----------------------------------------------------------------------------
Init ==
  /\ req \in Requests
  /\ todo = [e \in Ends |-> IF e = "client" THEN Asking(req) ELSE Handling(req)]
  /\ outcome = [e \in Ends |-> "running"]
  /\ inbox = [e \in Ends |-> <<>>]
  /\ told = [e \in Ends |-> ""]
  /\ sem = [e \in Ends |-> 1]
  /\ held = [e \in Ends |-> 0]
  /\ other = [e \in Ends |-> FALSE]
  /\ done = [e \in Ends |-> {}]
  /\ link = "up"
  /\ odd \in IF "size" \in Faults THEN {"", "job", "task", "limits", "pool"} ELSE {""}

Over(e)  == todo[e] = {}
Heads(e) == {Head(t) : t \in todo[e] \ {<<>>}}

(* The traces that go on with event ev, after it and n events more.        *)
After(e, ev, n) ==
  {SubSeq(t, 2 + n, Len(t)) : t \in {u \in todo[e] : u # <<>> /\ Head(u) = ev}}
Goes(e, ev) == todo' = [todo EXCEPT ![e] = After(e, ev, 0)]

(* What e waits for has come; of a size, the other end may tell any.       *)
Matches(want, got) == IF want.kind = "size" THEN got.kind = "size" ELSE want = got
(* Nothing will come any more.                                             *)
Closed(e) == link = "broken" \/ (link = "up" /\ Over(Peer(e)))

(* The function of e ends: a handler may still have the slaves to tell,    *)
(* after which its process exits and what it has of the semaphore goes     *)
(* back; an asking process lives on, unless it dies.                       *)
Ended(e, how) ==
  /\ outcome' = IF outcome[e] = "running" \/ how = "died" THEN [outcome EXCEPT ![e] = how]
                                                        ELSE outcome
  /\ IF e = "handler" /\ req \in Notifies /\ outcome[e] = "running" /\ how # "died"
     THEN /\ todo' = [todo EXCEPT ![e] = request_all_slaves_job_available]
          /\ UNCHANGED <<sem, held>>
     ELSE /\ todo' = [todo EXCEPT ![e] = {}]
          /\ IF e = "handler" \/ how = "died"
             THEN /\ sem' = [sem EXCEPT ![e] = @ + held[e]]
                  /\ held' = [held EXCEPT ![e] = 0]
             ELSE UNCHANGED <<sem, held>>

(* What e does when event ev fails.                                        *)
Fail(e, ev) ==
  /\ UNCHANGED <<req, inbox, told, other, link, odd>>
  /\ CASE ev.fails = "on"    -> /\ todo' = [todo EXCEPT ![e] = After(e, ev, ev.rest)]
                                /\ UNCHANGED <<outcome, sem, held, done>>
       [] ev.fails = "leave" -> Ended(e, "failed") /\ UNCHANGED done
       [] ev.fails = "hide"  -> Ended(e, "ok") /\ UNCHANGED done
       [] ev.fails = "die"   -> Ended(e, "died") /\ UNCHANGED done
       [] ev.fails = "undo"  -> /\ held[e] = 1 \/ sem[e] = 1
                                /\ Ended(e, "failed")
                                /\ done' = [done EXCEPT ![e] = {}]

----------------------------------------------------------------------------
(* One event of end e.                                                     *)
PutArrives(e, ev) ==
  /\ ev.op = "put" /\ link # "broken" /\ ~Over(Peer(e))
  /\ inbox' = [inbox EXCEPT ![Peer(e)] = Append(@, ev.what)]
  /\ Goes(e, ev)
  /\ UNCHANGED <<req, outcome, told, sem, held, other, done, link, odd>>

(* Nobody is there to receive: the system may not know yet.                *)
PutIsLost(e, ev) ==
  /\ ev.op = "put" /\ (link # "up" \/ Over(Peer(e)))
  /\ Goes(e, ev)
  /\ UNCHANGED <<req, outcome, inbox, told, sem, held, other, done, link, odd>>

(* When it knows, the write fails, or SIGPIPE ends the process.            *)
PutFails(e, ev) ==
  /\ ev.op = "put" /\ Closed(e)
  /\ Fail(e, ev) \/ Fail(e, [ev EXCEPT !.fails = "die"])

Takes(e, ev) ==
  /\ ev.op = "take" /\ inbox[e] # <<>> /\ Matches(ev.what, Head(inbox[e]))
  /\ inbox' = [inbox EXCEPT ![e] = Tail(@)]
  /\ told' = [told EXCEPT ![e] = Head(inbox[e]).of]
  /\ Goes(e, ev)
  /\ UNCHANGED <<req, outcome, sem, held, other, done, link, odd>>

TakeFails(e, ev) ==
  /\ ev.op = "take" /\ inbox[e] = <<>> /\ Closed(e)
  /\ Fail(e, ev)

(* The sizes are the same, or both ends give the transfer up.              *)
Compares(e, ev) ==
  /\ ev.op = "compare"
  /\ IF told[e] = ev.what.of /\ told[e] # odd
     THEN /\ Goes(e, ev)
          /\ UNCHANGED <<req, outcome, inbox, told, sem, held, other, done, link, odd>>
     ELSE Fail(e, ev)

Locks(e, ev) ==
  /\ ev.op = "lock" /\ sem[e] > 0
  /\ sem' = [sem EXCEPT ![e] = @ - 1]
  /\ held' = [held EXCEPT ![e] = @ + 1]
  /\ Goes(e, ev)
  /\ UNCHANGED <<req, outcome, inbox, told, other, done, link, odd>>

(* A release adds one whoever has the semaphore.                           *)
Releases(e, ev) ==
  /\ ev.op = "release"
  /\ sem' = [sem EXCEPT ![e] = @ + 1]
  /\ held' = [held EXCEPT ![e] = @ - 1]
  /\ Goes(e, ev)
  /\ UNCHANGED <<req, outcome, inbox, told, other, done, link, odd>>

Does(e, ev) ==
  /\ ev.op = "do"
  /\ done' = [done EXCEPT ![e] = @ \cup {ev.what.of}]
  /\ Goes(e, ev)
  /\ UNCHANGED <<req, outcome, inbox, told, sem, held, other, link, odd>>

(* A connection of its own to another process, or a signal; whether it     *)
(* succeeds is not looked at.                                              *)
Calls(e, ev) ==
  /\ ev.op = "call"
  /\ Goes(e, ev)
  /\ UNCHANGED <<req, outcome, inbox, told, sem, held, other, done, link, odd>>

GivesUp(e, ev) == ev.op = "give up" /\ Fail(e, ev)

Returns(e) ==
  /\ <<>> \in todo[e]
  /\ Ended(e, "ok")
  /\ UNCHANGED <<req, inbox, told, other, done, link, odd>>

Step(e) ==
  \/ Returns(e)
  \/ \E ev \in Heads(e) :
       \/ PutArrives(e, ev) \/ PutIsLost(e, ev) \/ PutFails(e, ev)
       \/ Takes(e, ev) \/ TakeFails(e, ev) \/ Compares(e, ev)
       \/ Locks(e, ev) \/ Releases(e, ev)
       \/ Does(e, ev) \/ Calls(e, ev) \/ GivesUp(e, ev)

----------------------------------------------------------------------------
(* The other processes that use the semaphore of an end.                   *)
OtherLocks(e) ==
  /\ sem[e] > 0 /\ ~other[e] /\ ~Over(e)
  /\ sem' = [sem EXCEPT ![e] = @ - 1]
  /\ other' = [other EXCEPT ![e] = TRUE]
  /\ UNCHANGED <<req, todo, outcome, inbox, told, held, done, link, odd>>

OtherReleases(e) ==
  /\ other[e]
  /\ sem' = [sem EXCEPT ![e] = @ + 1]
  /\ other' = [other EXCEPT ![e] = FALSE]
  /\ UNCHANGED <<req, todo, outcome, inbox, told, held, done, link, odd>>

(* Whether end e has something to do before anybody else does.             *)
CanStep(e) ==
  \/ <<>> \in todo[e]
  \/ \E ev \in Heads(e) :
       CASE ev.op = "take" -> \/ inbox[e] # <<>> /\ Matches(ev.what, Head(inbox[e]))
                              \/ inbox[e] = <<>> /\ Closed(e)
         [] ev.op = "lock" -> sem[e] > 0
         [] OTHER -> TRUE
Stuck == /\ \A e \in Ends : ~CanStep(e) /\ ~other[e]
         /\ \E e \in Ends : ~Over(e)

(* A handler has MAXTIMECONNECTION seconds; then SIGALRM ends it.          *)
NoAlarm == FALSE /\ UNCHANGED vars   \* mutant: the alarm is never set
Alarm ==
  /\ ~Over("handler")
  /\ "alarm" \in Faults \/ (~CanStep("handler") /\ ~other["handler"] /\ (Over("client") \/ ~CanStep("client")))
  /\ Ended("handler", "died")
  /\ UNCHANGED <<req, inbox, told, other, done, link, odd>>

(* The connection breaks; what is on its way is lost.                      *)
Break ==
  /\ "break" \in Faults /\ link = "up"
  /\ link' = "broken"
  /\ inbox' = [e \in Ends |-> <<>>]
  /\ UNCHANGED <<req, todo, outcome, told, sem, held, other, done, odd>>

(* The host of the asking process stops, and nobody tells the handler.     *)
Silence ==
  /\ "silence" \in Faults /\ link = "up" /\ ~Over("client")
  /\ link' = "silent"
  /\ todo' = [todo EXCEPT !["client"] = {}]
  /\ outcome' = [outcome EXCEPT !["client"] = "died"]
  /\ other' = [other EXCEPT !["client"] = FALSE]
  /\ sem' = [sem EXCEPT !["client"] = 1]
  /\ held' = [held EXCEPT !["client"] = 0]
  /\ UNCHANGED <<req, inbox, told, done, odd>>

Finished == (\A e \in Ends : Over(e) /\ ~other[e]) /\ UNCHANGED vars

Next ==
  \/ \E e \in Ends : Step(e) \/ OtherLocks(e) \/ OtherReleases(e)
  \/ Alarm \/ Break \/ Silence \/ Finished

(* Processes run; a semaphore is given to those that wait in their order,  *)
(* and its other users do not keep it for ever.                            *)
Spec == /\ Init /\ [][Next]_vars
        /\ \A e \in Ends : SF_vars(Step(e)) /\ WF_vars(OtherReleases(e))
        /\ WF_vars(Alarm)

----------------------------------------------------------------------------
(* Properties.                                                             *)

(* No end takes one kind of message for another, although the lists sent   *)
(* from live memory may not have the length announced: whatever comes at   *)
(* the wrong place is a size, and the comparison fails (communications.c). *)
NothingIsMisread ==
  \A e \in Ends :
    inbox[e] # <<>> /\ Heads(e) # {} /\ <<>> \notin todo[e]
      /\ (\A ev \in Heads(e) : ev.op = "take")
      => \E ev \in Heads(e) : Matches(ev.what, Head(inbox[e]))

(* While the link is up no connection needs the alarm: the ends never wait *)
(* for each other, nor a handler for the semaphore it has itself.  Four    *)
(* handlers do that (see the README).                                      *)
LockTwice == {"R_R_JOBBLKHOSTNAME", "R_R_JOBLNMCS", "R_R_JOBLNMCCS", "R_R_JOBPRIUP"}
NobodyWaitsForEver == req \notin LockTwice /\ link = "up" => ~Stuck

(* What was sent was received, when both ends got to the end of their      *)
(* functions; of the lists that are sent live some is left.                *)
Live == {"R_R_LISTJOBS", "R_R_UCLIMITS", "R_R_JOBXFERFI", "R_R_JOBLSTBLKHOST"}
NothingIsLeft ==
  (\A e \in Ends : outcome[e] = "ok") /\ link = "up" /\ req \notin Live
    => \A e \in Ends : Over(e) => inbox[e] = <<>>

(* Who is told that a request succeeded is told the truth, although the    *)
(* connection may break and the handler be ended at any point.             *)
Promised(r) ==
  CASE r = "R_R_REGISJOB" -> {"slot", "job"}
    [] r = "R_R_AVAILJOB" -> {"frame reserved", "frame assigned"}
    [] OTHER -> {}
SuccessIsTrue ==
  outcome["client"] = "ok" => Promised(req) \subseteq done["handler"]

(* The semaphore is never free twice (semaphores.c): it is released by who *)
(* has it.  Listing blocked hosts is an exception (see the README).        *)
ReleasedByHolder == req # "R_R_JOBLSTBLKHOST" => \A e \in Ends : sem[e] <= 1

(* Shared memory changes only under the semaphore; the order of jobs,      *)
(* which LoadBalance is about, is the exception.                           *)
ChangedUnderSemaphore ==
  [][\A e \in Ends : \A x \in done'[e] \ done[e] : held[e] = 1 \/ x = "load balance"]_vars

(* A handler of a slave has released the semaphore when it calls the       *)
(* master: handlers of the master call slaves while they have theirs, and  *)
(* the two would wait for each other.                                      *)
Calling(e) == \E ev \in Heads(e) : ev.op = "call"
SlavesCallUnlocked == req \in OnSlave /\ Calling("handler") => held["handler"] = 0

(* Whatever happens to the connection, both ends come to an end, the       *)
(* asking one unless its own host stops, and the master's semaphore is     *)
(* free for others then (master.c:443, communications.c:1393).             *)
DialogueEnds ==
  /\ <>[](Over("handler") /\ (sem["handler"] = 1 \/ other["handler"]))
  /\ <>Over("client")
=============================================================================
