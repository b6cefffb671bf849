---------------------------- MODULE JobDialogues ----------------------------
(***************************************************************************)
(* Both ends of the requests about jobs and slaves (libdrqueue/request.c): *)
(* the script of the function that asks and of the one that handles.  The  *)
(* first request was sent by connect and tell, and is received by          *)
(* handle_request_master before the script of the handler starts.          *)
(***************************************************************************)
EXTENDS Messages

(* An answer that the switch of the asking function does not accept.       *)
Refused(codes) == UNION {recv_request(c) ** Leave : c \in codes}

(* Tasks of the job that run are killed by a request to their slaves.      *)
Kills == Nothing \cup Call("RS_R_KILLTASK")

----------------------------------------------------------------------------
(* A slave registers; the record is taken, and the semaphore kept, until   *)
(* its hardware has arrived.                                               *)
register_slave ==
  Failing("die",
    send_request **
    (recv_request("NOERROR") ** recv_request("id") ** send_computer_hwinfo
       \cup recv_request("NOSPACE") ** Die))

handle_r_r_register ==
  Lock **
  (Release ** send_answer("NOSPACE") ** Leave
     \cup Do("registered") **
          Failing("undo", send_answer("NOERROR") ** send_answer("id") ** recv_computer_hwinfo) **
          Do("hwinfo") ** Release)

update_computer_status ==
  Failing("die", send_request) **
  (Failing("die", recv_request("NOERROR")) ** Lock ** Release ** Failing("on", send_computer_status)
     \cup Failing("die", recv_request("NOREGIS")) ** Die)

handle_r_r_ucstatus ==
  Failing("on", send_answer("NOREGIS")) ** Leave
    \cup Failing("on", send_answer("NOERROR")) ** recv_computer_status ** Locked(Do("status"))

(* A job is registered: a slot is taken, the job received into it.         *)
register_job ==
  send_request **
  (recv_request("NOERROR") ** send_job ** recv_request("id") \cup Refused({"NOSPACE"}))

RegisjobAnswersFirst ==   \* mutant: the id is sent before the job is there
  Lock **
  (Release ** Failing("on", send_answer("NOSPACE")) ** Leave
     \cup Do("slot") ** Release ** Failing("on", send_answer("NOERROR")) **
          Failing("undo", recv_job) ** send_answer("id") ** Locked(Do("job")))
handle_r_r_regisjob ==
  Lock **
  (Release ** Failing("on", send_answer("NOSPACE")) ** Leave
     \cup Do("slot") ** Release ** Failing("on", send_answer("NOERROR")) **
          Failing("undo", recv_job) ** Locked(Do("job")) ** send_answer("id"))

----------------------------------------------------------------------------
(* A slave asks for a frame.  Both ends reserve something before they know *)
(* that the other can use it: the master a frame, the slave a task.        *)
request_job_available ==
  send_request **
  (Refused({"NOAVJOB", "NOREGIS"})
     \cup recv_request("NOERROR") **
          (Lock ** Release ** Failing("on", send_answer("NOSPACE")) ** Leave
             \cup Locked(Do("task reserved")) **
                  Failing("undo", send_answer("NOERROR") ** send_answer("itask") ** recv_task) **
                  Locked(Do("task loaded"))))

handle_r_r_availjob ==
  Failing("on", send_answer("NOREGIS")) ** Leave
    \cup Locked(Nothing) ** Do("load balance") ** Failing("on", send_answer("NOAVJOB")) ** Leave
    \cup Locked(Do("frame reserved")) ** Do("load balance") **
         Failing("undo",
           send_answer("NOERROR") **
           (recv_request("NOSPACE") ** Undo
              \cup recv_request("NOERROR") ** recv_request("itask") **
                   Locked(Do("frame assigned")) ** send_task))

request_task_finished ==
  Failing("die", send_request ** recv_request("NOERROR")) ** send_task

handle_r_r_taskfini ==
  send_answer("NOERROR") ** recv_task **
  (Locked(Nothing) ** Leave \cup Locked(Nothing \cup Do("frame settled")))

----------------------------------------------------------------------------
(* The jobs are counted, and then sent, from the shared memory without the *)
(* semaphore: jobs come and go in between.  A job that cannot be received  *)
(* ends the list, which the asking end uses all the same.                  *)
request_job_list ==
  send_request **
  UNION {Take(Count("listed", n)) ** Failing("hide", Times(n, recv_job)) : n \in 0 .. MaxItems}

handle_r_r_listjobs ==
  UNION {Put(Count("listed", n)) ** Times(m, send_job_live) : n, m \in 0 .. MaxItems}

(* The computers are counted and copied under it.                          *)
request_computer_list ==
  send_request **
  UNION {Take(Count("listed", n)) ** Failing("hide", Times(n, recv_computer)) : n \in 0 .. MaxItems}

handle_r_r_listcomp ==
  Lock ** Leave \cup Locked(Nothing) **
  UNION {Put(Count("listed", n)) ** Times(n, send_computer) : n \in 0 .. MaxItems}

----------------------------------------------------------------------------
(* Requests on a job that are not answered.                                *)
request_job_delete == send_request
handle_r_r_deletjob == Lock ** Leave \cup Locked(Kills ** Do("job deleted"))

request_slave_killtask == send_request
handle_rs_r_killtask   == Call("kill")

request_job_stop == send_request
handle_r_r_stopjob == Leave \cup Locked(Nothing \cup Do("job stopped"))

request_job_continue == send_request
handle_r_r_contjob == Leave \cup Locked(Nothing \cup Do("job continued"))

request_job_hstop == send_request
handle_r_r_hstopjob == Lock ** Leave \cup Locked(Kills ** Do("job stopped") \cup Do("job deleted"))

request_job_rerun == send_request
handle_r_r_rerunjob == Lock ** Leave \cup Locked(Kills ** Do("frames waiting") \cup Do("job deleted"))

request_slavexit == send_request
handle_r_r_slavexit == Locked(Nothing) ** Leave \cup Locked(Nothing \cup Do("computer freed"))

----------------------------------------------------------------------------
(* Requests for what a job or computer is.                                 *)
request_job_envvars == send_request ** recv_envvars
handle_r_r_jobenvvars ==
  Leave \cup Locked(Nothing) ** Leave \cup Locked(Failing("on", send_envvars))

request_job_xfer ==
  send_request ** (recv_request("NOERROR") ** recv_job \cup Refused({"NOREGIS"}))
handle_r_r_jobxfer ==
  Locked(Nothing) **
  (Failing("on", send_answer("NOREGIS")) ** Leave \cup send_answer("NOERROR") ** send_job)

(* The asking end knows the number of frames from the job it has; the      *)
(* handler sends as many as the job has by now, or nothing.                *)
request_job_xferfi ==
  send_request **
  (recv_request("NOERROR") ** (UNION {Times(n, recv_frame_info) : n \in 0 .. MaxItems})
     \cup Refused({"NOREGIS"}))
handle_r_r_jobxferfi ==
  Lock ** Failing("on", send_answer("NOREGIS")) ** Release ** Leave
    \cup Lock ** Do("job deleted") ** Failing("on", send_answer("NOREGIS")) ** Release ** Leave
    \cup Locked(Nothing) ** Leave
    \cup Locked(Nothing) ** send_answer("NOERROR") **
         UNION {Times(n, send_frame_info) : n \in 1 .. MaxItems}

request_job_frame_info == send_request ** send_request ** recv_frame_info
handle_r_r_jobfinfo ==
  Locked(Nothing) ** Leave
    \cup Lock ** recv_request("request") **
         ((Nothing \cup Do("job deleted")) ** Release ** Leave \cup Release ** send_frame_info)

request_comp_xfer ==
  send_request ** (recv_request("NOERROR") ** recv_computer \cup Refused({"NOREGIS"}))
handle_r_r_compxfer ==
  Locked(Nothing) ** Failing("on", send_answer("NOREGIS")) ** Leave
    \cup Lock ** Leave
    \cup Locked(Nothing) ** send_answer("NOERROR") ** Failing("on", send_computer)
=============================================================================
