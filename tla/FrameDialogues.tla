--------------------------- MODULE FrameDialogues ---------------------------
(***************************************************************************)
(* Both ends of the requests on the frames, the limits and the blocked     *)
(* hosts of a job, and of those on the limits of a slave                   *)
(* (libdrqueue/request.c).                                                 *)
(***************************************************************************)
EXTENDS JobDialogues

(* The index of the job, and then a frame, a host or a value.              *)
TwoNumbers == send_request ** send_request

(* The handler has the index and waits for the rest.  It returns with the  *)
(* semaphore when the index, or the frame, is not correct.                 *)
OnFrame(S) ==
  recv_request("request") **
  (Lock ** Leave \cup Locked(Do("job deleted")) ** Leave \cup Locked(S))

(* So do those that set a value of the job.                                *)
SetValueUnread == Lock ** Leave \cup Locked(Do("value"))   \* mutant: nothing is received
SetValue == recv_request("request") ** (Lock ** Leave \cup Locked(Do("value")))

----------------------------------------------------------------------------
request_job_frame_waiting == TwoNumbers
JobfwaitUnlocked ==   \* mutant: the frame is changed after the release
  recv_request("request") **
  (Locked(Nothing \cup Do("job deleted")) ** Leave
     \cup Locked(Nothing) ** (Nothing \cup Do("frame waiting")))
handle_r_r_jobfwait ==
  recv_request("request") **
  (Locked(Nothing \cup Do("job deleted")) ** Leave \cup Locked(Nothing \cup Do("frame waiting")))

request_job_frame_kill == TwoNumbers
handle_r_r_jobfkill == OnFrame(Kills)

request_job_frame_finish == TwoNumbers
handle_r_r_jobffini == OnFrame(Nothing \cup Do("frame finished"))

request_job_frame_reset_requeued == TwoNumbers
handle_r_r_jobfrstrqd == OnFrame(Do("requeues reset"))

request_job_frame_kill_finish == TwoNumbers
handle_r_r_jobfkfin == OnFrame(Nothing \cup Do("frame finished") ** Call("RS_R_KILLTASK"))

(* Start, end, step and block size.  The new table replaces the old one;   *)
(* then the tasks of frames that are no more are killed, at an address     *)
(* written through a pointer that was never set.                           *)
request_job_sesupdate == Times(5, send_request)
handle_r_r_jobsesup ==
  Times(4, recv_request("request")) **
  Lock **
  (Release ** Leave
     \cup Do("frames renumbered") ** Release **
          (Nothing \cup Locked(Nothing) ** Call("RS_R_KILLTASK") \cup Lock ** Die))

----------------------------------------------------------------------------
(* Limits and priority of a job.                                           *)
request_job_limits_memory_set == TwoNumbers
handle_r_r_joblms == SetValue

request_job_limits_pool_set == send_request ** send_string
handle_r_r_joblps == recv_string ** (Lock ** Leave \cup Locked(Do("value")))

request_job_limits_nmaxcpus_set == TwoNumbers
handle_r_r_joblnmcs == SetValue

request_job_limits_nmaxcpuscomputer_set == TwoNumbers
handle_r_r_joblnmccs == SetValue

request_job_priority_update == TwoNumbers
handle_r_r_jobpriup == SetValue

----------------------------------------------------------------------------
(* Hosts on which a job does not run.                                      *)
request_job_add_blocked_host == TwoNumbers
handle_r_r_jobblkhost ==
  recv_request("request") ** (Locked(Nothing) ** Leave \cup Locked(Do("host blocked")))

(* The index of the job is looked at before the semaphore is taken.        *)
request_job_delete_blocked_host == TwoNumbers
handle_r_r_jobdelblkhost ==
  Leave
    \cup recv_request("request") **
         (Lock ** Leave \cup Locked(Nothing) ** Leave \cup Locked(Do("host unblocked")))

(* The hosts are counted and sent without the semaphore; failing to attach *)
(* them, the handler releases it all the same.  The asking end takes what  *)
(* it cannot receive for a host.                                           *)
request_job_list_blocked_host ==
  send_request **
  UNION {Take(Count("listed", n)) ** Times(n, Failing("on", recv_blocked_host)) :
           n \in 0 .. MaxItems}
handle_r_r_joblstblkhost ==
  Leave
    \cup (UNION {Put(Count("listed", n)) ** Times(m, Failing("on", send_blocked_host)) :
                   n, m \in 0 .. MaxItems})
    \cup UNION {Put(Count("listed", n)) ** Release ** Leave : n \in 1 .. MaxItems}

(* computer_index_name takes the semaphore that the handler has.           *)
computer_index_name == Locked(Nothing)
request_job_block_host_by_name == send_request ** send_string
handle_r_r_jobblkhostname ==
  recv_string ** Lock ** computer_index_name **
  (Leave \cup Release ** Leave \cup Do("host blocked") ** Release)

request_job_unblock_host_by_name == send_request ** send_string
UnblockReleasesTwice ==   \* mutant: the way out releases again
  recv_string **
  (Locked(Nothing) ** Release ** Leave \cup Locked(Nothing \cup Do("host unblocked")))
handle_r_r_jobunblkhostname ==
  recv_string ** (Locked(Nothing) ** Leave \cup Locked(Nothing \cup Do("host unblocked")))

request_job_name == send_request ** recv_string
handle_r_r_jobname == Leave \cup send_string

----------------------------------------------------------------------------
(* Limits of a slave.  Its handler changes them and tells the master.      *)
ChangeLimitsLocked == Locked(Do("limits") ** Call("R_R_UCLIMITS"))   \* mutant
ChangeLimits == Locked(Do("limits")) ** Call("R_R_UCLIMITS")

request_slave_limits_nmaxcpus_set == send_request
handle_rs_r_setnmaxcpus == ChangeLimits

request_slave_limits_enabled_set == send_request
handle_rs_r_setenabled == ChangeLimits

request_slave_limits_maxfreeloadcpu_set == send_request
handle_rs_r_setmaxfreeloadcpu == ChangeLimits

request_slave_limits_autoenable_set == Times(3, send_request)
handle_rs_r_setautoenable == Failing("die", Times(2, recv_request("request"))) ** ChangeLimits

request_slave_limits_pool_add == send_request ** send_string
handle_rs_r_limitspooladd == recv_string ** ChangeLimits

request_slave_limits_pool_remove == send_request ** send_string
handle_rs_r_limitspoolremove == recv_string ** ChangeLimits

(* The slave's side of that: from a copy of its limits or, when a pool was *)
(* added or removed, from the record itself.                               *)
update_computer_limits ==
  send_request **
  (recv_request("NOERROR") ** SendSized("limits") ** send_computer_pools_live
     \cup Refused({"NOREGIS"}))
handle_r_r_uclimits ==
  Failing("die", send_answer("NOREGIS")) ** Die
    \cup Failing("die", send_answer("NOERROR") ** recv_computer_limits) ** Locked(Do("limits"))

----------------------------------------------------------------------------
(* After some requests the master looks for a job that has a frame, job by *)
(* job, and tells its slaves if it finds one.                              *)
job_available_no_icomp == Locked(Nothing)
request_all_slaves_job_available ==
  job_available_no_icomp ** (Nothing \cup Call("RS_R_JOBAVAILABLE"))
request_slave_job_available == send_request
handle_rs_r_jobavailable == Call("phantom")
=============================================================================
