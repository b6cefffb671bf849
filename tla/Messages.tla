------------------------------ MODULE Messages ------------------------------
(***************************************************************************)
(* What an end of a connection does, as scripts.  A script is a set of     *)
(* traces, one per way the function can go; a trace is a sequence of       *)
(* events.  The operators have the names of the functions they stand for   *)
(* (libdrqueue/communications.c); what a message says is abstracted to its *)
(* kind, and to its value where the other end looks at it.                 *)
(***************************************************************************)
EXTENDS Integers, Sequences

CONSTANT MaxItems   \* the longest list sent: jobs, tasks, pools, variables
ASSUME MaxItemsAssumption == MaxItems \in Nat

----------------------------------------------------------------------------
(* Messages.                                                               *)
Msg(kind, of, n) == [kind |-> kind, of |-> of, n |-> n]
Size(of)         == Msg("size", of, 0)
Data(of)         == Msg("data", of, 0)
Count(of, n)     == Msg("count", of, n)
Answer(code)     == Msg("request", code, 0)

----------------------------------------------------------------------------
(* Events.  "fails" says what the function does when a transfer fails:     *)
(*   leave   it returns, with the semaphore as it is                       *)
(*   undo    it takes back what it did, releases and returns               *)
(*   on      it goes on after the transfer, "rest" events later            *)
(*   hide    it returns as if it had succeeded                             *)
(*   die     the process ends                                              *)
Event(op, what, fails) == {<<[op |-> op, what |-> what, fails |-> fails, rest |-> 0]>>}
Put(m)      == Event("put", m, "leave")
Take(m)     == Event("take", m, "leave")
Compare(of) == Event("compare", Size(of), "leave")
Do(x)       == Event("do", Msg("effect", x, 0), "leave")
Call(x)     == Event("call", Msg("call", x, 0), "leave")
Lock        == Event("lock", Msg("semaphore", "", 0), "leave")
Release     == Event("release", Msg("semaphore", "", 0), "leave")
Leave       == Event("give up", Msg("", "", 0), "leave")
Undo        == Event("give up", Msg("", "", 0), "undo")
Die         == Event("give up", Msg("", "", 0), "die")
Nothing     == {<<>>}

(* One script after another, and a script n times.                         *)
A ** B == {a \o b : a \in A, b \in B}
Times(n, S) == LET t[i \in 0 .. n] == IF i = 0 THEN Nothing ELSE t[i - 1] ** S
               IN  t[n]

(* S, with the failures that S does not handle itself handled so.          *)
Failing(tag, S) ==
  {[i \in DOMAIN t |->
      IF t[i].fails = "leave" /\ t[i].op \in {"put", "take", "compare"}
      THEN [t[i] EXCEPT !.fails = tag, !.rest = IF tag = "on" THEN Len(t) - i ELSE 0]
      ELSE t[i]] : t \in S}

(* A section of S under the semaphore.                                     *)
Locked(S) == Lock ** S ** Release

----------------------------------------------------------------------------
(* The two ends tell each other the size of what they transfer.            *)
SizeTakenFirst(of) == Take(Size(of)) ** Put(Size(of)) ** Compare(of)   \* mutant
check_send_datasize(of) == Put(Size(of)) ** Take(Size(of)) ** Compare(of)
check_recv_datasize(of) == Take(Size(of)) ** Put(Size(of)) ** Compare(of)

SendSized(of) == check_send_datasize(of) ** Put(Data(of))
RecvSized(of) == check_recv_datasize(of) ** Take(Data(of))

send_request == Put(Answer("request"))
send_answer(code) == Put(Answer(code))
recv_request(code) == Take(Answer(code))

send_computer_hwinfo == SendSized("hwinfo")
recv_computer_hwinfo == RecvSized("hwinfo")

send_task == SendSized("task")
recv_task == RecvSized("task")

(* The load average and the tasks in use.  The receiver logs a failure to  *)
(* read the two heads, and goes on with no task.                           *)
send_computer_status ==
  Put(Data("loadavg")) **
  UNION {Put(Count("task", n)) ** Put(Data("nrunning")) ** Times(n, send_task) :
           n \in 0 .. MaxItems}
recv_computer_status ==
  Failing("on", Take(Data("loadavg"))) **
  UNION {Failing("on", Take(Count("task", n)) ** Take(Data("nrunning"))) ** Times(n, recv_task) :
           n \in 0 .. MaxItems}

send_envvar == SendSized("envvar")
recv_envvar == RecvSized("envvar")
(* The variables are in a segment of their own, attached after their       *)
(* number is sent.  A failure to attach is logged and the pointer used.    *)
send_envvars ==
  UNION {Put(Count("envvar", n)) **
           (Times(n, send_envvar) \cup IF n > 0 THEN Die ELSE {}) : n \in 0 .. MaxItems}
recv_envvars == UNION {Take(Count("envvar", n)) ** Times(n, recv_envvar) : n \in 0 .. MaxItems}

send_job == SendSized("job") ** send_envvars
RecvJobSwapped == recv_envvars ** RecvSized("job")   \* mutant: in another order
recv_job == RecvSized("job") ** recv_envvars

(* A job sent from the shared memory itself: its variables may be deleted, *)
(* or others be there, after their number was sent.                        *)
send_job_live ==
  SendSized("job") **
  UNION {Put(Count("envvar", n)) ** (Times(m, send_envvar) \cup IF m > 0 THEN Die ELSE {}) :
           n, m \in 0 .. MaxItems}

send_frame_info == Put(Data("frame_info"))
recv_frame_info == Take(Data("frame_info"))

send_string == SendSized("length") ** SendSized("string")
recv_string == RecvSized("length") ** RecvSized("string")

(* Pools: how many there are is a transfer with its size, and each is one. *)
send_computer_pools ==
  UNION {check_send_datasize("npools") ** Put(Count("pool", n)) **
           (Times(n, SendSized("pool")) \cup IF n > 0 THEN Leave ELSE {}) : n \in 0 .. MaxItems}
recv_computer_pools ==
  UNION {check_recv_datasize("npools") ** Take(Count("pool", n)) ** Times(n, RecvSized("pool")) :
           n \in 0 .. MaxItems}

(* Pools sent from the slave's own record while another process of the     *)
(* slave may add or remove one.                                            *)
send_computer_pools_live ==
  UNION {check_send_datasize("npools") ** Put(Count("pool", n)) **
           (Times(m, SendSized("pool")) \cup IF m > 0 THEN Leave ELSE {}) : n, m \in 0 .. MaxItems}

send_computer_limits == SendSized("limits") ** send_computer_pools
recv_computer_limits == RecvSized("limits") ** recv_computer_pools

send_computer == send_computer_status ** send_computer_hwinfo ** send_computer_limits
recv_computer == recv_computer_status ** recv_computer_hwinfo ** recv_computer_limits

send_blocked_host == SendSized("blocked_host")
recv_blocked_host == RecvSized("blocked_host")
=============================================================================
