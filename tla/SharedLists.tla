---------------------------- MODULE SharedLists ----------------------------
(***************************************************************************)
(* The lists kept in System V segments of their own: the hosts blocked for *)
(* a job (job.c, request.c), the environment variables of a job            *)
(* (envvars.c) and the pools of a computer (computer_pool.c).  To change   *)
(* one is to get a larger or a smaller segment, copy, and remove the old   *)
(* one.  An operator says what a call leaves when f is the system call     *)
(* that fails in it: "find" the attach that looks for the entry, "attach"  *)
(* the attach of the old list, "get" the new segment, "map" its attach.    *)
(***************************************************************************)
EXTENDS Integers, Sequences, SequencesExt

CONSTANTS
  Names,          \* names of hosts, of variables, of pools
  NSegs,          \* SHMMNI: segments the host has
  Gone            \* an identifier no segment has

Segs == 1 .. NSegs
None == 0                       \* identifier -1
Blank == "blank"                \* what nobody wrote in a new segment
ASSUME NamesAssumption == Names # {} /\ Blank \notin Names
ASSUME SegmentsAssumption == NSegs \in Nat \ {0} /\ Gone \notin Seq(Names \cup {Blank})
SystemCalls == {"no", "find", "attach", "get", "map"}

EmptyList == [n |-> 0, shm |-> None]
Entries(h, l) == IF l.n = 0 THEN <<>> ELSE h[l.shm]
Listed(h, l) == ToSet(Entries(h, l))

NoneLeft(h) == \A s \in Segs : h[s] # Gone
NewSegment(h) == CHOOSE s \in Segs : h[s] = Gone
Removed(h, s) == IF s = None THEN h ELSE [h EXCEPT ![s] = Gone]

Result(l, h, ok) == [list |-> l, heap |-> h, ok |-> ok]
Unchanged(h, l, ok) == Result(l, h, ok)
(* The list is taken for empty; its segment belongs to nobody.             *)
Forgotten(h, ok) == Result(EmptyList, h, ok)
Freed(h, l, ok) == Result(EmptyList, Removed(h, l.shm), ok)
(* The new segment is got, and belongs to nobody.                          *)
Lost(h, l) == Result(l, [h EXCEPT ![NewSegment(h)] = <<>>], FALSE)
ReplacedKept(h, l, es) ==        \* mutant: removes the new segment, not the old one
  LET s == NewSegment(h)
  IN  Result([n |-> Len(es), shm |-> s], [h EXCEPT ![s] = Gone], TRUE)
Replaced(h, l, es) ==
  LET s == NewSegment(h)
  IN  Result([n |-> Len(es), shm |-> s], Removed([h EXCEPT ![s] = es], l.shm), TRUE)

(* A call for a segment fails: it was refused, or none is left.  A segment *)
(* of no bytes is refused.                                                 *)
GetFails(h, f) == f = "get" \/ NoneLeft(h)
Without(h, l, x) ==
  LET es == Entries(h, l)
      kept[i \in 0 .. Len(es)] ==
        IF i = 0 THEN <<>>
        ELSE IF es[i] = x THEN kept[i - 1] ELSE Append(kept[i - 1], es[i])
  IN  kept[Len(es)]

----------------------------------------------------------------------------
(* Blocked hosts.                                                          *)
job_block_host_add(h, l, x, f) ==
  IF l.n > 0 /\ f = "find" THEN Unchanged(h, l, FALSE)
  ELSE IF x \in Listed(h, l) THEN Unchanged(h, l, TRUE)
  ELSE IF GetFails(h, f) THEN Unchanged(h, l, FALSE)
  ELSE IF f = "map" THEN Lost(h, l)
  ELSE Replaced(h, l, Append(Entries(h, l), x))

(* By its place in the list: the last one is freed.                        *)
job_delete_blocked_host(h, l, i, f) ==
  IF i > l.n \/ f \in {"find", "attach"} THEN Unchanged(h, l, FALSE)
  ELSE IF l.n = 1 THEN Freed(h, l, TRUE)
  ELSE IF GetFails(h, f) THEN Unchanged(h, l, FALSE)
  ELSE IF f = "map" THEN Lost(h, l)
  ELSE Replaced(h, l, RemoveAt(Entries(h, l), i))

(* By its name: the segment for no host is refused, the last one stays.    *)
job_block_host_remove_by_name(h, l, x, f) ==
  IF x \notin Listed(h, l) \/ f = "find" THEN Unchanged(h, l, TRUE)
  ELSE IF f = "attach" \/ l.n = 1 \/ GetFails(h, f) THEN Unchanged(h, l, FALSE)
  ELSE IF f = "map" THEN Unchanged(h, l, FALSE)
  ELSE Replaced(h, l, Without(h, l, x))

----------------------------------------------------------------------------
(* Environment variables.  A variable that cannot be looked for is taken   *)
(* for absent; without a new segment the list is freed.                    *)
envvars_variable_add(h, l, x, f) ==
  IF x \in Listed(h, l) /\ f # "find" THEN Unchanged(h, l, TRUE)
  ELSE IF GetFails(h, f) THEN Freed(h, l, FALSE)
  ELSE IF f = "map" THEN Unchanged(h, l, FALSE)
  ELSE Replaced(h, l, Append(Entries(h, l), x))

envvars_variable_delete(h, l, x, f) ==
  IF x \notin Listed(h, l) \/ f = "find" THEN Unchanged(h, l, TRUE)
  ELSE IF l.n = 1 THEN Freed(h, l, TRUE)
  ELSE IF GetFails(h, f) THEN Unchanged(h, l, FALSE)
  ELSE IF f = "map" THEN Lost(h, l)
  ELSE LET rest == Without(h, l, x)
       IN  Replaced(h, l, rest \o [i \in 1 .. l.n - 1 - Len(rest) |-> Blank])

----------------------------------------------------------------------------
(* Pools of a computer.  A list that cannot be attached is initialised.    *)
PoolAlone(h, l, x, f) ==         \* mutant: the old pools are not copied
  IF GetFails(h, f) THEN Unchanged(h, l, FALSE) ELSE Replaced(h, l, <<x>>)
PoolAppended(h, l, x, f) ==
  IF GetFails(h, f) THEN Unchanged(h, l, FALSE)
  ELSE IF f = "map" THEN Lost(h, l)
  ELSE Replaced(h, l, Append(Entries(h, l), x))
computer_pool_add(h, l, x, f) ==
  IF l.n > 0 /\ f = "find" THEN PoolAppended(h, EmptyList, x, f)
  ELSE IF x \in Listed(h, l) THEN Unchanged(h, l, TRUE)
  ELSE IF l.n > 0 /\ f = "attach" THEN Forgotten(h, FALSE)
  ELSE PoolAppended(h, l, x, f)

computer_pool_remove(h, l, x, f) ==
  IF l.n > 0 /\ f = "find" THEN Forgotten(h, FALSE)
  ELSE IF x \notin Listed(h, l) THEN Unchanged(h, l, FALSE)
  ELSE IF f = "attach" THEN Forgotten(h, FALSE)
  ELSE IF l.n = 1 \/ GetFails(h, f) THEN Unchanged(h, l, FALSE)
  ELSE IF f = "map" THEN Lost(h, l)
  ELSE Replaced(h, l, Without(h, l, x))

----------------------------------------------------------------------------
(* A list that comes over a connection, or from the file, is built from an *)
(* empty one; f fails when the k-th entry is added, and nobody looks.      *)
Built(add(_, _, _, _), h, es, f, k) ==
  LET r[i \in 0 .. Len(es)] ==
        IF i = 0 THEN Result(EmptyList, h, TRUE)
        ELSE add(r[i - 1].heap, r[i - 1].list, es[i], IF i = k THEN f ELSE "no")
  IN  r[Len(es)]
recv_envvars(h, es, f, k) == Built(envvars_variable_add, h, es, f, k)
recv_computer_pools(h, es, f, k) == Built(computer_pool_add, h, es, f, k)

(* Blocked hosts come as one block: without its segment nothing is loaded. *)
load_blocked_hosts(h, es, f) ==
  IF es = <<>> THEN Result(EmptyList, h, TRUE)
  ELSE IF GetFails(h, f) THEN Unchanged(h, EmptyList, FALSE)
  ELSE IF f = "map" THEN Lost(h, EmptyList)
  ELSE Replaced(h, EmptyList, es)
=============================================================================
