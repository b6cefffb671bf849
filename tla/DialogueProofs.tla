--------------------------- MODULE DialogueProofs ---------------------------
(***************************************************************************)
(* What Dialogue promises of the semaphores of both ends, and of the truth *)
(* of answers, for every request, every length of the lists and every      *)
(* fault.                                                                  *)
(***************************************************************************)
EXTENDS Dialogue, SequenceTheorems, WellFoundedInduction, TLAPS

(***************************************************************************)
(* Scripts keep the discipline of the semaphore: at each event the level,  *)
(* how often the end has the semaphore, is what the event needs, and a     *)
(* jump over events that could not be transferred keeps the level.         *)
(***************************************************************************)
Tags == {"leave", "undo", "on", "hide", "die"}
Transfers == {"put", "take", "compare"}
Ops == Transfers \cup {"do", "call", "lock", "release", "give up"}
Kinds == {"size", "data", "count", "request", "effect", "call", "semaphore", ""}
Words ==
  {"", "NOAVJOB", "NOERROR", "NOREGIS", "NOSPACE", "RS_R_JOBAVAILABLE", "RS_R_KILLTASK",
   "R_R_UCLIMITS", "blocked_host", "computer freed", "envvar", "frame assigned",
   "frame finished", "frame reserved", "frame settled", "frame waiting", "frame_info",
   "frames renumbered", "frames waiting", "host blocked", "host unblocked", "hwinfo", "id",
   "itask", "job", "job continued", "job deleted", "job stopped", "kill", "lastconn", "length",
   "limits", "listed", "load balance", "loadavg", "npools", "nrunning", "phantom", "pool",
   "registered", "request", "requeues reset", "slot", "status", "string", "task",
   "task loaded", "task reserved", "value"}
Contents == [kind : Kinds, of : Words, n : Nat]
Events == [op : Ops, what : Contents, fails : Tags, rest : Nat]
Traces == Seq(Events)

Change(ev) == IF ev.op = "lock" THEN 1 ELSE IF ev.op = "release" THEN 0 - 1 ELSE 0
(* The handlers of a slave call without the semaphore; the one that lists  *)
(* blocked hosts releases what it does not have.                           *)
Modes == {"any", "slave", "list"}
Keeps(m, l, ev) ==
  /\ ev.op = "release" => l > 0 \/ m = "list"
  /\ ev.op = "do" => l = 1 \/ ev.what.of = "load balance"
  /\ ev.op = "call" => l = 0 \/ m # "slave"
Levels(m, t, h, L) ==
  /\ L \in [0 .. Len(t) -> Int] /\ L[0] = h
  /\ \A i \in 1 .. Len(t) :
       /\ L[i] = L[i - 1] + Change(t[i]) /\ Keeps(m, L[i - 1], t[i])
       /\ t[i].fails = "on" => i + t[i].rest <= Len(t) /\ L[i + t[i].rest] = L[i]

(* From level h every trace of S keeps it and ends at one of the levels K. *)
Run(m, S, h, K) ==
  \A t \in S : t \in Traces /\ \E L : Levels(m, t, h, L) /\ L[Len(t)] \in K

(* Scripts of transfers and ways out only.                                 *)
Plain(S) ==
  \A t \in S : /\ t \in Traces
               /\ \A i \in 1 .. Len(t) : /\ t[i].op \in Transfers \cup {"give up"}
                                         /\ t[i].fails = "on" => i + t[i].rest <= Len(t)

----------------------------------------------------------------------------
(* Sequences.                                                              *)
LEMMA TraceIs ==
  ASSUME NEW t \in Traces
  PROVE  /\ Len(t) \in Nat /\ DOMAIN t = 1 .. Len(t)
         /\ \A i \in 1 .. Len(t) : t[i] \in Events
BY LenProperties, ElementOfSeq DEF Traces

LEMMA Joined ==
  ASSUME NEW a \in Traces, NEW b \in Traces
  PROVE  /\ a \o b \in Traces /\ Len(a \o b) = Len(a) + Len(b)
         /\ \A i \in 1 .. Len(a) : (a \o b)[i] = a[i]
         /\ \A i \in Len(a) + 1 .. Len(a) + Len(b) : (a \o b)[i] = b[i - Len(a)]
<1>1. /\ a \o b \in Traces /\ Len(a \o b) = Len(a) + Len(b)
      /\ \A i \in 1 .. Len(a) + Len(b) : (a \o b)[i] = IF i <= Len(a) THEN a[i] ELSE b[i - Len(a)]
  BY ConcatProperties DEF Traces
<1>2. Len(a) \in Nat /\ Len(b) \in Nat
  BY TraceIs
<1> HIDE DEF Traces
<1> QED
  BY <1>1, <1>2

LEMMA EmptyTrace == <<>> \in Traces /\ Len(<<>>) = 0
BY EmptySeq DEF Traces

LEMMA EventIs ==
  ASSUME NEW ev \in Events
  PROVE  /\ <<ev>> \in Traces /\ Len(<<ev>>) = 1 /\ <<ev>>[1] = ev
BY DEF Traces

LEMMA InScript ==
  ASSUME NEW A, NEW B, NEW t \in A ** B
  PROVE  \E a \in A, b \in B : t = a \o b
BY DEF **

LEMMA MadeEvents ==
  ASSUME NEW op \in Ops, NEW what \in Contents, NEW fails \in Tags
  PROVE  [op |-> op, what |-> what, fails |-> fails, rest |-> 0] \in Events
BY DEF Events

----------------------------------------------------------------------------
(* Composition.                                                            *)
LEMMA RunThen ==
  ASSUME NEW m, NEW A, NEW B, NEW h, NEW k, NEW K, Run(m, A, h, {k}), Run(m, B, k, K)
  PROVE  Run(m, A ** B, h, K)
<1> SUFFICES ASSUME NEW t \in A ** B
             PROVE  t \in Traces /\ \E L : Levels(m, t, h, L) /\ L[Len(t)] \in K
  BY DEF Run
<1>1. PICK a \in A, b \in B : t = a \o b
  BY InScript
<1>2. a \in Traces /\ b \in Traces
  BY DEF Run
<1>3. PICK La : Levels(m, a, h, La) /\ La[Len(a)] = k
  BY DEF Run
<1>4. PICK Lb : Levels(m, b, k, Lb) /\ Lb[Len(b)] \in K
  BY DEF Run
<1>5. PICK p, q : p = Len(a) /\ q = Len(b) /\ p \in Nat /\ q \in Nat
  BY <1>2, TraceIs
<1>6. /\ t \in Traces /\ Len(t) = p + q
      /\ \A i \in 1 .. p : t[i] = a[i]
      /\ \A i \in p + 1 .. p + q : t[i] = b[i - p]
  BY <1>1, <1>2, <1>5, Joined
<1>7. /\ La \in [0 .. p -> Int] /\ La[0] = h /\ La[p] = k
      /\ \A i \in 1 .. p : La[i] = La[i - 1] + Change(a[i]) /\ Keeps(m, La[i - 1], a[i])
      /\ \A i \in 1 .. p : a[i].fails = "on" => i + a[i].rest <= p /\ La[i + a[i].rest] = La[i]
  BY <1>3, <1>5 DEF Levels
<1>8. /\ Lb \in [0 .. q -> Int] /\ Lb[0] = k /\ Lb[q] \in K
      /\ \A i \in 1 .. q : Lb[i] = Lb[i - 1] + Change(b[i]) /\ Keeps(m, Lb[i - 1], b[i])
      /\ \A i \in 1 .. q : b[i].fails = "on" => i + b[i].rest <= q /\ Lb[i + b[i].rest] = Lb[i]
  BY <1>4, <1>5 DEF Levels
<1>9. (\A i \in 1 .. p : a[i].rest \in Nat) /\ \A i \in 1 .. q : b[i].rest \in Nat
  BY <1>2, <1>5, TraceIs DEF Events
<1> DEFINE L == [i \in 0 .. p + q |-> IF i <= p THEN La[i] ELSE Lb[i - p]]
<1>10. L \in [0 .. p + q -> Int]
  BY <1>5, <1>7, <1>8
<1>11. (\A i \in 0 .. p : L[i] = La[i]) /\ \A i \in p .. p + q : L[i] = Lb[i - p]
  BY <1>5, <1>7, <1>8
<1> HIDE DEF L
<1>12. \A i \in 1 .. p :
         /\ L[i] = L[i - 1] + Change(t[i]) /\ Keeps(m, L[i - 1], t[i])
         /\ t[i].fails = "on" => i + t[i].rest <= p + q /\ L[i + t[i].rest] = L[i]
  <2> SUFFICES ASSUME NEW i \in 1 .. p
               PROVE  /\ L[i] = L[i - 1] + Change(t[i]) /\ Keeps(m, L[i - 1], t[i])
                      /\ t[i].fails = "on" => i + t[i].rest <= p + q /\ L[i + t[i].rest] = L[i]
    OBVIOUS
  <2>1. t[i] = a[i] /\ i \in 0 .. p /\ i - 1 \in 0 .. p /\ L[i] = La[i] /\ L[i - 1] = La[i - 1]
    BY <1>5, <1>6, <1>11
  <2>2. ASSUME a[i].fails = "on" PROVE i + a[i].rest <= p + q /\ L[i + a[i].rest] = La[i]
    <3>1. PICK r : r = a[i].rest /\ r \in Nat /\ i + r <= p /\ La[i + r] = La[i]
      BY <1>7, <1>9, <2>2
    <3>2. i + r \in 0 .. p /\ i + r <= p + q
      BY <1>5, <3>1
    <3> QED
      BY <1>11, <3>1, <3>2
  <2> QED
    BY <1>7, <2>1, <2>2
<1>13. \A i \in p + 1 .. p + q :
         /\ L[i] = L[i - 1] + Change(t[i]) /\ Keeps(m, L[i - 1], t[i])
         /\ t[i].fails = "on" => i + t[i].rest <= p + q /\ L[i + t[i].rest] = L[i]
  <2> SUFFICES ASSUME NEW i \in p + 1 .. p + q
               PROVE  /\ L[i] = L[i - 1] + Change(t[i]) /\ Keeps(m, L[i - 1], t[i])
                      /\ t[i].fails = "on" => i + t[i].rest <= p + q /\ L[i + t[i].rest] = L[i]
    OBVIOUS
  <2>1. PICK j : j = i - p /\ j \in 1 .. q /\ j - 1 = (i - 1) - p
    BY <1>5
  <2>2. t[i] = b[j] /\ L[i] = Lb[j] /\ L[i - 1] = Lb[j - 1]
    BY <1>5, <1>6, <1>11, <2>1
  <2>3. ASSUME b[j].fails = "on" PROVE i + b[j].rest <= p + q /\ L[i + b[j].rest] = Lb[j]
    <3>1. PICK r : r = b[j].rest /\ r \in Nat /\ j + r <= q /\ Lb[j + r] = Lb[j]
      BY <1>8, <1>9, <2>1, <2>3
    <3>2. i + r \in p .. p + q /\ (i + r) - p = j + r
      BY <1>5, <2>1, <3>1
    <3> QED
      BY <1>11, <3>1, <3>2
  <2> QED
    BY <1>8, <2>1, <2>2, <2>3
<1>14. Levels(m, t, h, L)
  <2>1. L[0] = h
    BY <1>5, <1>7, <1>11
  <2>2. \A i \in 1 .. p + q : i \in 1 .. p \/ i \in p + 1 .. p + q
    BY <1>5
  <2> QED
    BY <1>6, <1>10, <1>12, <1>13, <2>1, <2>2 DEF Levels
<1>15. L[Len(t)] \in K
  <2>1. p + q \in p .. p + q /\ (p + q) - p = q
    BY <1>5
  <2> QED
    BY <1>6, <1>8, <1>11, <2>1
<1> QED
  BY <1>6, <1>14, <1>15

LEMMA RunNothing == ASSUME NEW m, NEW h \in Int PROVE Run(m, Nothing, h, {h})
<1>1. PICK L : L = [i \in 0 .. 0 |-> h]
  OBVIOUS
<1>2. Levels(m, <<>>, h, L) /\ L[Len(<<>>)] \in {h}
  BY <1>1, EmptyTrace DEF Levels
<1> QED
  BY <1>2, EmptyTrace DEF Run, Nothing

LEMMA Units ==
  /\ 0 \in 0 .. 1 /\ 1 \in 0 .. 1 /\ 1 # 0 /\ 0 \in Int /\ 0 \in Nat /\ 1 \in Int
  /\ \A i \in 1 .. 1 : i = 1 /\ i - 1 = 0
  /\ \A h \in Int : h + 0 = h
OBVIOUS

LEMMA RunEvent ==
  ASSUME NEW m, NEW op \in Ops, NEW what \in Contents, NEW fails \in Tags, NEW h \in Int, NEW k,
         fails # "on",
         op = "release" => h > 0 \/ m = "list",
         op = "do" => h = 1 \/ what.of = "load balance",
         op = "call" => h = 0 \/ m # "slave",
         k \in Int, op = "lock" => k = h + 1, op = "release" => k = h - 1,
         op \notin {"lock", "release"} => k = h
  PROVE  Run(m, Event(op, what, fails), h, {k})
<1>1. PICK ev : ev = [op |-> op, what |-> what, fails |-> fails, rest |-> 0]
  OBVIOUS
<1>2. ev \in Events /\ ev.op = op /\ ev.what = what /\ ev.fails = fails
  BY <1>1, MadeEvents
<1>3. <<ev>> \in Traces /\ Len(<<ev>>) = 1 /\ <<ev>>[1] = ev
  BY <1>2, EventIs
<1>4. Change(ev) \in Int /\ k = h + Change(ev)
  <2>1. CASE op = "lock"
    BY <1>2, <2>1 DEF Change
  <2>2. CASE op = "release"
    BY <1>2, <2>2 DEF Change
  <2>3. CASE op \notin {"lock", "release"}
    <3>1. Change(ev) = 0
      BY <1>2, <2>3 DEF Change
    <3> QED
      BY <2>3, <3>1, Units, Zenon
  <2> QED
    BY <2>1, <2>2, <2>3
<1>5. Keeps(m, h, ev)
  BY <1>2 DEF Keeps
<1>6. PICK L : L = [i \in 0 .. 1 |-> IF i = 0 THEN h ELSE k]
  OBVIOUS
<1>7. L \in [0 .. 1 -> Int] /\ L[0] = h /\ L[1] = k
  <2>1. \A i \in 0 .. 1 : (IF i = 0 THEN h ELSE k) \in Int
    OBVIOUS
  <2> QED
    BY <1>6, <2>1, Units, Zenon
<1>8. Levels(m, <<ev>>, h, L) /\ L[Len(<<ev>>)] = k
  <2>1. PICK t : t = <<ev>>
    OBVIOUS
  <2>2. Len(t) = 1 /\ t[1] = ev /\ t[1].fails # "on"
    BY <1>2, <1>3, <2>1
  <2>4. L[1] = L[0] + Change(ev) /\ Keeps(m, L[0], ev)
    BY <1>4, <1>5, <1>7
  <2>5. Levels(m, t, h, L)
    BY <1>7, <2>2, <2>4, Units, Zenon DEF Levels
  <2> QED
    BY <1>7, <2>1, <2>2, <2>5
<1>9. \A t \in Event(op, what, fails) : t = <<ev>>
  BY <1>1 DEF Event
<1> QED
  BY <1>3, <1>8, <1>9 DEF Run

LEMMA RunWider ==
  ASSUME NEW m, NEW S, NEW h, NEW K, NEW J, Run(m, S, h, K), K \subseteq J
  PROVE  Run(m, S, h, J)
BY DEF Run

LEMMA RunUnion ==
  ASSUME NEW m, NEW A, NEW B, NEW h, NEW K, Run(m, A, h, K), Run(m, B, h, K)
  PROVE  Run(m, A \cup B, h, K)
BY DEF Run

----------------------------------------------------------------------------
(* A script n times: induction over an interval, and the function that     *)
(* Times is defined with exists.                                           *)
LEMMA IntervalInduction ==
  ASSUME NEW n \in Nat, NEW S, 0 \in S, \A i \in 1 .. n : i - 1 \in S => i \in S
  PROVE  \A i \in 0 .. n : i \in S
<1> DEFINE W == {i \in 0 .. n : i \notin S}
<1> SUFFICES ASSUME W # {} PROVE FALSE
  OBVIOUS
<1>1. PICK x \in W : \A y \in W : ~ (<<y, x>> \in OpToRel(<, Nat))
  <2>1. W \subseteq Nat
    OBVIOUS
  <2> HIDE DEF W
  <2> QED
    BY <2>1, WFMin, NatLessThanWellFounded
<1>2. OpToRel(<, Nat) = {ss \in Nat \X Nat : ss[1] < ss[2]}
  BY Zenon DEF OpToRel
<1>3. x \in 1 .. n
  OBVIOUS
<1>4. x - 1 \notin W
  <2>1. <<x - 1, x>> \in Nat \X Nat /\ x - 1 < x
    BY <1>3
  <2>2. <<x - 1, x>> \in {ss \in Nat \X Nat : ss[1] < ss[2]}
    BY <2>1
  <2> QED
    BY <1>1, <1>2, <2>2
<1> QED
  BY <1>3, <1>4

Repeats(f, n, S) == f = [i \in 0 .. n |-> IF i = 0 THEN Nothing ELSE f[i - 1] ** S]

LEMMA RepeatsExist == ASSUME NEW n \in Nat, NEW S PROVE \E f : Repeats(f, n, S)
<1> DEFINE D == {m \in Nat : \E f : Repeats(f, m, S)}
<1>1. 0 \in D
  <2>1. PICK f : f = [i \in 0 .. 0 |-> Nothing]
    OBVIOUS
  <2>2. f = [i \in 0 .. 0 |-> IF i = 0 THEN Nothing ELSE f[i - 1] ** S]
    BY <2>1
  <2> QED
    BY <2>2 DEF Repeats
<1>2. ASSUME NEW m \in 1 .. n, m - 1 \in D PROVE m \in D
  <2>1. PICK f : Repeats(f, m - 1, S)
    BY <1>2
  <2>2. \A i \in 0 .. m - 1 : f[i] = IF i = 0 THEN Nothing ELSE f[i - 1] ** S
    BY <2>1 DEF Repeats
  <2> DEFINE g == [i \in 0 .. m |-> IF i = m THEN f[m - 1] ** S ELSE f[i]]
  <2>3. ASSUME NEW i \in 0 .. m PROVE g[i] = IF i = 0 THEN Nothing ELSE g[i - 1] ** S
    <3>1. CASE i = m
      <4>1. g[m] = f[m - 1] ** S /\ g[m - 1] = f[m - 1] /\ m # 0
        OBVIOUS
      <4> QED
        BY <3>1, <4>1
    <3>2. CASE i # m
      <4>1. g[i] = f[i] /\ i \in 0 .. m - 1 /\ (i # 0 => g[i - 1] = f[i - 1])
        BY <3>2
      <4> HIDE DEF g
      <4> QED
        BY <2>2, <4>1
    <3> QED
      BY <3>1, <3>2
  <2> DEFINE G == [i \in 0 .. m |-> IF i = 0 THEN Nothing ELSE g[i - 1] ** S]
  <2>4. \A i \in 0 .. m : g[i] = G[i]
    <3> HIDE DEF g
    <3> QED
      BY <2>3
  <2>5. /\ DOMAIN g = 0 .. m /\ DOMAIN G = 0 .. m
        /\ g = [i \in DOMAIN g |-> g[i]] /\ G = [i \in DOMAIN G |-> G[i]]
    OBVIOUS
  <2>6. g = G
    <3> HIDE DEF g, G
    <3> QED
      BY <2>4, <2>5
  <2>7. Repeats(g, m, S)
    <3> HIDE DEF g
    <3> QED
      BY <2>6 DEF Repeats
  <2> HIDE DEF g
  <2> QED
    BY <2>7
<1> HIDE DEF D
<1>3. n \in D
  BY <1>1, <1>2, IntervalInduction
<1> QED
  BY <1>3 DEF D

LEMMA TimesIs == ASSUME NEW n \in Nat, NEW S PROVE \E f : Repeats(f, n, S) /\ Times(n, S) = f[n]
<1>1. \E f : Repeats(f, n, S)
  BY RepeatsExist
<1>2. PICK f : f = CHOOSE t : t = [i \in 0 .. n |-> IF i = 0 THEN Nothing ELSE t[i - 1] ** S]
  OBVIOUS
<1>3. Repeats(f, n, S)
  BY <1>1, <1>2 DEF Repeats
<1>4. Times(n, S) = f[n]
  BY <1>2 DEF Times
<1> QED
  BY <1>3, <1>4

----------------------------------------------------------------------------
(* Messages.                                                               *)
LEMMA MessageIs ==
  ASSUME NEW kind \in Kinds, NEW of \in Words, NEW n \in Nat
  PROVE  Msg(kind, of, n) \in Contents /\ Msg(kind, of, n).of = of
BY DEF Msg, Contents

LEMMA TheMessages ==
  /\ \A of \in Words :
       /\ Size(of) \in Contents /\ Data(of) \in Contents /\ Answer(of) \in Contents
       /\ \A n \in Nat : Count(of, n) \in Contents
       /\ Msg("effect", of, 0) \in Contents /\ Msg("effect", of, 0).of = of
       /\ Msg("call", of, 0) \in Contents
  /\ Msg("semaphore", "", 0) \in Contents /\ Msg("", "", 0) \in Contents
<1>1. /\ "size" \in Kinds /\ "data" \in Kinds /\ "request" \in Kinds /\ "count" \in Kinds
      /\ "effect" \in Kinds /\ "call" \in Kinds /\ "semaphore" \in Kinds /\ "" \in Kinds
  BY DEF Kinds
<1>2. "" \in Words
  BY DEF Words
<1> QED
  BY <1>1, <1>2, MessageIs, Units, Zenon DEF Size, Data, Answer, Count

----------------------------------------------------------------------------
(* Scripts of transfers.                                                   *)
LEMMA PlainNothing == Plain(Nothing)
<1>1. \A i \in 1 .. 0 : FALSE
  OBVIOUS
<1> QED
  BY <1>1, EmptyTrace, Zenon DEF Plain, Nothing

LEMMA PlainEvent ==
  ASSUME NEW op \in Transfers \cup {"give up"}, NEW what \in Contents, NEW fails \in Tags \ {"on"}
  PROVE  Plain(Event(op, what, fails))
<1>1. PICK ev : ev = [op |-> op, what |-> what, fails |-> fails, rest |-> 0]
  OBVIOUS
<1>2. ev \in Events /\ ev.op = op /\ ev.fails = fails
  BY <1>1, MadeEvents DEF Ops
<1>3. <<ev>> \in Traces /\ Len(<<ev>>) = 1 /\ <<ev>>[1] = ev
  BY <1>2, EventIs
<1>4. \A t \in Event(op, what, fails) : t = <<ev>>
  BY <1>1 DEF Event
<1> QED
  BY <1>2, <1>3, <1>4, Units, Zenon DEF Plain

LEMMA PlainThen == ASSUME NEW A, NEW B, Plain(A), Plain(B) PROVE Plain(A ** B)
<1> SUFFICES ASSUME NEW t \in A ** B
             PROVE  /\ t \in Traces
                    /\ \A i \in 1 .. Len(t) : /\ t[i].op \in Transfers \cup {"give up"}
                                              /\ t[i].fails = "on" => i + t[i].rest <= Len(t)
  BY DEF Plain
<1>1. PICK a \in A, b \in B : t = a \o b
  BY InScript
<1>2. a \in Traces /\ b \in Traces
  BY DEF Plain
<1>3. PICK p, q : p = Len(a) /\ q = Len(b) /\ p \in Nat /\ q \in Nat
  BY <1>2, TraceIs
<1>4. /\ t \in Traces /\ Len(t) = p + q
      /\ \A i \in 1 .. p : t[i] = a[i]
      /\ \A i \in p + 1 .. p + q : t[i] = b[i - p]
  BY <1>1, <1>2, <1>3, Joined
<1>5. (\A i \in 1 .. p : a[i].rest \in Nat) /\ \A i \in 1 .. q : b[i].rest \in Nat
  BY <1>2, <1>3, TraceIs DEF Events
<1>6. ASSUME NEW i \in 1 .. p
      PROVE  /\ t[i].op \in Transfers \cup {"give up"}
             /\ t[i].fails = "on" => i + t[i].rest <= p + q
  <2>1. /\ a[i].op \in Transfers \cup {"give up"} /\ a[i].rest \in Nat
        /\ a[i].fails = "on" => i + a[i].rest <= p
    BY <1>3, <1>5 DEF Plain
  <2>2. t[i] = a[i]
    BY <1>4
  <2>3. a[i].fails = "on" => i + a[i].rest <= p + q
    <3>1. PICK r : r = a[i].rest /\ r \in Nat
      BY <2>1
    <3>2. i + r <= p => i + r <= p + q
      BY <1>3, <3>1
    <3> QED
      BY <2>1, <3>1, <3>2
  <2> QED
    BY <2>1, <2>2, <2>3
<1>7. ASSUME NEW i \in p + 1 .. p + q
      PROVE  /\ t[i].op \in Transfers \cup {"give up"}
             /\ t[i].fails = "on" => i + t[i].rest <= p + q
  <2>1. PICK j : j = i - p /\ j \in 1 .. q
    BY <1>3
  <2>2. /\ b[j].op \in Transfers \cup {"give up"} /\ b[j].rest \in Nat
        /\ b[j].fails = "on" => j + b[j].rest <= q
    BY <1>3, <1>5, <2>1 DEF Plain
  <2>3. t[i] = b[j]
    BY <1>4, <2>1
  <2>4. b[j].fails = "on" => i + b[j].rest <= p + q
    <3>1. PICK r : r = b[j].rest /\ r \in Nat
      BY <2>2
    <3>2. j + r <= q => i + r <= p + q
      BY <1>3, <2>1, <3>1
    <3> QED
      BY <2>2, <3>1, <3>2
  <2> QED
    BY <2>2, <2>3, <2>4
<1>8. \A i \in 1 .. p + q : i \in 1 .. p \/ i \in p + 1 .. p + q
  BY <1>3
<1> QED
  BY <1>4, <1>6, <1>7, <1>8

LEMMA PlainOr == ASSUME NEW A, NEW B, Plain(A), Plain(B) PROVE Plain(A \cup B)
BY DEF Plain

LEMMA PlainAny == ASSUME NEW F, \A S \in F : Plain(S) PROVE Plain(UNION F)
BY DEF Plain

LEMMA PlainTimes == ASSUME NEW n \in Nat, NEW S, Plain(S) PROVE Plain(Times(n, S))
<1>1. PICK f : Repeats(f, n, S) /\ Times(n, S) = f[n]
  BY TimesIs
<1>2. \A i \in 0 .. n : f[i] = IF i = 0 THEN Nothing ELSE f[i - 1] ** S
  BY <1>1 DEF Repeats
<1> DEFINE D == {i \in 0 .. n : Plain(f[i])}
<1>3. 0 \in D
  <2>1. 0 \in 0 .. n
    OBVIOUS
  <2> QED
    BY <1>2, <2>1, PlainNothing
<1>4. ASSUME NEW i \in 1 .. n, i - 1 \in D PROVE i \in D
  <2>1. f[i] = f[i - 1] ** S
    BY <1>2
  <2> QED
    BY <1>4, <2>1, PlainThen
<1>5. n \in 0 .. n
  OBVIOUS
<1> HIDE DEF D
<1>6. n \in D
  BY <1>3, <1>4, <1>5, IntervalInduction
<1> QED
  BY <1>1, <1>6 DEF D

(* What Failing makes of a trace.                                          *)
Tagged(tag, t) ==
  [i \in DOMAIN t |->
      IF t[i].fails = "leave" /\ t[i].op \in {"put", "take", "compare"}
      THEN [t[i] EXCEPT !.fails = tag, !.rest = IF tag = "on" THEN Len(t) - i ELSE 0]
      ELSE t[i]]
LEMMA TaggedIs ==
  ASSUME NEW tag \in Tags, NEW t \in Traces, NEW u, u = Tagged(tag, t)
  PROVE  /\ u \in Traces /\ Len(u) = Len(t)
         /\ \A i \in 1 .. Len(t) :
              /\ u[i].op = t[i].op /\ u[i].what = t[i].what
              /\ u[i] = t[i] \/ /\ u[i].op \in Transfers /\ u[i].fails = tag
                                /\ tag = "on" => u[i].rest = Len(t) - i
<1>1. PICK n : n = Len(t) /\ n \in Nat /\ DOMAIN t = 1 .. n /\ \A i \in 1 .. n : t[i] \in Events
  BY TraceIs
<1>2. DOMAIN u = 1 .. n
  BY <1>1 DEF Tagged
<1>3. ASSUME NEW i \in 1 .. n
      PROVE  /\ u[i] \in Events /\ u[i].op = t[i].op /\ u[i].what = t[i].what
             /\ u[i] = t[i] \/ /\ u[i].op \in Transfers /\ u[i].fails = tag
                               /\ tag = "on" => u[i].rest = n - i
  <2>1. PICK ev : ev = t[i] /\ ev \in Events
    BY <1>1
  <2>2. PICK r : r = IF tag = "on" THEN n - i ELSE 0
    OBVIOUS
  <2>3. r \in Nat
    BY <1>1, <2>2
  <2>4. CASE ev.fails = "leave" /\ ev.op \in {"put", "take", "compare"}
    <3>1. u[i] = [ev EXCEPT !.fails = tag, !.rest = r]
      BY <1>1, <2>1, <2>2, <2>4, Zenon DEF Tagged
    <3>2. /\ u[i] \in Events /\ u[i].op = ev.op /\ u[i].what = ev.what
          /\ u[i].fails = tag /\ u[i].rest = r
      BY <2>1, <2>3, <3>1 DEF Events
    <3> QED
      BY <2>1, <2>2, <2>4, <3>2 DEF Transfers
  <2>5. CASE ~(ev.fails = "leave" /\ ev.op \in {"put", "take", "compare"})
    <3>1. u[i] = ev
      BY <1>1, <2>1, <2>5, Zenon DEF Tagged
    <3> QED
      BY <2>1, <3>1
  <2> QED
    BY <2>4, <2>5
<1>4. u \in Traces
  <2>1. u = [i \in 1 .. n |-> u[i]]
    BY <1>2 DEF Tagged
  <2>2. u \in [1 .. n -> Events]
    BY <1>3, <2>1
  <2> QED
    BY <1>1, <2>2 DEF Traces
<1>5. Len(u) = n
  BY <1>1, <1>2, <1>4, TraceIs
<1> QED
  BY <1>1, <1>3, <1>4, <1>5

LEMMA InFailing ==
  ASSUME NEW tag, NEW S, NEW u \in Failing(tag, S) PROVE \E t \in S : u = Tagged(tag, t)
BY DEF Failing, Tagged

LEMMA PlainFailing == ASSUME NEW tag \in Tags, NEW S, Plain(S) PROVE Plain(Failing(tag, S))
<1> SUFFICES ASSUME NEW u \in Failing(tag, S)
             PROVE  /\ u \in Traces
                    /\ \A i \in 1 .. Len(u) : /\ u[i].op \in Transfers \cup {"give up"}
                                              /\ u[i].fails = "on" => i + u[i].rest <= Len(u)
  BY DEF Plain
<1>1. PICK t \in S : u = Tagged(tag, t)
  BY InFailing
<1>2. t \in Traces
  BY DEF Plain
<1>3. PICK n : n = Len(t) /\ n \in Nat
  BY <1>2, TraceIs
<1>4. /\ u \in Traces /\ Len(u) = n
      /\ \A i \in 1 .. n :
           /\ u[i].op = t[i].op
           /\ u[i] = t[i] \/ (u[i].fails = tag /\ (tag = "on" => u[i].rest = n - i))
  BY <1>1, <1>2, <1>3, TaggedIs
<1>5. ASSUME NEW i \in 1 .. n
      PROVE  /\ u[i].op \in Transfers \cup {"give up"}
             /\ u[i].fails = "on" => i + u[i].rest <= n
  <2>1. t[i].op \in Transfers \cup {"give up"} /\ (t[i].fails = "on" => i + t[i].rest <= n)
    BY <1>3 DEF Plain
  <2>2. CASE u[i] = t[i]
    BY <2>1, <2>2
  <2>3. CASE u[i].fails = tag /\ (tag = "on" => u[i].rest = n - i)
    <3>1. i + (n - i) <= n
      BY <1>3
    <3> QED
      BY <1>4, <2>1, <2>3, <3>1
  <2> QED
    BY <1>4, <2>2, <2>3
<1> QED
  BY <1>4, <1>5

----------------------------------------------------------------------------
(* Transfers keep the level; the failures of a script may be handled in    *)
(* another way; scripts by the number of what they transfer; sections.     *)
LEMMA PlainRun ==
  ASSUME NEW m, NEW S, NEW h \in Int, Plain(S)
  PROVE  Run(m, S, h, {h})
<1> SUFFICES ASSUME NEW t \in S
             PROVE  t \in Traces /\ \E L : Levels(m, t, h, L) /\ L[Len(t)] \in {h}
  BY DEF Run
<1>1. t \in Traces
  BY DEF Plain
<1>2. PICK n : n = Len(t) /\ n \in Nat /\ \A i \in 1 .. n : t[i] \in Events
  BY <1>1, TraceIs
<1>3. PICK L : L = [i \in 0 .. n |-> h]
  OBVIOUS
<1>4. L \in [0 .. n -> Int] /\ \A i \in 0 .. n : L[i] = h
  BY <1>3
<1>5. ASSUME NEW i \in 1 .. n
      PROVE  /\ L[i] = L[i - 1] + Change(t[i]) /\ Keeps(m, L[i - 1], t[i])
             /\ t[i].fails = "on" => i + t[i].rest <= n /\ L[i + t[i].rest] = L[i]
  <2>1. t[i].op \in Transfers \cup {"give up"} /\ (t[i].fails = "on" => i + t[i].rest <= n)
    BY <1>2 DEF Plain
  <2>2. i \in 0 .. n /\ i - 1 \in 0 .. n /\ L[i] = h /\ L[i - 1] = h
    BY <1>2, <1>4
  <2>3. Change(t[i]) = 0
    BY <2>1 DEF Change, Transfers
  <2>4. Keeps(m, L[i - 1], t[i])
    BY <2>1 DEF Keeps, Transfers
  <2>5. t[i].fails = "on" => i + t[i].rest <= n /\ L[i + t[i].rest] = L[i]
    <3>1. PICK r : r = t[i].rest /\ r \in Nat
      BY <1>2 DEF Events
    <3>2. i + r <= n => i + r \in 0 .. n
      BY <1>2, <3>1
    <3> QED
      BY <1>4, <2>1, <2>2, <3>1, <3>2
  <2>6. L[i] = L[i - 1] + Change(t[i])
    BY <2>2, <2>3, Units, Zenon
  <2> QED
    BY <2>4, <2>5, <2>6
<1>6. Levels(m, t, h, L)
  <2>1. L[0] = h
    BY <1>2, <1>4
  <2> QED
    BY <1>2, <1>4, <1>5, <2>1 DEF Levels
<1>7. L[Len(t)] \in {h}
  BY <1>2, <1>4
<1> QED
  BY <1>1, <1>6, <1>7

LEMMA RunFailing ==
  ASSUME NEW m, NEW S, NEW h, NEW K, NEW tag \in Tags \ {"on"}, Run(m, S, h, K)
  PROVE  Run(m, Failing(tag, S), h, K)
<1> SUFFICES ASSUME NEW u \in Failing(tag, S)
             PROVE  u \in Traces /\ \E L : Levels(m, u, h, L) /\ L[Len(u)] \in K
  BY DEF Run
<1>1. PICK t \in S : u = Tagged(tag, t)
  BY InFailing
<1>2. t \in Traces
  BY DEF Run
<1>3. PICK n : n = Len(t) /\ n \in Nat
  BY <1>2, TraceIs
<1>4. /\ u \in Traces /\ Len(u) = n
      /\ \A i \in 1 .. n :
           /\ u[i].op = t[i].op /\ u[i].what = t[i].what
           /\ u[i] = t[i] \/ u[i].fails = tag
  <2>1. /\ u \in Traces /\ Len(u) = Len(t)
        /\ \A i \in 1 .. Len(t) :
             /\ u[i].op = t[i].op /\ u[i].what = t[i].what
             /\ u[i] = t[i] \/ /\ u[i].op \in Transfers /\ u[i].fails = tag
                               /\ tag = "on" => u[i].rest = Len(t) - i
    BY <1>1, <1>2, TaggedIs
  <2> QED
    BY <1>3, <2>1
<1>5. PICK L : Levels(m, t, h, L) /\ L[Len(t)] \in K
  BY DEF Run
<1>6. ASSUME NEW i \in 1 .. n
      PROVE  /\ L[i] = L[i - 1] + Change(u[i]) /\ Keeps(m, L[i - 1], u[i])
             /\ u[i].fails = "on" => i + u[i].rest <= n /\ L[i + u[i].rest] = L[i]
  <2>1. /\ L[i] = L[i - 1] + Change(t[i]) /\ Keeps(m, L[i - 1], t[i])
        /\ t[i].fails = "on" => i + t[i].rest <= n /\ L[i + t[i].rest] = L[i]
    BY <1>3, <1>5 DEF Levels
  <2>2. Change(u[i]) = Change(t[i])
    BY <1>4, Zenon DEF Change
  <2>3. Keeps(m, L[i - 1], u[i])
    BY <1>4, <2>1, Zenon DEF Keeps
  <2>4. u[i].fails = "on" => u[i] = t[i]
    BY <1>4
  <2>5. L[i] = L[i - 1] + Change(u[i])
    BY <2>1, <2>2, Zenon
  <2> QED
    BY <2>1, <2>3, <2>4, <2>5, Zenon
<1>7. Levels(m, u, h, L)
  <2>1. L \in [0 .. n -> Int] /\ L[0] = h
    BY <1>3, <1>5 DEF Levels
  <2> QED
    BY <1>4, <1>6, <2>1, Zenon DEF Levels
<1> QED
  BY <1>3, <1>4, <1>5, <1>7

LEMMA RunAny ==
  ASSUME NEW m, NEW F, NEW h, NEW K, \A S \in F : Run(m, S, h, K)
  PROVE  Run(m, UNION F, h, K)
BY DEF Run

LEMMA RunLock == ASSUME NEW m, NEW h \in Nat PROVE Run(m, Lock, h, {h + 1})
<1>1. PICK op, c, f : op = "lock" /\ c = Msg("semaphore", "", 0) /\ f = "leave"
  OBVIOUS
<1>2. op \in Ops /\ f \in Tags /\ f # "on"
  BY <1>1 DEF Ops, Tags
<1>3. c \in Contents
  BY <1>1, TheMessages
<1>4. PICK k : k = h + 1 /\ k \in Int /\ h \in Int
  OBVIOUS
<1>5. op = "lock" /\ op # "release" /\ op # "do" /\ op # "call"
  BY <1>1
<1>6. Run(m, Event(op, c, f), h, {k})
  BY <1>2, <1>3, <1>4, <1>5, RunEvent
<1> QED
  BY <1>1, <1>4, <1>6 DEF Lock

LEMMA RunRelease ==
  ASSUME NEW m, NEW h \in Int, h > 0 \/ m = "list"
  PROVE  Run(m, Release, h, {h - 1})
<1>1. PICK op, c, f : op = "release" /\ c = Msg("semaphore", "", 0) /\ f = "leave"
  OBVIOUS
<1>2. op \in Ops /\ f \in Tags /\ f # "on"
  BY <1>1 DEF Ops, Tags
<1>3. c \in Contents
  BY <1>1, TheMessages
<1>4. PICK k : k = h - 1 /\ k \in Int
  OBVIOUS
<1>5. op # "lock" /\ op = "release" /\ op # "do" /\ op # "call"
  BY <1>1
<1>6. Run(m, Event(op, c, f), h, {k})
  BY <1>2, <1>3, <1>4, <1>5, RunEvent
<1> QED
  BY <1>1, <1>4, <1>6 DEF Release

LEMMA RunDo ==
  ASSUME NEW m, NEW x \in Words, NEW h \in Int, h = 1 \/ x = "load balance"
  PROVE  Run(m, Do(x), h, {h})
<1>1. PICK op, c, f : op = "do" /\ c = Msg("effect", x, 0) /\ f = "leave"
  OBVIOUS
<1>2. op \in Ops /\ f \in Tags /\ f # "on"
  BY <1>1 DEF Ops, Tags
<1>3. c \in Contents /\ c.of = x
  BY <1>1, TheMessages
<1>5. op # "lock" /\ op # "release" /\ op = "do" /\ op # "call"
  BY <1>1
<1>6. Run(m, Event(op, c, f), h, {h})
  BY <1>2, <1>3, <1>5, RunEvent
<1> QED
  BY <1>1, <1>6 DEF Do

LEMMA RunCall ==
  ASSUME NEW m, NEW x \in Words, NEW h \in Int, h = 0 \/ m # "slave"
  PROVE  Run(m, Call(x), h, {h})
<1>1. PICK op, c, f : op = "call" /\ c = Msg("call", x, 0) /\ f = "leave"
  OBVIOUS
<1>2. op \in Ops /\ f \in Tags /\ f # "on"
  BY <1>1 DEF Ops, Tags
<1>3. c \in Contents
  BY <1>1, TheMessages
<1>5. op # "lock" /\ op # "release" /\ op # "do" /\ op = "call"
  BY <1>1
<1>6. Run(m, Event(op, c, f), h, {h})
  BY <1>2, <1>3, <1>5, RunEvent
<1> QED
  BY <1>1, <1>6 DEF Call

LEMMA RunLocked ==
  ASSUME NEW m, NEW S, NEW h \in Nat, Run(m, S, h + 1, {h + 1})
  PROVE  Run(m, Locked(S), h, {h})
<1>1. PICK k : k = h + 1 /\ k \in Int /\ k > 0 /\ k - 1 = h
  OBVIOUS
<1>2. Run(m, Lock, h, {k})
  BY <1>1, RunLock
<1>3. Run(m, S, k, {k})
  BY <1>1
<1>4. Run(m, Release, k, {h})
  BY <1>1, RunRelease
<1>5. Run(m, Lock ** S, h, {k})
  BY <1>2, <1>3, RunThen
<1> QED
  BY <1>4, <1>5, RunThen DEF Locked

----------------------------------------------------------------------------
(* The messages of Messages are scripts of transfers.                      *)
LEMMA PlainTransfers ==
  /\ \A c \in Contents : Plain(Put(c)) /\ Plain(Take(c))
  /\ \A of \in Words : Plain(Compare(of))
  /\ Plain(Leave) /\ Plain(Undo) /\ Plain(Die)
<1>1. /\ {"put", "take", "compare", "give up"} \subseteq Transfers \cup {"give up"}
      /\ {"leave", "undo", "die"} \subseteq Tags \ {"on"}
  BY DEF Transfers, Tags
<1>2. \A of \in Words : Size(of) \in Contents
  BY TheMessages
<1>3. Msg("", "", 0) \in Contents
  BY TheMessages
<1> QED
  BY <1>1, <1>2, <1>3, PlainEvent DEF Put, Take, Compare, Leave, Undo, Die

LEMMA PlainSized ==
  ASSUME NEW of \in Words
  PROVE  /\ Plain(check_send_datasize(of)) /\ Plain(check_recv_datasize(of))
         /\ Plain(SendSized(of)) /\ Plain(RecvSized(of))
<1>1. /\ Plain(Put(Size(of))) /\ Plain(Take(Size(of))) /\ Plain(Compare(of))
      /\ Plain(Put(Data(of))) /\ Plain(Take(Data(of)))
  BY TheMessages, PlainTransfers
<1>2. Plain(check_send_datasize(of)) /\ Plain(check_recv_datasize(of))
  BY <1>1, PlainThen DEF check_send_datasize, check_recv_datasize
<1> QED
  BY <1>1, <1>2, PlainThen DEF SendSized, RecvSized

LEMMA PlainAnswers ==
  /\ \A c \in Words : Plain(send_answer(c)) /\ Plain(recv_request(c))
  /\ Plain(send_request)
<1>1. "request" \in Words
  BY DEF Words
<1> QED
  BY <1>1, TheMessages, PlainTransfers DEF send_answer, recv_request, send_request

LEMMA PlainCount ==
  ASSUME NEW of \in Words, NEW n \in 0 .. MaxItems
  PROVE  n \in Nat /\ Plain(Put(Count(of, n))) /\ Plain(Take(Count(of, n)))
<1>1. n \in Nat
  BY MaxItemsAssumption
<1> QED
  BY <1>1, TheMessages, PlainTransfers


LEMMA TheWords ==
  {"NOAVJOB", "NOERROR", "NOREGIS", "NOSPACE", "blocked_host", "envvar", "frame_info", "hwinfo",
   "id", "itask", "job", "length", "limits", "listed", "loadavg", "npools", "nrunning", "pool",
   "request", "string", "task"} \subseteq Words
BY DEF Words

LEMMA PlainSimple ==
  /\ Plain(send_computer_hwinfo) /\ Plain(recv_computer_hwinfo) /\ Plain(send_task) /\ Plain(recv_task)
  /\ Plain(send_envvar) /\ Plain(recv_envvar) /\ Plain(send_frame_info) /\ Plain(recv_frame_info)
  /\ Plain(send_string) /\ Plain(recv_string) /\ Plain(send_blocked_host) /\ Plain(recv_blocked_host)
<1>1. /\ Plain(send_computer_hwinfo) /\ Plain(recv_computer_hwinfo) /\ Plain(send_task)
      /\ Plain(recv_task) /\ Plain(send_envvar) /\ Plain(recv_envvar)
      /\ Plain(send_blocked_host) /\ Plain(recv_blocked_host)
  BY TheWords, PlainSized DEF send_computer_hwinfo, recv_computer_hwinfo, send_task, recv_task,
     send_envvar, recv_envvar, send_blocked_host, recv_blocked_host
<1>2. Plain(send_frame_info) /\ Plain(recv_frame_info)
  BY TheWords, TheMessages, PlainTransfers DEF send_frame_info, recv_frame_info
<1>3. Plain(send_string) /\ Plain(recv_string)
  BY TheWords, PlainSized, PlainThen DEF send_string, recv_string
<1> QED
  BY <1>1, <1>2, <1>3

LEMMA PlainEnvvars == Plain(send_envvars) /\ Plain(recv_envvars)
<1>1. ASSUME NEW n \in 0 .. MaxItems
      PROVE  /\ Plain(Put(Count("envvar", n)) ** (Times(n, send_envvar) \cup IF n > 0 THEN Die ELSE {}))
             /\ Plain(Take(Count("envvar", n)) ** Times(n, recv_envvar))
  <2>1. n \in Nat /\ Plain(Put(Count("envvar", n))) /\ Plain(Take(Count("envvar", n)))
    BY TheWords, PlainCount
  <2>2. Plain(Times(n, send_envvar)) /\ Plain(Times(n, recv_envvar))
    BY <2>1, PlainSimple, PlainTimes
  <2>3. Plain(IF n > 0 THEN Die ELSE {})
    BY PlainTransfers, Zenon DEF Plain
  <2> QED
    BY <2>1, <2>2, <2>3, PlainThen, PlainOr
<1>2. /\ \A S \in {Put(Count("envvar", n)) ** (Times(n, send_envvar) \cup IF n > 0 THEN Die ELSE {}) :
                      n \in 0 .. MaxItems} : Plain(S)
      /\ \A S \in {Take(Count("envvar", n)) ** Times(n, recv_envvar) : n \in 0 .. MaxItems} : Plain(S)
  BY <1>1
<1> QED
  BY <1>2, PlainAny DEF send_envvars, recv_envvars

LEMMA PlainJob == Plain(send_job) /\ Plain(recv_job)
BY TheWords, PlainSized, PlainEnvvars, PlainThen DEF send_job, recv_job

LEMMA PlainJobLive == Plain(send_job_live)
<1> DEFINE G(n, m) == Put(Count("envvar", n)) ** (Times(m, send_envvar) \cup IF m > 0 THEN Die ELSE {})
<1>1. ASSUME NEW n \in 0 .. MaxItems, NEW m \in 0 .. MaxItems PROVE Plain(G(n, m))
  <2>1. m \in Nat /\ Plain(Put(Count("envvar", n)))
    BY TheWords, PlainCount
  <2>2. Plain(Times(m, send_envvar))
    BY <2>1, PlainSimple, PlainTimes
  <2>3. Plain(IF m > 0 THEN Die ELSE {})
    BY PlainTransfers, Zenon DEF Plain
  <2> QED
    BY <2>1, <2>2, <2>3, PlainThen, PlainOr
<1> DEFINE F == {G(n, m) : n, m \in 0 .. MaxItems}
<1>2. send_job_live = SendSized("job") ** UNION F
  BY DEF send_job_live
<1>3. \A S \in F : Plain(S)
  <2> HIDE DEF G
  <2> QED
    BY <1>1
<1> HIDE DEF F
<1>4. Plain(UNION F)
  BY <1>3, PlainAny
<1>5. Plain(SendSized("job"))
  BY TheWords, PlainSized
<1> QED
  BY <1>2, <1>4, <1>5, PlainThen

LEMMA TheTags == {"leave", "undo", "on", "hide", "die"} \subseteq Tags
BY DEF Tags

LEMMA PlainStatus == Plain(send_computer_status) /\ Plain(recv_computer_status)
<1> DEFINE G(n) == Put(Count("task", n)) ** Put(Data("nrunning")) ** Times(n, send_task)
<1> DEFINE H(n) == Failing("on", Take(Count("task", n)) ** Take(Data("nrunning"))) ** Times(n, recv_task)
<1> DEFINE F == {G(n) : n \in 0 .. MaxItems}
<1> DEFINE E == {H(n) : n \in 0 .. MaxItems}
<1>1. ASSUME NEW n \in 0 .. MaxItems PROVE Plain(G(n)) /\ Plain(H(n))
  <2>1. n \in Nat /\ Plain(Put(Count("task", n))) /\ Plain(Take(Count("task", n)))
    BY TheWords, PlainCount
  <2>2. Plain(Times(n, send_task)) /\ Plain(Times(n, recv_task))
    BY <2>1, PlainSimple, PlainTimes
  <2>3. Plain(Put(Data("nrunning"))) /\ Plain(Take(Data("nrunning")))
    BY TheWords, TheMessages, PlainTransfers
  <2>4. Plain(Take(Count("task", n)) ** Take(Data("nrunning")))
    BY <2>1, <2>3, PlainThen
  <2>5. Plain(Failing("on", Take(Count("task", n)) ** Take(Data("nrunning"))))
    BY <2>4, TheTags, PlainFailing
  <2> QED
    BY <2>1, <2>2, <2>3, <2>5, PlainThen
<1>2. /\ send_computer_status = Put(Data("loadavg")) ** UNION F
      /\ recv_computer_status = Failing("on", Take(Data("loadavg"))) ** UNION E
  BY DEF send_computer_status, recv_computer_status
<1>3. (\A S \in F : Plain(S)) /\ \A S \in E : Plain(S)
  <2> HIDE DEF G, H
  <2> QED
    BY <1>1
<1> HIDE DEF F, E
<1>4. Plain(UNION F) /\ Plain(UNION E)
  BY <1>3, PlainAny
<1>5. Plain(Put(Data("loadavg"))) /\ Plain(Failing("on", Take(Data("loadavg"))))
  BY TheTags, TheWords, TheMessages, PlainTransfers, PlainFailing
<1> QED
  BY <1>2, <1>4, <1>5, PlainThen

LEMMA PlainPools == Plain(send_computer_pools) /\ Plain(recv_computer_pools)
<1> DEFINE G(n) == check_send_datasize("npools") ** Put(Count("pool", n)) **
                     (Times(n, SendSized("pool")) \cup IF n > 0 THEN Leave ELSE {})
<1> DEFINE H(n) == check_recv_datasize("npools") ** Take(Count("pool", n)) ** Times(n, RecvSized("pool"))
<1> DEFINE F == {G(n) : n \in 0 .. MaxItems}
<1> DEFINE E == {H(n) : n \in 0 .. MaxItems}
<1>1. ASSUME NEW n \in 0 .. MaxItems PROVE Plain(G(n)) /\ Plain(H(n))
  <2>1. n \in Nat /\ Plain(Put(Count("pool", n))) /\ Plain(Take(Count("pool", n)))
    BY TheWords, PlainCount
  <2>2. Plain(Times(n, SendSized("pool"))) /\ Plain(Times(n, RecvSized("pool")))
    BY <2>1, TheWords, PlainSized, PlainTimes
  <2>3. Plain(check_send_datasize("npools")) /\ Plain(check_recv_datasize("npools"))
    BY TheWords, PlainSized
  <2>4. Plain(IF n > 0 THEN Leave ELSE {})
    BY PlainTransfers, Zenon DEF Plain
  <2> QED
    BY <2>1, <2>2, <2>3, <2>4, PlainThen, PlainOr
<1>2. send_computer_pools = UNION F /\ recv_computer_pools = UNION E
  BY DEF send_computer_pools, recv_computer_pools
<1>3. (\A S \in F : Plain(S)) /\ \A S \in E : Plain(S)
  <2> HIDE DEF G, H
  <2> QED
    BY <1>1
<1> HIDE DEF F, E
<1> QED
  BY <1>2, <1>3, PlainAny

LEMMA PlainPoolsLive == Plain(send_computer_pools_live)
<1> DEFINE G(n, m) == check_send_datasize("npools") ** Put(Count("pool", n)) **
                        (Times(m, SendSized("pool")) \cup IF m > 0 THEN Leave ELSE {})
<1> DEFINE F == {G(n, m) : n, m \in 0 .. MaxItems}
<1>1. ASSUME NEW n \in 0 .. MaxItems, NEW m \in 0 .. MaxItems PROVE Plain(G(n, m))
  <2>1. m \in Nat /\ Plain(Put(Count("pool", n)))
    BY TheWords, PlainCount
  <2>2. Plain(Times(m, SendSized("pool")))
    BY <2>1, TheWords, PlainSized, PlainTimes
  <2>3. Plain(check_send_datasize("npools"))
    BY TheWords, PlainSized
  <2>4. Plain(IF m > 0 THEN Leave ELSE {})
    BY PlainTransfers, Zenon DEF Plain
  <2> QED
    BY <2>1, <2>2, <2>3, <2>4, PlainThen, PlainOr
<1>2. send_computer_pools_live = UNION F
  BY DEF send_computer_pools_live
<1>3. \A S \in F : Plain(S)
  <2> HIDE DEF G
  <2> QED
    BY <1>1
<1> HIDE DEF F
<1> QED
  BY <1>2, <1>3, PlainAny

LEMMA PlainComputer ==
  /\ Plain(send_computer_limits) /\ Plain(recv_computer_limits)
  /\ Plain(send_computer) /\ Plain(recv_computer)
<1>1. Plain(send_computer_limits) /\ Plain(recv_computer_limits)
  BY TheWords, PlainSized, PlainPools, PlainThen DEF send_computer_limits, recv_computer_limits
<1> QED
  BY <1>1, PlainStatus, PlainSimple, PlainThen DEF send_computer, recv_computer

LEMMA PlainRefused == ASSUME NEW codes, codes \subseteq Words PROVE Plain(Refused(codes))
<1> DEFINE F == {recv_request(c) ** Leave : c \in codes}
<1>1. Refused(codes) = UNION F
  BY DEF Refused
<1>2. \A S \in F : Plain(S)
  BY PlainAnswers, PlainTransfers, PlainThen
<1> HIDE DEF F
<1> QED
  BY <1>1, <1>2, PlainAny

----------------------------------------------------------------------------
(* The functions that ask.                                                 *)
LEMMA PlainRegistering == Plain(register_slave) /\ Plain(register_job) /\ Plain(request_task_finished)
<1>1. /\ Plain(send_request) /\ Plain(recv_request("NOERROR")) /\ Plain(recv_request("id"))
      /\ Plain(recv_request("NOSPACE")) /\ Plain(Die) /\ Plain(send_computer_hwinfo)
      /\ Plain(send_job) /\ Plain(send_task) /\ Plain(Refused({"NOSPACE"}))
  BY TheWords, PlainAnswers, PlainTransfers, PlainSimple, PlainJob, PlainRefused
<1>2. Plain(send_request **
              (recv_request("NOERROR") ** recv_request("id") ** send_computer_hwinfo
                 \cup recv_request("NOSPACE") ** Die))
  BY <1>1, PlainThen, PlainOr
<1>3. Plain(register_slave)
  BY <1>2, TheTags, PlainFailing DEF register_slave
<1>4. Plain(register_job)
  BY <1>1, PlainThen, PlainOr DEF register_job
<1>5. Plain(send_request ** recv_request("NOERROR"))
  BY <1>1, PlainThen
<1>6. Plain(request_task_finished)
  BY <1>1, <1>5, TheTags, PlainFailing, PlainThen DEF request_task_finished
<1> QED
  BY <1>3, <1>4, <1>6

LEMMA PlainLists ==
  Plain(request_job_list) /\ Plain(request_computer_list) /\ Plain(request_job_list_blocked_host)
<1> DEFINE G(n) == Take(Count("listed", n)) ** Failing("hide", Times(n, recv_job))
<1> DEFINE H(n) == Take(Count("listed", n)) ** Failing("hide", Times(n, recv_computer))
<1> DEFINE J(n) == Take(Count("listed", n)) ** Times(n, Failing("on", recv_blocked_host))
<1> DEFINE F == {G(n) : n \in 0 .. MaxItems}
<1> DEFINE E == {H(n) : n \in 0 .. MaxItems}
<1> DEFINE D == {J(n) : n \in 0 .. MaxItems}
<1>1. ASSUME NEW n \in 0 .. MaxItems PROVE Plain(G(n)) /\ Plain(H(n)) /\ Plain(J(n))
  <2>1. n \in Nat /\ Plain(Take(Count("listed", n)))
    BY TheWords, PlainCount
  <2>2. Plain(Times(n, recv_job)) /\ Plain(Times(n, recv_computer))
    BY <2>1, PlainJob, PlainComputer, PlainTimes
  <2>3. Plain(Failing("on", recv_blocked_host))
    BY TheTags, PlainSimple, PlainFailing
  <2>4. Plain(Times(n, Failing("on", recv_blocked_host)))
    BY <2>1, <2>3, PlainTimes
  <2>5. Plain(Failing("hide", Times(n, recv_job))) /\ Plain(Failing("hide", Times(n, recv_computer)))
    BY <2>2, TheTags, PlainFailing
  <2> QED
    BY <2>1, <2>4, <2>5, PlainThen
<1>2. /\ request_job_list = send_request ** UNION F
      /\ request_computer_list = send_request ** UNION E
      /\ request_job_list_blocked_host = send_request ** UNION D
  BY DEF request_job_list, request_computer_list, request_job_list_blocked_host
<1>3. (\A S \in F : Plain(S)) /\ (\A S \in E : Plain(S)) /\ \A S \in D : Plain(S)
  <2> HIDE DEF G, H, J
  <2> QED
    BY <1>1
<1> HIDE DEF F, E, D
<1>4. Plain(UNION F) /\ Plain(UNION E) /\ Plain(UNION D)
  BY <1>3, PlainAny
<1> QED
  BY <1>2, <1>4, PlainAnswers, PlainThen

LEMMA PlainJobAskers ==
  /\ Plain(request_job_envvars) /\ Plain(request_job_xfer) /\ Plain(request_job_xferfi)
  /\ Plain(request_job_frame_info) /\ Plain(request_comp_xfer) /\ Plain(update_computer_limits)
<1>1. /\ Plain(send_request) /\ Plain(recv_request("NOERROR")) /\ Plain(Refused({"NOREGIS"}))
  BY TheWords, PlainAnswers, PlainRefused
<1>2. Plain(request_job_envvars)
  BY <1>1, PlainEnvvars, PlainThen DEF request_job_envvars
<1>3. Plain(request_job_xfer)
  BY <1>1, PlainJob, PlainThen, PlainOr DEF request_job_xfer
<1>4. Plain(request_job_xferfi)
  <2> DEFINE F == {Times(n, recv_frame_info) : n \in 0 .. MaxItems}
  <2>1. request_job_xferfi =
          send_request ** (recv_request("NOERROR") ** (UNION F) \cup Refused({"NOREGIS"}))
    BY DEF request_job_xferfi
  <2>2. \A n \in 0 .. MaxItems : n \in Nat
    BY MaxItemsAssumption
  <2>3. \A S \in F : Plain(S)
    BY <2>2, PlainSimple, PlainTimes
  <2> HIDE DEF F
  <2>4. Plain(UNION F)
    BY <2>3, PlainAny
  <2>5. Plain(recv_request("NOERROR") ** (UNION F))
    BY <1>1, <2>4, PlainThen
  <2>6. Plain(recv_request("NOERROR") ** (UNION F) \cup Refused({"NOREGIS"}))
    BY <1>1, <2>5, PlainOr
  <2>7. Plain(send_request ** (recv_request("NOERROR") ** (UNION F) \cup Refused({"NOREGIS"})))
    BY <1>1, <2>6, PlainThen
  <2> QED
    BY <2>1, <2>7
<1>5. Plain(request_job_frame_info)
  BY <1>1, PlainSimple, PlainThen DEF request_job_frame_info
<1>6. Plain(request_comp_xfer)
  BY <1>1, PlainComputer, PlainThen, PlainOr DEF request_comp_xfer
<1>7. Plain(update_computer_limits)
  BY <1>1, TheWords, PlainSized, PlainPoolsLive, PlainThen, PlainOr DEF update_computer_limits
<1> QED
  BY <1>2, <1>3, <1>4, <1>5, <1>6, <1>7

LEMMA PlainNumbers ==
  /\ Plain(TwoNumbers) /\ Plain(request_job_sesupdate) /\ Plain(request_slave_limits_autoenable_set)
  /\ Plain(send_request ** send_string) /\ Plain(send_request ** recv_string)
BY PlainAnswers, PlainSimple, PlainThen, PlainTimes
   DEF TwoNumbers, request_job_sesupdate, request_slave_limits_autoenable_set

LEMMA PlainFirst ==
  ASSUME NEW m, NEW A, NEW B, NEW h \in Int, NEW K, Plain(A), Run(m, B, h, K)
  PROVE  Run(m, A ** B, h, K)
BY PlainRun, RunThen

LEMMA PlainLast ==
  ASSUME NEW m, NEW A, NEW B, NEW h, NEW k \in Int, Run(m, A, h, {k}), Plain(B)
  PROVE  Run(m, A ** B, h, {k})
BY PlainRun, RunThen

LEMMA RunEnds == ASSUME NEW m, NEW S, NEW h, NEW k \in Int, Run(m, S, h, {k}) PROVE Run(m, S, h, Int)
BY RunWider

LEMMA SectionRuns ==
  ASSUME NEW m, NEW S, Run(m, S, 1, {1})
  PROVE  Run(m, Locked(S), 0, {0}) /\ Run(m, Locked(S), 0, Int)
<1>1. 0 + 1 = 1
  OBVIOUS
<1>2. Run(m, S, 0 + 1, {0 + 1})
  BY <1>1
<1> QED
  BY <1>2, Units, RunLocked, RunEnds

(* A section with nothing, and with one change.                            *)
LEMMA Sections ==
  ASSUME NEW m
  PROVE  /\ \A h \in Nat : Run(m, Locked(Nothing), h, {h})
         /\ \A x \in Words : Run(m, Locked(Do(x)), 0, {0}) /\ Run(m, Locked(Nothing \cup Do(x)), 0, {0})
         /\ Run(m, Lock ** Release, 0, {0}) /\ Run(m, Lock, 0, {1}) /\ Run(m, Release, 1, {0})
<1>1. 0 + 1 = 1 /\ 1 - 1 = 0 /\ 1 > 0 /\ 0 \in Nat /\ 1 \in Int
  OBVIOUS
<1>2. ASSUME NEW h \in Nat PROVE Run(m, Locked(Nothing), h, {h})
  <2>1. h + 1 \in Int
    OBVIOUS
  <2> QED
    BY <2>1, RunNothing, RunLocked
<1>3. ASSUME NEW x \in Words
      PROVE  Run(m, Locked(Do(x)), 0, {0}) /\ Run(m, Locked(Nothing \cup Do(x)), 0, {0})
  <2>1. Run(m, Do(x), 1, {1}) /\ Run(m, Nothing, 1, {1})
    BY <1>1, RunDo, RunNothing
  <2>2. Run(m, Nothing \cup Do(x), 1, {1})
    BY <2>1, RunUnion
  <2> QED
    BY <2>1, <2>2, SectionRuns
<1>4. Run(m, Lock, 0, {1})
  <2>1. Run(m, Lock, 0, {0 + 1})
    BY <1>1, RunLock
  <2> QED
    BY <1>1, <2>1
<1>5. Run(m, Release, 1, {0})
  <2>1. Run(m, Release, 1, {1 - 1})
    BY <1>1, RunRelease
  <2> QED
    BY <1>1, <2>1
<1>6. Run(m, Lock ** Release, 0, {0})
  BY <1>4, <1>5, RunThen
<1> QED
  BY <1>2, <1>3, <1>4, <1>5, <1>6

LEMMA StatusAskerRuns == Run("any", update_computer_status, 0, {0})
<1> DEFINE A == Failing("die", send_request)
<1> DEFINE N == Failing("die", recv_request("NOERROR"))
<1> DEFINE R == Failing("die", recv_request("NOREGIS")) ** Die
<1> DEFINE U == Failing("on", send_computer_status)
<1>1. Plain(A) /\ Plain(N) /\ Plain(R) /\ Plain(U)
  BY TheTags, TheWords, PlainAnswers, PlainTransfers, PlainStatus, PlainFailing, PlainThen
<1>2. update_computer_status = A ** (N ** Lock ** Release ** U \cup R)
  BY DEF update_computer_status
<1> HIDE DEF A, N, R, U
<1>3. Run("any", N ** Lock, 0, {1})
  BY <1>1, Sections, Units, PlainFirst
<1>4. Run("any", N ** Lock ** Release, 0, {0})
  BY <1>3, Sections, RunThen
<1>5. Run("any", N ** Lock ** Release ** U, 0, {0}) /\ Run("any", R, 0, {0})
  BY <1>1, <1>4, Units, PlainLast, PlainRun
<1>6. Run("any", N ** Lock ** Release ** U \cup R, 0, {0})
  BY <1>5, RunUnion
<1> QED
  BY <1>1, <1>2, <1>6, Units, PlainFirst

LEMMA FrameAskerRuns == Run("any", request_job_available, 0, {0})
<1> DEFINE C == Refused({"NOAVJOB", "NOREGIS"})
<1> DEFINE N == Failing("on", send_answer("NOSPACE")) ** Leave
<1> DEFINE T == Failing("undo", send_answer("NOERROR") ** send_answer("itask") ** recv_task)
<1> DEFINE W == Lock ** Release ** Failing("on", send_answer("NOSPACE")) ** Leave
<1> DEFINE V == Locked(Do("task reserved")) ** T ** Locked(Do("task loaded"))
<1>1. /\ Plain(C) /\ Plain(Failing("on", send_answer("NOSPACE"))) /\ Plain(Leave)
      /\ Plain(recv_request("NOERROR")) /\ Plain(send_request)
  BY TheTags, TheWords, PlainAnswers, PlainTransfers, PlainRefused, PlainFailing
<1>2. Plain(T)
  <2>1. Plain(send_answer("NOERROR") ** send_answer("itask") ** recv_task)
    BY TheWords, PlainAnswers, PlainSimple, PlainThen
  <2> QED
    BY <2>1, TheTags, PlainFailing
<1>3. request_job_available = send_request ** (C \cup recv_request("NOERROR") ** (W \cup V))
  BY DEF request_job_available
<1>4. Run("any", W, 0, {0})
  <2>1. Run("any", Lock ** Release, 0, {0})
    BY Sections
  <2>2. Run("any", Lock ** Release ** Failing("on", send_answer("NOSPACE")), 0, {0})
    BY <1>1, <2>1, Units, PlainLast
  <2> QED
    BY <1>1, <2>2, Units, PlainLast
<1>5. Run("any", V, 0, {0})
  <2> HIDE DEF T
  <2>1. /\ Run("any", Locked(Do("task reserved")), 0, {0})
        /\ Run("any", Locked(Do("task loaded")), 0, {0})
    <3>1. {"task reserved", "task loaded"} \subseteq Words
      BY DEF Words
    <3> QED
      BY <3>1, Sections
  <2>2. Run("any", Locked(Do("task reserved")) ** T, 0, {0})
    BY <1>2, <2>1, Units, PlainLast
  <2> QED
    BY <2>1, <2>2, RunThen
<1> HIDE DEF C, W, V
<1>6. Run("any", W \cup V, 0, {0}) /\ Run("any", C, 0, {0})
  BY <1>1, <1>4, <1>5, Units, RunUnion, PlainRun
<1>7. Run("any", recv_request("NOERROR") ** (W \cup V), 0, {0})
  BY <1>1, <1>6, Units, PlainFirst
<1>8. Run("any", C \cup recv_request("NOERROR") ** (W \cup V), 0, {0})
  BY <1>6, <1>7, RunUnion
<1> QED
  BY <1>1, <1>3, <1>8, Units, PlainFirst

(* Every function that asks runs from level 0, and back to it.             *)
LEMMA AskingRuns ==
  ASSUME NEW r \in MasterRequests \cup OnSlave
  PROVE  Run("any", Asking(r), 0, {0})
<1>1. CASE r \in {"R_R_REGISTER", "R_R_REGISJOB", "R_R_TASKFINI"}
  <2>1. Asking(r) \in {register_slave, register_job, request_task_finished}
    BY <1>1 DEF Asking
  <2> QED
    BY <2>1, PlainRegistering, PlainRun, Units
<1>2. CASE r = "R_R_UCSTATUS"
  BY <1>2, StatusAskerRuns DEF Asking
<1>3. CASE r = "R_R_AVAILJOB"
  BY <1>3, FrameAskerRuns DEF Asking
<1>4. CASE r \in {"R_R_LISTJOBS", "R_R_LISTCOMP", "R_R_JOBLSTBLKHOST"}
  <2>1. Asking(r) \in {request_job_list, request_computer_list, request_job_list_blocked_host}
    BY <1>4 DEF Asking
  <2> QED
    BY <2>1, PlainLists, PlainRun, Units
<1>5. CASE r \in {"R_R_JOBXFER", "R_R_JOBXFERFI", "R_R_COMPXFER", "R_R_UCLIMITS", "R_R_JOBFINFO",
                  "R_R_JOBENVVARS"}
  <2>1. Asking(r) \in {request_job_xfer, request_job_xferfi, request_comp_xfer, update_computer_limits,
                       request_job_frame_info, request_job_envvars}
    BY <1>5 DEF Asking
  <2> QED
    BY <2>1, PlainJobAskers, PlainRun, Units
<1>6. CASE r \in {"R_R_DELETJOB", "R_R_STOPJOB", "R_R_CONTJOB", "R_R_HSTOPJOB", "R_R_RERUNJOB",
                  "R_R_SLAVEXIT", "RS_R_KILLTASK", "RS_R_SETNMAXCPUS", "RS_R_SETENABLED",
                  "RS_R_SETMAXFREELOADCPU", "RS_R_JOBAVAILABLE"}
  <2>1. Asking(r) = send_request
    BY <1>6 DEF Asking, request_job_delete, request_job_stop, request_job_continue,
       request_job_hstop, request_job_rerun, request_slavexit, request_slave_killtask,
       request_slave_limits_nmaxcpus_set, request_slave_limits_enabled_set,
       request_slave_limits_maxfreeloadcpu_set, request_slave_job_available
  <2> QED
    BY <2>1, PlainAnswers, PlainRun, Units
<1>7. CASE r \in {"R_R_JOBFWAIT", "R_R_JOBFKILL", "R_R_JOBFFINI", "R_R_JOBFKFIN", "R_R_JOBLNMCS",
                  "R_R_JOBLNMCCS", "R_R_JOBPRIUP", "R_R_JOBFRSTRQD", "R_R_JOBBLKHOST",
                  "R_R_JOBDELBLKHOST", "R_R_JOBLMS"}
  <2>1. Asking(r) = TwoNumbers
    BY <1>7 DEF Asking, request_job_frame_waiting, request_job_frame_kill, request_job_frame_finish,
       request_job_frame_kill_finish, request_job_limits_nmaxcpus_set,
       request_job_limits_nmaxcpuscomputer_set, request_job_priority_update,
       request_job_frame_reset_requeued, request_job_add_blocked_host,
       request_job_delete_blocked_host, request_job_limits_memory_set
  <2> QED
    BY <2>1, PlainNumbers, PlainRun, Units
<1>8. CASE r \in {"R_R_JOBSESUP", "R_R_JOBLPS", "R_R_JOBBLKHOSTNAME", "R_R_JOBUNBLKHOSTNAME",
                  "R_R_JOBNAME", "RS_R_SETAUTOENABLE", "RS_R_LIMITSPOOLADD", "RS_R_LIMITSPOOLREMOVE"}
  <2>1. Asking(r) \in {request_job_sesupdate, request_slave_limits_autoenable_set,
                       send_request ** send_string, send_request ** recv_string}
    BY <1>8 DEF Asking, request_job_limits_pool_set, request_job_block_host_by_name,
       request_job_unblock_host_by_name, request_job_name, request_slave_limits_pool_add,
       request_slave_limits_pool_remove
  <2> QED
    BY <2>1, PlainNumbers, PlainRun, Units
<1> QED
  BY <1>1, <1>2, <1>3, <1>4, <1>5, <1>6, <1>7, <1>8 DEF MasterRequests, OnSlave

----------------------------------------------------------------------------
(* The handlers of the master.                                             *)
(* What an end does last.                                                  *)
LEMMA Tails ==
  ASSUME NEW m
  PROVE  /\ Run(m, Leave, 0, Int) /\ Run(m, Leave, 1, Int) /\ Run(m, Lock ** Leave, 0, Int)
         /\ Run(m, Release ** Leave, 1, Int) /\ Run(m, Locked(Nothing) ** Leave, 0, Int)
         /\ \A x \in Words : /\ Run(m, Locked(Do(x)), 0, Int)
                             /\ Run(m, Locked(Nothing \cup Do(x)), 0, Int)
<1>1. 0 \in Nat /\ 0 \in Int /\ 1 \in Int
  OBVIOUS
<1>2. Run(m, Leave, 0, Int) /\ Run(m, Leave, 1, Int)
  BY <1>1, PlainTransfers, PlainRun, RunEnds
<1>3. Run(m, Lock ** Leave, 0, Int)
  BY <1>2, Sections, RunThen
<1>4. Run(m, Release ** Leave, 1, Int)
  BY <1>2, Sections, RunThen
<1>5. Run(m, Locked(Nothing) ** Leave, 0, Int)
  BY <1>1, <1>2, Sections, RunThen
<1>6. \A x \in Words : Run(m, Locked(Do(x)), 0, Int) /\ Run(m, Locked(Nothing \cup Do(x)), 0, Int)
  BY <1>1, Sections, RunEnds
<1> QED
  BY <1>2, <1>3, <1>4, <1>5, <1>6

LEMMA Doing ==
  /\ \A m, x : x \in Words => Run(m, Do(x), 1, {1})
  /\ \A m : Run(m, Nothing, 1, {1}) /\ Run(m, Nothing, 0, {0})
  /\ \A m : m # "slave" => Run(m, Call("RS_R_KILLTASK"), 1, {1}) /\ Run(m, Kills, 1, {1})
<1>1. 1 \in Int /\ 0 \in Int /\ "RS_R_KILLTASK" \in Words
  BY DEF Words
<1>2. \A m, x : x \in Words => Run(m, Do(x), 1, {1})
  BY <1>1, RunDo
<1>3. \A m : Run(m, Nothing, 1, {1}) /\ Run(m, Nothing, 0, {0})
  BY <1>1, RunNothing
<1>4. \A m : m # "slave" => Run(m, Call("RS_R_KILLTASK"), 1, {1})
  BY <1>1, RunCall
<1>5. \A m : m # "slave" => Run(m, Kills, 1, {1})
  BY <1>3, <1>4, RunUnion DEF Kills
<1> QED
  BY <1>2, <1>3, <1>4, <1>5

LEMMA TheEffects ==
  {"computer freed", "frame assigned", "frame finished", "frame reserved", "frame settled",
   "frame waiting", "frames renumbered", "frames waiting", "host blocked", "host unblocked",
   "hwinfo", "job", "job continued", "job deleted", "job stopped", "lastconn", "limits",
   "load balance", "registered", "requeues reset", "slot", "status", "value"} \subseteq Words
BY DEF Words

LEMMA RegisterRuns == Run("any", handle_r_r_register, 0, Int)
<1> DEFINE A == send_answer("NOSPACE")
<1> DEFINE F == Failing("undo", send_answer("NOERROR") ** send_answer("id") ** recv_computer_hwinfo)
<1>1. Plain(A) /\ Plain(F) /\ Plain(Leave)
  <2>1. Plain(send_answer("NOERROR") ** send_answer("id") ** recv_computer_hwinfo)
    BY TheWords, PlainAnswers, PlainSimple, PlainThen
  <2> QED
    BY <2>1, TheTags, TheWords, PlainAnswers, PlainTransfers, PlainFailing
<1>2. handle_r_r_register =
        Lock ** (Release ** A ** Leave \cup Do("registered") ** F ** Do("hwinfo") ** Release)
  BY DEF handle_r_r_register
<1> HIDE DEF A, F
<1>3. Run("any", Release ** A ** Leave, 1, {0})
  BY <1>1, Units, Sections, PlainLast
<1>4. Run("any", Do("registered") ** F, 1, {1})
  BY <1>1, Units, Doing, TheEffects, PlainLast
<1>5. Run("any", Do("registered") ** F ** Do("hwinfo") ** Release, 1, {0})
  BY <1>4, Doing, TheEffects, Sections, RunThen
<1>6. Run("any", Lock ** (Release ** A ** Leave \cup Do("registered") ** F ** Do("hwinfo") ** Release), 0, {0})
  BY <1>3, <1>5, Sections, RunUnion, RunThen
<1> QED
  BY <1>2, <1>6, Units, RunEnds

LEMMA StatusRuns == Run("any", handle_r_r_ucstatus, 0, Int)
<1> DEFINE A == Failing("on", send_answer("NOREGIS")) ** Leave
<1> DEFINE B == Failing("on", send_answer("NOERROR")) ** recv_computer_status
<1>1. Plain(A) /\ Plain(B)
  BY TheTags, TheWords, PlainAnswers, PlainTransfers, PlainStatus, PlainFailing, PlainThen
<1>2. handle_r_r_ucstatus = A \cup B ** Locked(Do("status"))
  BY DEF handle_r_r_ucstatus
<1> HIDE DEF A, B
<1>3. Run("any", A, 0, {0}) /\ Run("any", B ** Locked(Do("status")), 0, {0})
  BY <1>1, Units, TheEffects, Sections, PlainRun, PlainFirst
<1> QED
  BY <1>2, <1>3, Units, RunUnion, RunEnds

LEMMA RegisjobRuns == Run("any", handle_r_r_regisjob, 0, Int)
<1> DEFINE A == Failing("on", send_answer("NOSPACE"))
<1> DEFINE B == Failing("on", send_answer("NOERROR"))
<1> DEFINE C == Failing("undo", recv_job)
<1> DEFINE D == send_answer("id")
<1>1. Plain(A) /\ Plain(B) /\ Plain(C) /\ Plain(D) /\ Plain(Leave)
  BY TheTags, TheWords, PlainAnswers, PlainTransfers, PlainJob, PlainFailing
<1>2. handle_r_r_regisjob =
        Lock ** (Release ** A ** Leave \cup Do("slot") ** Release ** B ** C ** Locked(Do("job")) ** D)
  BY DEF handle_r_r_regisjob
<1> HIDE DEF A, B, C, D
<1>3. Run("any", Release ** A ** Leave, 1, {0})
  BY <1>1, Units, Sections, PlainLast
<1>4. Run("any", Do("slot") ** Release, 1, {0})
  BY Doing, TheEffects, Sections, RunThen
<1>5. Run("any", Do("slot") ** Release ** B ** C, 1, {0})
  BY <1>1, <1>4, Units, PlainLast
<1>6. Run("any", Do("slot") ** Release ** B ** C ** Locked(Do("job")), 1, {0})
  BY <1>5, TheEffects, Sections, RunThen
<1>7. Run("any", Do("slot") ** Release ** B ** C ** Locked(Do("job")) ** D, 1, {0})
  BY <1>1, <1>6, Units, PlainLast
<1>8. Run("any", Lock ** (Release ** A ** Leave
                            \cup Do("slot") ** Release ** B ** C ** Locked(Do("job")) ** D), 0, {0})
  BY <1>3, <1>7, Sections, RunUnion, RunThen
<1> QED
  BY <1>2, <1>8, Units, RunEnds

LEMMA AvailjobRuns == Run("any", handle_r_r_availjob, 0, Int)
<1> DEFINE A == Failing("on", send_answer("NOREGIS"))
<1> DEFINE B == Failing("on", send_answer("NOAVJOB"))
<1> DEFINE C == send_answer("NOERROR")
<1> DEFINE D == recv_request("NOSPACE") ** Undo
<1> DEFINE E == recv_request("NOERROR") ** recv_request("itask")
<1> DEFINE G == C ** (D \cup E ** Locked(Do("frame assigned")) ** send_task)
<1>1. Plain(A) /\ Plain(B) /\ Plain(C) /\ Plain(D) /\ Plain(E) /\ Plain(send_task) /\ Plain(Leave)
  BY TheTags, TheWords, PlainAnswers, PlainTransfers, PlainSimple, PlainFailing, PlainThen
<1>2. handle_r_r_availjob =
        A ** Leave \cup Locked(Nothing) ** Do("load balance") ** B ** Leave
          \cup Locked(Do("frame reserved")) ** Do("load balance") ** Failing("undo", G)
  BY DEF handle_r_r_availjob
<1>3. Run("any", G, 0, {0})
  <2> HIDE DEF C, D, E
  <2>1. Run("any", E ** Locked(Do("frame assigned")), 0, {0})
    BY <1>1, Units, TheEffects, Sections, PlainFirst
  <2>2. Run("any", E ** Locked(Do("frame assigned")) ** send_task, 0, {0}) /\ Run("any", D, 0, {0})
    BY <1>1, <2>1, Units, PlainLast, PlainRun
  <2>3. Run("any", D \cup E ** Locked(Do("frame assigned")) ** send_task, 0, {0})
    BY <2>2, RunUnion
  <2> QED
    BY <1>1, <2>3, Units, PlainFirst
<1> HIDE DEF A, B, C, D, E, G
<1>4. Run("any", Failing("undo", G), 0, {0})
  BY <1>3, TheTags, RunFailing
<1>5. Run("any", Do("load balance"), 0, {0})
  BY TheEffects, Units, RunDo
<1>6. Run("any", A ** Leave, 0, {0})
  BY <1>1, Units, PlainRun, PlainThen
<1>7. Run("any", Locked(Nothing) ** Do("load balance") ** B ** Leave, 0, {0})
  <2>1. Run("any", Locked(Nothing) ** Do("load balance"), 0, {0})
    BY <1>5, Sections, Units, RunThen
  <2> QED
    BY <1>1, <2>1, Units, PlainLast
<1>8. Run("any", Locked(Do("frame reserved")) ** Do("load balance") ** Failing("undo", G), 0, {0})
  BY <1>4, <1>5, TheEffects, Sections, RunThen
<1> QED
  BY <1>2, <1>6, <1>7, <1>8, Units, RunUnion, RunEnds

LEMMA TaskfiniRuns == Run("any", handle_r_r_taskfini, 0, Int)
<1> DEFINE A == send_answer("NOERROR") ** recv_task
<1>1. Plain(A)
  BY TheWords, PlainAnswers, PlainSimple, PlainThen
<1>2. handle_r_r_taskfini =
        A ** (Locked(Nothing) ** Leave \cup Locked(Nothing \cup Do("frame settled")))
  BY DEF handle_r_r_taskfini
<1> HIDE DEF A
<1>3. Run("any", Locked(Nothing) ** Leave \cup Locked(Nothing \cup Do("frame settled")), 0, Int)
  BY Tails, TheEffects, RunUnion
<1> QED
  BY <1>1, <1>2, <1>3, Units, PlainFirst

LEMMA ListjobsRuns == Run("any", handle_r_r_listjobs, 0, Int)
<1> DEFINE G(n, m) == Put(Count("listed", n)) ** Times(m, send_job_live)
<1> DEFINE F == {G(n, m) : n, m \in 0 .. MaxItems}
<1>1. ASSUME NEW n \in 0 .. MaxItems, NEW m \in 0 .. MaxItems PROVE Plain(G(n, m))
  <2>1. m \in Nat /\ Plain(Put(Count("listed", n)))
    BY TheWords, PlainCount
  <2>2. Plain(Times(m, send_job_live))
    BY <2>1, PlainJobLive, PlainTimes
  <2> QED
    BY <2>1, <2>2, PlainThen
<1>2. handle_r_r_listjobs = UNION F
  BY DEF handle_r_r_listjobs
<1>3. \A S \in F : Plain(S)
  <2> HIDE DEF G
  <2> QED
    BY <1>1
<1> HIDE DEF F
<1>4. Plain(handle_r_r_listjobs)
  BY <1>2, <1>3, PlainAny
<1> QED
  BY <1>4, Units, PlainRun, RunEnds

LEMMA ListcompRuns == Run("any", handle_r_r_listcomp, 0, Int)
<1> DEFINE G(n) == Put(Count("listed", n)) ** Times(n, send_computer)
<1> DEFINE F == {G(n) : n \in 0 .. MaxItems}
<1>1. ASSUME NEW n \in 0 .. MaxItems PROVE Plain(G(n))
  <2>1. n \in Nat /\ Plain(Put(Count("listed", n)))
    BY TheWords, PlainCount
  <2>2. Plain(Times(n, send_computer))
    BY <2>1, PlainComputer, PlainTimes
  <2> QED
    BY <2>1, <2>2, PlainThen
<1>2. handle_r_r_listcomp = Lock ** Leave \cup Locked(Nothing) ** (UNION F)
  BY DEF handle_r_r_listcomp
<1>3. \A S \in F : Plain(S)
  <2> HIDE DEF G
  <2> QED
    BY <1>1
<1> HIDE DEF F
<1>4. Plain(UNION F)
  BY <1>3, PlainAny
<1>5. Run("any", Locked(Nothing) ** (UNION F), 0, {0})
  BY <1>4, Units, Sections, PlainLast
<1> QED
  BY <1>2, <1>5, Units, Tails, RunEnds, RunUnion

LEMMA JobRuns ==
  /\ Run("any", handle_r_r_deletjob, 0, Int) /\ Run("any", handle_r_r_stopjob, 0, Int)
  /\ Run("any", handle_r_r_contjob, 0, Int) /\ Run("any", handle_r_r_hstopjob, 0, Int)
  /\ Run("any", handle_r_r_rerunjob, 0, Int) /\ Run("any", handle_r_r_slavexit, 0, Int)
<1>1. \A S : Run("any", S, 1, {1}) => Run("any", Locked(S), 0, Int)
  BY SectionRuns
<1>2. /\ Run("any", Kills ** Do("job deleted"), 1, {1})
      /\ Run("any", Kills ** Do("job stopped"), 1, {1})
      /\ Run("any", Kills ** Do("frames waiting"), 1, {1})
  BY TheEffects, Doing, RunThen
<1>3. Run("any", handle_r_r_deletjob, 0, Int)
  BY <1>1, <1>2, Tails, RunUnion DEF handle_r_r_deletjob
<1>4. Run("any", handle_r_r_stopjob, 0, Int) /\ Run("any", handle_r_r_contjob, 0, Int)
  BY Tails, TheEffects, RunUnion DEF handle_r_r_stopjob, handle_r_r_contjob
<1>5. Run("any", handle_r_r_hstopjob, 0, Int)
  <2>1. Run("any", Kills ** Do("job stopped") \cup Do("job deleted"), 1, {1})
    BY <1>2, TheEffects, Doing, RunUnion
  <2> QED
    BY <1>1, <2>1, Tails, RunUnion DEF handle_r_r_hstopjob
<1>6. Run("any", handle_r_r_rerunjob, 0, Int)
  <2>1. Run("any", Kills ** Do("frames waiting") \cup Do("job deleted"), 1, {1})
    BY <1>2, TheEffects, Doing, RunUnion
  <2> QED
    BY <1>1, <2>1, Tails, RunUnion DEF handle_r_r_rerunjob
<1>7. Run("any", handle_r_r_slavexit, 0, Int)
  BY Tails, TheEffects, RunUnion DEF handle_r_r_slavexit
<1> QED
  BY <1>3, <1>4, <1>5, <1>6, <1>7

LEMMA SendingRuns ==
  /\ Run("any", handle_r_r_jobenvvars, 0, Int) /\ Run("any", handle_r_r_jobxfer, 0, Int)
  /\ Run("any", handle_r_r_compxfer, 0, Int)
<1> DEFINE N == Failing("on", send_answer("NOREGIS"))
<1> DEFINE A == send_answer("NOERROR")
<1> DEFINE V == Failing("on", send_envvars)
<1> DEFINE C == Failing("on", send_computer)
<1>1. Plain(N) /\ Plain(A) /\ Plain(V) /\ Plain(C) /\ Plain(send_job) /\ Plain(Leave)
  BY TheTags, TheWords, PlainAnswers, PlainTransfers, PlainEnvvars, PlainComputer, PlainJob, PlainFailing
<1>2. /\ handle_r_r_jobenvvars = Leave \cup Locked(Nothing) ** Leave \cup Locked(V)
      /\ handle_r_r_jobxfer = Locked(Nothing) ** (N ** Leave \cup A ** send_job)
      /\ handle_r_r_compxfer =
           Locked(Nothing) ** N ** Leave \cup Lock ** Leave \cup Locked(Nothing) ** A ** C
  BY DEF handle_r_r_jobenvvars, handle_r_r_jobxfer, handle_r_r_compxfer
<1> HIDE DEF N, A, V, C
<1>3. Run("any", Locked(V), 0, Int)
  <2>1. Run("any", V, 1, {1})
    BY <1>1, Units, PlainRun
  <2> QED
    BY <2>1, SectionRuns
<1>4. Run("any", Locked(Nothing) ** (N ** Leave \cup A ** send_job), 0, {0})
  <2>1. Plain(N ** Leave \cup A ** send_job)
    BY <1>1, PlainThen, PlainOr
  <2> QED
    BY <2>1, Units, Sections, PlainLast
<1>5. Run("any", Locked(Nothing) ** N ** Leave, 0, {0}) /\ Run("any", Locked(Nothing) ** A ** C, 0, {0})
  BY <1>1, Units, Sections, PlainLast
<1>6. Run("any", handle_r_r_jobenvvars, 0, Int)
  BY <1>2, <1>3, Tails, RunUnion
<1>7. Run("any", handle_r_r_jobxfer, 0, Int)
  BY <1>2, <1>4, Units, RunEnds
<1>8. Run("any", handle_r_r_compxfer, 0, Int)
  <2>1. Run("any", Locked(Nothing) ** N ** Leave, 0, Int) /\ Run("any", Locked(Nothing) ** A ** C, 0, Int)
    BY <1>5, Units, RunEnds
  <2> QED
    BY <1>2, <2>1, Tails, RunUnion
<1> QED
  BY <1>6, <1>7, <1>8

LEMMA FramesRuns ==
  Run("any", handle_r_r_jobxferfi, 0, Int) /\ Run("any", handle_r_r_jobfinfo, 0, Int)
<1> DEFINE N == Failing("on", send_answer("NOREGIS"))
<1> DEFINE A == send_answer("NOERROR")
<1> DEFINE R == recv_request("request")
<1> DEFINE F == {Times(n, send_frame_info) : n \in 1 .. MaxItems}
<1>1. Plain(N) /\ Plain(A) /\ Plain(R) /\ Plain(send_frame_info) /\ Plain(Leave)
  BY TheTags, TheWords, PlainAnswers, PlainTransfers, PlainSimple, PlainFailing
<1>2. \A n \in 1 .. MaxItems : n \in Nat
  BY MaxItemsAssumption
<1>3. \A S \in F : Plain(S)
  BY <1>1, <1>2, PlainTimes
<1>4. /\ handle_r_r_jobxferfi =
           Lock ** N ** Release ** Leave \cup Lock ** Do("job deleted") ** N ** Release ** Leave
             \cup Locked(Nothing) ** Leave \cup Locked(Nothing) ** A ** (UNION F)
      /\ handle_r_r_jobfinfo =
           Locked(Nothing) ** Leave
             \cup Lock ** R ** ((Nothing \cup Do("job deleted")) ** Release ** Leave
                                  \cup Release ** send_frame_info)
  BY DEF handle_r_r_jobxferfi, handle_r_r_jobfinfo
<1> HIDE DEF N, A, R, F
<1>5. Plain(UNION F)
  BY <1>3, PlainAny
<1>6. Run("any", handle_r_r_jobxferfi, 0, Int)
  <2>1. Run("any", Lock ** N, 0, {1})
    BY <1>1, Units, Sections, PlainLast
  <2>2. Run("any", Lock ** N ** Release ** Leave, 0, {0})
    BY <1>1, <2>1, Units, Sections, RunThen, PlainLast
  <2>3. Run("any", Lock ** Do("job deleted"), 0, {1})
    BY TheEffects, Doing, Sections, RunThen
  <2>4. Run("any", Lock ** Do("job deleted") ** N, 0, {1})
    BY <1>1, <2>3, Units, PlainLast
  <2>5. Run("any", Lock ** Do("job deleted") ** N ** Release ** Leave, 0, {0})
    BY <1>1, <2>4, Units, Sections, RunThen, PlainLast
  <2>6. Run("any", Locked(Nothing) ** A ** (UNION F), 0, {0})
    BY <1>1, <1>5, Units, Sections, PlainLast
  <2>7. /\ Run("any", Lock ** N ** Release ** Leave, 0, Int)
        /\ Run("any", Lock ** Do("job deleted") ** N ** Release ** Leave, 0, Int)
        /\ Run("any", Locked(Nothing) ** A ** (UNION F), 0, Int)
    BY <2>2, <2>5, <2>6, Units, RunEnds
  <2> QED
    BY <1>4, <2>7, Tails, RunUnion
<1>7. Run("any", handle_r_r_jobfinfo, 0, Int)
  <2>1. Run("any", Nothing \cup Do("job deleted"), 1, {1})
    BY Doing, TheEffects, RunUnion
  <2>2. Run("any", (Nothing \cup Do("job deleted")) ** Release ** Leave, 1, {0})
    BY <1>1, <2>1, Units, Sections, RunThen, PlainLast
  <2>3. Run("any", Release ** send_frame_info, 1, {0})
    BY <1>1, Units, Sections, PlainLast
  <2>4. Run("any", (Nothing \cup Do("job deleted")) ** Release ** Leave
                     \cup Release ** send_frame_info, 1, {0})
    BY <2>2, <2>3, RunUnion
  <2>5. Run("any", Lock ** R, 0, {1})
    BY <1>1, Units, Sections, PlainLast
  <2>6. Run("any", Lock ** R ** ((Nothing \cup Do("job deleted")) ** Release ** Leave
                                   \cup Release ** send_frame_info), 0, {0})
    BY <2>4, <2>5, RunThen
  <2>7. Run("any", Lock ** R ** ((Nothing \cup Do("job deleted")) ** Release ** Leave
                                   \cup Release ** send_frame_info), 0, Int)
    BY <2>6, Units, RunEnds
  <2> QED
    BY <1>4, <2>7, Tails, RunUnion
<1> QED
  BY <1>6, <1>7

LEMMA OnFrameRuns == ASSUME NEW S, Run("any", S, 1, {1}) PROVE Run("any", OnFrame(S), 0, Int)
<1>1. Plain(recv_request("request"))
  BY TheWords, PlainAnswers
<1>2. Run("any", Locked(Do("job deleted")) ** Leave, 0, Int)
  BY TheEffects, Sections, Tails, RunThen
<1>3. Run("any", Locked(S), 0, Int)
  BY SectionRuns
<1>4. Run("any", Lock ** Leave \cup Locked(Do("job deleted")) ** Leave \cup Locked(S), 0, Int)
  BY <1>2, <1>3, Tails, RunUnion
<1> QED
  BY <1>1, <1>4, Units, PlainFirst DEF OnFrame

LEMMA FrameHandlersRun ==
  /\ Run("any", handle_r_r_jobfwait, 0, Int) /\ Run("any", handle_r_r_jobfkill, 0, Int)
  /\ Run("any", handle_r_r_jobffini, 0, Int) /\ Run("any", handle_r_r_jobfrstrqd, 0, Int)
  /\ Run("any", handle_r_r_jobfkfin, 0, Int)
<1>1. Run("any", handle_r_r_jobfwait, 0, Int)
  <2>1. Run("any", Locked(Nothing \cup Do("job deleted")) ** Leave, 0, Int)
    BY TheEffects, Sections, Tails, RunThen
  <2>2. Run("any", Locked(Nothing \cup Do("job deleted")) ** Leave
                     \cup Locked(Nothing \cup Do("frame waiting")), 0, Int)
    BY <2>1, TheEffects, Tails, RunUnion
  <2>3. Plain(recv_request("request"))
    BY TheWords, PlainAnswers
  <2> QED
    BY <2>2, <2>3, Units, PlainFirst DEF handle_r_r_jobfwait
<1>2. Run("any", handle_r_r_jobfkill, 0, Int)
  BY Doing, OnFrameRuns DEF handle_r_r_jobfkill
<1>3. Run("any", handle_r_r_jobffini, 0, Int)
  <2>1. Run("any", Nothing \cup Do("frame finished"), 1, {1})
    BY TheEffects, Doing, RunUnion
  <2> QED
    BY <2>1, OnFrameRuns DEF handle_r_r_jobffini
<1>4. Run("any", handle_r_r_jobfrstrqd, 0, Int)
  BY Doing, TheEffects, OnFrameRuns DEF handle_r_r_jobfrstrqd
<1>5. Run("any", handle_r_r_jobfkfin, 0, Int)
  <2>1. Run("any", Do("frame finished") ** Call("RS_R_KILLTASK"), 1, {1})
    BY TheEffects, Doing, RunThen
  <2>2. Run("any", Nothing \cup Do("frame finished") ** Call("RS_R_KILLTASK"), 1, {1})
    BY <2>1, Doing, RunUnion
  <2> QED
    BY <2>2, OnFrameRuns DEF handle_r_r_jobfkfin
<1> QED
  BY <1>1, <1>2, <1>3, <1>4, <1>5

LEMMA SesupRuns == Run("any", handle_r_r_jobsesup, 0, Int)
<1> DEFINE T == Times(4, recv_request("request"))
<1>1. Plain(T) /\ Plain(Leave) /\ Plain(Die)
  BY TheWords, PlainAnswers, PlainTransfers, PlainTimes
<1>2. handle_r_r_jobsesup =
        T ** Lock **
        (Release ** Leave
           \cup Do("frames renumbered") ** Release **
                (Nothing \cup Locked(Nothing) ** Call("RS_R_KILLTASK") \cup Lock ** Die))
  BY DEF handle_r_r_jobsesup
<1> HIDE DEF T
<1>3. Run("any", Do("frames renumbered") ** Release, 1, {0})
  BY TheEffects, Doing, Sections, RunThen
<1>4. Run("any", Locked(Nothing) ** Call("RS_R_KILLTASK"), 0, Int)
  <2>1. "RS_R_KILLTASK" \in Words
    BY DEF Words
  <2>2. Run("any", Call("RS_R_KILLTASK"), 0, {0})
    BY <2>1, Units, RunCall
  <2> QED
    BY <2>2, Units, Sections, RunThen, RunEnds
<1>5. Run("any", Nothing, 0, Int) /\ Run("any", Lock ** Die, 0, Int)
  <2>1. Run("any", Lock ** Die, 0, {1})
    BY <1>1, Units, Sections, PlainLast
  <2> QED
    BY <2>1, Units, Doing, RunEnds
<1>6. Run("any", Nothing \cup Locked(Nothing) ** Call("RS_R_KILLTASK") \cup Lock ** Die, 0, Int)
  BY <1>4, <1>5, RunUnion
<1>7. Run("any", Do("frames renumbered") ** Release **
                 (Nothing \cup Locked(Nothing) ** Call("RS_R_KILLTASK") \cup Lock ** Die), 1, Int)
  BY <1>3, <1>6, RunThen
<1>8. Run("any", Release ** Leave
           \cup Do("frames renumbered") ** Release **
                (Nothing \cup Locked(Nothing) ** Call("RS_R_KILLTASK") \cup Lock ** Die), 1, Int)
  BY <1>7, Tails, RunUnion
<1>9. Run("any", T ** Lock, 0, {1})
  BY <1>1, Units, Sections, PlainFirst
<1> QED
  BY <1>2, <1>8, <1>9, RunThen

LEMMA ValueRuns ==
  /\ Run("any", SetValue, 0, Int) /\ Run("any", handle_r_r_joblps, 0, Int)
  /\ Run("any", handle_r_r_uclimits, 0, Int) /\ Run("any", handle_r_r_jobname, 0, Int)
<1>1. Run("any", Lock ** Leave \cup Locked(Do("value")), 0, Int)
  BY TheEffects, Tails, RunUnion
<1>2. Plain(recv_request("request")) /\ Plain(recv_string)
  BY TheWords, PlainAnswers, PlainSimple
<1>3. Run("any", SetValue, 0, Int) /\ Run("any", handle_r_r_joblps, 0, Int)
  BY <1>1, <1>2, Units, PlainFirst DEF SetValue, handle_r_r_joblps
<1>4. Run("any", handle_r_r_uclimits, 0, Int)
  <2> DEFINE A == Failing("die", send_answer("NOREGIS")) ** Die
  <2> DEFINE B == Failing("die", send_answer("NOERROR") ** recv_computer_limits)
  <2>1. Plain(A)
    BY TheTags, TheWords, PlainAnswers, PlainTransfers, PlainFailing, PlainThen
  <2>2. Plain(B)
    <3>1. Plain(send_answer("NOERROR") ** recv_computer_limits)
      BY TheWords, PlainAnswers, PlainComputer, PlainThen
    <3> QED
      BY <3>1, TheTags, PlainFailing
  <2>3. handle_r_r_uclimits = A \cup B ** Locked(Do("limits"))
    BY DEF handle_r_r_uclimits
  <2> HIDE DEF A, B
  <2>4. Run("any", A, 0, Int)
    BY <2>1, Units, PlainRun, RunEnds
  <2>5. Run("any", B ** Locked(Do("limits")), 0, Int)
    BY <2>2, TheEffects, Units, Tails, PlainFirst
  <2> QED
    BY <2>3, <2>4, <2>5, RunUnion
<1>5. Run("any", handle_r_r_jobname, 0, Int)
  <2>1. Plain(handle_r_r_jobname)
    BY PlainTransfers, PlainSimple, PlainOr DEF handle_r_r_jobname
  <2> QED
    BY <2>1, Units, PlainRun, RunEnds
<1> QED
  BY <1>3, <1>4, <1>5

LEMMA HostRuns ==
  /\ Run("any", handle_r_r_jobblkhost, 0, Int) /\ Run("any", handle_r_r_jobdelblkhost, 0, Int)
  /\ Run("any", handle_r_r_jobblkhostname, 0, Int) /\ Run("any", handle_r_r_jobunblkhostname, 0, Int)
<1>1. Plain(recv_request("request")) /\ Plain(recv_string)
  BY TheWords, PlainAnswers, PlainSimple
<1>2. Run("any", handle_r_r_jobblkhost, 0, Int)
  <2>1. Run("any", Locked(Nothing) ** Leave \cup Locked(Do("host blocked")), 0, Int)
    BY TheEffects, Tails, RunUnion
  <2> QED
    BY <1>1, <2>1, Units, PlainFirst DEF handle_r_r_jobblkhost
<1>3. Run("any", handle_r_r_jobdelblkhost, 0, Int)
  <2>1. Run("any", Lock ** Leave \cup Locked(Nothing) ** Leave \cup Locked(Do("host unblocked")), 0, Int)
    BY TheEffects, Tails, RunUnion
  <2>2. Run("any", recv_request("request") **
              (Lock ** Leave \cup Locked(Nothing) ** Leave \cup Locked(Do("host unblocked"))), 0, Int)
    BY <1>1, <2>1, Units, PlainFirst
  <2> QED
    BY <2>2, Tails, RunUnion DEF handle_r_r_jobdelblkhost
<1>4. Run("any", handle_r_r_jobblkhostname, 0, Int)
  <2>1. Run("any", computer_index_name, 1, {1})
    BY Units, Sections DEF computer_index_name
  <2>2. Run("any", recv_string ** Lock ** computer_index_name, 0, {1})
    <3>1. Run("any", recv_string ** Lock, 0, {1})
      BY <1>1, Units, Sections, PlainFirst
    <3> QED
      BY <2>1, <3>1, RunThen
  <2>3. Run("any", Do("host blocked") ** Release, 1, Int)
    BY TheEffects, Doing, Sections, Units, RunThen, RunEnds
  <2>4. Run("any", Leave \cup Release ** Leave \cup Do("host blocked") ** Release, 1, Int)
    BY <2>3, Tails, RunUnion
  <2> QED
    BY <2>2, <2>4, RunThen DEF handle_r_r_jobblkhostname
<1>5. Run("any", handle_r_r_jobunblkhostname, 0, Int)
  <2>1. Run("any", Locked(Nothing) ** Leave \cup Locked(Nothing \cup Do("host unblocked")), 0, Int)
    BY TheEffects, Tails, RunUnion
  <2> QED
    BY <1>1, <2>1, Units, PlainFirst DEF handle_r_r_jobunblkhostname
<1> QED
  BY <1>2, <1>3, <1>4, <1>5

LEMMA HostListRuns == Run("list", handle_r_r_joblstblkhost, 0, Int)
<1> DEFINE G(n, m) == Put(Count("listed", n)) ** Times(m, Failing("on", send_blocked_host))
<1> DEFINE H(n) == Put(Count("listed", n)) ** Release ** Leave
<1> DEFINE F == {G(n, m) : n, m \in 0 .. MaxItems}
<1> DEFINE E == {H(n) : n \in 1 .. MaxItems}
<1>1. ASSUME NEW n \in 0 .. MaxItems, NEW m \in 0 .. MaxItems PROVE Plain(G(n, m))
  <2>1. m \in Nat /\ Plain(Put(Count("listed", n)))
    BY TheWords, PlainCount
  <2>2. Plain(Failing("on", send_blocked_host))
    BY TheTags, PlainSimple, PlainFailing
  <2>3. Plain(Times(m, Failing("on", send_blocked_host)))
    BY <2>1, <2>2, PlainTimes
  <2> QED
    BY <2>1, <2>3, PlainThen
<1>2. ASSUME NEW n \in 1 .. MaxItems PROVE Run("list", H(n), 0, Int)
  <2>1. n \in 0 .. MaxItems
    BY MaxItemsAssumption
  <2>2. Plain(Put(Count("listed", n)))
    BY <2>1, TheWords, PlainCount
  <2>3. PICK k : k = 0 - 1 /\ k \in Int
    OBVIOUS
  <2>4. Run("list", Release, 0, {k})
    BY <2>3, Units, RunRelease
  <2>5. Run("list", Put(Count("listed", n)) ** Release, 0, {k})
    BY <2>2, <2>4, Units, PlainFirst
  <2>6. Run("list", Put(Count("listed", n)) ** Release ** Leave, 0, {k})
    BY <2>3, <2>5, PlainTransfers, PlainLast
  <2> QED
    BY <2>3, <2>6, RunEnds
<1>3. handle_r_r_joblstblkhost = Leave \cup (UNION F) \cup (UNION E)
  BY DEF handle_r_r_joblstblkhost
<1>4. (\A S \in F : Plain(S)) /\ \A S \in E : Run("list", S, 0, Int)
  <2> HIDE DEF G, H
  <2> QED
    BY <1>1, <1>2
<1> HIDE DEF F, E
<1>5. Run("list", UNION F, 0, Int)
  <2>1. Plain(UNION F)
    BY <1>4, PlainAny
  <2> QED
    BY <2>1, Units, PlainRun, RunEnds
<1>6. Run("list", UNION E, 0, Int)
  BY <1>4, RunAny
<1> QED
  BY <1>3, <1>5, <1>6, Tails, RunUnion

(* The handlers of a slave.                                                *)
LEMMA SlaveHandlersRun ==
  /\ Run("slave", ChangeLimits, 0, Int)
  /\ Run("slave", handle_rs_r_setautoenable, 0, Int)
  /\ Run("slave", recv_string ** ChangeLimits, 0, Int)
  /\ Run("slave", handle_rs_r_killtask, 0, Int) /\ Run("slave", handle_rs_r_jobavailable, 0, Int)
<1>1. {"R_R_UCLIMITS", "kill", "phantom"} \subseteq Words
  BY DEF Words
<1>2. /\ Run("slave", Call("R_R_UCLIMITS"), 0, {0}) /\ Run("slave", Call("kill"), 0, {0})
      /\ Run("slave", Call("phantom"), 0, {0})
  BY <1>1, Units, RunCall
<1>3. Run("slave", ChangeLimits, 0, Int)
  BY <1>2, TheEffects, Sections, Units, RunThen, RunEnds DEF ChangeLimits
<1>4. Run("slave", handle_rs_r_setautoenable, 0, Int)
  <2>1. Plain(Failing("die", Times(2, recv_request("request"))))
    BY TheTags, TheWords, PlainAnswers, PlainTimes, PlainFailing
  <2> QED
    BY <1>3, <2>1, Units, PlainFirst DEF handle_rs_r_setautoenable
<1>5. Run("slave", recv_string ** ChangeLimits, 0, Int)
  BY <1>3, PlainSimple, Units, PlainFirst
<1>6. Run("slave", handle_rs_r_killtask, 0, Int) /\ Run("slave", handle_rs_r_jobavailable, 0, Int)
  BY <1>2, Units, RunEnds DEF handle_rs_r_killtask, handle_rs_r_jobavailable
<1> QED
  BY <1>3, <1>4, <1>5, <1>6

----------------------------------------------------------------------------
(* What the handler of each request does: the mode says what it may do.    *)
ModeOf(r) == IF r = "R_R_JOBLSTBLKHOST" THEN "list" ELSE IF r \in OnSlave THEN "slave" ELSE "any"

LEMMA MasterRuns ==
  ASSUME NEW r \in MasterRequests
  PROVE  Run(IF r = "R_R_JOBLSTBLKHOST" THEN "list" ELSE "any", handle_request_master(r), 0, Int)
<1>1. CASE r = "R_R_JOBLSTBLKHOST"
  BY <1>1, HostListRuns DEF handle_request_master
<1>2. CASE r \in {"R_R_REGISTER", "R_R_UCSTATUS", "R_R_REGISJOB", "R_R_AVAILJOB", "R_R_TASKFINI",
                  "R_R_LISTJOBS", "R_R_LISTCOMP"}
  BY <1>2, RegisterRuns, StatusRuns, RegisjobRuns, AvailjobRuns, TaskfiniRuns, ListjobsRuns,
     ListcompRuns DEF handle_request_master
<1>3. CASE r \in {"R_R_DELETJOB", "R_R_STOPJOB", "R_R_CONTJOB", "R_R_HSTOPJOB", "R_R_RERUNJOB",
                  "R_R_SLAVEXIT"}
  BY <1>3, JobRuns DEF handle_request_master
<1>4. CASE r \in {"R_R_JOBXFER", "R_R_JOBXFERFI", "R_R_COMPXFER", "R_R_JOBFINFO", "R_R_JOBENVVARS"}
  BY <1>4, SendingRuns, FramesRuns DEF handle_request_master
<1>5. CASE r \in {"R_R_JOBFWAIT", "R_R_JOBFKILL", "R_R_JOBFFINI", "R_R_JOBFKFIN", "R_R_JOBFRSTRQD",
                  "R_R_JOBSESUP"}
  BY <1>5, FrameHandlersRun, SesupRuns DEF handle_request_master
<1>6. CASE r \in {"R_R_JOBLNMCS", "R_R_JOBLNMCCS", "R_R_JOBPRIUP", "R_R_JOBLMS"}
  <2>1. handle_request_master(r) = SetValue
    BY <1>6 DEF handle_request_master, handle_r_r_joblnmcs, handle_r_r_joblnmccs,
       handle_r_r_jobpriup, handle_r_r_joblms
  <2> QED
    BY <1>6, <2>1, ValueRuns
<1>7. CASE r \in {"R_R_UCLIMITS", "R_R_JOBLPS", "R_R_JOBNAME"}
  BY <1>7, ValueRuns DEF handle_request_master
<1>8. CASE r \in {"R_R_JOBBLKHOST", "R_R_JOBDELBLKHOST", "R_R_JOBBLKHOSTNAME", "R_R_JOBUNBLKHOSTNAME"}
  BY <1>8, HostRuns DEF handle_request_master
<1> QED
  BY <1>1, <1>2, <1>3, <1>4, <1>5, <1>6, <1>7, <1>8 DEF MasterRequests

LEMMA SlaveRuns == ASSUME NEW r \in OnSlave PROVE Run("slave", handle_request_slave(r), 0, Int)
<1>1. CASE r \in {"RS_R_SETNMAXCPUS", "RS_R_SETENABLED", "RS_R_SETMAXFREELOADCPU"}
  <2>1. handle_request_slave(r) = ChangeLimits
    BY <1>1 DEF handle_request_slave, handle_rs_r_setnmaxcpus, handle_rs_r_setenabled,
       handle_rs_r_setmaxfreeloadcpu
  <2> QED
    BY <2>1, SlaveHandlersRun
<1>2. CASE r \in {"RS_R_LIMITSPOOLADD", "RS_R_LIMITSPOOLREMOVE"}
  <2>1. handle_request_slave(r) = recv_string ** ChangeLimits
    BY <1>2 DEF handle_request_slave, handle_rs_r_limitspooladd, handle_rs_r_limitspoolremove
  <2> QED
    BY <2>1, SlaveHandlersRun
<1>3. CASE r \in {"RS_R_KILLTASK", "RS_R_JOBAVAILABLE", "RS_R_SETAUTOENABLE"}
  BY <1>3, SlaveHandlersRun DEF handle_request_slave
<1> QED
  BY <1>1, <1>2, <1>3 DEF OnSlave

LEMMA HandlingRuns ==
  ASSUME NEW r \in MasterRequests \cup OnSlave
  PROVE  Run(ModeOf(r), Handling(r), 0, Int)
<1>1. Plain(Failing("die", recv_request("request")))
  BY TheTags, TheWords, PlainAnswers, PlainFailing
<1>2. CASE r \in OnSlave
  <2>1. Handling(r) = Failing("die", recv_request("request")) ** handle_request_slave(r)
    BY <1>2 DEF Handling
  <2>2. ModeOf(r) = "slave"
    BY <1>2 DEF ModeOf, OnSlave
  <2> QED
    BY <1>1, <1>2, <2>1, <2>2, Units, SlaveRuns, PlainFirst
<1>3. CASE r \notin OnSlave
  <2>1. Handling(r) = Failing("die", recv_request("request")) ** (Known ** handle_request_master(r))
    BY <1>3 DEF Handling
  <2>2. ModeOf(r) = IF r = "R_R_JOBLSTBLKHOST" THEN "list" ELSE "any"
    BY <1>3 DEF ModeOf
  <2>3. Run(ModeOf(r), Known, 0, {0})
    BY TheEffects, Doing, Sections, RunUnion DEF Known
  <2>4. Run(ModeOf(r), handle_request_master(r), 0, Int)
    BY <1>3, <2>2, MasterRuns
  <2>5. Run(ModeOf(r), Known ** handle_request_master(r), 0, Int)
    BY <2>3, <2>4, RunThen
  <2> QED
    BY <1>1, <2>1, <2>5, Units, PlainFirst
<1> QED
  BY <1>2, <1>3

(* The slaves are told whatever the handler has of the semaphore.          *)
LEMMA NotifyRuns ==
  ASSUME NEW h \in Nat PROVE Run("any", request_all_slaves_job_available, h, Int)
<1>1. h \in Int /\ "RS_R_JOBAVAILABLE" \in Words
  BY DEF Words
<1>2. Run("any", job_available_no_icomp, h, {h})
  BY Sections DEF job_available_no_icomp
<1>3. Run("any", Nothing, h, {h}) /\ Run("any", Call("RS_R_JOBAVAILABLE"), h, {h})
  BY <1>1, RunNothing, RunCall
<1>4. Run("any", Nothing \cup Call("RS_R_JOBAVAILABLE"), h, {h})
  BY <1>3, RunUnion
<1> QED
  BY <1>1, <1>2, <1>4, RunThen, RunEnds DEF request_all_slaves_job_available

----------------------------------------------------------------------------
(* One event of a script.                                                  *)
Rest(S, ev, n) == {SubSeq(t, 2 + n, Len(t)) : t \in {u \in S : u # <<>> /\ Head(u) = ev}}

LEMMA FirstEvent ==
  ASSUME NEW t \in Traces, t # <<>>
  PROVE  Len(t) \in Nat /\ Len(t) >= 1 /\ Head(t) = t[1] /\ t[1] \in Events
<1>1. Len(t) \in Nat /\ Len(t) # 0 /\ \A i \in 1 .. Len(t) : t[i] \in Events
  BY TraceIs, EmptySeq DEF Traces
<1> QED
  BY <1>1

LEMMA FirstKeeps ==
  ASSUME NEW m, NEW S, NEW h, NEW K, NEW t \in S, t # <<>>, Run(m, S, h, K)
  PROVE  Head(t) \in Events /\ Keeps(m, h, Head(t))
<1>1. PICK L : t \in Traces /\ Levels(m, t, h, L)
  BY DEF Run
<1>2. Len(t) \in Nat /\ Len(t) >= 1 /\ Head(t) = t[1] /\ t[1] \in Events
  BY <1>1, FirstEvent
<1>3. 1 \in 1 .. Len(t) /\ 1 - 1 = 0
  BY <1>2
<1>4. Keeps(m, L[1 - 1], t[1]) /\ L[0] = h
  BY <1>1, <1>3, Zenon DEF Levels
<1> QED
  BY <1>2, <1>3, <1>4

(* After it, and after the events that a failed transfer jumps over, the   *)
(* rest of the script keeps the level that is reached.                     *)
LEMMA RestRuns ==
  ASSUME NEW m, NEW S, NEW h \in Int, NEW K, NEW ev, NEW n \in Nat, NEW k,
         Run(m, S, h, K), n = 0 \/ (ev.fails = "on" /\ n = ev.rest), k = h + Change(ev)
  PROVE  Run(m, Rest(S, ev, n), k, K)
<1> SUFFICES ASSUME NEW u \in Rest(S, ev, n)
             PROVE  u \in Traces /\ \E M : Levels(m, u, k, M) /\ M[Len(u)] \in K
  BY DEF Run
<1>1. PICK t \in S : t # <<>> /\ Head(t) = ev /\ u = SubSeq(t, 2 + n, Len(t))
  BY DEF Rest
<1>2. PICK L : t \in Traces /\ Levels(m, t, h, L) /\ L[Len(t)] \in K
  BY DEF Run
<1>3. PICK p : p = Len(t) /\ p \in Nat /\ p >= 1 /\ t[1] = ev /\ \A i \in 1 .. p : t[i] \in Events
  BY <1>1, <1>2, FirstEvent, TraceIs
<1>4. /\ L \in [0 .. p -> Int] /\ L[0] = h
      /\ \A i \in 1 .. p : L[i] = L[i - 1] + Change(t[i]) /\ Keeps(m, L[i - 1], t[i])
      /\ \A i \in 1 .. p : t[i].fails = "on" => i + t[i].rest <= p /\ L[i + t[i].rest] = L[i]
  BY <1>2, <1>3 DEF Levels
<1>5. 1 + n <= p /\ L[1 + n] = k
  <2>1. 1 \in 1 .. p /\ 1 - 1 = 0 /\ 1 + 0 = 1
    BY <1>3
  <2>2. L[1] = L[1 - 1] + Change(t[1]) /\ (t[1].fails = "on" => 1 + t[1].rest <= p /\ L[1 + t[1].rest] = L[1])
    BY <1>4, <2>1, Zenon
  <2>3. L[1] = k
    BY <1>3, <1>4, <2>1, <2>2, Zenon
  <2>4. CASE n = 0
    BY <1>3, <2>1, <2>3, <2>4
  <2>5. CASE ev.fails = "on" /\ n = ev.rest
    BY <1>3, <2>2, <2>3, <2>5, Zenon
  <2> QED
    BY <2>4, <2>5
<1>6. PICK q : q = p - 1 - n /\ q \in Nat
  BY <1>3, <1>5
<1>7. /\ u \in Traces /\ Len(u) = q
      /\ \A i \in 1 .. q : u[i] = t[i + 1 + n]
  <2>1. 2 + n \in Int /\ p \in Int /\ \A i \in 2 + n .. p : t[i] \in Events
    BY <1>3
  <2>2. /\ u \in Seq(Events) /\ Len(u) = IF 2 + n <= p THEN p - (2 + n) + 1 ELSE 0
        /\ \A i \in 1 .. p - (2 + n) + 1 : u[i] = t[2 + n + i - 1]
    BY <1>1, <1>3, <2>1, SubSeqProperties
  <2>3. (IF 2 + n <= p THEN p - (2 + n) + 1 ELSE 0) = q /\ p - (2 + n) + 1 = q
    BY <1>3, <1>5, <1>6
  <2>4. \A i \in 1 .. q : 2 + n + i - 1 = i + 1 + n
    BY <1>6
  <2> QED
    BY <2>2, <2>3, <2>4 DEF Traces
<1> DEFINE M == [i \in 0 .. q |-> L[i + 1 + n]]
<1>8. M \in [0 .. q -> Int] /\ \A i \in 0 .. q : M[i] = L[i + 1 + n]
  BY <1>3, <1>4, <1>6
<1> HIDE DEF M
<1>9. ASSUME NEW i \in 1 .. q
      PROVE  /\ M[i] = M[i - 1] + Change(u[i]) /\ Keeps(m, M[i - 1], u[i])
             /\ u[i].fails = "on" => i + u[i].rest <= q /\ M[i + u[i].rest] = M[i]
  <2>1. PICK j : j = i + 1 + n /\ j \in 1 .. p /\ j - 1 = (i - 1) + 1 + n
    BY <1>3, <1>6
  <2>2. i \in 0 .. q /\ i - 1 \in 0 .. q
    BY <1>6
  <2>3. u[i] = t[j] /\ M[i] = L[j] /\ M[i - 1] = L[j - 1]
    BY <1>7, <1>8, <2>1, <2>2
  <2>4. ASSUME t[j].fails = "on" PROVE i + t[j].rest <= q /\ M[i + t[j].rest] = L[j]
    <3>1. PICK r : r = t[j].rest /\ r \in Nat
      BY <1>3, <2>1 DEF Events
    <3>2. j + r <= p
      BY <1>4, <2>1, <2>4, <3>1
    <3>3. L[j + r] = L[j]
      BY <1>4, <2>1, <2>4, <3>1
    <3>4. i + r <= q /\ i + r \in 0 .. q /\ (i + r) + 1 + n = j + r
      <4>1. p \in Nat
        BY <1>3
      <4> QED
        BY <1>6, <2>1, <3>1, <3>2, <4>1
    <3> QED
      BY <1>8, <3>1, <3>3, <3>4
  <2>5. L[j] = L[j - 1] + Change(t[j]) /\ Keeps(m, L[j - 1], t[j])
    BY <1>4, <2>1
  <2> QED
    BY <2>3, <2>4, <2>5, Zenon
<1>10. M[0] = k /\ M[q] \in K
  <2>1. 0 \in 0 .. q /\ q \in 0 .. q /\ 0 + 1 + n = 1 + n /\ q + 1 + n = p
    BY <1>3, <1>6
  <2> QED
    BY <1>2, <1>3, <1>5, <1>8, <2>1, Zenon
<1>11. Levels(m, u, k, M)
  BY <1>7, <1>8, <1>9, <1>10 DEF Levels
<1> QED
  BY <1>7, <1>10, <1>11

----------------------------------------------------------------------------
(* The invariant: at each end the semaphore, what the end has of it and    *)
(* the other process that may have it make one; and the rest of the script *)
(* keeps the discipline from the level that the end has reached.           *)
EndOK(m, S, h, s, o) ==
  /\ h \in Int /\ s \in Int /\ o \in BOOLEAN
  /\ s + h + (IF o THEN 1 ELSE 0) = 1
  /\ h >= 0 \/ m = "list"
  /\ Run(m, S, h, Int)
Mode(e) == IF e = "client" THEN "any" ELSE ModeOf(req)
Typed == /\ todo \in [Ends -> SUBSET Traces] /\ held \in [Ends -> Int] /\ sem \in [Ends -> Int]
         /\ other \in [Ends -> BOOLEAN] /\ done \in [Ends -> SUBSET Words]
SemInv ==
  /\ req \in Requests
  /\ Typed
  /\ \A e \in Ends : EndOK(Mode(e), todo[e], held[e], sem[e], other[e])

LEMMA RestIsTraces == ASSUME NEW m, NEW S, NEW h, NEW K, Run(m, S, h, K) PROVE S \subseteq Traces
BY DEF Run

LEMMA EndGoes ==
  ASSUME NEW m, NEW S, NEW h, NEW s, NEW o, EndOK(m, S, h, s, o), NEW ev \in Events, NEW n \in Nat,
         ev.op \notin {"lock", "release"}, n = 0 \/ (ev.fails = "on" /\ n = ev.rest)
  PROVE  EndOK(m, Rest(S, ev, n), h, s, o)
<1>1. Change(ev) = 0
  BY DEF Change
<1>2. h \in Int /\ h = h + 0
  BY DEF EndOK
<1>3. h = h + Change(ev)
  BY <1>1, <1>2, Zenon
<1>4. Run(m, Rest(S, ev, n), h, Int)
  BY <1>2, <1>3, RestRuns DEF EndOK
<1> QED
  BY <1>4 DEF EndOK

LEMMA EndLocks ==
  ASSUME NEW m, NEW S, NEW h, NEW s, NEW o, EndOK(m, S, h, s, o), NEW ev \in Events, ev.op = "lock"
  PROVE  EndOK(m, Rest(S, ev, 0), h + 1, s - 1, o)
<1>1. Change(ev) = 1
  BY DEF Change
<1>2. h \in Int /\ s \in Int /\ 0 \in Nat
  BY DEF EndOK
<1>3. h + 1 = h + Change(ev)
  BY <1>1
<1>4. Run(m, Rest(S, ev, 0), h + 1, Int)
  BY <1>2, <1>3, RestRuns DEF EndOK
<1>5. /\ h + 1 \in Int /\ s - 1 \in Int /\ (h >= 0 => h + 1 >= 0)
      /\ (s - 1) + (h + 1) + (IF o THEN 1 ELSE 0) = s + h + (IF o THEN 1 ELSE 0)
  BY <1>2
<1> QED
  BY <1>4, <1>5 DEF EndOK

LEMMA EndReleases ==
  ASSUME NEW m, NEW S, NEW h, NEW s, NEW o, EndOK(m, S, h, s, o), NEW ev \in Events, ev.op = "release",
         Keeps(m, h, ev)
  PROVE  EndOK(m, Rest(S, ev, 0), h - 1, s + 1, o)
<1>1. Change(ev) = 0 - 1
  BY DEF Change
<1>2. h \in Int /\ s \in Int /\ 0 \in Nat
  BY DEF EndOK
<1>3. h - 1 = h + Change(ev)
  <2>1. h - 1 = h + (0 - 1)
    BY <1>2
  <2> QED
    BY <1>1, <2>1, Zenon
<1>4. Run(m, Rest(S, ev, 0), h - 1, Int)
  BY <1>2, <1>3, RestRuns DEF EndOK
<1>5. h > 0 \/ m = "list"
  BY DEF Keeps
<1>6. /\ h - 1 \in Int /\ s + 1 \in Int /\ (h > 0 => h - 1 >= 0)
      /\ (s + 1) + (h - 1) + (IF o THEN 1 ELSE 0) = s + h + (IF o THEN 1 ELSE 0)
  BY <1>2
<1> QED
  BY <1>4, <1>5, <1>6 DEF EndOK

LEMMA EndStops ==
  ASSUME NEW m, NEW S, NEW h, NEW s, NEW o, EndOK(m, S, h, s, o)
  PROVE  /\ EndOK(m, {}, h, s, o) /\ EndOK(m, {}, 0, s + h, o) /\ EndOK(m, {}, 0, 1, FALSE)
         /\ m = "any" => EndOK(m, request_all_slaves_job_available, h, s, o)
<1>1. \A k : Run(m, {}, k, Int)
  BY DEF Run
<1>2. h \in Int /\ s \in Int /\ s + h \in Int /\ (s + h) + 0 = s + h /\ 0 >= 0 /\ 1 + 0 + 0 = 1
  BY DEF EndOK
<1>3. EndOK(m, {}, h, s, o)
  BY <1>1 DEF EndOK
<1>4. EndOK(m, {}, 0, s + h, o)
  BY <1>1, <1>2 DEF EndOK
<1>5. EndOK(m, {}, 0, 1, FALSE)
  BY <1>1 DEF EndOK
<1>6. ASSUME m = "any" PROVE EndOK(m, request_all_slaves_job_available, h, s, o)
  <2>1. h \in Nat
    BY <1>6 DEF EndOK
  <2> QED
    BY <1>6, <2>1, NotifyRuns DEF EndOK
<1> QED
  BY <1>3, <1>4, <1>5, <1>6

LEMMA EndShares ==
  ASSUME NEW m, NEW S, NEW h, NEW s, NEW o, EndOK(m, S, h, s, o)
  PROVE  /\ o = FALSE => EndOK(m, S, h, s - 1, TRUE)
         /\ o = TRUE => EndOK(m, S, h, s + 1, FALSE)
BY DEF EndOK

(* A step of one end.                                                      *)
LEMMA OneEnd ==
  ASSUME SemInv, NEW e \in Ends, req' = req, Typed',
         \A x \in Ends \ {e} : /\ todo'[x] = todo[x] /\ held'[x] = held[x]
                               /\ sem'[x] = sem[x] /\ other'[x] = other[x],
         EndOK(Mode(e), todo'[e], held'[e], sem'[e], other'[e])
  PROVE  SemInv'
<1>1. \A x \in Ends : Mode(x)' = Mode(x)
  BY DEF Mode
<1>2. \A x \in Ends : EndOK(Mode(x), todo'[x], held'[x], sem'[x], other'[x])
  BY DEF SemInv
<1>3. (\A x \in Ends : EndOK(Mode(x), todo[x], held[x], sem[x], other[x]))'
  BY <1>1, <1>2, Zenon
<1> QED
  BY <1>3 DEF SemInv

LEMMA SemInit == Init => SemInv
<1> SUFFICES ASSUME Init PROVE SemInv
  OBVIOUS
<1>1. req \in MasterRequests \cup OnSlave
  BY RequestsAssumption DEF Init
<1>2. Run("any", Asking(req), 0, Int) /\ Run(ModeOf(req), Handling(req), 0, Int)
  BY <1>1, AskingRuns, HandlingRuns, Units, RunEnds
<1>3. \A e \in Ends : Run(Mode(e), todo[e], 0, Int)
  BY <1>2 DEF Init, Mode, Ends
<1>4. \A e \in Ends : held[e] = 0 /\ sem[e] = 1 /\ other[e] = FALSE
  BY DEF Init
<1>5. \A e \in Ends : EndOK(Mode(e), todo[e], held[e], sem[e], other[e])
  <2>1. 1 + 0 + (IF FALSE THEN 1 ELSE 0) = 1 /\ 0 >= 0 /\ FALSE \in BOOLEAN
    OBVIOUS
  <2>2. \A m, S : Run(m, S, 0, Int) => EndOK(m, S, 0, 1, FALSE)
    BY <2>1, Units DEF EndOK
  <2> QED
    BY <1>3, <1>4, <2>2
<1>6. Typed
  <2>1. \A e \in Ends : todo[e] \subseteq Traces
    BY <1>3, RestIsTraces
  <2>2. todo \in [Ends -> SUBSET Traces]
    BY <2>1 DEF Init
  <2>3. /\ held \in [Ends -> Int] /\ sem \in [Ends -> Int] /\ other \in [Ends -> BOOLEAN]
        /\ done \in [Ends -> SUBSET Words]
    <3>1. 0 \in Int /\ 1 \in Int /\ FALSE \in BOOLEAN /\ {} \in SUBSET Words
      OBVIOUS
    <3> QED
      BY <3>1, Zenon DEF Init
  <2> QED
    BY <2>2, <2>3 DEF Typed
<1> QED
  BY <1>5, <1>6 DEF SemInv, Init

LEMMA HeadIs ==
  ASSUME SemInv, NEW e \in Ends, NEW ev \in Heads(e)
  PROVE  ev \in Events /\ Keeps(Mode(e), held[e], ev)
<1>1. PICK t \in todo[e] : t # <<>> /\ ev = Head(t)
  BY DEF Heads
<1>2. Run(Mode(e), todo[e], held[e], Int)
  BY DEF SemInv, EndOK
<1> QED
  BY <1>1, <1>2, FirstKeeps

LEMMA AfterIs == ASSUME NEW e, NEW ev, NEW n PROVE After(e, ev, n) = Rest(todo[e], ev, n)
BY DEF After, Rest

LEMMA StepOn ==
  ASSUME SemInv, NEW e \in Ends, NEW ev \in Events, NEW n \in Nat, ev.op \notin {"lock", "release"},
         n = 0 \/ (ev.fails = "on" /\ n = ev.rest), todo' = [todo EXCEPT ![e] = After(e, ev, n)],
         req' = req, held' = held, sem' = sem, other' = other, done' \in [Ends -> SUBSET Words]
  PROVE  SemInv'
<1>1. EndOK(Mode(e), Rest(todo[e], ev, n), held[e], sem[e], other[e])
  BY EndGoes DEF SemInv
<1>2. todo'[e] = Rest(todo[e], ev, n) /\ \A x \in Ends \ {e} : todo'[x] = todo[x]
  BY AfterIs DEF SemInv, Typed
<1>3. Rest(todo[e], ev, n) \subseteq Traces
  BY <1>1, RestIsTraces DEF EndOK
<1>4. Typed'
  BY <1>3, AfterIs DEF SemInv, Typed
<1>5. EndOK(Mode(e), todo'[e], held'[e], sem'[e], other'[e])
  BY <1>1, <1>2
<1> QED
  BY <1>2, <1>4, <1>5, OneEnd

LEMMA StepEnds ==
  ASSUME SemInv, NEW e \in Ends, NEW how, Ended(e, how), req' = req, other' = other,
         done' \in [Ends -> SUBSET Words]
  PROVE  SemInv'
<1>1. EndOK(Mode(e), todo[e], held[e], sem[e], other[e])
  BY DEF SemInv
<1>2. CASE e = "handler" /\ req \in Notifies /\ outcome[e] = "running" /\ how # "died"
  <2>1. todo' = [todo EXCEPT ![e] = request_all_slaves_job_available] /\ sem' = sem /\ held' = held
    BY <1>2 DEF Ended
  <2>2. Mode(e) = "any"
    BY <1>2 DEF Mode, ModeOf, Notifies, OnSlave
  <2>3. EndOK(Mode(e), request_all_slaves_job_available, held[e], sem[e], other[e])
    BY <1>1, <2>2, EndStops
  <2>4. todo'[e] = request_all_slaves_job_available /\ \A x \in Ends \ {e} : todo'[x] = todo[x]
    BY <2>1 DEF SemInv, Typed
  <2>5. request_all_slaves_job_available \subseteq Traces
    BY <2>3, RestIsTraces DEF EndOK
  <2>6. Typed'
    BY <2>1, <2>5 DEF SemInv, Typed
  <2>7. EndOK(Mode(e), todo'[e], held'[e], sem'[e], other'[e])
    BY <2>1, <2>3, <2>4
  <2> QED
    BY <2>1, <2>4, <2>6, <2>7, OneEnd
<1>3. CASE ~(e = "handler" /\ req \in Notifies /\ outcome[e] = "running" /\ how # "died")
  <2>1. /\ todo' = [todo EXCEPT ![e] = {}]
        /\ \/ sem' = [sem EXCEPT ![e] = @ + held[e]] /\ held' = [held EXCEPT ![e] = 0]
           \/ sem' = sem /\ held' = held
    BY <1>3, Zenon DEF Ended
  <2>2. /\ EndOK(Mode(e), {}, held[e], sem[e], other[e])
        /\ EndOK(Mode(e), {}, 0, sem[e] + held[e], other[e])
    BY <1>1, EndStops
  <2>3. todo'[e] = {} /\ \A x \in Ends \ {e} : todo'[x] = todo[x]
    BY <2>1 DEF SemInv, Typed
  <2>4. CASE sem' = [sem EXCEPT ![e] = @ + held[e]] /\ held' = [held EXCEPT ![e] = 0]
    <3>1. /\ sem'[e] = sem[e] + held[e] /\ held'[e] = 0
          /\ \A x \in Ends \ {e} : sem'[x] = sem[x] /\ held'[x] = held[x]
      BY <2>4 DEF SemInv, Typed
    <3>2. Typed'
      BY <2>1, <2>4 DEF SemInv, Typed
    <3>3. EndOK(Mode(e), todo'[e], held'[e], sem'[e], other'[e])
      BY <2>2, <2>3, <3>1
    <3> QED
      BY <2>3, <3>1, <3>2, <3>3, OneEnd
  <2>5. CASE sem' = sem /\ held' = held
    <3>1. Typed'
      BY <2>1, <2>5 DEF SemInv, Typed
    <3>2. EndOK(Mode(e), todo'[e], held'[e], sem'[e], other'[e])
      BY <2>2, <2>3, <2>5
    <3> QED
      BY <2>3, <2>5, <3>1, <3>2, OneEnd
  <2> QED
    BY <2>1, <2>4, <2>5
<1> QED
  BY <1>2, <1>3

LEMMA StepFails ==
  ASSUME SemInv, NEW e \in Ends, NEW ev \in Events, ev.op \notin {"lock", "release"}, Fail(e, ev)
  PROVE  SemInv' /\ \A x \in Ends : done'[x] \subseteq done[x]
<1>1. req' = req /\ other' = other /\ ev.rest \in Nat /\ done \in [Ends -> SUBSET Words]
  BY DEF Fail, Events, SemInv, Typed
<1>2. CASE ev.fails = "on"
  <2>1. /\ todo' = [todo EXCEPT ![e] = After(e, ev, ev.rest)]
        /\ sem' = sem /\ held' = held /\ done' = done
    BY <1>2 DEF Fail
  <2> QED
    BY <1>1, <1>2, <2>1, StepOn
<1>3. CASE ev.fails \in {"leave", "hide", "die"}
  <2>1. done' = done /\ (Ended(e, "failed") \/ Ended(e, "ok") \/ Ended(e, "died"))
    BY <1>3 DEF Fail
  <2> QED
    BY <1>1, <2>1, StepEnds
<1>4. CASE ev.fails = "undo"
  <2>1. done' = [done EXCEPT ![e] = {}] /\ Ended(e, "failed")
    BY <1>4 DEF Fail
  <2>2. done' \in [Ends -> SUBSET Words] /\ \A x \in Ends : done'[x] \subseteq done[x]
    BY <1>1, <2>1
  <2> QED
    BY <1>1, <2>1, <2>2, StepEnds
<1> QED
  BY <1>2, <1>3, <1>4 DEF Events, Tags

(* What a step may add to the shared memory of an end.                     *)
UnderSemaphore == \A e \in Ends : \A x \in done'[e] \ done[e] : held[e] = 1 \/ x = "load balance"

LEMMA StepSafe ==
  ASSUME SemInv, NEW e \in Ends, Step(e) PROVE SemInv' /\ UnderSemaphore
<1>1. /\ done \in [Ends -> SUBSET Words] /\ sem \in [Ends -> Int] /\ held \in [Ends -> Int]
      /\ todo \in [Ends -> SUBSET Traces]
      /\ EndOK(Mode(e), todo[e], held[e], sem[e], other[e]) /\ 0 \in Nat
  BY DEF SemInv, Typed
<1>2. CASE Returns(e)
  <2>1. Ended(e, "ok") /\ req' = req /\ other' = other /\ done' = done
    BY <1>2 DEF Returns
  <2>2. SemInv'
    BY <1>1, <2>1, StepEnds
  <2> QED
    BY <2>1, <2>2 DEF UnderSemaphore
<1>3. ASSUME NEW ev \in Heads(e),
             \/ PutArrives(e, ev) \/ PutIsLost(e, ev) \/ PutFails(e, ev)
             \/ Takes(e, ev) \/ TakeFails(e, ev) \/ Compares(e, ev)
             \/ Locks(e, ev) \/ Releases(e, ev)
             \/ Does(e, ev) \/ Calls(e, ev) \/ GivesUp(e, ev)
      PROVE  SemInv' /\ UnderSemaphore
  <2>1. ev \in Events /\ Keeps(Mode(e), held[e], ev)
    BY HeadIs
  <2>2. ASSUME ev.op \notin {"lock", "release"}, Goes(e, ev),
               req' = req, held' = held, sem' = sem, other' = other, done' \in [Ends -> SUBSET Words]
        PROVE  SemInv'
    BY <1>1, <2>1, <2>2, StepOn DEF Goes
  <2>3. ASSUME NEW f \in Events, f.op \notin {"lock", "release"}, Fail(e, f)
        PROVE  SemInv' /\ UnderSemaphore
    BY <2>3, StepFails DEF UnderSemaphore
  <2>4. CASE PutArrives(e, ev) \/ PutIsLost(e, ev) \/ Takes(e, ev) \/ Calls(e, ev)
    <3>1. /\ ev.op \notin {"lock", "release"} /\ Goes(e, ev) /\ req' = req
          /\ held' = held /\ sem' = sem /\ other' = other /\ done' = done
      BY <2>4 DEF PutArrives, PutIsLost, Takes, Calls
    <3> QED
      BY <1>1, <2>2, <3>1 DEF UnderSemaphore
  <2>5. CASE PutFails(e, ev)
    <3>1. ev.op = "put" /\ (Fail(e, ev) \/ Fail(e, [ev EXCEPT !.fails = "die"]))
      BY <2>5 DEF PutFails
    <3>2. PICK f : f = [ev EXCEPT !.fails = "die"]
      OBVIOUS
    <3>3. f \in Events /\ f.op = ev.op
      BY <2>1, <3>2 DEF Events, Tags
    <3> QED
      BY <2>1, <2>3, <3>1, <3>2, <3>3
  <2>6. CASE TakeFails(e, ev) \/ GivesUp(e, ev)
    BY <2>1, <2>3, <2>6 DEF TakeFails, GivesUp
  <2>7. CASE Compares(e, ev)
    <3>1. CASE told[e] = ev.what.of /\ told[e] # odd
      <4>1. /\ ev.op \notin {"lock", "release"} /\ Goes(e, ev) /\ req' = req
            /\ held' = held /\ sem' = sem /\ other' = other /\ done' = done
        BY <2>7, <3>1 DEF Compares
      <4> QED
        BY <1>1, <2>2, <4>1 DEF UnderSemaphore
    <3>2. CASE ~(told[e] = ev.what.of /\ told[e] # odd)
      <4>1. ev.op = "compare" /\ Fail(e, ev)
        BY <2>7, <3>2 DEF Compares
      <4> QED
        BY <2>1, <2>3, <4>1
    <3> QED
      BY <3>1, <3>2
  <2>8. CASE Locks(e, ev)
    <3>1. /\ ev.op = "lock" /\ todo' = [todo EXCEPT ![e] = After(e, ev, 0)] /\ req' = req
          /\ sem' = [sem EXCEPT ![e] = @ - 1] /\ held' = [held EXCEPT ![e] = @ + 1]
          /\ other' = other /\ done' = done
      BY <2>8 DEF Locks, Goes
    <3>2. EndOK(Mode(e), Rest(todo[e], ev, 0), held[e] + 1, sem[e] - 1, other[e])
      BY <1>1, <2>1, <3>1, EndLocks
    <3>3. Rest(todo[e], ev, 0) \subseteq Traces
      BY <3>2, RestIsTraces DEF EndOK
    <3>4. /\ todo'[e] = Rest(todo[e], ev, 0) /\ sem'[e] = sem[e] - 1 /\ held'[e] = held[e] + 1
          /\ \A x \in Ends \ {e} : todo'[x] = todo[x] /\ sem'[x] = sem[x] /\ held'[x] = held[x]
      BY <1>1, <3>1, AfterIs
    <3>5. Typed'
      BY <1>1, <3>1, <3>3, AfterIs DEF SemInv, Typed
    <3>6. EndOK(Mode(e), todo'[e], held'[e], sem'[e], other'[e])
      BY <3>1, <3>2, <3>4
    <3>7. SemInv'
      BY <3>1, <3>4, <3>5, <3>6, OneEnd
    <3> QED
      BY <3>1, <3>7 DEF UnderSemaphore
  <2>9. CASE Releases(e, ev)
    <3>1. /\ ev.op = "release" /\ todo' = [todo EXCEPT ![e] = After(e, ev, 0)] /\ req' = req
          /\ sem' = [sem EXCEPT ![e] = @ + 1] /\ held' = [held EXCEPT ![e] = @ - 1]
          /\ other' = other /\ done' = done
      BY <2>9 DEF Releases, Goes
    <3>2. EndOK(Mode(e), Rest(todo[e], ev, 0), held[e] - 1, sem[e] + 1, other[e])
      BY <1>1, <2>1, <3>1, EndReleases
    <3>3. Rest(todo[e], ev, 0) \subseteq Traces
      BY <3>2, RestIsTraces DEF EndOK
    <3>4. /\ todo'[e] = Rest(todo[e], ev, 0) /\ sem'[e] = sem[e] + 1 /\ held'[e] = held[e] - 1
          /\ \A x \in Ends \ {e} : todo'[x] = todo[x] /\ sem'[x] = sem[x] /\ held'[x] = held[x]
      BY <1>1, <3>1, AfterIs
    <3>5. Typed'
      BY <1>1, <3>1, <3>3, AfterIs DEF SemInv, Typed
    <3>6. EndOK(Mode(e), todo'[e], held'[e], sem'[e], other'[e])
      BY <3>1, <3>2, <3>4
    <3>7. SemInv'
      BY <3>1, <3>4, <3>5, <3>6, OneEnd
    <3> QED
      BY <3>1, <3>7 DEF UnderSemaphore
  <2>10. CASE Does(e, ev)
    <3>1. /\ ev.op = "do" /\ Goes(e, ev) /\ req' = req /\ held' = held /\ sem' = sem /\ other' = other
          /\ done' = [done EXCEPT ![e] = @ \cup {ev.what.of}]
      BY <2>10 DEF Does
    <3>2. ev.what.of \in Words
      BY <2>1 DEF Events, Contents
    <3>3. done' \in [Ends -> SUBSET Words]
      BY <1>1, <3>1, <3>2
    <3>4. held[e] = 1 \/ ev.what.of = "load balance"
      BY <2>1, <3>1 DEF Keeps
    <3>5. UnderSemaphore
      BY <1>1, <3>1, <3>4 DEF UnderSemaphore
    <3> QED
      BY <2>2, <3>1, <3>3, <3>5
  <2> QED
    BY <1>3, <2>4, <2>5, <2>6, <2>7, <2>8, <2>9, <2>10
<1> QED
  BY <1>2, <1>3 DEF Step

LEMMA SemStep == ASSUME SemInv, [Next]_vars PROVE SemInv' /\ UnderSemaphore
<1>1. /\ done \in [Ends -> SUBSET Words] /\ sem \in [Ends -> Int] /\ held \in [Ends -> Int]
      /\ todo \in [Ends -> SUBSET Traces] /\ other \in [Ends -> BOOLEAN]
  BY DEF SemInv, Typed
<1>2. \A e \in Ends : EndOK(Mode(e), todo[e], held[e], sem[e], other[e])
  BY DEF SemInv
<1>3. ASSUME NEW e \in Ends, Step(e) PROVE SemInv' /\ UnderSemaphore
  BY <1>3, StepSafe
<1>4. ASSUME NEW e \in Ends, OtherLocks(e) PROVE SemInv' /\ UnderSemaphore
  <2>1. /\ ~other[e] /\ sem' = [sem EXCEPT ![e] = @ - 1] /\ other' = [other EXCEPT ![e] = TRUE]
        /\ req' = req /\ todo' = todo /\ held' = held /\ done' = done
    BY <1>4 DEF OtherLocks
  <2>2. /\ sem'[e] = sem[e] - 1 /\ other'[e] = TRUE
        /\ \A x \in Ends \ {e} : sem'[x] = sem[x] /\ other'[x] = other[x]
    BY <1>1, <2>1
  <2>3. Typed'
    BY <1>1, <2>1 DEF Typed
  <2>4. EndOK(Mode(e), todo[e], held[e], sem[e] - 1, TRUE)
    <3>1. other[e] = FALSE
      BY <1>1, <2>1
    <3> QED
      BY <1>2, <3>1, EndShares
  <2>5. SemInv'
    BY <2>1, <2>2, <2>3, <2>4, OneEnd
  <2> QED
    BY <2>1, <2>5 DEF UnderSemaphore
<1>5. ASSUME NEW e \in Ends, OtherReleases(e) PROVE SemInv' /\ UnderSemaphore
  <2>1. /\ other[e] /\ sem' = [sem EXCEPT ![e] = @ + 1] /\ other' = [other EXCEPT ![e] = FALSE]
        /\ req' = req /\ todo' = todo /\ held' = held /\ done' = done
    BY <1>5 DEF OtherReleases
  <2>2. /\ sem'[e] = sem[e] + 1 /\ other'[e] = FALSE
        /\ \A x \in Ends \ {e} : sem'[x] = sem[x] /\ other'[x] = other[x]
    BY <1>1, <2>1
  <2>3. Typed'
    BY <1>1, <2>1 DEF Typed
  <2>4. EndOK(Mode(e), todo[e], held[e], sem[e] + 1, FALSE)
    <3>1. other[e] = TRUE
      BY <1>1, <2>1
    <3> QED
      BY <1>2, <3>1, EndShares
  <2>5. SemInv'
    BY <2>1, <2>2, <2>3, <2>4, OneEnd
  <2> QED
    BY <2>1, <2>5 DEF UnderSemaphore
<1>6. ASSUME Alarm PROVE SemInv' /\ UnderSemaphore
  <2>1. "handler" \in Ends /\ Ended("handler", "died") /\ req' = req /\ other' = other /\ done' = done
    BY <1>6 DEF Alarm, Ends
  <2>2. SemInv'
    BY <1>1, <2>1, StepEnds
  <2> QED
    BY <2>1, <2>2 DEF UnderSemaphore
<1>7. ASSUME Silence PROVE SemInv' /\ UnderSemaphore
  <2>1. PICK e : e = "client" /\ e \in Ends
    BY DEF Ends
  <2>2. /\ todo' = [todo EXCEPT ![e] = {}] /\ other' = [other EXCEPT ![e] = FALSE]
        /\ sem' = [sem EXCEPT ![e] = 1] /\ held' = [held EXCEPT ![e] = 0]
        /\ req' = req /\ done' = done
    BY <1>7, <2>1 DEF Silence
  <2>3. /\ todo'[e] = {} /\ other'[e] = FALSE /\ sem'[e] = 1 /\ held'[e] = 0
        /\ \A x \in Ends \ {e} : /\ todo'[x] = todo[x] /\ held'[x] = held[x]
                                 /\ sem'[x] = sem[x] /\ other'[x] = other[x]
    BY <1>1, <2>1, <2>2
  <2>4. Typed'
    <3>1. todo' \in [Ends -> SUBSET Traces]
      BY <1>1, <2>2, Zenon
    <3>2. held' \in [Ends -> Int]
      <4>1. held' = [held EXCEPT ![e] = 0]
        BY <2>2, Zenon
      <4> QED
        BY <1>1, <4>1, Units, Zenon
    <3>4. sem' \in [Ends -> Int]
      <4>1. sem' = [sem EXCEPT ![e] = 1]
        BY <2>2, Zenon
      <4> QED
        BY <1>1, <4>1, Units, Zenon
    <3>3. other' \in [Ends -> BOOLEAN]
      BY <1>1, <2>2, Zenon
    <3> QED
      BY <1>1, <2>2, <3>1, <3>2, <3>3, <3>4 DEF Typed
  <2>5. EndOK(Mode(e), {}, 0, 1, FALSE)
    BY <1>2, <2>1, EndStops
  <2>6. SemInv'
    BY <2>1, <2>2, <2>3, <2>4, <2>5, OneEnd
  <2> QED
    BY <2>2, <2>6 DEF UnderSemaphore
<1>8. ASSUME req' = req, todo' = todo, held' = held, sem' = sem, other' = other, done' = done
      PROVE  SemInv' /\ UnderSemaphore
  BY <1>8 DEF SemInv, Typed, Mode, UnderSemaphore
<1>9. CASE Break \/ Finished \/ UNCHANGED vars
  <2>1. /\ req' = req /\ todo' = todo /\ held' = held /\ sem' = sem /\ other' = other /\ done' = done
    BY <1>9 DEF Break, Finished, vars
  <2> QED
    BY <1>8, <2>1
<1> QED
  BY <1>3, <1>4, <1>5, <1>6, <1>7, <1>9 DEF Next

----------------------------------------------------------------------------
(* The semaphore of an end is never free twice, except where the handler   *)
(* that lists blocked hosts releases what it does not have; whatever the   *)
(* connection does, and however long the lists are (semaphores.c).         *)
THEOREM ReleasedOnlyByHolder == Spec => []ReleasedByHolder
<1>1. SemInv => ReleasedByHolder
  <2> SUFFICES ASSUME SemInv, req # "R_R_JOBLSTBLKHOST", NEW e \in Ends PROVE sem[e] <= 1
    BY DEF ReleasedByHolder
  <2>1. EndOK(Mode(e), todo[e], held[e], sem[e], other[e]) /\ Mode(e) # "list"
    BY DEF SemInv, Mode, ModeOf
  <2> QED
    BY <2>1 DEF EndOK
<1>2. SemInv /\ [Next]_vars => SemInv'
  BY SemStep
<1> QED
  BY SemInit, <1>1, <1>2, PTL DEF Spec

(* A handler of a slave has nothing of its semaphore when it calls the     *)
(* master, so that the two never wait for each other (request.c).          *)
THEOREM SlavesNeverCallLocked == Spec => []SlavesCallUnlocked
<1>1. SemInv => SlavesCallUnlocked
  <2> SUFFICES ASSUME SemInv, req \in OnSlave, NEW ev \in Heads("handler"), ev.op = "call"
               PROVE  held["handler"] = 0
    BY DEF SlavesCallUnlocked, Calling
  <2>1. "handler" \in Ends
    BY DEF Ends
  <2>2. Mode("handler") = "slave"
    BY DEF Mode, ModeOf, OnSlave
  <2>3. Keeps("slave", held["handler"], ev)
    BY <2>1, <2>2, HeadIs
  <2> QED
    BY <2>3 DEF Keeps
<1>2. SemInv /\ [Next]_vars => SemInv'
  BY SemStep
<1> QED
  BY SemInit, <1>1, <1>2, PTL DEF Spec

(* What a request changes in the shared memory of either end it changes    *)
(* while it has the semaphore once, except for the order of jobs.          *)
THEOREM ChangesUnderSemaphore == Spec => ChangedUnderSemaphore
<1>1. SemInv /\ [Next]_vars => SemInv'
  BY SemStep
<1>2. SemInv /\ [Next]_vars =>
        [\A e \in Ends : \A x \in done'[e] \ done[e] : held[e] = 1 \/ x = "load balance"]_vars
  BY SemStep DEF UnderSemaphore
<1> QED
  BY SemInit, <1>1, <1>2, PTL DEF Spec, ChangedUnderSemaphore

----------------------------------------------------------------------------
(***************************************************************************)
(* Answers: the handler of a new job and the one that gives out a frame    *)
(* send one message, the key, after which the asking end reports success.  *)
(* They have done what that promises when they send it, send nothing       *)
(* after it, and the asking end does not get to its end without it.        *)
(***************************************************************************)
Keyed == {"R_R_REGISJOB", "R_R_AVAILJOB"}
Key(r) == IF r = "R_R_REGISJOB" THEN Answer("id") ELSE Data("task")
Keys == {Answer("id"), Data("task")}

(* Events that do not send the key, jump over nothing, and are not handled *)
(* as g when they fail.                                                    *)
Without(g, k) ==
  {ev \in Events : /\ ev.fails # g /\ (ev.fails = "on" => ev.rest = 0)
                   /\ ~ (ev.op = "put" /\ ev.what = k)}
Calm(g, k, S) == \A t \in S : t \in Traces /\ \A i \in 1 .. Len(t) : t[i] \in Without(g, k)

(* A trace of which the key is the last event, after what it promises.     *)
Effect(ev, x) == ev.op = "do" /\ ev.what.of = x
KeyOf(ev, k) == ev.op = "put" /\ ev.what = k
Kept(k, P, D, t) ==
  /\ t \in Traces
  /\ \A i \in 1 .. Len(t) :
       /\ t[i].fails = "on" => t[i].rest = 0
       /\ KeyOf(t[i], k) => /\ i = Len(t)
                            /\ \A x \in P \ D : \E j \in 1 .. i : Effect(t[j], x)
AllKept(k, P, D, S) == \A t \in S : Kept(k, P, D, t)
Has(S, x) == \A t \in S : \E j \in 1 .. Len(t) : Effect(t[j], x)

(* An event that the asking end does not pass without the key.             *)
Blocks(k, ev) ==
  /\ ev.fails \in {"leave", "undo", "die"}
  /\ ev.op = "give up" \/ (ev.op = "take" /\ ev.what = k)
Blocked(k, t) == \E i \in 1 .. Len(t) : Blocks(k, t[i])
AllBlocked(k, S) == \A t \in S : Blocked(k, t)

LEMMA CalmNothing == ASSUME NEW g, NEW k PROVE Calm(g, k, Nothing)
<1>1. \A i \in 1 .. 0 : FALSE
  OBVIOUS
<1> QED
  BY <1>1, EmptyTrace, Zenon DEF Calm, Nothing

LEMMA CalmEvent ==
  ASSUME NEW g, NEW k, NEW op \in Ops, NEW what \in Contents, NEW fails \in Tags \ {"on", g},
         ~ (op = "put" /\ what = k)
  PROVE  Calm(g, k, Event(op, what, fails))
<1>1. PICK ev : ev = [op |-> op, what |-> what, fails |-> fails, rest |-> 0]
  OBVIOUS
<1>2. ev \in Events /\ ev.op = op /\ ev.what = what /\ ev.fails = fails
  BY <1>1, MadeEvents
<1>3. <<ev>> \in Traces /\ Len(<<ev>>) = 1 /\ <<ev>>[1] = ev
  BY <1>2, EventIs
<1>4. ev \in Without(g, k)
  BY <1>2 DEF Without
<1>5. \A t \in Event(op, what, fails) : t = <<ev>>
  BY <1>1 DEF Event
<1> QED
  BY <1>3, <1>4, <1>5, Units, Zenon DEF Calm

LEMMA CalmThen ==
  ASSUME NEW g, NEW k, NEW A, NEW B, Calm(g, k, A), Calm(g, k, B)
  PROVE  Calm(g, k, A ** B)
<1> SUFFICES ASSUME NEW t \in A ** B
             PROVE  t \in Traces /\ \A i \in 1 .. Len(t) : t[i] \in Without(g, k)
  BY DEF Calm
<1>1. PICK a \in A, b \in B : t = a \o b
  BY InScript
<1>2. /\ a \in Traces /\ \A i \in 1 .. Len(a) : a[i] \in Without(g, k)
      /\ b \in Traces /\ \A i \in 1 .. Len(b) : b[i] \in Without(g, k)
  BY DEF Calm
<1>3. PICK p, q : p = Len(a) /\ q = Len(b) /\ p \in Nat /\ q \in Nat
  BY <1>2, TraceIs
<1>4. /\ t \in Traces /\ Len(t) = p + q
      /\ \A i \in 1 .. p : t[i] = a[i]
      /\ \A i \in p + 1 .. p + q : t[i] = b[i - p]
  BY <1>1, <1>2, <1>3, Joined
<1>5. \A i \in 1 .. p + q : i \in 1 .. p \/ (i \in p + 1 .. p + q /\ i - p \in 1 .. q)
  BY <1>3
<1> QED
  BY <1>2, <1>3, <1>4, <1>5

LEMMA CalmOr == ASSUME NEW g, NEW k, NEW A, NEW B, Calm(g, k, A), Calm(g, k, B) PROVE Calm(g, k, A \cup B)
BY DEF Calm

LEMMA CalmAny == ASSUME NEW g, NEW k, NEW F, \A S \in F : Calm(g, k, S) PROVE Calm(g, k, UNION F)
BY DEF Calm

LEMMA CalmTimes == ASSUME NEW g, NEW k, NEW n \in Nat, NEW S, Calm(g, k, S) PROVE Calm(g, k, Times(n, S))
<1>1. PICK f : Repeats(f, n, S) /\ Times(n, S) = f[n]
  BY TimesIs
<1>2. \A i \in 0 .. n : f[i] = IF i = 0 THEN Nothing ELSE f[i - 1] ** S
  BY <1>1 DEF Repeats
<1> DEFINE D == {i \in 0 .. n : Calm(g, k, f[i])}
<1>3. 0 \in D
  <2>1. 0 \in 0 .. n /\ f[0] = Nothing
    BY <1>2
  <2> QED
    BY <2>1, CalmNothing
<1>4. ASSUME NEW i \in 1 .. n, i - 1 \in D PROVE i \in D
  <2>1. i \in 0 .. n /\ f[i] = f[i - 1] ** S
    BY <1>2
  <2> QED
    BY <1>4, <2>1, CalmThen
<1>5. n \in 0 .. n
  OBVIOUS
<1> HIDE DEF D
<1>6. n \in D
  BY <1>3, <1>4, <1>5, IntervalInduction
<1> QED
  BY <1>1, <1>6 DEF D

LEMMA CalmFailing ==
  ASSUME NEW g, NEW k, NEW S, NEW tag \in Tags \ {"on", g}, Calm(g, k, S)
  PROVE  Calm(g, k, Failing(tag, S))
<1> SUFFICES ASSUME NEW u \in Failing(tag, S)
             PROVE  u \in Traces /\ \A i \in 1 .. Len(u) : u[i] \in Without(g, k)
  BY DEF Calm
<1>1. PICK t \in S : u = Tagged(tag, t)
  BY InFailing
<1>2. t \in Traces /\ \A i \in 1 .. Len(t) : t[i] \in Without(g, k)
  BY DEF Calm
<1>3. /\ u \in Traces /\ Len(u) = Len(t)
      /\ \A i \in 1 .. Len(t) : /\ u[i].op = t[i].op /\ u[i].what = t[i].what
                                /\ u[i] = t[i] \/ u[i].fails = tag
  BY <1>1, <1>2, TaggedIs
<1>4. ASSUME NEW i \in 1 .. Len(t) PROVE u[i] \in Without(g, k)
  <2>1. u[i] \in Events /\ t[i] \in Without(g, k)
    BY <1>2, <1>3, TraceIs
  <2>2. CASE u[i] = t[i]
    BY <2>1, <2>2
  <2>3. CASE u[i].fails = tag
    BY <1>3, <2>1, <2>3 DEF Without
  <2> QED
    BY <1>3, <2>2, <2>3
<1> QED
  BY <1>3, <1>4

(* A single message that may fail without harm.                            *)
LEMMA CalmAnyway ==
  ASSUME NEW g \in {"hide", "undo"}, NEW k, NEW m \in Contents, m # k PROVE Calm(g, k, Failing("on", Put(m)))
<1> SUFFICES ASSUME NEW u \in Failing("on", Put(m))
             PROVE  u \in Traces /\ \A i \in 1 .. Len(u) : u[i] \in Without(g, k)
  BY DEF Calm
<1>1. PICK t \in Put(m) : u = Tagged("on", t)
  BY InFailing
<1>2. PICK ev : ev = [op |-> "put", what |-> m, fails |-> "leave", rest |-> 0]
  OBVIOUS
<1>3. ev \in Events /\ ev.op = "put" /\ ev.what = m /\ ev.fails = "leave" /\ t = <<ev>>
  BY <1>2, MadeEvents DEF Put, Event, Ops, Transfers, Tags
<1>4. t \in Traces /\ Len(t) = 1 /\ t[1] = ev
  BY <1>3, EventIs
<1>5. /\ u \in Traces /\ Len(u) = 1 /\ u[1].op = "put" /\ u[1].what = m
      /\ u[1] = ev \/ (u[1].fails = "on" /\ u[1].rest = 0)
  <2>1. "on" \in Tags /\ 1 \in 1 .. 1 /\ 1 - 1 = 0
    BY DEF Tags
  <2>2. /\ u \in Traces /\ Len(u) = Len(t)
        /\ \A i \in 1 .. Len(t) :
             /\ u[i].op = t[i].op /\ u[i].what = t[i].what
             /\ u[i] = t[i] \/ /\ u[i].op \in Transfers /\ u[i].fails = "on"
                               /\ "on" = "on" => u[i].rest = Len(t) - i
    BY <1>1, <1>4, <2>1, TaggedIs
  <2> QED
    BY <1>3, <1>4, <2>1, <2>2, Zenon
<1>6. u[1] \in Events
  BY <1>5, TraceIs
<1>7. u[1] \in Without(g, k)
  BY <1>3, <1>5, <1>6 DEF Without
<1> QED
  BY <1>5, <1>7, Units, Zenon

LEMMA KeptCalm ==
  ASSUME NEW g, NEW k, NEW P, NEW D, NEW S, Calm(g, k, S) PROVE AllKept(k, P, D, S)
BY DEF Calm, AllKept, Kept, Without, KeyOf

LEMMA KeptThen ==
  ASSUME NEW g, NEW k, NEW P, NEW D, NEW X, NEW A, NEW B,
         Calm(g, k, A), \A x \in X : Has(A, x), AllKept(k, P, D \cup X, B)
  PROVE  AllKept(k, P, D, A ** B)
<1> SUFFICES ASSUME NEW t \in A ** B PROVE Kept(k, P, D, t)
  BY DEF AllKept
<1>1. PICK a \in A, b \in B : t = a \o b
  BY InScript
<1>2. /\ a \in Traces /\ \A i \in 1 .. Len(a) : a[i] \in Without(g, k)
      /\ \A x \in X : \E j \in 1 .. Len(a) : Effect(a[j], x)
      /\ Kept(k, P, D \cup X, b) /\ b \in Traces
  BY DEF Calm, AllKept, Has, Kept
<1>3. PICK p, q : p = Len(a) /\ q = Len(b) /\ p \in Nat /\ q \in Nat
  BY <1>2, TraceIs
<1>4. /\ t \in Traces /\ Len(t) = p + q
      /\ \A i \in 1 .. p : t[i] = a[i]
      /\ \A i \in p + 1 .. p + q : t[i] = b[i - p]
  BY <1>1, <1>2, <1>3, Joined
<1>5. \A i \in 1 .. p + q : i \in 1 .. p \/ (i \in p + 1 .. p + q /\ i - p \in 1 .. q)
  BY <1>3
<1>6. ASSUME NEW i \in 1 .. p
      PROVE  (t[i].fails = "on" => t[i].rest = 0) /\ ~ KeyOf(t[i], k)
  BY <1>2, <1>3, <1>4 DEF Without, KeyOf
<1>7. ASSUME NEW i \in p + 1 .. p + q
      PROVE  /\ t[i].fails = "on" => t[i].rest = 0
             /\ KeyOf(t[i], k) => /\ i = p + q
                                  /\ \A x \in P \ D : \E j \in 1 .. i : Effect(t[j], x)
  <2>1. PICK n : n = i - p /\ n \in 1 .. q /\ t[i] = b[n]
    BY <1>3, <1>4
  <2>2. /\ b[n].fails = "on" => b[n].rest = 0
        /\ KeyOf(b[n], k) => /\ n = q
                             /\ \A x \in P \ (D \cup X) : \E j \in 1 .. n : Effect(b[j], x)
    BY <1>2, <1>3, <2>1 DEF Kept
  <2>3. ASSUME KeyOf(t[i], k), NEW x \in P \ D PROVE \E j \in 1 .. i : Effect(t[j], x)
    <3>1. CASE x \in X
      <4>1. PICK j \in 1 .. p : Effect(a[j], x)
        BY <1>2, <1>3, <3>1
      <4>2. j \in 1 .. i /\ t[j] = a[j]
        BY <1>3, <1>4
      <4> QED
        BY <4>1, <4>2
    <3>2. CASE x \notin X
      <4>1. PICK j \in 1 .. n : Effect(b[j], x)
        BY <2>1, <2>2, <2>3, <3>2
      <4>2. j + p \in 1 .. i /\ j + p \in p + 1 .. p + q /\ (j + p) - p = j
        BY <1>3, <2>1
      <4>3. t[j + p] = b[j]
        BY <1>4, <4>2
      <4> QED
        BY <4>1, <4>2, <4>3
    <3> QED
      BY <3>1, <3>2
  <2>4. KeyOf(t[i], k) => i = p + q
    BY <1>3, <2>1, <2>2
  <2> QED
    BY <2>1, <2>2, <2>3, <2>4
<1> QED
  BY <1>4, <1>5, <1>6, <1>7 DEF Kept

LEMMA KeptLast ==
  ASSUME NEW k \in Contents, NEW P, NEW D, P \subseteq D PROVE AllKept(k, P, D, Put(k))
<1>1. PICK ev : ev = [op |-> "put", what |-> k, fails |-> "leave", rest |-> 0]
  OBVIOUS
<1>2. ev \in Events /\ ev.fails = "leave"
  BY <1>1, MadeEvents DEF Ops, Transfers, Tags
<1>3. <<ev>> \in Traces /\ Len(<<ev>>) = 1 /\ <<ev>>[1] = ev
  BY <1>2, EventIs
<1>4. Kept(k, P, D, <<ev>>)
  BY <1>2, <1>3, Units, Zenon DEF Kept
<1> QED
  BY <1>1, <1>4 DEF AllKept, Put, Event

LEMMA KeptOr ==
  ASSUME NEW k, NEW P, NEW D, NEW A, NEW B, AllKept(k, P, D, A), AllKept(k, P, D, B)
  PROVE  AllKept(k, P, D, A \cup B)
BY DEF AllKept

LEMMA KeptFailing ==
  ASSUME NEW k, NEW P, NEW D, NEW S, NEW tag \in Tags \ {"on"}, AllKept(k, P, D, S)
  PROVE  AllKept(k, P, D, Failing(tag, S))
<1> SUFFICES ASSUME NEW u \in Failing(tag, S) PROVE Kept(k, P, D, u)
  BY DEF AllKept
<1>1. PICK t \in S : u = Tagged(tag, t)
  BY InFailing
<1>2. Kept(k, P, D, t) /\ t \in Traces
  BY DEF AllKept, Kept
<1>3. PICK n : n = Len(t) /\ n \in Nat
  BY <1>2, TraceIs
<1>4. /\ u \in Traces /\ Len(u) = n
      /\ \A i \in 1 .. n : /\ u[i].op = t[i].op /\ u[i].what = t[i].what
                           /\ u[i] = t[i] \/ u[i].fails = tag
  BY <1>1, <1>2, <1>3, TaggedIs
<1>5. \A i \in 1 .. n : /\ u[i].fails = "on" => u[i].rest = 0
                        /\ KeyOf(u[i], k) = KeyOf(t[i], k)
                        /\ \A x : Effect(u[i], x) = Effect(t[i], x)
  BY <1>2, <1>3, <1>4 DEF Kept, KeyOf, Effect
<1>6. \A i \in 1 .. n : \A j \in 1 .. i : j \in 1 .. n
  BY <1>3
<1>7. ASSUME NEW i \in 1 .. n, KeyOf(u[i], k)
      PROVE  i = n /\ \A x \in P \ D : \E j \in 1 .. i : Effect(u[j], x)
  <2>1. i = n /\ \A x \in P \ D : \E j \in 1 .. i : Effect(t[j], x)
    BY <1>2, <1>3, <1>5, <1>7 DEF Kept
  <2> QED
    BY <1>5, <1>6, <2>1
<1> QED
  BY <1>4, <1>5, <1>7 DEF Kept

LEMMA FirstOfOne == ASSUME NEW ev \in Events PROVE 1 \in 1 .. Len(<<ev>>) /\ <<ev>>[1] = ev
BY EventIs

LEMMA HasDo == ASSUME NEW x \in Words PROVE Has(Do(x), x)
<1>1. PICK ev : ev = [op |-> "do", what |-> Msg("effect", x, 0), fails |-> "leave", rest |-> 0]
  OBVIOUS
<1>2. ev \in Events /\ Effect(ev, x)
  BY <1>1, MadeEvents, TheMessages DEF Ops, Tags, Effect
<1>3. <<ev>> \in Traces /\ Len(<<ev>>) = 1 /\ <<ev>>[1] = ev
  BY <1>2, EventIs
<1>4. \A t \in Do(x) : t = <<ev>>
  BY <1>1 DEF Do, Event
<1>5. 1 \in 1 .. Len(<<ev>>) /\ Effect(<<ev>>[1], x)
  BY <1>2, <1>3
<1> QED
  BY <1>4, <1>5, Zenon DEF Has

LEMMA HasThen ==
  ASSUME NEW g, NEW k, NEW A, NEW B, NEW x, Calm(g, k, A), Calm(g, k, B), Has(A, x) \/ Has(B, x)
  PROVE  Has(A ** B, x)
<1> SUFFICES ASSUME NEW t \in A ** B PROVE \E j \in 1 .. Len(t) : Effect(t[j], x)
  BY DEF Has
<1>1. PICK a \in A, b \in B : t = a \o b
  BY InScript
<1>2. a \in Traces /\ b \in Traces
  BY DEF Calm
<1>3. PICK p, q : p = Len(a) /\ q = Len(b) /\ p \in Nat /\ q \in Nat
  BY <1>2, TraceIs
<1>4. /\ t \in Traces /\ Len(t) = p + q
      /\ \A i \in 1 .. p : t[i] = a[i]
      /\ \A i \in p + 1 .. p + q : t[i] = b[i - p]
  BY <1>1, <1>2, <1>3, Joined
<1>5. CASE Has(A, x)
  <2>1. PICK j \in 1 .. p : Effect(a[j], x)
    BY <1>3, <1>5 DEF Has
  <2>2. j \in 1 .. p + q /\ t[j] = a[j]
    BY <1>3, <1>4
  <2> QED
    BY <1>4, <2>1, <2>2
<1>6. CASE Has(B, x)
  <2>1. PICK j \in 1 .. q : Effect(b[j], x)
    BY <1>3, <1>6 DEF Has
  <2>2. j + p \in 1 .. p + q /\ j + p \in p + 1 .. p + q /\ (j + p) - p = j
    BY <1>3
  <2>3. t[j + p] = b[j]
    BY <1>4, <2>2
  <2> QED
    BY <1>4, <2>1, <2>2, <2>3
<1> QED
  BY <1>5, <1>6

LEMMA BlockedEvent ==
  ASSUME NEW k, NEW op \in Ops, NEW what \in Contents, op = "give up" \/ (op = "take" /\ what = k),
         NEW fails \in {"leave", "undo", "die"}
  PROVE  AllBlocked(k, Event(op, what, fails))
<1>1. PICK ev : ev = [op |-> op, what |-> what, fails |-> fails, rest |-> 0]
  OBVIOUS
<1>2. ev \in Events /\ Blocks(k, ev)
  BY <1>1, MadeEvents DEF Tags, Blocks
<1>3. <<ev>> \in Traces /\ Len(<<ev>>) = 1 /\ <<ev>>[1] = ev
  BY <1>2, EventIs
<1>4. \A t \in Event(op, what, fails) : t = <<ev>>
  BY <1>1 DEF Event
<1>5. 1 \in 1 .. Len(<<ev>>) /\ Blocks(k, <<ev>>[1])
  BY <1>2, FirstOfOne, Zenon
<1> QED
  BY <1>4, <1>5, Zenon DEF AllBlocked, Blocked

LEMMA BlockedThen ==
  ASSUME NEW g, NEW k, NEW A, NEW B, Calm(g, k, A), Calm(g, k, B), AllBlocked(k, A) \/ AllBlocked(k, B)
  PROVE  AllBlocked(k, A ** B)
<1> SUFFICES ASSUME NEW t \in A ** B PROVE \E j \in 1 .. Len(t) : Blocks(k, t[j])
  BY DEF AllBlocked, Blocked
<1>1. PICK a \in A, b \in B : t = a \o b
  BY InScript
<1>2. a \in Traces /\ b \in Traces
  BY DEF Calm
<1>3. PICK p, q : p = Len(a) /\ q = Len(b) /\ p \in Nat /\ q \in Nat
  BY <1>2, TraceIs
<1>4. /\ t \in Traces /\ Len(t) = p + q
      /\ \A i \in 1 .. p : t[i] = a[i]
      /\ \A i \in p + 1 .. p + q : t[i] = b[i - p]
  BY <1>1, <1>2, <1>3, Joined
<1>5. CASE AllBlocked(k, A)
  <2>1. PICK j \in 1 .. p : Blocks(k, a[j])
    BY <1>3, <1>5 DEF AllBlocked, Blocked
  <2>2. j \in 1 .. p + q /\ t[j] = a[j]
    BY <1>3, <1>4
  <2> QED
    BY <1>4, <2>1, <2>2
<1>6. CASE AllBlocked(k, B)
  <2>1. PICK j \in 1 .. q : Blocks(k, b[j])
    BY <1>3, <1>6 DEF AllBlocked, Blocked
  <2>2. j + p \in 1 .. p + q /\ j + p \in p + 1 .. p + q /\ (j + p) - p = j
    BY <1>3
  <2>3. t[j + p] = b[j]
    BY <1>4, <2>2
  <2> QED
    BY <1>4, <2>1, <2>2, <2>3
<1> QED
  BY <1>5, <1>6

LEMMA BlockedFailing ==
  ASSUME NEW k, NEW S, NEW tag \in {"undo", "die"}, S \subseteq Traces, AllBlocked(k, S)
  PROVE  AllBlocked(k, Failing(tag, S))
<1> SUFFICES ASSUME NEW u \in Failing(tag, S) PROVE \E j \in 1 .. Len(u) : Blocks(k, u[j])
  BY DEF AllBlocked, Blocked
<1>1. PICK t \in S : u = Tagged(tag, t)
  BY InFailing
<1>2. PICK i \in 1 .. Len(t) : Blocks(k, t[i])
  BY DEF AllBlocked, Blocked
<1>3. /\ Len(u) = Len(t) /\ u[i].op = t[i].op /\ u[i].what = t[i].what
      /\ u[i] = t[i] \/ u[i].fails = tag
  BY <1>1, TaggedIs DEF Tags
<1>4. Blocks(k, u[i])
  BY <1>2, <1>3 DEF Blocks
<1> QED
  BY <1>3, <1>4

LEMMA BlockedOr ==
  ASSUME NEW k, NEW A, NEW B, AllBlocked(k, A), AllBlocked(k, B) PROVE AllBlocked(k, A \cup B)
BY DEF AllBlocked

LEMMA BlockedAny == ASSUME NEW k, NEW F, \A S \in F : AllBlocked(k, S) PROVE AllBlocked(k, UNION F)
BY DEF AllBlocked

----------------------------------------------------------------------------
(* The messages of the two requests.                                       *)
LEMMA KeysApart ==
  /\ Keys \subseteq Contents
  /\ \A k \in Keys : \A of \in Words :
       /\ Size(of) # k /\ \A n \in Nat : Count(of, n) # k
       /\ of # "id" => Answer(of) # k
       /\ of # "task" => Data(of) # k
<1>1. "id" \in Words /\ "task" \in Words
  BY DEF Words
<1>2. Keys \subseteq Contents
  BY <1>1, TheMessages DEF Keys
<1>3. ASSUME NEW k \in Keys
      PROVE  (k.kind = "request" /\ k.of = "id") \/ (k.kind = "data" /\ k.of = "task")
  BY <1>3 DEF Keys, Answer, Data, Msg
<1>4. \A of, n : /\ Size(of).kind = "size" /\ Count(of, n).kind = "count"
                 /\ Answer(of).kind = "request" /\ Answer(of).of = of
                 /\ Data(of).kind = "data" /\ Data(of).of = of
  BY DEF Size, Count, Answer, Data, Msg
<1>5. ASSUME NEW k \in Keys, NEW of
      PROVE  /\ Size(of) # k /\ \A n : Count(of, n) # k
             /\ of # "id" => Answer(of) # k
             /\ of # "task" => Data(of) # k
  BY <1>3, <1>4
<1> QED
  BY <1>2, <1>5

LEMMA CalmMessages ==
  ASSUME NEW g \in {"hide", "undo"}, NEW k \in Keys
  PROVE  /\ \A c \in Contents : Calm(g, k, Take(c)) /\ (c # k => Calm(g, k, Put(c)))
         /\ \A of \in Words : Calm(g, k, Compare(of)) /\ Calm(g, k, Do(of)) /\ Calm(g, k, Call(of))
         /\ Calm(g, k, Lock) /\ Calm(g, k, Release) /\ Calm(g, k, Leave) /\ Calm(g, k, Die)
<1>1. /\ {"put", "take", "compare", "do", "call", "lock", "release", "give up"} \subseteq Ops
      /\ "leave" \in Tags \ {"on", g} /\ "die" \in Tags \ {"on", g}
      /\ \A x \in Ops : x # "put" => x \in Ops
  BY DEF Ops, Transfers, Tags
<1>2. /\ \A of \in Words : Size(of) \in Contents /\ Msg("effect", of, 0) \in Contents /\ Msg("call", of, 0) \in Contents
      /\ Msg("semaphore", "", 0) \in Contents /\ Msg("", "", 0) \in Contents
  BY TheMessages
<1>3. \A op \in Ops, what \in Contents, f \in {"leave", "die"} :
        op # "put" \/ what # k => Calm(g, k, Event(op, what, f))
  BY <1>1, CalmEvent
<1>4. \A c \in Contents : Calm(g, k, Take(c)) /\ (c # k => Calm(g, k, Put(c)))
  BY <1>1, <1>3 DEF Take, Put
<1>5. \A of \in Words : Calm(g, k, Compare(of)) /\ Calm(g, k, Do(of)) /\ Calm(g, k, Call(of))
  BY <1>1, <1>2, <1>3 DEF Compare, Do, Call
<1>6. Calm(g, k, Lock) /\ Calm(g, k, Release) /\ Calm(g, k, Leave) /\ Calm(g, k, Die)
  BY <1>1, <1>2, <1>3 DEF Lock, Release, Leave, Die
<1> QED
  BY <1>4, <1>5, <1>6

LEMMA CalmUndo == ASSUME NEW k \in Keys PROVE Calm("hide", k, Undo)
<1>1. "give up" \in Ops /\ "undo" \in Tags \ {"on", "hide"} /\ Msg("", "", 0) \in Contents
  BY TheMessages DEF Ops, Tags
<1> QED
  BY <1>1, CalmEvent DEF Undo

LEMMA CalmLocked ==
  ASSUME NEW g \in {"hide", "undo"}, NEW k \in Keys, NEW S, Calm(g, k, S) PROVE Calm(g, k, Locked(S))
BY CalmMessages, CalmThen DEF Locked

LEMMA CalmSized ==
  ASSUME NEW g \in {"hide", "undo"}, NEW k \in Keys, NEW of \in Words
  PROVE  /\ Calm(g, k, check_send_datasize(of)) /\ Calm(g, k, check_recv_datasize(of))
         /\ Calm(g, k, RecvSized(of))
         /\ of # "task" => Calm(g, k, SendSized(of))
<1>1. /\ Size(of) \in Contents /\ Size(of) # k /\ Data(of) \in Contents
      /\ of # "task" => Data(of) # k
  BY TheMessages, KeysApart
<1>2. /\ Calm(g, k, Put(Size(of))) /\ Calm(g, k, Take(Size(of))) /\ Calm(g, k, Compare(of))
      /\ Calm(g, k, Take(Data(of))) /\ (of # "task" => Calm(g, k, Put(Data(of))))
  BY <1>1, CalmMessages
<1>3. Calm(g, k, check_send_datasize(of)) /\ Calm(g, k, check_recv_datasize(of))
  BY <1>2, CalmThen DEF check_send_datasize, check_recv_datasize
<1> QED
  BY <1>2, <1>3, CalmThen DEF SendSized, RecvSized

LEMMA CalmAnswers ==
  ASSUME NEW g \in {"hide", "undo"}, NEW k \in Keys, NEW c \in Words
  PROVE  /\ Calm(g, k, recv_request(c))
         /\ c # "id" => Calm(g, k, send_answer(c)) /\ Calm(g, k, Failing("on", send_answer(c)))
<1>1. Answer(c) \in Contents /\ (c # "id" => Answer(c) # k)
  BY TheMessages, KeysApart
<1> QED
  BY <1>1, CalmMessages, CalmAnyway DEF recv_request, send_answer

LEMMA CalmRequest == ASSUME NEW g \in {"hide", "undo"}, NEW k \in Keys PROVE Calm(g, k, send_request)
<1>1. "request" \in Words /\ "request" # "id" /\ send_request = send_answer("request")
  BY DEF Words, send_request, send_answer
<1> QED
  BY <1>1, CalmAnswers

(* The job with its variables, both ways.                                  *)
LEMMA CalmJob == ASSUME NEW k \in Keys PROVE Calm("hide", k, recv_job) /\ Calm("hide", k, send_job)
<1>1. "job" \in Words /\ "envvar" \in Words /\ "job" # "task" /\ "envvar" # "task"
  BY DEF Words
<1>2. /\ Calm("hide", k, RecvSized("job")) /\ Calm("hide", k, SendSized("job"))
      /\ Calm("hide", k, recv_envvar) /\ Calm("hide", k, send_envvar)
  BY <1>1, CalmSized DEF recv_envvar, send_envvar
<1>3. ASSUME NEW n \in 0 .. MaxItems
      PROVE  /\ Calm("hide", k, Take(Count("envvar", n)) ** Times(n, recv_envvar))
             /\ Calm("hide", k, Put(Count("envvar", n)) **
                                  (Times(n, send_envvar) \cup IF n > 0 THEN Die ELSE {}))
  <2>1. n \in Nat
    BY MaxItemsAssumption
  <2>2. Count("envvar", n) \in Contents /\ Count("envvar", n) # k
    BY <1>1, <2>1, TheMessages, KeysApart
  <2>3. /\ Calm("hide", k, Take(Count("envvar", n))) /\ Calm("hide", k, Put(Count("envvar", n)))
        /\ Calm("hide", k, Die)
    BY <2>2, CalmMessages
  <2>4. Calm("hide", k, Times(n, recv_envvar)) /\ Calm("hide", k, Times(n, send_envvar))
    BY <1>2, <2>1, CalmTimes
  <2>5. Calm("hide", k, IF n > 0 THEN Die ELSE {})
    BY <2>3 DEF Calm
  <2> QED
    BY <2>3, <2>4, <2>5, CalmThen, CalmOr
<1>4. Calm("hide", k, recv_envvars)
  <2> DEFINE F == {Take(Count("envvar", n)) ** Times(n, recv_envvar) : n \in 0 .. MaxItems}
  <2>1. recv_envvars = UNION F
    BY DEF recv_envvars
  <2>2. \A S \in F : Calm("hide", k, S)
    BY <1>3
  <2> HIDE DEF F
  <2> QED
    BY <2>1, <2>2, CalmAny
<1>5. Calm("hide", k, send_envvars)
  <2> DEFINE F == {Put(Count("envvar", n)) ** (Times(n, send_envvar) \cup IF n > 0 THEN Die ELSE {}) : n \in 0 .. MaxItems}
  <2>1. send_envvars = UNION F
    BY DEF send_envvars
  <2>2. \A S \in F : Calm("hide", k, S)
    BY <1>3
  <2> HIDE DEF F
  <2> QED
    BY <2>1, <2>2, CalmAny
<1> QED
  BY <1>2, <1>4, <1>5, CalmThen DEF recv_job, send_job

LEMMA CalmNotify ==
  ASSUME NEW g \in {"hide", "undo"}, NEW k \in Keys PROVE Calm(g, k, request_all_slaves_job_available)
<1>1. "RS_R_JOBAVAILABLE" \in Words
  BY DEF Words
<1>2. Calm(g, k, Locked(Nothing)) /\ Calm(g, k, Nothing \cup Call("RS_R_JOBAVAILABLE"))
  BY <1>1, CalmNothing, CalmLocked, CalmMessages, CalmOr
<1> QED
  BY <1>2, CalmThen DEF request_all_slaves_job_available, job_available_no_icomp

----------------------------------------------------------------------------
(* The asking ends do not get to their end without the key.                *)
LEMMA BlockedMessages ==
  ASSUME NEW k \in Keys
  PROVE  AllBlocked(k, Leave) /\ AllBlocked(k, Take(k))
<1>1. /\ "give up" \in Ops /\ "take" \in Ops /\ Msg("", "", 0) \in Contents /\ k \in Contents
      /\ "leave" \in {"leave", "undo", "die"}
  BY TheMessages, KeysApart DEF Ops, Transfers
<1> QED
  BY <1>1, BlockedEvent DEF Leave, Take

LEMMA AskingIsHonest ==
  ASSUME NEW r \in Keyed
  PROVE  Calm("hide", Key(r), Asking(r)) /\ AllBlocked(Key(r), Asking(r))
<1> DEFINE k == Key(r)
<1>1. k \in Keys /\ "hide" \in {"hide", "undo"}
  BY DEF Keys, Key
<1>2. /\ {"NOERROR", "NOSPACE", "NOAVJOB", "NOREGIS", "id", "itask", "task", "task reserved", "task loaded"}
           \subseteq Words
      /\ \A c \in {"NOERROR", "NOSPACE", "NOAVJOB", "NOREGIS", "itask"} : c # "id"
  BY DEF Words
<1> HIDE DEF k
<1>3. ASSUME NEW c \in {"NOERROR", "NOSPACE", "NOAVJOB", "NOREGIS", "id", "itask"}
      PROVE  Calm("hide", k, recv_request(c))
  BY <1>1, <1>2, CalmAnswers
<1>4. /\ Calm("hide", k, send_request) /\ Calm("hide", k, Leave) /\ Calm("hide", k, Lock)
      /\ Calm("hide", k, Release) /\ AllBlocked(k, Leave)
  BY <1>1, CalmRequest, CalmMessages, BlockedMessages
<1>5. ASSUME NEW C, C \subseteq {"NOSPACE", "NOAVJOB", "NOREGIS"}
      PROVE  Calm("hide", k, Refused(C)) /\ AllBlocked(k, Refused(C))
  <2>1. \A c \in C : Calm("hide", k, recv_request(c) ** Leave) /\ AllBlocked(k, recv_request(c) ** Leave)
    BY <1>3, <1>4, <1>5, CalmThen, BlockedThen
  <2> DEFINE F == {recv_request(c) ** Leave : c \in C}
  <2>2. Refused(C) = UNION F
    BY DEF Refused
  <2>3. \A S \in F : Calm("hide", k, S) /\ AllBlocked(k, S)
    BY <2>1
  <2> HIDE DEF F
  <2> QED
    BY <2>2, <2>3, CalmAny, BlockedAny
<1>6. CASE r = "R_R_REGISJOB"
  <2>1. k = Answer("id") /\ Asking(r) = register_job
    BY <1>6 DEF k, Key, Asking
  <2>2. AllBlocked(k, recv_request("id"))
    BY <1>1, <2>1, BlockedMessages DEF recv_request
  <2>3. Calm("hide", k, recv_request("NOERROR") ** send_job)
    BY <1>1, <1>3, CalmJob, CalmThen
  <2>4. /\ Calm("hide", k, recv_request("NOERROR") ** send_job ** recv_request("id"))
        /\ AllBlocked(k, recv_request("NOERROR") ** send_job ** recv_request("id"))
    BY <1>3, <2>2, <2>3, CalmThen, BlockedThen
  <2>5. Calm("hide", k, Refused({"NOSPACE"})) /\ AllBlocked(k, Refused({"NOSPACE"}))
    BY <1>5
  <2>6. /\ Calm("hide", k, recv_request("NOERROR") ** send_job ** recv_request("id") \cup Refused({"NOSPACE"}))
        /\ AllBlocked(k, recv_request("NOERROR") ** send_job ** recv_request("id") \cup Refused({"NOSPACE"}))
    BY <2>4, <2>5, CalmOr, BlockedOr
  <2>7. Calm("hide", k, register_job) /\ AllBlocked(k, register_job)
    BY <1>4, <2>6, CalmThen, BlockedThen DEF register_job
  <2> QED
    BY <2>1, <2>7 DEF k
<1>7. CASE r = "R_R_AVAILJOB"
  <2>1. k = Data("task") /\ Asking(r) = request_job_available
    BY <1>7 DEF k, Key, Asking
  <2>2. AllBlocked(k, recv_task) /\ Calm("hide", k, recv_task)
    <3>1. Calm("hide", k, check_recv_datasize("task")) /\ Calm("hide", k, recv_task)
      BY <1>1, <1>2, CalmSized DEF recv_task
    <3>2. AllBlocked(k, Take(Data("task"))) /\ Calm("hide", k, Take(Data("task")))
      BY <1>1, <2>1, BlockedMessages, CalmMessages, KeysApart
    <3> QED
      BY <3>1, <3>2, BlockedThen DEF recv_task, RecvSized
  <2> DEFINE T == send_answer("NOERROR") ** send_answer("itask") ** recv_task
  <2>3. Calm("hide", k, T) /\ AllBlocked(k, T) /\ T \subseteq Traces
    <3>1. Calm("hide", k, send_answer("NOERROR")) /\ Calm("hide", k, send_answer("itask"))
      BY <1>1, <1>2, CalmAnswers
    <3>2. Calm("hide", k, send_answer("NOERROR") ** send_answer("itask"))
      BY <3>1, CalmThen
    <3>3. Calm("hide", k, T) /\ AllBlocked(k, T)
      BY <2>2, <3>2, CalmThen, BlockedThen
    <3> QED
      BY <3>3 DEF Calm
  <2> HIDE DEF T
  <2>4. Calm("hide", k, Failing("undo", T)) /\ AllBlocked(k, Failing("undo", T))
    <3>1. "undo" \in Tags \ {"on", "hide"} /\ "undo" \in {"undo", "die"}
      BY DEF Tags
    <3> QED
      BY <2>3, <3>1, CalmFailing, BlockedFailing
  <2>5. Calm("hide", k, Locked(Do("task reserved"))) /\ Calm("hide", k, Locked(Do("task loaded")))
    BY <1>1, <1>2, CalmMessages, CalmLocked
  <2> DEFINE U == Locked(Do("task reserved")) ** Failing("undo", T) ** Locked(Do("task loaded"))
  <2>6. Calm("hide", k, U) /\ AllBlocked(k, U)
    <3>1. /\ Calm("hide", k, Locked(Do("task reserved")) ** Failing("undo", T))
          /\ AllBlocked(k, Locked(Do("task reserved")) ** Failing("undo", T))
      BY <2>4, <2>5, CalmThen, BlockedThen
    <3> QED
      BY <2>5, <3>1, CalmThen, BlockedThen
  <2> HIDE DEF U
  <2> DEFINE V == Lock ** Release ** Failing("on", send_answer("NOSPACE")) ** Leave
  <2>7. Calm("hide", k, V) /\ AllBlocked(k, V)
    <3>1. Calm("hide", k, Failing("on", send_answer("NOSPACE")))
      BY <1>1, <1>2, CalmAnswers
    <3>2. Calm("hide", k, Lock ** Release ** Failing("on", send_answer("NOSPACE")))
      BY <1>4, <3>1, CalmThen
    <3> QED
      BY <1>4, <3>2, CalmThen, BlockedThen
  <2> HIDE DEF V
  <2>8. /\ Calm("hide", k, recv_request("NOERROR") ** (V \cup U))
        /\ AllBlocked(k, recv_request("NOERROR") ** (V \cup U))
    <3>1. Calm("hide", k, V \cup U) /\ AllBlocked(k, V \cup U)
      BY <2>6, <2>7, CalmOr, BlockedOr
    <3> QED
      BY <1>3, <3>1, CalmThen, BlockedThen
  <2>9. Calm("hide", k, Refused({"NOAVJOB", "NOREGIS"})) /\ AllBlocked(k, Refused({"NOAVJOB", "NOREGIS"}))
    BY <1>5
  <2>10. request_job_available =
           send_request ** (Refused({"NOAVJOB", "NOREGIS"}) \cup recv_request("NOERROR") ** (V \cup U))
    BY DEF request_job_available, U, V, T
  <2>11. /\ Calm("hide", k, Refused({"NOAVJOB", "NOREGIS"}) \cup recv_request("NOERROR") ** (V \cup U))
         /\ AllBlocked(k, Refused({"NOAVJOB", "NOREGIS"}) \cup recv_request("NOERROR") ** (V \cup U))
    BY <2>8, <2>9, CalmOr, BlockedOr
  <2>12. Calm("hide", k, request_job_available) /\ AllBlocked(k, request_job_available)
    BY <1>4, <2>10, <2>11, CalmThen, BlockedThen
  <2> QED
    BY <2>1, <2>12 DEF k
<1> QED
  BY <1>6, <1>7 DEF Keyed

(* The handlers have done what the key promises when they send it.         *)
LEMMA HandlingKeeps ==
  ASSUME NEW r \in Keyed
  PROVE  AllKept(Key(r), Promised(r), {}, Handling(r))
<1> DEFINE k == Key(r)
           P == Promised(r)
<1>1. k \in Keys /\ k \in Contents /\ "hide" \in {"hide", "undo"}
  BY KeysApart DEF Keys, Key
<1>2. /\ {"request", "NOERROR", "NOSPACE", "NOAVJOB", "NOREGIS", "id", "itask", "task", "lastconn", "slot", "job",
          "load balance", "frame reserved", "frame assigned"} \subseteq Words
      /\ \A c \in {"request", "NOERROR", "NOSPACE", "NOAVJOB", "NOREGIS", "itask"} : c # "id"
  BY DEF Words
<1>3. \A D, S : Calm("hide", k, S) => AllKept(k, P, D, S)
  BY KeptCalm
<1>4. \A D, A, B : Calm("hide", k, A) /\ AllKept(k, P, D, B) => AllKept(k, P, D, A ** B)
  <2> SUFFICES ASSUME NEW D, NEW A, NEW B, Calm("hide", k, A), AllKept(k, P, D, B)
               PROVE  AllKept(k, P, D, A ** B)
    OBVIOUS
  <2>1. PICK X : X = {}
    OBVIOUS
  <2>2. (\A x \in X : Has(A, x)) /\ D \cup X = D
    BY <2>1
  <2>3. AllKept(k, P, D \cup X, B)
    BY <2>2
  <2> HIDE DEF k, P
  <2> QED
    BY <2>2, <2>3, KeptThen
<1>5. Handling(r) = Failing("die", recv_request("request")) ** (Known ** handle_request_master(r))
  BY DEF Handling, OnSlave, Keyed
<1> HIDE DEF k, P
<1>6. Calm("hide", k, Failing("die", recv_request("request"))) /\ Calm("hide", k, Known)
  <2>1. "die" \in Tags \ {"on", "hide"} /\ Calm("hide", k, recv_request("request"))
    BY <1>1, <1>2, CalmAnswers DEF Tags
  <2>2. Calm("hide", k, Locked(Do("lastconn"))) /\ Calm("hide", k, Nothing)
    BY <1>1, <1>2, CalmMessages, CalmLocked, CalmNothing
  <2> QED
    BY <2>1, <2>2, CalmFailing, CalmOr DEF Known
<1>7. ASSUME NEW c \in {"NOERROR", "NOSPACE", "NOAVJOB", "NOREGIS", "itask"}
      PROVE  /\ Calm("hide", k, recv_request(c)) /\ Calm("hide", k, send_answer(c))
             /\ Calm("hide", k, Failing("on", send_answer(c)))
  BY <1>1, <1>2, CalmAnswers
<1>8. /\ Calm("hide", k, Lock) /\ Calm("hide", k, Release) /\ Calm("hide", k, Leave)
      /\ Calm("hide", k, Undo) /\ Calm("hide", k, Nothing)
      /\ \A x \in Words : Calm("hide", k, Do(x)) /\ Calm("hide", k, Locked(Do(x)))
  BY <1>1, CalmMessages, CalmUndo, CalmNothing, CalmLocked
<1>9. \A x \in Words : Has(Locked(Do(x)), x)
  <2> SUFFICES ASSUME NEW x \in Words PROVE Has(Locked(Do(x)), x)
    OBVIOUS
  <2>1. Has(Do(x), x) /\ Calm("hide", k, Do(x))
    BY <1>8, HasDo
  <2>2. Has(Lock ** Do(x), x) /\ Calm("hide", k, Lock ** Do(x))
    BY <1>8, <2>1, HasThen, CalmThen
  <2> QED
    BY <1>8, <2>2, HasThen DEF Locked
<1>10. CASE r = "R_R_REGISJOB"
  <2>1. k = Answer("id") /\ P = {"slot", "job"} /\ handle_request_master(r) = handle_r_r_regisjob
    BY <1>10 DEF k, P, Key, Promised, handle_request_master
  <2> DEFINE A == Do("slot") ** Release ** Failing("on", send_answer("NOERROR")) **
                  Failing("undo", recv_job) ** Locked(Do("job"))
             R == Release ** Failing("on", send_answer("NOSPACE")) ** Leave
  <2>2. Calm("hide", k, A) /\ Has(A, "slot") /\ Has(A, "job")
    <3>1. Calm("hide", k, Failing("undo", recv_job))
      <4>1. "undo" \in Tags \ {"on", "hide"}
        BY DEF Tags
      <4> QED
        BY <1>1, <4>1, CalmJob, CalmFailing
    <3>2. Calm("hide", k, Do("slot")) /\ Has(Do("slot"), "slot") /\ Calm("hide", k, Locked(Do("job"))) /\ Has(Locked(Do("job")), "job")
      BY <1>2, <1>8, <1>9, HasDo
    <3>3. Calm("hide", k, Do("slot") ** Release) /\ Has(Do("slot") ** Release, "slot")
      BY <1>8, <3>2, CalmThen, HasThen
    <3>4. /\ Calm("hide", k, Do("slot") ** Release ** Failing("on", send_answer("NOERROR")))
          /\ Has(Do("slot") ** Release ** Failing("on", send_answer("NOERROR")), "slot")
      BY <1>7, <3>3, CalmThen, HasThen
    <3>5. /\ Calm("hide", k, Do("slot") ** Release ** Failing("on", send_answer("NOERROR")) ** Failing("undo", recv_job))
          /\ Has(Do("slot") ** Release ** Failing("on", send_answer("NOERROR")) ** Failing("undo", recv_job), "slot")
      BY <3>1, <3>4, CalmThen, HasThen
    <3> QED
      BY <3>2, <3>5, CalmThen, HasThen
  <2>3. Calm("hide", k, R)
    BY <1>7, <1>8, CalmThen
  <2>4. handle_r_r_regisjob = Lock ** (R \cup A ** send_answer("id"))
    BY DEF handle_r_r_regisjob
  <2> HIDE DEF A, R
  <2>5. AllKept(k, P, P, send_answer("id"))
    BY <1>1, <2>1, KeptLast DEF send_answer
  <2>6. AllKept(k, P, {}, A ** send_answer("id"))
    <3>1. PICK X : X = P
      OBVIOUS
    <3>2. (\A x \in X : Has(A, x)) /\ {} \cup X = P
      BY <2>1, <2>2, <3>1
    <3>3. AllKept(k, P, {} \cup X, send_answer("id"))
      BY <2>5, <3>2
    <3> QED
      BY <2>2, <3>2, <3>3, KeptThen
  <2>7. AllKept(k, P, {}, R \cup A ** send_answer("id"))
    BY <1>3, <2>3, <2>6, KeptOr
  <2>8. AllKept(k, P, {}, handle_request_master(r))
    BY <1>4, <1>8, <2>1, <2>4, <2>7
  <2> QED
    BY <1>4, <1>5, <1>6, <2>8 DEF k, P
<1>11. CASE r = "R_R_AVAILJOB"
  <2>1. k = Data("task") /\ P = {"frame reserved", "frame assigned"} /\ handle_request_master(r) = handle_r_r_availjob
    BY <1>11 DEF k, P, Key, Promised, handle_request_master
  <2> DEFINE B1 == Failing("on", send_answer("NOREGIS")) ** Leave
             B2 == Locked(Nothing) ** Do("load balance") ** Failing("on", send_answer("NOAVJOB")) ** Leave
             Z == recv_request("NOERROR") ** recv_request("itask") ** Locked(Do("frame assigned"))
             W == send_answer("NOERROR") ** (recv_request("NOSPACE") ** Undo \cup Z ** send_task)
             Y == Locked(Do("frame reserved")) ** Do("load balance")
  <2>2. handle_r_r_availjob = B1 \cup B2 \cup Y ** Failing("undo", W)
    BY DEF handle_r_r_availjob
  <2>3. Calm("hide", k, B1) /\ Calm("hide", k, B2)
    <3>1. Calm("hide", k, Locked(Nothing)) /\ Calm("hide", k, Do("load balance"))
      BY <1>1, <1>2, <1>8, CalmLocked
    <3>2. Calm("hide", k, Locked(Nothing) ** Do("load balance"))
      BY <3>1, CalmThen
    <3>3. Calm("hide", k, Locked(Nothing) ** Do("load balance") ** Failing("on", send_answer("NOAVJOB")))
      BY <1>7, <3>2, CalmThen
    <3> QED
      BY <1>7, <1>8, <3>3, CalmThen
  <2>4. Calm("hide", k, Z) /\ Has(Z, "frame assigned")
    <3>1. Calm("hide", k, recv_request("NOERROR") ** recv_request("itask"))
      BY <1>7, CalmThen
    <3>2. Calm("hide", k, Locked(Do("frame assigned"))) /\ Has(Locked(Do("frame assigned")), "frame assigned")
      BY <1>2, <1>8, <1>9
    <3> QED
      BY <3>1, <3>2, CalmThen, HasThen
  <2>5. Calm("hide", k, Y) /\ Has(Y, "frame reserved")
    <3>1. /\ Calm("hide", k, Locked(Do("frame reserved"))) /\ Has(Locked(Do("frame reserved")), "frame reserved")
          /\ Calm("hide", k, Do("load balance"))
      BY <1>2, <1>8, <1>9
    <3> QED
      BY <3>1, CalmThen, HasThen
  <2> HIDE DEF B1, B2
  <2>6. AllKept(k, P, P, send_task)
    <3>1. Calm("hide", k, check_send_datasize("task"))
      BY <1>1, <1>2, CalmSized
    <3>2. AllKept(k, P, P, Put(k))
      BY <1>1, KeptLast
    <3> QED
      BY <1>4, <2>1, <3>1, <3>2 DEF send_task, SendSized
  <2>7. AllKept(k, P, {"frame reserved"}, Z ** send_task)
    <3>1. PICK X : X = {"frame assigned"}
      OBVIOUS
    <3>2. (\A x \in X : Has(Z, x)) /\ {"frame reserved"} \cup X = P
      BY <2>1, <2>4, <3>1
    <3>3. AllKept(k, P, {"frame reserved"} \cup X, send_task)
      BY <2>6, <3>2
    <3> QED
      BY <2>4, <3>2, <3>3, KeptThen
  <2> HIDE DEF Z
  <2>8. AllKept(k, P, {"frame reserved"}, W)
    <3>1. Calm("hide", k, recv_request("NOSPACE") ** Undo)
      BY <1>7, <1>8, CalmThen
    <3>2. AllKept(k, P, {"frame reserved"}, recv_request("NOSPACE") ** Undo \cup Z ** send_task)
      BY <1>3, <2>7, <3>1, KeptOr
    <3> QED
      BY <1>4, <1>7, <3>2
  <2> HIDE DEF W
  <2>9. AllKept(k, P, {"frame reserved"}, Failing("undo", W))
    <3>1. "undo" \in Tags \ {"on"}
      BY DEF Tags
    <3> QED
      BY <2>8, <3>1, KeptFailing
  <2>10. AllKept(k, P, {}, Y ** Failing("undo", W))
    <3>1. PICK X : X = {"frame reserved"}
      OBVIOUS
    <3>2. (\A x \in X : Has(Y, x)) /\ {} \cup X = {"frame reserved"}
      BY <2>5, <3>1
    <3>3. AllKept(k, P, {} \cup X, Failing("undo", W))
      BY <2>9, <3>2
    <3> HIDE DEF Y
    <3> QED
      BY <2>5, <3>2, <3>3, KeptThen
  <2> HIDE DEF Y
  <2>11. AllKept(k, P, {}, handle_request_master(r))
    <3>1. AllKept(k, P, {}, B1) /\ AllKept(k, P, {}, B2)
      BY <1>3, <2>3
    <3>2. AllKept(k, P, {}, B1 \cup B2)
      BY <3>1, KeptOr
    <3>3. AllKept(k, P, {}, (B1 \cup B2) \cup Y ** Failing("undo", W))
      BY <2>10, <3>2, KeptOr
    <3> QED
      BY <2>1, <2>2, <3>3
  <2> QED
    BY <1>4, <1>5, <1>6, <2>11 DEF k, P
<1> QED
  BY <1>10, <1>11 DEF Keyed

----------------------------------------------------------------------------
(* What the traces of an end are after an event.                           *)
LEMMA RestOf ==
  ASSUME NEW S, NEW ev, NEW u \in Rest(S, ev, 0), S \subseteq Traces
  PROVE  \E t \in S : /\ t # <<>> /\ Head(t) = ev /\ t[1] = ev /\ ev \in Events
                      /\ u \in Traces /\ Len(t) \in Nat /\ Len(u) \in Nat /\ Len(t) = Len(u) + 1
                      /\ \A i \in 1 .. Len(u) : u[i] = t[i + 1]
<1>1. PICK t \in S : t # <<>> /\ Head(t) = ev /\ u = SubSeq(t, 2 + 0, Len(t))
  BY DEF Rest
<1>2. PICK p : p = Len(t) /\ p \in Nat /\ p >= 1 /\ t[1] = ev /\ (\A i \in 1 .. p : t[i] \in Events) /\ ev \in Events
  BY <1>1, FirstEvent, TraceIs
<1>3. /\ 2 + 0 \in Int /\ p \in Int /\ \A i \in 2 + 0 .. p : t[i] \in Events
  BY <1>2
<1>4. /\ u \in Seq(Events) /\ Len(u) = IF 2 + 0 <= p THEN p - (2 + 0) + 1 ELSE 0
      /\ \A i \in 1 .. p - (2 + 0) + 1 : u[i] = t[2 + 0 + i - 1]
  BY <1>1, <1>2, <1>3, SubSeqProperties
<1>5. (IF 2 + 0 <= p THEN p - (2 + 0) + 1 ELSE 0) = p - 1 /\ p - (2 + 0) + 1 = p - 1 /\ p - 1 \in Nat
  BY <1>2
<1>6. \A i \in 1 .. p - 1 : 2 + 0 + i - 1 = i + 1
  BY <1>2
<1>7. u \in Traces /\ Len(u) = p - 1 /\ \A i \in 1 .. p - 1 : u[i] = t[i + 1]
  BY <1>4, <1>5, <1>6 DEF Traces
<1>8. (p - 1) + 1 = p
  BY <1>2
<1> QED
  BY <1>1, <1>2, <1>5, <1>7, <1>8, Zenon

LEMMA RestCalm ==
  ASSUME NEW g, NEW k, NEW S, NEW ev, Calm(g, k, S) PROVE Calm(g, k, Rest(S, ev, 0))
<1> SUFFICES ASSUME NEW u \in Rest(S, ev, 0)
             PROVE  u \in Traces /\ \A i \in 1 .. Len(u) : u[i] \in Without(g, k)
  BY DEF Calm
<1>1. S \subseteq Traces
  BY DEF Calm
<1>2. PICK t \in S : /\ u \in Traces /\ Len(u) \in Nat /\ Len(t) = Len(u) + 1
                     /\ \A i \in 1 .. Len(u) : u[i] = t[i + 1]
  BY <1>1, RestOf
<1>3. \A i \in 1 .. Len(u) : i + 1 \in 1 .. Len(t)
  BY <1>2
<1> QED
  BY <1>2, <1>3 DEF Calm

LEMMA RestBlocked ==
  ASSUME NEW k, NEW S, NEW ev, S \subseteq Traces, AllBlocked(k, S), ~ Blocks(k, ev)
  PROVE  AllBlocked(k, Rest(S, ev, 0))
<1> SUFFICES ASSUME NEW u \in Rest(S, ev, 0) PROVE \E i \in 1 .. Len(u) : Blocks(k, u[i])
  BY DEF AllBlocked, Blocked
<1>1. PICK t \in S : /\ t[1] = ev /\ Len(u) \in Nat /\ Len(t) = Len(u) + 1
                     /\ \A i \in 1 .. Len(u) : u[i] = t[i + 1]
  BY RestOf
<1>2. PICK i \in 1 .. Len(t) : Blocks(k, t[i])
  BY DEF AllBlocked, Blocked
<1>3. i # 1
  BY <1>1, <1>2
<1>4. i - 1 \in 1 .. Len(u) /\ (i - 1) + 1 = i
  BY <1>1, <1>2, <1>3
<1>5. u[i - 1] = t[i]
  BY <1>1, <1>4
<1> QED
  BY <1>2, <1>4, <1>5

LEMMA RestKept ==
  ASSUME NEW k, NEW P, NEW D, NEW E, NEW S, NEW ev, AllKept(k, P, D, S),
         D \subseteq E, \A x : Effect(ev, x) => x \in E
  PROVE  AllKept(k, P, E, Rest(S, ev, 0))
<1> SUFFICES ASSUME NEW u \in Rest(S, ev, 0) PROVE Kept(k, P, E, u)
  BY DEF AllKept
<1>1. S \subseteq Traces
  BY DEF AllKept, Kept
<1>2. PICK t \in S : /\ t[1] = ev /\ u \in Traces /\ Len(u) \in Nat /\ Len(t) = Len(u) + 1
                     /\ \A i \in 1 .. Len(u) : u[i] = t[i + 1]
  BY <1>1, RestOf
<1>3. ASSUME NEW i \in 1 .. Len(u)
      PROVE  /\ u[i].fails = "on" => u[i].rest = 0
             /\ KeyOf(u[i], k) => /\ i = Len(u)
                                  /\ \A x \in P \ E : \E j \in 1 .. i : Effect(u[j], x)
  <2>1. i + 1 \in 1 .. Len(t) /\ u[i] = t[i + 1]
    BY <1>2
  <2>2. /\ t[i + 1].fails = "on" => t[i + 1].rest = 0
        /\ KeyOf(t[i + 1], k) => /\ i + 1 = Len(t)
                                 /\ \A x \in P \ D : \E j \in 1 .. i + 1 : Effect(t[j], x)
    BY <2>1 DEF AllKept, Kept
  <2>3. ASSUME KeyOf(u[i], k), NEW x \in P \ E PROVE \E j \in 1 .. i : Effect(u[j], x)
    <3>1. PICK j \in 1 .. i + 1 : Effect(t[j], x)
      BY <2>1, <2>2, <2>3
    <3>2. j # 1
      BY <1>2, <2>3, <3>1
    <3>3. j - 1 \in 1 .. i /\ j - 1 \in 1 .. Len(u) /\ (j - 1) + 1 = j
      BY <1>2, <3>1, <3>2
    <3>4. u[j - 1] = t[j]
      BY <1>2, <3>3
    <3> QED
      BY <3>1, <3>3, <3>4
  <2>4. KeyOf(u[i], k) => i = Len(u)
    BY <1>2, <2>1, <2>2
  <2> QED
    BY <2>1, <2>2, <2>3, <2>4
<1> QED
  BY <1>2, <1>3 DEF Kept

(* When the key is sent, what it promises was done and nothing is left.    *)
LEMMA RestOfKey ==
  ASSUME NEW k, NEW P, NEW D, NEW S, NEW ev, AllKept(k, P, D, S), KeyOf(ev, k),
         NEW t \in S, t # <<>>, Head(t) = ev
  PROVE  P \subseteq D /\ \A g : Calm(g, k, Rest(S, ev, 0))
<1>1. S \subseteq Traces
  BY DEF AllKept, Kept
<1>2. ASSUME NEW v \in S, v[1] = ev, Len(v) >= 1, Len(v) \in Nat
      PROVE  Len(v) = 1 /\ P \subseteq D
  <2>1. 1 \in 1 .. Len(v) /\ Kept(k, P, D, v)
    BY <1>2 DEF AllKept
  <2>2. 1 = Len(v) /\ \A x \in P \ D : \E j \in 1 .. 1 : Effect(v[j], x)
    BY <1>2, <2>1 DEF Kept
  <2>3. \A j \in 1 .. 1 : j = 1
    BY Units
  <2>4. \A x : ~ Effect(v[1], x)
    BY <1>2 DEF KeyOf, Effect
  <2> QED
    BY <2>2, <2>3, <2>4
<1>3. P \subseteq D
  <2>1. Len(t) \in Nat /\ Len(t) >= 1 /\ t[1] = ev
    BY <1>1, FirstEvent
  <2> QED
    BY <1>2, <2>1
<1>4. ASSUME NEW g, NEW u \in Rest(S, ev, 0)
      PROVE  u \in Traces /\ \A i \in 1 .. Len(u) : u[i] \in Without(g, k)
  <2>1. PICK v \in S : v[1] = ev /\ u \in Traces /\ Len(v) \in Nat /\ Len(u) \in Nat /\ Len(v) = Len(u) + 1
    BY <1>1, RestOf
  <2>2. Len(v) >= 1
    BY <2>1
  <2>3. Len(v) = 1
    BY <1>2, <2>1, <2>2
  <2>4. PICK n : n = Len(u) /\ n \in Nat /\ 1 = n + 1
    BY <2>1, <2>3
  <2>5. \A i \in 1 .. n : FALSE
    BY <2>4
  <2> QED
    BY <2>1, <2>4, <2>5
<1> QED
  BY <1>3, <1>4 DEF Calm

----------------------------------------------------------------------------
(* The invariant: once the key is on its way, or the asking end can get to *)
(* its end, what is promised is done and nothing that is left undoes it.   *)
Sent(k, box) == \E i \in 1 .. Len(box) : box[i] = k
Settled(k, box, how, C) == Sent(k, box) \/ how = "ok" \/ ~ AllBlocked(k, C)
Sealed(k, P, D, S) == P \subseteq D /\ Calm("undo", k, S)
Truth(r, box, how, C, D, S) ==
  /\ Calm("hide", Key(r), C)
  /\ AllKept(Key(r), Promised(r), D, S)
  /\ Settled(Key(r), box, how, C) => Sealed(Key(r), Promised(r), D, S)

LEMMA TruthAskingGoes ==
  ASSUME NEW r, NEW box, NEW box2, NEW how, NEW C, NEW D, NEW S, NEW ev, Truth(r, box, how, C, D, S),
         ~ Blocks(Key(r), ev) \/ Sent(Key(r), box), Sent(Key(r), box2) => Sent(Key(r), box)
  PROVE  Truth(r, box2, how, Rest(C, ev, 0), D, S)
<1>1. Calm("hide", Key(r), C) /\ C \subseteq Traces
  BY DEF Truth, Calm
<1>2. Calm("hide", Key(r), Rest(C, ev, 0))
  BY <1>1, RestCalm
<1>3. Settled(Key(r), box2, how, Rest(C, ev, 0)) => Settled(Key(r), box, how, C)
  BY <1>1, RestBlocked DEF Settled
<1> QED
  BY <1>2, <1>3 DEF Truth

LEMMA TruthAskingStops ==
  ASSUME NEW r, NEW box, NEW how, NEW how2, NEW C, NEW D, NEW S, Truth(r, box, how, C, D, S),
         how2 = how \/ how2 # "ok" \/ ~ AllBlocked(Key(r), C)
  PROVE  Truth(r, box, how2, {}, D, S)
<1>1. Calm("hide", Key(r), {}) /\ AllBlocked(Key(r), {})
  BY DEF Calm, AllBlocked
<1>2. Settled(Key(r), box, how2, {}) => Settled(Key(r), box, how, C)
  BY <1>1 DEF Settled
<1> QED
  BY <1>1, <1>2 DEF Truth

LEMMA KeyedKeys == ASSUME NEW r \in Keyed PROVE Key(r) \in Keys
BY DEF Keyed, Keys, Key

LEMMA SentMore ==
  ASSUME NEW k, NEW box \in Seq(Contents), NEW m \in Contents, Sent(k, Append(box, m))
  PROVE  Sent(k, box) \/ m = k
<1>1. PICK n : n = Len(box) /\ n \in Nat
  OBVIOUS
<1>2. Len(Append(box, m)) = n + 1 /\ \A i \in 1 .. n + 1 : Append(box, m)[i] = IF i <= n THEN box[i] ELSE m
  BY <1>1, AppendProperties
<1>3. PICK i \in 1 .. n + 1 : Append(box, m)[i] = k
  BY <1>2 DEF Sent
<1>4. CASE i <= n
  <2>1. i \in 1 .. n /\ box[i] = k
    BY <1>1, <1>2, <1>3, <1>4
  <2> QED
    BY <1>1, <2>1 DEF Sent
<1>5. CASE ~ (i <= n)
  BY <1>2, <1>3, <1>5
<1> QED
  BY <1>4, <1>5

LEMMA SentLess ==
  ASSUME NEW k, NEW box \in Seq(Contents), box # <<>>, Sent(k, Tail(box)) PROVE Sent(k, box)
<1>1. PICK n : n = Len(box) /\ n \in Nat /\ n # 0
  BY EmptySeq
<1>2. Len(Tail(box)) = n - 1 /\ \A i \in 1 .. n - 1 : Tail(box)[i] = box[i + 1]
  BY <1>1, HeadTailProperties
<1>3. PICK i \in 1 .. n - 1 : Tail(box)[i] = k
  BY <1>2 DEF Sent
<1>4. i + 1 \in 1 .. n /\ box[i + 1] = k
  BY <1>1, <1>2, <1>3
<1> QED
  BY <1>1, <1>4 DEF Sent

LEMMA TruthHandlerGoes ==
  ASSUME NEW r \in Keyed, NEW box \in Seq(Contents), NEW box2, NEW how, NEW C, NEW D, NEW E, NEW S,
         Truth(r, box, how, C, D, S),
         NEW t \in S, t # <<>>, NEW ev \in Events, Head(t) = ev,
         box2 = box \/ (ev.op = "put" /\ box2 = Append(box, ev.what)),
         D \subseteq E, \A x : Effect(ev, x) => x \in E
  PROVE  Truth(r, box2, how, C, E, Rest(S, ev, 0))
<1>1. /\ AllKept(Key(r), Promised(r), D, S)
      /\ AllKept(Key(r), Promised(r), E, Rest(S, ev, 0))
  BY RestKept DEF Truth
<1>2. ASSUME Settled(Key(r), box2, how, C) PROVE Sealed(Key(r), Promised(r), E, Rest(S, ev, 0))
  <2>1. CASE KeyOf(ev, Key(r))
    <3>1. Promised(r) \subseteq D /\ \A g : Calm(g, Key(r), Rest(S, ev, 0))
      BY <1>1, <2>1, RestOfKey
    <3> QED
      BY <3>1 DEF Sealed
  <2>2. CASE ~ KeyOf(ev, Key(r))
    <3>1. ev.what \in Contents
      BY DEF Events
    <3>2. Sent(Key(r), box2) => Sent(Key(r), box)
      BY <2>2, <3>1, SentMore DEF KeyOf
    <3>3. Sealed(Key(r), Promised(r), D, S)
      BY <1>2, <3>2 DEF Truth, Settled
    <3>4. Calm("undo", Key(r), Rest(S, ev, 0))
      BY <3>3, RestCalm DEF Sealed
    <3> QED
      BY <3>3, <3>4 DEF Sealed
  <2> QED
    BY <2>1, <2>2
<1> QED
  BY <1>1, <1>2 DEF Truth

LEMMA TruthHandlerStops ==
  ASSUME NEW r \in Keyed, NEW box, NEW how, NEW C, NEW D, NEW E, NEW S, NEW T, Truth(r, box, how, C, D, S),
         T = {} \/ T = request_all_slaves_job_available,
         E = D \/ \E t \in S : t # <<>> /\ Head(t).fails = "undo"
  PROVE  Truth(r, box, how, C, E, T)
<1>1. Key(r) \in Keys
  BY KeyedKeys
<1>2. \A g \in {"hide", "undo"} : Calm(g, Key(r), T)
  <2>1. \A g \in {"hide", "undo"} : Calm(g, Key(r), request_all_slaves_job_available)
    BY <1>1, CalmNotify
  <2>2. \A g : Calm(g, Key(r), {})
    BY DEF Calm
  <2> QED
    BY <2>1, <2>2
<1>3. AllKept(Key(r), Promised(r), E, T)
  BY <1>2, KeptCalm
<1>4. ASSUME Settled(Key(r), box, how, C) PROVE Sealed(Key(r), Promised(r), E, T)
  <2>1. Sealed(Key(r), Promised(r), D, S)
    BY <1>4 DEF Truth
  <2>2. ASSUME NEW t \in S, t # <<>> PROVE Head(t).fails # "undo"
    <3>1. t \in Traces /\ \A i \in 1 .. Len(t) : t[i] \in Without("undo", Key(r))
      BY <2>1 DEF Sealed, Calm
    <3>2. Len(t) \in Nat /\ Len(t) >= 1 /\ Head(t) = t[1]
      BY <2>2, <3>1, FirstEvent
    <3>3. 1 \in 1 .. Len(t)
      BY <3>2
    <3> QED
      BY <3>1, <3>2, <3>3 DEF Without
  <2>3. E = D
    BY <2>2
  <2> QED
    BY <1>2, <2>1, <2>3 DEF Sealed
<1> QED
  BY <1>3, <1>4 DEF Truth

----------------------------------------------------------------------------
Outcomes == {"running", "ok", "failed", "died"}
Types == inbox \in [Ends -> Seq(Contents)] /\ outcome \in [Ends -> Outcomes]
TruthInv ==
  /\ SemInv
  /\ Types
  /\ req \in Keyed =>
       Truth(req, inbox["client"], outcome["client"], todo["client"], done["handler"], todo["handler"])

LEMMA TruthInit == Init => TruthInv
<1> SUFFICES ASSUME Init PROVE TruthInv
  OBVIOUS
<1>1. Types
  <2>1. inbox = [e \in Ends |-> <<>>] /\ outcome = [e \in Ends |-> "running"]
    BY DEF Init
  <2>2. <<>> \in Seq(Contents) /\ "running" \in Outcomes
    BY EmptySeq DEF Outcomes
  <2> QED
    BY <2>1, <2>2, Zenon DEF Types
<1>2. ASSUME req \in Keyed
      PROVE  Truth(req, inbox["client"], outcome["client"], todo["client"], done["handler"], todo["handler"])
  <2>1. /\ inbox["client"] = <<>> /\ outcome["client"] = "running" /\ done["handler"] = {}
        /\ todo["client"] = Asking(req) /\ todo["handler"] = Handling(req)
    BY DEF Init, Ends
  <2>2. /\ Calm("hide", Key(req), Asking(req)) /\ AllBlocked(Key(req), Asking(req))
        /\ AllKept(Key(req), Promised(req), {}, Handling(req))
    BY <1>2, AskingIsHonest, HandlingKeeps
  <2>3. ~ Sent(Key(req), <<>>)
    <3>1. \A i \in 1 .. 0 : FALSE
      OBVIOUS
    <3> QED
      BY <3>1, EmptySeq DEF Sent
  <2>4. "running" # "ok"
    OBVIOUS
  <2> QED
    BY <2>1, <2>2, <2>3, <2>4 DEF Truth, Settled
<1> QED
  BY <1>1, <1>2, SemInit DEF TruthInv

LEMMA PeersAre == Peer("client") = "handler" /\ Peer("handler") = "client"
BY DEF Peer, Ends

LEMMA EndedIs ==
  ASSUME SemInv, Types, NEW e \in Ends, NEW how \in Outcomes, Ended(e, how)
  PROVE  /\ outcome' \in [Ends -> Outcomes] /\ \A x \in Ends \ {e} : outcome'[x] = outcome[x]
         /\ outcome'[e] = outcome[e] \/ outcome'[e] = how
         /\ \A x \in Ends \ {e} : todo'[x] = todo[x]
         /\ todo'[e] = {} \/ (e = "handler" /\ todo'[e] = request_all_slaves_job_available)
<1>1. outcome' = outcome \/ outcome' = [outcome EXCEPT ![e] = how]
  BY Zenon DEF Ended
<1>2. \/ todo' = [todo EXCEPT ![e] = {}]
      \/ e = "handler" /\ todo' = [todo EXCEPT ![e] = request_all_slaves_job_available]
  BY Zenon DEF Ended
<1>3. outcome \in [Ends -> Outcomes] /\ todo \in [Ends -> SUBSET Traces]
  BY DEF Types, SemInv, Typed
<1>4. /\ outcome' \in [Ends -> Outcomes] /\ \A x \in Ends \ {e} : outcome'[x] = outcome[x]
      /\ outcome'[e] = outcome[e] \/ outcome'[e] = how
  BY <1>1, <1>3
<1>5. \A x \in Ends \ {e} : todo'[x] = todo[x]
  BY <1>2, <1>3
<1>6. todo'[e] = {} \/ (e = "handler" /\ todo'[e] = request_all_slaves_job_available)
  BY <1>2, <1>3
<1> QED
  BY <1>4, <1>5, <1>6

(* What a failure can do: go on, or stop, and undo if the event says so.   *)
LEMMA FailIs ==
  ASSUME SemInv, Types, NEW e \in Ends, NEW ev \in Events, Fail(e, ev)
  PROVE  /\ req' = req /\ inbox' = inbox
         /\ \/ /\ ev.fails = "on" /\ outcome' = outcome /\ done' = done
               /\ todo' = [todo EXCEPT ![e] = After(e, ev, ev.rest)]
            \/ /\ ev.fails # "on"
               /\ \E how \in Outcomes : Ended(e, how) /\ (how = "ok" => ev.fails = "hide")
               /\ done' = done \/ (ev.fails = "undo" /\ done' = [done EXCEPT ![e] = {}])
<1>1. ev.fails \in Tags /\ "ok" \in Outcomes /\ "failed" \in Outcomes /\ "died" \in Outcomes
  BY DEF Events, Outcomes
<1>2. req' = req /\ inbox' = inbox
  BY DEF Fail
<1>3. CASE ev.fails = "on"
  BY <1>2, <1>3 DEF Fail
<1>4. CASE ev.fails = "leave"
  BY <1>1, <1>2, <1>4 DEF Fail
<1>5. CASE ev.fails = "hide"
  BY <1>1, <1>2, <1>5 DEF Fail
<1>6. CASE ev.fails = "die"
  BY <1>1, <1>2, <1>6 DEF Fail
<1>7. CASE ev.fails = "undo"
  BY <1>1, <1>2, <1>7 DEF Fail
<1> QED
  BY <1>1, <1>3, <1>4, <1>5, <1>6, <1>7 DEF Tags

(* The inboxes hold messages, and each end has an outcome.                 *)
LEMMA TypesKept == ASSUME SemInv, Types, [Next]_vars PROVE Types'
<1>1. inbox \in [Ends -> Seq(Contents)] /\ outcome \in [Ends -> Outcomes]
  BY DEF Types
<1>2. ASSUME NEW e \in Ends, NEW ev \in Events, Fail(e, ev) PROVE Types'
  <2>1. inbox' = inbox
    BY <1>2, FailIs
  <2>2. outcome' \in [Ends -> Outcomes]
    BY <1>1, <1>2, FailIs, EndedIs
  <2> QED
    BY <1>1, <2>1, <2>2 DEF Types
<1>3. ASSUME NEW e \in Ends, NEW ev \in Heads(e),
             \/ PutArrives(e, ev) \/ PutIsLost(e, ev) \/ PutFails(e, ev)
             \/ Takes(e, ev) \/ TakeFails(e, ev) \/ Compares(e, ev)
             \/ Locks(e, ev) \/ Releases(e, ev)
             \/ Does(e, ev) \/ Calls(e, ev) \/ GivesUp(e, ev)
      PROVE  Types'
  <2>1. ev \in Events /\ ev.what \in Contents
    <3>1. ev \in Events
      BY HeadIs
    <3> QED
      BY <3>1 DEF Events
  <2>2. [ev EXCEPT !.fails = "die"] \in Events
    BY <2>1 DEF Events, Tags
  <2>3. CASE PutArrives(e, ev)
    <3>1. inbox' = [inbox EXCEPT ![Peer(e)] = Append(@, ev.what)] /\ outcome' = outcome
      BY <2>3 DEF PutArrives
    <3>2. Peer(e) \in Ends
      BY PeersAre DEF Ends
    <3>3. Append(inbox[Peer(e)], ev.what) \in Seq(Contents)
      BY <1>1, <2>1, <3>2, AppendProperties
    <3> QED
      BY <1>1, <3>1, <3>2, <3>3, Zenon DEF Types
  <2>4. CASE Takes(e, ev)
    <3>1. inbox' = [inbox EXCEPT ![e] = Tail(@)] /\ outcome' = outcome /\ inbox[e] # <<>>
      BY <2>4 DEF Takes
    <3>2. Tail(inbox[e]) \in Seq(Contents)
      BY <1>1, <3>1, HeadTailProperties
    <3> QED
      BY <1>1, <3>1, <3>2, Zenon DEF Types
  <2>5. CASE PutFails(e, ev) \/ TakeFails(e, ev) \/ GivesUp(e, ev)
    BY <1>2, <2>1, <2>2, <2>5 DEF PutFails, TakeFails, GivesUp
  <2>6. CASE Compares(e, ev)
    BY <1>1, <1>2, <2>1, <2>6 DEF Compares, Types
  <2>7. CASE PutIsLost(e, ev) \/ Locks(e, ev) \/ Releases(e, ev) \/ Does(e, ev) \/ Calls(e, ev)
    BY <1>1, <2>7 DEF PutIsLost, Locks, Releases, Does, Calls, Types
  <2> QED
    BY <1>3, <2>3, <2>4, <2>5, <2>6, <2>7
<1>4. ASSUME NEW e \in Ends, NEW how \in Outcomes, Ended(e, how), inbox' = inbox PROVE Types'
  BY <1>1, <1>4, EndedIs DEF Types
<1>5. ASSUME NEW e \in Ends, Returns(e) PROVE Types'
  BY <1>4, <1>5 DEF Returns, Outcomes
<1>6. ASSUME NEW e \in Ends, OtherLocks(e) \/ OtherReleases(e) PROVE Types'
  BY <1>1, <1>6 DEF OtherLocks, OtherReleases, Types
<1>7. CASE Alarm
  BY <1>4, <1>7 DEF Alarm, Outcomes, Ends
<1>8. CASE Break
  <2>1. inbox' = [e \in Ends |-> <<>>] /\ outcome' = outcome
    BY <1>8 DEF Break
  <2>2. <<>> \in Seq(Contents)
    BY EmptySeq
  <2> QED
    BY <1>1, <2>1, <2>2, Zenon DEF Types
<1>9. CASE Silence
  <2>1. inbox' = inbox /\ outcome' = [outcome EXCEPT !["client"] = "died"]
    BY <1>9 DEF Silence
  <2>2. "died" \in Outcomes
    BY DEF Outcomes
  <2> QED
    BY <1>1, <2>1, <2>2, Zenon DEF Types
<1>10. CASE Finished \/ UNCHANGED vars
  BY <1>1, <1>10 DEF Finished, vars, Types
<1> QED
  BY <1>3, <1>5, <1>6, <1>7, <1>8, <1>9, <1>10 DEF Next, Step

----------------------------------------------------------------------------
(* A step of either end keeps the invariant.                               *)
Now == Truth(req, inbox["client"], outcome["client"], todo["client"], done["handler"], todo["handler"])

LEMMA AskingHead ==
  ASSUME TruthInv, req \in Keyed, NEW ev \in Heads("client")
  PROVE  ev \in Events /\ (ev.fails = "on" => ev.rest = 0) /\ ev.fails # "hide"
<1>1. PICK t \in todo["client"] : t # <<>> /\ ev = Head(t)
  BY DEF Heads
<1>2. Calm("hide", Key(req), todo["client"])
  BY DEF TruthInv, Truth
<1>3. t \in Traces /\ \A i \in 1 .. Len(t) : t[i] \in Without("hide", Key(req))
  BY <1>2 DEF Calm
<1>4. Len(t) \in Nat /\ Len(t) >= 1 /\ Head(t) = t[1]
  BY <1>1, <1>3, FirstEvent
<1>5. 1 \in 1 .. Len(t)
  BY <1>4
<1> QED
  BY <1>1, <1>3, <1>4, <1>5 DEF Without

LEMMA HandlerJumpsNothing ==
  ASSUME TruthInv, req \in Keyed, NEW ev \in Heads("handler"), ev.fails = "on"
  PROVE  ev.rest = 0
<1>1. PICK t \in todo["handler"] : t # <<>> /\ ev = Head(t)
  BY DEF Heads
<1>2. Kept(Key(req), Promised(req), done["handler"], t)
  BY DEF TruthInv, Truth, AllKept
<1>3. Len(t) \in Nat /\ Len(t) >= 1 /\ Head(t) = t[1]
  BY <1>1, <1>2, FirstEvent DEF Kept
<1>4. 1 \in 1 .. Len(t)
  BY <1>3
<1> QED
  BY <1>1, <1>2, <1>3, <1>4 DEF Kept

LEMMA AskingFails ==
  ASSUME TruthInv, req \in Keyed, NEW ev \in Events, Fail("client", ev), ev.fails # "hide",
         ev.fails = "on" => ev.rest = 0
  PROVE  Now'
<1>1. Now /\ SemInv /\ Types /\ "client" \in Ends /\ "handler" \in Ends \ {"client"} /\ req' = req /\ inbox' = inbox
  BY FailIs DEF TruthInv, Now, Ends
<1>2. todo \in [Ends -> SUBSET Traces] /\ done \in [Ends -> SUBSET Words]
  BY <1>1 DEF SemInv, Typed
<1>3. CASE /\ ev.fails = "on" /\ outcome' = outcome /\ done' = done
           /\ todo' = [todo EXCEPT !["client"] = After("client", ev, ev.rest)]
  <2>1. todo'["client"] = Rest(todo["client"], ev, 0) /\ todo'["handler"] = todo["handler"]
    BY <1>1, <1>2, <1>3, AfterIs
  <2>2. ~ Blocks(Key(req), ev)
    BY <1>3 DEF Blocks
  <2>3. Truth(req, inbox["client"], outcome["client"], Rest(todo["client"], ev, 0), done["handler"], todo["handler"])
    BY <1>1, <2>2, TruthAskingGoes DEF Now
  <2> QED
    BY <1>1, <1>3, <2>1, <2>3 DEF Now
<1>4. CASE /\ ev.fails # "on"
           /\ \E how \in Outcomes : Ended("client", how) /\ (how = "ok" => ev.fails = "hide")
           /\ done' = done \/ (ev.fails = "undo" /\ done' = [done EXCEPT !["client"] = {}])
  <2>1. PICK how \in Outcomes : Ended("client", how) /\ how # "ok"
    BY <1>4
  <2>2. /\ todo'["client"] = {} /\ todo'["handler"] = todo["handler"]
        /\ outcome'["client"] = outcome["client"] \/ outcome'["client"] # "ok"
    BY <1>1, <2>1, EndedIs
  <2>3. done'["handler"] = done["handler"]
    BY <1>1, <1>2, <1>4
  <2>4. Truth(req, inbox["client"], outcome'["client"], {}, done["handler"], todo["handler"])
    BY <1>1, <2>2, TruthAskingStops DEF Now
  <2> QED
    BY <1>1, <2>2, <2>3, <2>4 DEF Now
<1> QED
  BY <1>1, <1>3, <1>4, FailIs

LEMMA AskingSteps == ASSUME TruthInv, req \in Keyed, Step("client") PROVE Now'
<1>1. Now /\ SemInv /\ Types /\ "client" \in Ends /\ "handler" \in Ends \ {"client"}
  BY DEF TruthInv, Now, Ends
<1>2. /\ todo \in [Ends -> SUBSET Traces] /\ done \in [Ends -> SUBSET Words]
      /\ inbox \in [Ends -> Seq(Contents)]
  BY <1>1 DEF SemInv, Typed, Types
<1>3. CASE Returns("client")
  <2>1. /\ <<>> \in todo["client"] /\ Ended("client", "ok") /\ "ok" \in Outcomes
        /\ req' = req /\ inbox' = inbox /\ done' = done
    BY <1>3 DEF Returns, Outcomes
  <2>2. ~ AllBlocked(Key(req), todo["client"])
    <3>1. \A i \in 1 .. 0 : FALSE
      OBVIOUS
    <3>2. ~ Blocked(Key(req), <<>>)
      BY <3>1, EmptyTrace DEF Blocked
    <3> QED
      BY <2>1, <3>2 DEF AllBlocked
  <2>3. todo'["client"] = {} /\ todo'["handler"] = todo["handler"]
    BY <1>1, <2>1, EndedIs
  <2>4. Truth(req, inbox["client"], outcome'["client"], {}, done["handler"], todo["handler"])
    BY <1>1, <2>2, TruthAskingStops DEF Now
  <2> QED
    BY <2>1, <2>3, <2>4 DEF Now
<1>4. ASSUME NEW ev \in Heads("client"),
             \/ PutArrives("client", ev) \/ PutIsLost("client", ev) \/ PutFails("client", ev)
             \/ Takes("client", ev) \/ TakeFails("client", ev) \/ Compares("client", ev)
             \/ Locks("client", ev) \/ Releases("client", ev)
             \/ Does("client", ev) \/ Calls("client", ev) \/ GivesUp("client", ev)
      PROVE  Now'
  <2>1. ev \in Events /\ (ev.fails = "on" => ev.rest = 0) /\ ev.fails # "hide"
    BY <1>1, <1>4, AskingHead
  <2>2. PICK f : f = [ev EXCEPT !.fails = "die"]
    OBVIOUS
  <2>3. f \in Events /\ f.fails = "die"
    BY <2>1, <2>2 DEF Events, Tags
  <2>4. ASSUME Goes("client", ev), req' = req, outcome' = outcome,
               done'["handler"] = done["handler"],
               ~ Blocks(Key(req), ev) \/ Sent(Key(req), inbox["client"]),
               Sent(Key(req), inbox'["client"]) => Sent(Key(req), inbox["client"])
        PROVE  Now'
    <3>1. todo'["client"] = Rest(todo["client"], ev, 0) /\ todo'["handler"] = todo["handler"]
      BY <1>1, <1>2, <2>4, AfterIs DEF Goes
    <3>2. Truth(req, inbox'["client"], outcome["client"], Rest(todo["client"], ev, 0), done["handler"], todo["handler"])
      BY <1>1, <2>4, TruthAskingGoes DEF Now
    <3> QED
      BY <2>4, <3>1, <3>2 DEF Now
  <2>5. CASE PutArrives("client", ev)
    <3>1. /\ ev.op = "put" /\ Goes("client", ev) /\ req' = req /\ outcome' = outcome /\ done' = done
          /\ inbox' = [inbox EXCEPT !["handler"] = Append(@, ev.what)]
      BY <2>5, PeersAre DEF PutArrives
    <3>2. inbox'["client"] = inbox["client"] /\ ~ Blocks(Key(req), ev)
      BY <1>1, <1>2, <3>1 DEF Blocks
    <3> QED
      BY <2>4, <3>1, <3>2
  <2>6. CASE Takes("client", ev)
    <3>1. /\ ev.op = "take" /\ Goes("client", ev) /\ req' = req /\ outcome' = outcome /\ done' = done
          /\ inbox["client"] # <<>> /\ Matches(ev.what, Head(inbox["client"]))
          /\ inbox' = [inbox EXCEPT !["client"] = Tail(@)]
      BY <2>6 DEF Takes
    <3>2. inbox'["client"] = Tail(inbox["client"]) /\ inbox["client"] \in Seq(Contents)
      BY <1>1, <1>2, <3>1
    <3>3. Sent(Key(req), inbox'["client"]) => Sent(Key(req), inbox["client"])
      BY <3>1, <3>2, SentLess
    <3>4. ASSUME Blocks(Key(req), ev) PROVE Sent(Key(req), inbox["client"])
      <4>1. ev.what = Key(req)
        BY <3>1, <3>4 DEF Blocks
      <4>2. Key(req).kind # "size"
        BY DEF Key, Answer, Data, Msg
      <4>3. Head(inbox["client"]) = Key(req)
        BY <3>1, <4>1, <4>2 DEF Matches
      <4>4. Len(inbox["client"]) \in Nat /\ Len(inbox["client"]) # 0 /\ Head(inbox["client"]) = inbox["client"][1]
        BY <3>1, <3>2, EmptySeq, HeadTailProperties
      <4>5. 1 \in 1 .. Len(inbox["client"])
        BY <4>4
      <4> QED
        BY <4>3, <4>4, <4>5 DEF Sent
    <3> QED
      BY <2>4, <3>1, <3>3, <3>4
  <2>7. CASE PutFails("client", ev) \/ TakeFails("client", ev) \/ GivesUp("client", ev)
    <3>1. Fail("client", ev) \/ Fail("client", f)
      BY <2>2, <2>7 DEF PutFails, TakeFails, GivesUp
    <3> QED
      BY <2>1, <2>3, <3>1, AskingFails
  <2>8. CASE Compares("client", ev)
    <3>1. CASE Fail("client", ev)
      BY <2>1, <3>1, AskingFails
    <3>2. CASE ~ Fail("client", ev)
      <4>1. /\ ev.op = "compare" /\ Goes("client", ev) /\ req' = req /\ outcome' = outcome
            /\ done' = done /\ inbox' = inbox
        BY <2>8, <3>2 DEF Compares
      <4> QED
        BY <2>4, <4>1 DEF Blocks
    <3> QED
      BY <3>1, <3>2
  <2>9. CASE PutIsLost("client", ev) \/ Locks("client", ev) \/ Releases("client", ev) \/ Calls("client", ev)
    <3>1. /\ ev.op \in {"put", "lock", "release", "call"} /\ Goes("client", ev) /\ req' = req
          /\ outcome' = outcome /\ done' = done /\ inbox' = inbox
      BY <2>9 DEF PutIsLost, Locks, Releases, Calls
    <3> QED
      BY <2>4, <3>1 DEF Blocks
  <2>10. CASE Does("client", ev)
    <3>1. /\ ev.op = "do" /\ Goes("client", ev) /\ req' = req /\ outcome' = outcome /\ inbox' = inbox
          /\ done' = [done EXCEPT !["client"] = @ \cup {ev.what.of}]
      BY <2>10 DEF Does
    <3>2. done'["handler"] = done["handler"]
      BY <1>1, <1>2, <3>1
    <3> QED
      BY <2>4, <3>1, <3>2 DEF Blocks
  <2> QED
    BY <1>4, <2>5, <2>6, <2>7, <2>8, <2>9, <2>10
<1> QED
  BY <1>3, <1>4 DEF Step

LEMMA HandlerFails ==
  ASSUME TruthInv, req \in Keyed, NEW ev \in Heads("handler"), NEW f \in Events, Fail("handler", f),
         f = ev \/ f.fails = "die", f.op # "do"
  PROVE  Now'
<1>1. Now /\ SemInv /\ Types /\ "handler" \in Ends /\ "client" \in Ends \ {"handler"} /\ req' = req /\ inbox' = inbox
  BY FailIs DEF TruthInv, Now, Ends
<1>2. /\ todo \in [Ends -> SUBSET Traces] /\ done \in [Ends -> SUBSET Words]
      /\ inbox["client"] \in Seq(Contents)
  BY <1>1 DEF SemInv, Typed, Types
<1>3. PICK t \in todo["handler"] : t # <<>> /\ Head(t) = ev
  BY DEF Heads
<1>4. CASE /\ f.fails = "on" /\ outcome' = outcome /\ done' = done
           /\ todo' = [todo EXCEPT !["handler"] = After("handler", f, f.rest)]
  <2>1. f = ev /\ f.rest = 0
    BY <1>4, HandlerJumpsNothing
  <2>2. todo'["handler"] = Rest(todo["handler"], ev, 0) /\ todo'["client"] = todo["client"]
    BY <1>1, <1>2, <1>4, <2>1, AfterIs
  <2>3. \A x : Effect(ev, x) => x \in done["handler"]
    BY <2>1 DEF Effect
  <2>4. Truth(req, inbox["client"], outcome["client"], todo["client"], done["handler"], Rest(todo["handler"], ev, 0))
    BY <1>1, <1>2, <1>3, <2>1, <2>3, TruthHandlerGoes DEF Now
  <2> QED
    BY <1>1, <1>4, <2>2, <2>4 DEF Now
<1>5. CASE /\ f.fails # "on"
           /\ \E how \in Outcomes : Ended("handler", how) /\ (how = "ok" => f.fails = "hide")
           /\ done' = done \/ (f.fails = "undo" /\ done' = [done EXCEPT !["handler"] = {}])
  <2>1. PICK how \in Outcomes : Ended("handler", how)
    BY <1>5
  <2>2. /\ todo'["handler"] = {} \/ todo'["handler"] = request_all_slaves_job_available
        /\ todo'["client"] = todo["client"] /\ outcome'["client"] = outcome["client"]
    BY <1>1, <2>1, EndedIs
  <2>3. done'["handler"] = done["handler"] \/ \E v \in todo["handler"] : v # <<>> /\ Head(v).fails = "undo"
    BY <1>3, <1>5
  <2>4. Truth(req, inbox["client"], outcome["client"], todo["client"], done'["handler"], todo'["handler"])
    BY <1>1, <2>2, <2>3, TruthHandlerStops DEF Now
  <2> QED
    BY <1>1, <2>2, <2>4 DEF Now
<1> QED
  BY <1>1, <1>4, <1>5, FailIs

LEMMA HandlerSteps == ASSUME TruthInv, req \in Keyed, Step("handler") PROVE Now'
<1>1. Now /\ SemInv /\ Types /\ "handler" \in Ends /\ "client" \in Ends \ {"handler"}
  BY DEF TruthInv, Now, Ends
<1>2. /\ todo \in [Ends -> SUBSET Traces] /\ done \in [Ends -> SUBSET Words]
      /\ inbox \in [Ends -> Seq(Contents)] /\ inbox["client"] \in Seq(Contents)
  BY <1>1 DEF SemInv, Typed, Types
<1>3. CASE Returns("handler")
  <2>1. /\ Ended("handler", "ok") /\ "ok" \in Outcomes /\ req' = req /\ inbox' = inbox /\ done' = done
    BY <1>3 DEF Returns, Outcomes
  <2>2. /\ todo'["handler"] = {} \/ todo'["handler"] = request_all_slaves_job_available
        /\ todo'["client"] = todo["client"] /\ outcome'["client"] = outcome["client"]
    BY <1>1, <2>1, EndedIs
  <2>3. Truth(req, inbox["client"], outcome["client"], todo["client"], done["handler"], todo'["handler"])
    BY <1>1, <2>2, TruthHandlerStops DEF Now
  <2> QED
    BY <2>1, <2>2, <2>3 DEF Now
<1>4. ASSUME NEW ev \in Heads("handler"),
             \/ PutArrives("handler", ev) \/ PutIsLost("handler", ev) \/ PutFails("handler", ev)
             \/ Takes("handler", ev) \/ TakeFails("handler", ev) \/ Compares("handler", ev)
             \/ Locks("handler", ev) \/ Releases("handler", ev)
             \/ Does("handler", ev) \/ Calls("handler", ev) \/ GivesUp("handler", ev)
      PROVE  Now'
  <2>1. ev \in Events
    BY <1>1, HeadIs
  <2>2. PICK f : f = [ev EXCEPT !.fails = "die"]
    OBVIOUS
  <2>3. f \in Events /\ f.fails = "die" /\ f.op = ev.op
    BY <2>1, <2>2 DEF Events, Tags
  <2>4. PICK t \in todo["handler"] : t # <<>> /\ Head(t) = ev
    BY DEF Heads
  <2>5. ASSUME Goes("handler", ev), req' = req, outcome' = outcome,
               \/ inbox'["client"] = inbox["client"]
               \/ ev.op = "put" /\ inbox'["client"] = Append(inbox["client"], ev.what),
               done["handler"] \subseteq done'["handler"],
               ev.op = "do" => ev.what.of \in done'["handler"]
        PROVE  Now'
    <3>1. todo'["handler"] = Rest(todo["handler"], ev, 0) /\ todo'["client"] = todo["client"]
      BY <1>1, <1>2, <2>5, AfterIs DEF Goes
    <3>2. \A x : Effect(ev, x) => x \in done'["handler"]
      BY <2>5 DEF Effect
    <3>3. Truth(req, inbox'["client"], outcome["client"], todo["client"], done'["handler"], Rest(todo["handler"], ev, 0))
      BY <1>1, <1>2, <2>1, <2>4, <2>5, <3>2, TruthHandlerGoes DEF Now
    <3> QED
      BY <2>5, <3>1, <3>3 DEF Now
  <2>6. CASE PutArrives("handler", ev)
    <3>1. /\ ev.op = "put" /\ Goes("handler", ev) /\ req' = req /\ outcome' = outcome /\ done' = done
          /\ inbox' = [inbox EXCEPT !["client"] = Append(@, ev.what)]
      BY <2>6, PeersAre DEF PutArrives
    <3>2. inbox'["client"] = Append(inbox["client"], ev.what)
      BY <1>1, <1>2, <3>1
    <3> QED
      BY <2>5, <3>1, <3>2
  <2>7. CASE Takes("handler", ev)
    <3>1. /\ ev.op = "take" /\ Goes("handler", ev) /\ req' = req /\ outcome' = outcome /\ done' = done
          /\ inbox' = [inbox EXCEPT !["handler"] = Tail(@)]
      BY <2>7 DEF Takes
    <3>2. inbox'["client"] = inbox["client"]
      BY <1>1, <1>2, <3>1
    <3> QED
      BY <2>5, <3>1, <3>2
  <2>8. CASE PutFails("handler", ev) \/ TakeFails("handler", ev) \/ GivesUp("handler", ev)
    <3>1. (Fail("handler", ev) \/ Fail("handler", f)) /\ ev.op # "do"
      BY <2>2, <2>8 DEF PutFails, TakeFails, GivesUp
    <3> QED
      BY <2>1, <2>3, <3>1, HandlerFails
  <2>9. CASE Compares("handler", ev)
    <3>1. CASE Fail("handler", ev)
      BY <2>1, <2>9, <3>1, HandlerFails DEF Compares
    <3>2. CASE ~ Fail("handler", ev)
      <4>1. /\ ev.op = "compare" /\ Goes("handler", ev) /\ req' = req /\ outcome' = outcome
            /\ done' = done /\ inbox' = inbox
        BY <2>9, <3>2 DEF Compares
      <4> QED
        BY <2>5, <4>1
    <3> QED
      BY <3>1, <3>2
  <2>10. CASE PutIsLost("handler", ev) \/ Locks("handler", ev) \/ Releases("handler", ev) \/ Calls("handler", ev)
    <3>1. /\ ev.op \in {"put", "lock", "release", "call"} /\ Goes("handler", ev) /\ req' = req
          /\ outcome' = outcome /\ done' = done /\ inbox' = inbox
      BY <2>10 DEF PutIsLost, Locks, Releases, Calls
    <3> QED
      BY <2>5, <3>1
  <2>11. CASE Does("handler", ev)
    <3>1. /\ ev.op = "do" /\ Goes("handler", ev) /\ req' = req /\ outcome' = outcome /\ inbox' = inbox
          /\ done' = [done EXCEPT !["handler"] = @ \cup {ev.what.of}]
      BY <2>11 DEF Does
    <3>2. done'["handler"] = done["handler"] \cup {ev.what.of}
      BY <1>1, <1>2, <3>1
    <3> QED
      BY <2>5, <3>1, <3>2
  <2> QED
    BY <1>4, <2>6, <2>7, <2>8, <2>9, <2>10, <2>11
<1> QED
  BY <1>3, <1>4 DEF Step

LEMMA TruthStep == ASSUME TruthInv, [Next]_vars PROVE TruthInv'
<1>1. SemInv' /\ Types'
  BY SemStep, TypesKept DEF TruthInv
<1>2. req' = req
  <2>1. ASSUME NEW e \in Ends, NEW ev \in Events, Fail(e, ev) PROVE req' = req
    BY <2>1 DEF Fail
  <2>2. ASSUME NEW e \in Ends, Step(e) PROVE req' = req
    BY <2>2 DEF Step, Returns, PutArrives, PutIsLost, PutFails, Takes, TakeFails, Compares, Locks, Releases,
                Does, Calls, GivesUp, Fail
  <2> QED
    BY <2>2 DEF Next, OtherLocks, OtherReleases, Alarm, Break, Silence, Finished, vars
<1>3. ASSUME req \in Keyed PROVE Now'
  <2>1. Now /\ SemInv /\ Types /\ Ends = {"client", "handler"} /\ "handler" \in Ends /\ "client" \in Ends
    BY <1>3 DEF TruthInv, Now, Ends
  <2>2. /\ todo \in [Ends -> SUBSET Traces] /\ done \in [Ends -> SUBSET Words]
        /\ inbox \in [Ends -> Seq(Contents)] /\ outcome \in [Ends -> Outcomes]
    BY <2>1 DEF SemInv, Typed, Types
  <2>3. ASSUME NEW e \in Ends, Step(e) PROVE Now'
    BY <1>3, <2>1, <2>3, AskingSteps, HandlerSteps
  <2>4. CASE Alarm
    <3>1. Ended("handler", "died") /\ "died" \in Outcomes /\ inbox' = inbox /\ done' = done
      BY <2>4 DEF Alarm, Outcomes
    <3>2. /\ todo'["handler"] = {} \/ todo'["handler"] = request_all_slaves_job_available
          /\ todo'["client"] = todo["client"] /\ outcome'["client"] = outcome["client"]
      BY <2>1, <3>1, EndedIs
    <3>3. Truth(req, inbox["client"], outcome["client"], todo["client"], done["handler"], todo'["handler"])
      BY <1>3, <2>1, <3>2, TruthHandlerStops DEF Now
    <3> QED
      BY <1>2, <3>1, <3>2, <3>3 DEF Now
  <2>5. CASE Break
    <3>1. inbox'["client"] = <<>> /\ todo' = todo /\ outcome' = outcome /\ done' = done
      BY <2>1, <2>5 DEF Break
    <3>2. ~ Sent(Key(req), <<>>)
      <4>1. \A i \in 1 .. 0 : FALSE
        OBVIOUS
      <4> QED
        BY <4>1, EmptySeq DEF Sent
    <3>3. Truth(req, <<>>, outcome["client"], todo["client"], done["handler"], todo["handler"])
      BY <2>1, <3>2 DEF Now, Truth, Settled
    <3> QED
      BY <1>2, <3>1, <3>3 DEF Now
  <2>6. CASE Silence
    <3>1. /\ todo' = [todo EXCEPT !["client"] = {}] /\ outcome' = [outcome EXCEPT !["client"] = "died"]
          /\ inbox' = inbox /\ done' = done
      BY <2>6 DEF Silence
    <3>2. todo'["client"] = {} /\ outcome'["client"] = "died" /\ todo'["handler"] = todo["handler"]
      BY <2>1, <2>2, <3>1
    <3>3. Truth(req, inbox["client"], "died", {}, done["handler"], todo["handler"])
      BY <2>1, TruthAskingStops DEF Now
    <3> QED
      BY <1>2, <3>1, <3>2, <3>3 DEF Now
  <2>7. CASE \/ \E e \in Ends : OtherLocks(e) \/ OtherReleases(e)
             \/ Finished \/ UNCHANGED vars
    <3>1. todo' = todo /\ outcome' = outcome /\ inbox' = inbox /\ done' = done
      BY <2>7 DEF OtherLocks, OtherReleases, Finished, vars
    <3> QED
      BY <1>2, <2>1, <3>1 DEF Now
  <2> QED
    BY <2>3, <2>4, <2>5, <2>6, <2>7 DEF Next
<1> QED
  BY <1>1, <1>2, <1>3 DEF TruthInv, Now

(* An asking end that returns success is told the truth: its job is in the *)
(* table, or its frame is reserved and assigned to it, whenever the link   *)
(* breaks, a size differs or the alarm ends the handler (request.c).       *)
THEOREM SuccessIsTold == Spec => []SuccessIsTrue
<1>1. TruthInv => SuccessIsTrue
  <2> SUFFICES ASSUME TruthInv, outcome["client"] = "ok" PROVE Promised(req) \subseteq done["handler"]
    BY DEF SuccessIsTrue
  <2>1. CASE req \in Keyed
    BY <2>1 DEF TruthInv, Truth, Settled, Sealed
  <2>2. CASE req \notin Keyed
    BY <2>2 DEF Promised, Keyed
  <2> QED
    BY <2>1, <2>2
<1>2. TruthInv /\ [Next]_vars => TruthInv'
  BY TruthStep
<1> QED
  BY TruthInit, <1>1, <1>2, PTL DEF Spec
=============================================================================
