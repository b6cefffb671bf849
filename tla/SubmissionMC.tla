---------------------------- MODULE SubmissionMC ----------------------------
(* What the clients of the run ask for: the first any engine in any way,   *)
(* the second a job that may write to the script of the first.             *)
EXTENDS Submission, TLC

CONSTANTS first, second, s1, s2

JobRange(start, end, step, block) ==
  [start |-> start, end |-> end, step |-> step, block |-> block]
(* Ranges that end before they start, without a step, with blocks.         *)
OneFrame == JobRange(2, 2, 1, 1)
TwoFrames == JobRange(1, 3, 2, 1)
BlockOfTwo == JobRange(1, 3, 1, 2)
Backwards == JobRange(3, 1, 1, 1)
Ranges == {OneFrame, TwoFrames, BlockOfTwo, Backwards,
           JobRange(2, 3, 0, 1), JobRange(1, 5, 2, 2)}
Changes == {JobRange(2, 4, 1, 1), JobRange(1, 2, 0, 1), JobRange(2, 4, 1, 2)}

(* Of the optional variables those a template may miss are told apart.     *)
ToldApart == {"RESX", "RESY", "RENDERER"}
Orders(tool, engine, ranges, changes) ==
  LET f == FrontEndOf(tool, engine)
  IN  {[tool |-> tool, engine |-> engine, given |-> f.must \cup g, kind |-> k,
        range |-> r, changes |-> changes] :
         g \in SUBSET (f.may \cap ToldApart), k \in f.kinds, r \in ranges}
OwnOrders(ranges, changes) ==
  [tool : {"drqman"}, engine : {"own"}, given : {{}}, kind : {"animation"},
   range : ranges, changes : {changes}]

(* Every engine with two frames or a block, three with every range, two    *)
(* whose range is changed.                                                 *)
EveryEngine ==
  UNION {Orders("sendjob", e, {TwoFrames}, {}) : e \in DOMAIN str2toj} \cup
  UNION {Orders("drqman", e, {TwoFrames}, {}) : e \in DOMAIN Drqman} \cup
  UNION {Orders("drqman", e, {BlockOfTwo}, {}) : e \in {"turtle", "nuke", "luxrender"}}
EveryRange ==
  OwnOrders(Ranges, {}) \cup UNION {Orders(t, "blender", Ranges, {}) : t \in {"sendjob", "drqman"}}
Changed ==
  OwnOrders({TwoFrames, BlockOfTwo}, Changes) \cup
  Orders("drqman", "lightwave", {TwoFrames, BlockOfTwo}, Changes)

(* One client and one slot, one client and two slots, and two clients that *)
(* may write to one script: the second has one frame, or a range the       *)
(* master refuses.                                                         *)
With(n, orders) == {[orders |-> o, slots |-> n] : o \in [{first} -> orders]}
Lightwave(range) == Orders("drqman", "lightwave", {range}, {})
Two(orders, others) ==
  {[orders |-> (first :> o) @@ (second :> p), slots |-> {s1}] : o \in orders, p \in others}
MCWorkloads ==
  With({s1}, EveryEngine \cup EveryRange \cup Changed) \cup
  With({s1, s2}, OwnOrders({TwoFrames}, {JobRange(2, 4, 1, 1), JobRange(1, 2, 0, 1)})
                 \cup OwnOrders({BlockOfTwo}, {JobRange(2, 4, 1, 2)})) \cup
  Two(Lightwave(OneFrame), Lightwave(OneFrame)) \cup
  Two(Lightwave(TwoFrames), Lightwave(Backwards)) \cup
  Two(Orders("drqman", "terragen", {OneFrame}, {}), Lightwave(Backwards))

(* The theorems about what is rendered suppose so; TLC finds it true here. *)
ASSUME RangesGoForward == NoBackwards
=============================================================================
