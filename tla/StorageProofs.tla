-------------------------- MODULE StorageProofs --------------------------
(***************************************************************************)
(* What Storage promises, for every number of jobs, children, segments,    *)
(* requests and faults.                                                    *)
(***************************************************************************)
EXTENDS Storage, SharedListsProofs

Processes == Children \cup {Main}
MainPlaces == {"off", "load", "serve"} \cup Cleaning
ChildPlaces == {"none", "fresh", "accepts", "receives", "holds"} \cup Cleaning
Mine == {c \in Children \ old : pc[c] # "none"}
ProcessInv ==
  /\ pc \in [Children \cup {Main} -> MainPlaces \cup ChildPlaces]
  /\ pc[Main] \in MainPlaces /\ \A c \in Children : pc[c] \in ChildPlaces
  /\ at \in [Children \cup {Main} -> 0 .. NJobs]
  /\ old \subseteq Children /\ \A c \in old : pc[c] \in {"receives", "holds"}
  /\ checker \in BOOLEAN /\ ipc \in BOOLEAN
  /\ sem \in Children \cup {Main, Nobody, "gone"}
  /\ nchildren \in 0 .. MaxChildren /\ zombies \in Nat
  /\ pc[Main] # "serve" => zombies = 0
  /\ pc[Main] = "load" => Mine = {}
  /\ pc[Main] = "serve" =>
       zombies + Cardinality(Mine) + (IF checker THEN 1 ELSE 0) <= nchildren + 1

----------------------------------------------------------------------------
(* Processes.                                                              *)
LEMMA NamesOfProcesses ==
  /\ Main \notin Children /\ Nobody \notin Children /\ "gone" \notin Children
  /\ Main # Nobody /\ Main # "gone" /\ Nobody # "gone" /\ IsFiniteSet(Children)
BY ChildrenAssumption DEF Main, Nobody

LEMMA Sizes ==
  /\ NJobs \in Nat /\ NJobs > 0 /\ MaxChildren \in Nat /\ MaxChildren > 0
  /\ MaxRequests \in Nat /\ MaxFaults \in Nat
BY SizesAssumption

LEMMA MineIsFinite ==
  ASSUME NEW S \in SUBSET Children
  PROVE  /\ IsFiniteSet(S) /\ Cardinality(S) \in Nat
         /\ \A R \in SUBSET S : Cardinality(R) \in Nat /\ Cardinality(R) <= Cardinality(S)
         /\ \A c \in S : Cardinality(S \ {c}) = Cardinality(S) - 1
         /\ \A c \in Children \ S : Cardinality(S \cup {c}) = Cardinality(S) + 1
BY NamesOfProcesses, FS_Subset, FS_CardinalityType, FS_RemoveElement, FS_AddElement

LEMMA ProcessInit == Init => ProcessInv
<1> SUFFICES ASSUME Init PROVE ProcessInv
  OBVIOUS
<1> USE NamesOfProcesses DEF Main
<1>1. pc[Main] = "off" /\ \A c \in Children : pc[c] = "none"
  BY DEF Init
<1>2. pc \in [Children \cup {Main} -> MainPlaces \cup ChildPlaces]
  BY DEF Init, MainPlaces, ChildPlaces
<1>3. at \in [Children \cup {Main} -> 0 .. NJobs] /\ nchildren \in 0 .. MaxChildren
  BY Sizes DEF Init
<1> QED
  BY <1>1, <1>2, <1>3 DEF Init, ProcessInv, MainPlaces, ChildPlaces

(* A process goes on; it is not one that waits for a client.               *)
LEMMA ProcessMoves ==
  ASSUME ProcessInv, NEW p \in Children \cup {Main}, NEW to, pc' = [pc EXCEPT ![p] = to],
         p = Main => to \in Cleaning,
         p \in Children => to \in ChildPlaces \ {"none"} /\ pc[p] \notin {"none", "receives", "holds"},
         at' \in [Children \cup {Main} -> 0 .. NJobs], sem' \in Children \cup {Main, Nobody, "gone"},
         zombies' \in {0, zombies}, UNCHANGED <<old, nchildren, checker, ipc>>,
         p = Main => pc[Main] # "serve" \/ zombies' = 0
  PROVE  ProcessInv'
<1>1. pc' \in [Children \cup {Main} -> MainPlaces \cup ChildPlaces]
  BY DEF ProcessInv, MainPlaces
<1>2. pc'[p] = to /\ \A q \in Children \cup {Main} : q # p => pc'[q] = pc[q]
  BY DEF ProcessInv
<1>3. pc'[Main] \in MainPlaces /\ \A c \in Children : pc'[c] \in ChildPlaces
  BY <1>2, NamesOfProcesses DEF ProcessInv, MainPlaces
<1>4. \A c \in old' : pc'[c] \in {"receives", "holds"}
  BY <1>2, NamesOfProcesses DEF ProcessInv
<1>5. Mine' = Mine
  BY <1>2, NamesOfProcesses DEF ProcessInv, Mine
<1>6. Cardinality(Mine) \in Nat
  BY MineIsFinite DEF Mine
<1>7. pc'[Main] \in {"load", "serve"} => pc[Main] = pc'[Main]
  BY <1>2 DEF Cleaning
<1>8. zombies' \in Nat /\ (pc'[Main] # "serve" => zombies' = 0)
  BY <1>2, NamesOfProcesses DEF ProcessInv
<1>9. pc'[Main] = "serve" => zombies' + Cardinality(Mine') + (IF checker' THEN 1 ELSE 0) <= nchildren' + 1
  BY <1>5, <1>6, <1>7, <1>8 DEF ProcessInv
<1> QED
  BY <1>1, <1>3, <1>4, <1>5, <1>7, <1>8, <1>9 DEF ProcessInv

(* A handler ends.                                                         *)
LEMMA ProcessEnds ==
  ASSUME ProcessInv, NEW c \in Children, pc[c] # "none", Ends(c),
         sem' \in Children \cup {Main, Nobody, "gone"}, UNCHANGED <<nchildren, checker, ipc>>
  PROVE  ProcessInv'
<1>1. /\ pc' \in [Children \cup {Main} -> MainPlaces \cup ChildPlaces]
      /\ at' \in [Children \cup {Main} -> 0 .. NJobs]
  BY Sizes DEF ProcessInv, Ends, ChildPlaces
<1>2. pc'[c] = "none" /\ \A q \in Children \cup {Main} : q # c => pc'[q] = pc[q]
  BY DEF ProcessInv, Ends
<1>3. pc'[Main] = pc[Main] /\ \A d \in Children : pc'[d] \in ChildPlaces
  BY <1>2, NamesOfProcesses DEF ProcessInv, ChildPlaces
<1>4. old' = old \ {c} /\ \A d \in old' : pc'[d] \in {"receives", "holds"}
  BY <1>2 DEF ProcessInv, Ends
<1>5. Mine' = Mine \ {c} /\ Mine \in SUBSET Children
  BY <1>2, <1>4 DEF ProcessInv, Mine
<1>6. c \in Mine <=> c \notin old
  BY DEF Mine
<1>7. Cardinality(Mine) \in Nat /\ (c \in Mine => Cardinality(Mine') = Cardinality(Mine) - 1) /\ (c \notin Mine => Mine' = Mine)
  BY <1>5, MineIsFinite
<1>8. zombies' = (IF c \in Mine /\ pc[Main] = "serve" THEN zombies + 1 ELSE zombies)
  BY <1>6 DEF Ends
<1>9. zombies' \in Nat /\ (pc'[Main] # "serve" => zombies' = 0)
  BY <1>3, <1>8 DEF ProcessInv
<1>10. pc'[Main] = "serve" => zombies' + Cardinality(Mine') + (IF checker' THEN 1 ELSE 0) <= nchildren' + 1
  BY <1>3, <1>7, <1>8 DEF ProcessInv
<1> QED
  BY <1>1, <1>3, <1>4, <1>5, <1>9, <1>10 DEF ProcessInv

(* A process of clean_out ends.                                            *)
LEMMA ProcessLeaves ==
  ASSUME ProcessInv, NEW p \in Children \cup {Main}, pc[p] \in Cleaning,
         pc' = [pc EXCEPT ![p] = IF p = Main THEN "off" ELSE "none"],
         at' \in [Children \cup {Main} -> 0 .. NJobs], sem' \in Children \cup {Main, Nobody, "gone"},
         nchildren' \in 0 .. MaxChildren, p # Main => nchildren' = nchildren, ipc' \in BOOLEAN,
         UNCHANGED <<old, zombies, checker>>
  PROVE  ProcessInv'
<1>1. pc' \in [Children \cup {Main} -> MainPlaces \cup ChildPlaces]
  BY DEF ProcessInv, MainPlaces, ChildPlaces
<1>2. pc'[p] = (IF p = Main THEN "off" ELSE "none") /\ \A q \in Children \cup {Main} : q # p => pc'[q] = pc[q]
  BY DEF ProcessInv
<1>3. pc'[Main] \in MainPlaces /\ \A c \in Children : pc'[c] \in ChildPlaces
  BY <1>2, NamesOfProcesses DEF ProcessInv, MainPlaces, ChildPlaces
<1>4. \A c \in old' : pc'[c] \in {"receives", "holds"}
  BY <1>2, NamesOfProcesses DEF ProcessInv, Cleaning
<1>5. Mine' \in SUBSET Mine /\ Mine \in SUBSET Children
  BY <1>2, NamesOfProcesses DEF ProcessInv, Mine
<1>6. Cardinality(Mine') \in Nat /\ Cardinality(Mine) \in Nat /\ Cardinality(Mine') <= Cardinality(Mine)
  BY <1>5, MineIsFinite
<1>7. pc'[Main] \in {"load", "serve"} => pc[Main] = pc'[Main] /\ p # Main
  BY <1>2
<1>8. zombies' \in Nat /\ (pc'[Main] # "serve" => zombies' = 0)
  BY <1>2, NamesOfProcesses DEF ProcessInv, Cleaning
<1>9. pc'[Main] = "serve" => zombies' + Cardinality(Mine') + (IF checker' THEN 1 ELSE 0) <= nchildren' + 1
  BY <1>6, <1>7, Sizes DEF ProcessInv
<1> QED
  BY <1>1, <1>3, <1>4, <1>5, <1>7, <1>8, <1>9 DEF ProcessInv

(* The group is told: no one of the master's goes on serving.              *)
LEMMA ProcessSignalled ==
  ASSUME ProcessInv, NEW next, GroupGets(next), next \in [Children \cup {Main} -> MainPlaces \cup ChildPlaces],
         next[Main] \in MainPlaces \ {"serve"}, next[Main] = "load" => pc[Main] = "load",
         \A c \in Children : next[c] \in ChildPlaces /\ (pc[c] = "none" => next[c] = "none"),
         \A c \in old : next[c] = pc[c],
         UNCHANGED <<old, nchildren, ipc>>
  PROVE  ProcessInv'
<1>1. pc' = next /\ sem' \in Children \cup {Main, Nobody, "gone"} /\ checker' \in BOOLEAN /\ zombies' = 0
  BY DEF ProcessInv, GroupGets
<1>2. at' \in [Children \cup {Main} -> 0 .. NJobs]
  BY Sizes DEF ProcessInv, GroupGets
<1>3. Mine' \subseteq Mine
  BY <1>1 DEF ProcessInv, Mine
<1> QED
  BY <1>1, <1>2, <1>3 DEF ProcessInv

LEMMA AllEnds ==
  ASSUME ProcessInv,
         pc' = [q \in DOMAIN pc |-> IF q = Main THEN "off" ELSE "none"], at' = [q \in DOMAIN at |-> 0],
         old' = {}, nchildren' = 0, zombies' = 0, checker' = FALSE, ipc' \in BOOLEAN,
         sem' \in Children \cup {Main, Nobody, "gone"}
  PROVE  ProcessInv'
<1>1. /\ pc' \in [Children \cup {Main} -> MainPlaces \cup ChildPlaces]
      /\ at' \in [Children \cup {Main} -> 0 .. NJobs]
  BY Sizes DEF ProcessInv, MainPlaces, ChildPlaces
<1>2. pc'[Main] = "off" /\ \A c \in Children : pc'[c] = "none"
  BY NamesOfProcesses DEF ProcessInv
<1>3. pc'[Main] \in MainPlaces /\ \A c \in Children : pc'[c] \in ChildPlaces
  BY <1>2 DEF MainPlaces, ChildPlaces
<1>4. nchildren' \in 0 .. MaxChildren /\ zombies' \in Nat
  <2>1. 0 \in 0 .. MaxChildren
    BY Sizes
  <2> QED
    BY <2>1
<1>5. old' \subseteq Children /\ \A c \in old' : pc'[c] \in {"receives", "holds"}
  OBVIOUS
<1> QED
  BY <1>1, <1>2, <1>3, <1>4, <1>5 DEF ProcessInv

(* n_children is never more than MASTERNCHILDREN, nor less than none.      *)
LEMMA ProcessStep == ProcessInv /\ [Next]_vars => ProcessInv'
<1> SUFFICES ASSUME ProcessInv, [Next]_vars PROVE ProcessInv'
  OBVIOUS
<1> DEFINE Semaphores == Children \cup {Main, Nobody, "gone"}
<1> USE DEF Processes
<1>0. /\ DOMAIN pc = Processes /\ DOMAIN at = Processes /\ sem \in Semaphores
      /\ at \in [Processes -> 0 .. NJobs] /\ 1 \in 0 .. NJobs /\ 0 \in 0 .. NJobs
  BY Sizes DEF ProcessInv
<1>a. \A p \in Processes : [at EXCEPT ![p] = 0] \in [Processes -> 0 .. NJobs] /\ [at EXCEPT ![p] = 1] \in [Processes -> 0 .. NJobs]
  BY <1>0
<1>b. \A c \in old : pc[c] \in {"receives", "holds"}
  BY DEF ProcessInv
<1>c. Jobs \subseteq 0 .. NJobs
  BY Sizes DEF Jobs
<1>1. ASSUME NEW force \in BOOLEAN, Start(force) PROVE ProcessInv'
  <2>1. /\ pc' = [pc EXCEPT ![Main] = "load"] /\ pc[Main] = "off" /\ zombies' = zombies /\ at' = at
        /\ old' = {c \in Children : pc[c] # "none"} /\ nchildren' = 0 /\ checker' = checker
        /\ ipc' = TRUE /\ sem' = Nobody
        /\ \A c \in Children : pc[c] \notin {"fresh", "accepts"} \cup Cleaning
    BY <1>1 DEF Start, PortTaken, Alive
  <2>2. pc'[Main] = "load" /\ \A c \in Children : pc'[c] = pc[c]
    BY <1>0, <2>1, NamesOfProcesses
  <2>3. pc' \in [Processes -> MainPlaces \cup ChildPlaces]
    BY <2>1 DEF ProcessInv, MainPlaces
  <2>4. \A c \in old' : pc'[c] \in {"receives", "holds"}
    BY <2>1, <2>2 DEF ProcessInv, ChildPlaces
  <2>5. Mine' = {}
    BY <2>1, <2>2 DEF Mine
  <2>6. nchildren' \in 0 .. MaxChildren /\ zombies' = 0 /\ old' \subseteq Children
    BY <2>1, Sizes DEF ProcessInv
  <2>7. checker' \in BOOLEAN /\ ipc' \in BOOLEAN /\ sem' \in Semaphores
    BY <2>1 DEF ProcessInv
  <2>8. pc'[Main] \in MainPlaces /\ \A c \in Children : pc'[c] \in ChildPlaces
    BY <2>2 DEF ProcessInv, MainPlaces
  <2> QED
    BY <1>0, <2>1, <2>2, <2>3, <2>4, <2>5, <2>6, <2>7, <2>8 DEF ProcessInv
<1>2. CASE Loads
  <2>1. /\ pc' = [pc EXCEPT ![Main] = "serve"] /\ pc[Main] = "load" /\ checker' = TRUE
        /\ UNCHANGED <<at, old, nchildren, zombies, ipc, sem>>
    BY <1>2 DEF Loads, Load
  <2>2. pc'[Main] = "serve" /\ \A c \in Children : pc'[c] = pc[c]
    BY <1>0, <2>1, NamesOfProcesses
  <2>3. pc' \in [Processes -> MainPlaces \cup ChildPlaces]
    BY <2>1 DEF ProcessInv, MainPlaces
  <2>4. Mine' = {}
    BY <2>1, <2>2 DEF Mine, ProcessInv
  <2>5. zombies' + Cardinality(Mine') + (IF checker' THEN 1 ELSE 0) <= nchildren' + 1
    BY <2>1, <2>4, FS_EmptySet DEF ProcessInv
  <2>6. pc'[Main] \in MainPlaces /\ \A c \in Children : pc'[c] \in ChildPlaces
    BY <2>2 DEF ProcessInv, MainPlaces
  <2> QED
    BY <2>1, <2>2, <2>3, <2>5, <2>6 DEF ProcessInv
<1>3. CASE ForkChild
  <2> DEFINE c == NewChild
  <2>1. c \in Children /\ pc[c] = "none"
    BY <1>3 DEF ForkChild, NewChild
  <2>2. /\ pc' = [pc EXCEPT ![c] = "fresh"] /\ pc[Main] = "serve" /\ nchildren < MaxChildren
        /\ nchildren' = nchildren + 1 /\ UNCHANGED <<at, old, zombies, checker, ipc, sem>>
    BY <1>3 DEF ForkChild, HasRoom, memory
  <2> HIDE DEF c
  <2>3. pc'[c] = "fresh" /\ \A q \in Processes : q # c => pc'[q] = pc[q]
    BY <1>0, <2>1, <2>2
  <2>4. pc' \in [Processes -> MainPlaces \cup ChildPlaces]
    BY <2>2 DEF ProcessInv, ChildPlaces
  <2>5. pc'[Main] = "serve" /\ \A d \in Children : pc'[d] \in ChildPlaces
    BY <2>1, <2>2, <2>3, NamesOfProcesses DEF ProcessInv, ChildPlaces
  <2>6. c \notin old
    BY <1>b, <2>1
  <2>7. Mine' = Mine \cup {c} /\ c \notin Mine /\ Mine \in SUBSET Children
    BY <2>1, <2>2, <2>3, <2>6 DEF Mine, ProcessInv
  <2>8. Cardinality(Mine') = Cardinality(Mine) + 1 /\ Cardinality(Mine) \in Nat
    BY <2>1, <2>7, MineIsFinite
  <2>9. nchildren' \in 0 .. MaxChildren
    BY <2>2, Sizes DEF ProcessInv
  <2>10. zombies' + Cardinality(Mine') + (IF checker' THEN 1 ELSE 0) <= nchildren' + 1
    BY <2>2, <2>8 DEF ProcessInv
  <2>11. \A d \in old' : pc'[d] \in {"receives", "holds"}
    BY <1>b, <2>2, <2>3, <2>6 DEF ProcessInv
  <2> QED
    BY <2>2, <2>4, <2>5, <2>9, <2>10, <2>11 DEF ProcessInv, MainPlaces
<1>4. CASE WaitChild
  <2>1. /\ UNCHANGED <<pc, at, old, checker, ipc, sem>> /\ zombies > 0 /\ zombies' = zombies - 1
        /\ nchildren' = nchildren - 1 /\ ~ nchildren < MaxChildren /\ pc[Main] = "serve"
    BY <1>4 DEF WaitChild, HasRoom, Counted, memory
  <2>2. Mine' = Mine
    BY <2>1 DEF Mine
  <2>3. Cardinality(Mine) \in Nat
    BY MineIsFinite DEF Mine
  <2>4. nchildren' \in 0 .. MaxChildren /\ zombies' \in Nat
    BY <2>1, Sizes DEF ProcessInv
  <2>5. zombies' + Cardinality(Mine') + (IF checker' THEN 1 ELSE 0) <= nchildren' + 1
    BY <2>1, <2>2, <2>3, <2>4, Sizes DEF ProcessInv
  <2> QED
    BY <2>1, <2>2, <2>4, <2>5 DEF ProcessInv
<1>5. ASSUME NEW c \in Children, SetHandlers(c) \/ HoldSemaphore(c) \/ ReserveJob(c) PROVE ProcessInv'
  <2>1. pc[c] \in {"fresh", "accepts"} /\ UNCHANGED <<old, nchildren, zombies, checker, ipc>>
    BY <1>5 DEF SetHandlers, HoldSemaphore, ReserveJob, memory
  <2>2. PICK to \in {"accepts", "holds", "receives"} : pc' = [pc EXCEPT ![c] = to]
    BY <1>5 DEF SetHandlers, HoldSemaphore, ReserveJob
  <2>3. sem' \in Semaphores
    BY <1>0, <1>5 DEF SetHandlers, HoldSemaphore, ReserveJob, memory
  <2>4. at' \in [Processes -> 0 .. NJobs]
    <3>1. CASE at' = at
      BY <1>0, <3>1
    <3>2. CASE \E j \in Jobs : at' = [at EXCEPT ![c] = j]
      BY <1>0, <1>c, <3>2
    <3> QED
      BY <1>5, <3>1, <3>2 DEF SetHandlers, HoldSemaphore, ReserveJob
  <2> QED
    BY <2>1, <2>2, <2>3, <2>4, NamesOfProcesses, ProcessMoves DEF ChildPlaces
<1>6. ASSUME NEW c \in Children, pc[c] \in {"accepts", "receives", "holds"}, Ends(c),
             sem' \in {sem, Nobody}, UNCHANGED <<nchildren, checker, ipc>>
      PROVE  ProcessInv'
  BY <1>0, <1>6, ProcessEnds
<1>7. ASSUME NEW c \in Children, ClientServed(c) \/ HandlerReturns(c) PROVE ProcessInv'
  <2>1. pc[c] \in {"accepts", "receives", "holds"} /\ Ends(c) /\ sem' \in {sem, Nobody} /\ UNCHANGED <<nchildren, checker, ipc>>
    BY <1>7 DEF ClientServed, HandlerReturns, memory
  <2> QED
    BY <1>6, <2>1
<1>8. ASSUME NEW c \in Children, Requests(c) PROVE ProcessInv'
  <2>1. CASE HoldSemaphore(c) \/ ReserveJob(c)
    BY <1>5, <2>1
  <2>2. CASE ~ (HoldSemaphore(c) \/ ReserveJob(c))
    <3>1. pc[c] \in {"accepts", "receives", "holds"} /\ Ends(c) /\ sem' \in {sem, Nobody} /\ UNCHANGED <<nchildren, checker, ipc>>
      BY <1>8, <2>2 DEF Requests, ReceiveFails, DeleteJob, ReceiveComputer, ReceivePools, ReceiveJob, ChangeHosts, memory
    <3> QED
      BY <1>6, <3>1
  <2> QED
    BY <2>1, <2>2
<1>9. ASSUME UNCHANGED <<pc, at, old, nchildren, zombies, checker, ipc, sem>> PROVE ProcessInv'
  BY <1>9 DEF ProcessInv, Mine
<1>10. CASE ForgetComputer \/ \E x \in Names, f \in Failures : Edit(x, f)
  BY <1>9, <1>10 DEF ForgetComputer, Edit, processes
<1>11. CASE Stop
  <2>1. /\ pc' = [pc EXCEPT ![Main] = "save"] /\ zombies' = 0 /\ UNCHANGED <<at, old, nchildren, checker, ipc, sem>>
    BY <1>11 DEF Stop, CleanOut, memory
  <2> QED
    BY <1>0, <2>1, NamesOfProcesses, ProcessMoves DEF Cleaning
<1>12. /\ Signalled \in [Processes -> MainPlaces \cup ChildPlaces]
       /\ Signalled[Main] = (IF pc[Main] = "serve" THEN "save" ELSE pc[Main])
       /\ \A c \in Children : Signalled[c] \in ChildPlaces /\ (pc[c] = "none" => Signalled[c] = "none")
       /\ \A c \in old : Signalled[c] = pc[c]
  BY <1>0, NamesOfProcesses DEF ProcessInv, Signalled, CleanOut, MainPlaces, ChildPlaces, Cleaning
<1>13. CASE StopGroup
  <2>1. GroupGets(Signalled) /\ UNCHANGED <<old, nchildren, ipc>>
    BY <1>13 DEF StopGroup
  <2>2. Signalled[Main] \in MainPlaces \ {"serve"} /\ (Signalled[Main] = "load" => pc[Main] = "load")
    BY <1>12 DEF ProcessInv, MainPlaces, Cleaning
  <2> QED
    BY <1>12, <2>1, <2>2, ProcessSignalled
<1>14. ASSUME NEW p \in Processes, KillGroup(p) PROVE ProcessInv'
  <2> DEFINE next == [Signalled EXCEPT ![p] = "wait"]
  <2>1. GroupGets(next) /\ UNCHANGED <<old, nchildren, ipc>> /\ pc[p] = "kill"
    BY <1>14 DEF KillGroup
  <2>2. next \in [Processes -> MainPlaces \cup ChildPlaces] /\ next[p] = "wait" /\ \A q \in Processes : q # p => next[q] = Signalled[q]
    BY <1>12 DEF MainPlaces, Cleaning
  <2> HIDE DEF next
  <2>3. next[Main] \in MainPlaces \ {"serve"} /\ (next[Main] = "load" => pc[Main] = "load")
    BY <1>12, <2>2 DEF ProcessInv, MainPlaces, Cleaning
  <2>4. \A c \in Children : next[c] \in ChildPlaces /\ (pc[c] = "none" => next[c] = "none")
    BY <1>12, <2>1, <2>2 DEF ChildPlaces, Cleaning
  <2>5. \A c \in old : next[c] = pc[c]
    BY <1>b, <1>12, <2>1, <2>2 DEF ProcessInv
  <2> QED
    BY <2>1, <2>2, <2>3, <2>4, <2>5, ProcessSignalled
<1>15. ASSUME NEW p \in Processes, OpenFile(p) \/ WriteJob(p) \/ WriteFails(p) \/ WaitAll(p) PROVE ProcessInv'
  <2>1. pc[p] \in Cleaning /\ UNCHANGED <<old, nchildren, zombies, checker, ipc>>
    BY <1>15 DEF OpenFile, WriteJob, WriteFails, WaitAll, memory, Cleaning
  <2>2. sem' \in Semaphores
    BY <1>0, <1>15 DEF OpenFile, WriteJob, WriteFails, WaitAll, memory, Released
  <2>3. at' \in [Processes -> 0 .. NJobs]
    <3>1. CASE at[p] < NJobs /\ at' = [at EXCEPT ![p] = @ + 1]
      BY <1>0, <3>1, Sizes
    <3>2. CASE at' = at \/ at' = [at EXCEPT ![p] = 0] \/ at' = [at EXCEPT ![p] = 1]
      BY <1>0, <1>a, <3>2
    <3> QED
      BY <1>15, <3>1, <3>2 DEF OpenFile, WriteJob, WriteFails, WaitAll
  <2>4. CASE pc' = pc
    <3>1. Mine' = Mine
      BY <2>1, <2>4 DEF Mine
    <3> QED
      BY <2>1, <2>2, <2>3, <2>4, <3>1 DEF ProcessInv
  <2>5. CASE pc' # pc
    <3>1. PICK to \in Cleaning : pc' = [pc EXCEPT ![p] = to]
      BY <1>15, <2>5 DEF OpenFile, WriteJob, WriteFails, WaitAll, Gives, Cleaning
    <3>2. p \in Children => to \in ChildPlaces \ {"none"} /\ pc[p] \notin {"none", "receives", "holds"}
      BY <2>1 DEF ChildPlaces, Cleaning
    <3> QED
      BY <2>1, <2>2, <2>3, <3>1, <3>2, ProcessMoves DEF Cleaning
  <2> QED
    BY <2>4, <2>5
<1>16. ASSUME NEW p \in Processes, WriteCrashes(p) \/ FreeAll(p) PROVE ProcessInv'
  <2>1. pc[p] \in Cleaning /\ UNCHANGED <<old, zombies, checker>> /\ ipc' \in BOOLEAN
    BY <1>16 DEF WriteCrashes, FreeAll, Cleaning, ProcessInv
  <2>2. sem' \in Semaphores
    BY <1>0, <1>16 DEF WriteCrashes, FreeAll, Released
  <2>3. at' \in [Processes -> 0 .. NJobs]
    BY <1>0, <1>a, <1>16 DEF WriteCrashes, FreeAll
  <2>4. nchildren' \in 0 .. MaxChildren /\ (p # Main => nchildren' = nchildren)
    <3>1. 0 \in 0 .. MaxChildren /\ nchildren \in 0 .. MaxChildren
      BY Sizes DEF ProcessInv
    <3>2. nchildren' = nchildren \/ (p = Main /\ nchildren' = 0)
      BY <1>16 DEF WriteCrashes, FreeAll
    <3> QED
      BY <3>1, <3>2
  <2>5. CASE pc' = [pc EXCEPT ![p] = IF p = Main THEN "off" ELSE "none"]
    BY <2>1, <2>2, <2>3, <2>4, <2>5, ProcessLeaves
  <2>6. CASE pc' = [pc EXCEPT ![p] = "kill"] /\ nchildren' = nchildren /\ ipc' = ipc
    <3>1. p \in Children => "kill" \in ChildPlaces \ {"none"} /\ pc[p] \notin {"none", "receives", "holds"}
      BY <2>1 DEF ChildPlaces, Cleaning
    <3> QED
      BY <2>1, <2>2, <2>3, <2>6, <3>1, ProcessMoves DEF Cleaning
  <2> QED
    BY <1>16, <2>5, <2>6 DEF WriteCrashes, FreeAll, Gives
<1>17. CASE CheckerDies
  <2>1. /\ UNCHANGED <<pc, at, old, nchildren, ipc, sem>> /\ checker /\ checker' = FALSE
        /\ zombies' = IF pc[Main] = "serve" THEN zombies + 1 ELSE zombies
    BY <1>17 DEF CheckerDies, memory
  <2>2. Mine' = Mine
    BY <2>1 DEF Mine
  <2>3. Cardinality(Mine) \in Nat
    BY MineIsFinite DEF Mine
  <2>4. pc[Main] = "serve" => zombies + Cardinality(Mine) + 1 <= nchildren + 1
    BY <2>1 DEF ProcessInv
  <2>5. zombies' \in Nat /\ (pc'[Main] # "serve" => zombies' = 0)
    BY <2>1 DEF ProcessInv
  <2>6. pc'[Main] = "serve" => zombies' + Cardinality(Mine') + (IF checker' THEN 1 ELSE 0) <= nchildren' + 1
    BY <2>1, <2>2, <2>3, <2>4 DEF ProcessInv
  <2> QED
    BY <2>1, <2>2, <2>5, <2>6 DEF ProcessInv
<1>18. CASE MainDies
  <2>1. /\ pc' = [pc EXCEPT ![Main] = "off"] /\ at' = [at EXCEPT ![Main] = 0] /\ UNCHANGED <<old, checker, ipc>>
        /\ nchildren' = 0 /\ zombies' = 0 /\ sem' \in {sem, Nobody}
    BY <1>18 DEF MainDies, Gives, Released
  <2>2. pc'[Main] = "off" /\ \A c \in Children : pc'[c] = pc[c]
    BY <1>0, <2>1, NamesOfProcesses
  <2>3. pc' \in [Processes -> MainPlaces \cup ChildPlaces] /\ at' \in [Processes -> 0 .. NJobs]
    BY <1>a, <2>1 DEF ProcessInv, MainPlaces
  <2>4. nchildren' \in 0 .. MaxChildren /\ zombies' \in Nat
    BY <2>1, Sizes
  <2>5. pc'[Main] \in MainPlaces /\ \A c \in Children : pc'[c] \in ChildPlaces
    BY <2>2 DEF ProcessInv, MainPlaces
  <2>6. old' \subseteq Children /\ \A c \in old' : pc'[c] \in {"receives", "holds"}
    BY <2>1, <2>2 DEF ProcessInv
  <2> QED
    BY <1>0, <2>1, <2>2, <2>3, <2>4, <2>5, <2>6 DEF ProcessInv
<1>19. CASE OperatorKills \/ Reboot
  <2>1. ipc' \in BOOLEAN /\ sem' \in Semaphores
    BY <1>0, <1>19 DEF OperatorKills, Reboot, ProcessInv
  <2> QED
    BY <1>19, <2>1, AllEnds DEF OperatorKills, Reboot
<1>20. CASE UNCHANGED vars
  BY <1>9, <1>20 DEF vars, processes, memory
<1> QED
  BY <1>0, <1>1, <1>2, <1>3, <1>4, <1>5, <1>7, <1>8, <1>10, <1>11, <1>13, <1>14, <1>15, <1>16, <1>17, <1>18, <1>19, <1>20 DEF Next, CleansOut

LEMMA ProcessInvariant == Spec => []ProcessInv
BY ProcessInit, ProcessStep, PTL DEF Spec

(* Beside a master no child of an earlier one takes clients: those that it *)
(* finds are with a client, and they end with it.                          *)
THEOREM NewMasterIsAlone == Spec => []NewMasterAnswers
<1>1. ProcessInv => NewMasterAnswers
  BY DEF ProcessInv, NewMasterAnswers, Cleaning
<1> QED
  BY <1>1, ProcessInvariant, PTL

----------------------------------------------------------------------------
(* Lists and their segments.                                               *)
TextsOf(k) == IF k = "variables" THEN Texts ELSE DistinctTexts
JobTexts(k) == IF k = "pools" THEN {<<>>} ELSE TextsOf(k)
JobRecords == [used : BOOLEAN, sub : 0 .. OldJob, list : ListRecords]
SavedJobs(k) == [used : BOOLEAN, sub : 0 .. OldJob, list : JobTexts(k)]
AllValid(h, L) ==
  /\ \A o \in DOMAIN L : Valid(h, L[o])
  /\ \A o \in DOMAIN L : L[o].n > 0 => \A q \in DOMAIN L \ {o} : L[q].shm # L[o].shm
ListInv ==
  /\ kind \in {"hosts", "variables", "pools"} /\ requests \in 0 .. MaxRequests
  /\ heap \in Heaps(TextsOf(kind))
  /\ jobs \in [Jobs -> JobRecords] /\ pools \in ListRecords /\ edited \in ListRecords
  /\ kind = "pools" => \A j \in Jobs : jobs[j].list = EmptyList
  /\ AllValid(heap, Lists)
FileInv ==
  /\ file \in [head : BOOLEAN, jobs : [Jobs -> SavedJobs(kind) \cup {Gone}]]
  /\ saved \in [Jobs -> SavedJobs(kind)]

Owners(q, p, e) == [j \in Jobs |-> q[j].list] \o <<p, e>>

LEMMA OwnersAre ==
  ASSUME NEW q \in [Jobs -> JobRecords], NEW p \in ListRecords, NEW e \in ListRecords,
         NEW L, L = Owners(q, p, e)
  PROVE  /\ DOMAIN L = 1 .. NJobs + 2
         /\ \A j \in Jobs : j \in DOMAIN L /\ L[j] = q[j].list
         /\ L[NJobs + 1] = p /\ L[NJobs + 2] = e
<1> DEFINE a == [j \in Jobs |-> q[j].list]
           b == <<p, e>>
<1>1. a \in Seq(ListRecords) /\ Len(a) = NJobs /\ NJobs \in Nat
  <2>1. a \in [1 .. NJobs -> ListRecords]
    BY DEF Jobs, JobRecords
  <2>2. a \in Seq(ListRecords)
    BY <2>1, Sizes, SeqDef
  <2>3. DOMAIN a = 1 .. Len(a) /\ Len(a) \in Nat
    BY <2>2, LenProperties
  <2> QED
    BY <2>1, <2>2, <2>3, Sizes
<1>2. b \in Seq(ListRecords) /\ Len(b) = 2 /\ b[1] = p /\ b[2] = e
  OBVIOUS
<1>3. \A j \in Jobs : a[j] = q[j].list
  OBVIOUS
<1>4. L = a \o b
  BY DEF Owners
<1> HIDE DEF a, b
<1>5. /\ a \o b \in Seq(ListRecords) /\ Len(a \o b) = Len(a) + Len(b)
      /\ \A i \in 1 .. Len(a) + Len(b) : (a \o b)[i] = IF i <= Len(a) THEN a[i] ELSE b[i - Len(a)]
  BY <1>1, <1>2, ConcatProperties
<1>6. L \in Seq(ListRecords) /\ Len(L) = NJobs + 2
  BY <1>1, <1>2, <1>4, <1>5
<1>7. \A i \in 1 .. NJobs + 2 : L[i] = IF i <= NJobs THEN a[i] ELSE b[i - NJobs]
  BY <1>1, <1>2, <1>4, <1>5
<1>8. DOMAIN L = 1 .. NJobs + 2
  BY <1>6, LenProperties
<1>9. \A j \in Jobs : j \in 1 .. NJobs + 2 /\ j <= NJobs
  BY <1>1 DEF Jobs
<1>10. \A j \in Jobs : L[j] = q[j].list
  BY <1>3, <1>7, <1>9
<1>11. /\ NJobs + 1 \in 1 .. NJobs + 2 /\ NJobs + 2 \in 1 .. NJobs + 2
       /\ NJobs + 1 - NJobs = 1 /\ NJobs + 2 - NJobs = 2 /\ ~ (NJobs + 1 <= NJobs) /\ ~ (NJobs + 2 <= NJobs)
  BY <1>1
<1>12. L[NJobs + 1] = b[1] /\ L[NJobs + 2] = b[2]
  <2>1. \A i \in 1 .. NJobs + 2 : \A k : ~ (i <= NJobs) /\ i - NJobs = k => L[i] = b[k]
    BY <1>7
  <2> QED
    BY <1>1, <1>11, <2>1
<1> QED
  BY <1>2, <1>8, <1>9, <1>10, <1>12

LEMMA OwnersOf ==
  ASSUME NEW q \in [Jobs -> JobRecords], NEW p \in ListRecords, NEW e \in ListRecords,
         NEW L, L = Owners(q, p, e), NEW o \in DOMAIN L
  PROVE  \/ o \in Jobs /\ L[o] = q[o].list
         \/ o = NJobs + 1 /\ L[o] = p
         \/ o = NJobs + 2 /\ L[o] = e
<1>1. o \in 1 .. NJobs + 2
  BY OwnersAre
<1>2. o \in Jobs \/ o = NJobs + 1 \/ o = NJobs + 2
  BY <1>1, Sizes DEF Jobs
<1> QED
  BY <1>2, OwnersAre

(* One list changes; the segment it had may be left to nobody.             *)
LEMMA OneListChanges ==
  ASSUME NEW h, NEW g, NEW L, NEW M, DOMAIN M = DOMAIN L, NEW o \in DOMAIN L,
         AllValid(h, L), \A q \in DOMAIN L : q # o => M[q] = L[q],
         Valid(g, M[o]),
         \A s \in Segs : h[s] # Gone /\ s # L[o].shm => g[s] = h[s] /\ M[o].shm # s
  PROVE  AllValid(g, M)
<1>1. ASSUME NEW q \in DOMAIN L, q # o
      PROVE  /\ Valid(g, M[q])
             /\ M[q].n > 0 => M[q].shm \in Segs /\ h[M[q].shm] # Gone /\ M[q].shm # L[o].shm /\ M[q].shm # M[o].shm
  <2>1. Valid(h, M[q]) /\ M[q] = L[q]
    BY <1>1 DEF AllValid
  <2>2. CASE M[q].n = 0
    BY <2>1, <2>2 DEF Valid
  <2>3. CASE M[q].n > 0
    <3>1. M[q].shm \in Segs /\ h[M[q].shm] # Gone
      BY <2>1, <2>3, SegmentsAre DEF Valid, ListRecords
    <3>2. M[q].shm # L[o].shm
      BY <1>1, <2>1, <2>3 DEF AllValid
    <3>3. g[M[q].shm] = h[M[q].shm] /\ M[o].shm # M[q].shm
      BY <3>1, <3>2
    <3> QED
      BY <2>1, <2>3, <3>1, <3>2, <3>3 DEF Valid
  <2>4. M[q].n \in Nat
    BY <2>1 DEF Valid, ListRecords
  <2> QED
    BY <2>2, <2>3, <2>4
<1>2. ASSUME NEW q \in DOMAIN L, NEW k \in DOMAIN L, q # k, M[q].n > 0 PROVE M[k].shm # M[q].shm
  <2>1. CASE q # o /\ k # o
    BY <1>2, <2>1 DEF AllValid
  <2>2. CASE k = o
    BY <1>1, <1>2, <2>2
  <2>3. CASE q = o
    <3>1. M[q].shm \in Segs
      BY <1>2, <2>3, SegmentsAre DEF Valid, ListRecords
    <3>2. CASE M[k].n > 0
      BY <1>1, <1>2, <2>3, <3>2
    <3>3. CASE M[k].n = 0
      BY <1>1, <1>2, <2>3, <3>1, <3>3, SegmentsAre DEF Valid
    <3>4. M[k].n \in Nat
      BY <1>1, <1>2, <2>3 DEF Valid, ListRecords
    <3> QED
      BY <3>2, <3>3, <3>4
  <2> QED
    BY <2>1, <2>2, <2>3
<1> QED
  BY <1>1, <1>2 DEF AllValid

(* Lists are dropped, and segments that are not theirs change.             *)
LEMMA ListsDropped ==
  ASSUME NEW h, NEW g, NEW L, NEW M, DOMAIN M = DOMAIN L, AllValid(h, L),
         \A q \in DOMAIN L : M[q] = EmptyList \/
           (M[q] = L[q] /\ (L[q].n > 0 /\ L[q].shm \in Segs /\ h[L[q].shm] # Gone => g[L[q].shm] = h[L[q].shm]))
  PROVE  AllValid(g, M)
<1>0. EmptyList \in ListRecords /\ EmptyList.n = 0 /\ EmptyList.shm = None
  BY DEF EmptyList, ListRecords, None
<1>1. ASSUME NEW q \in DOMAIN L PROVE Valid(g, M[q])
  <2>1. CASE M[q] = EmptyList
    BY <1>0, <2>1 DEF Valid
  <2>2. CASE M[q] # EmptyList
    <3>1. Valid(h, L[q]) /\ M[q] = L[q]
      BY <2>2 DEF AllValid
    <3>2. L[q].n > 0 => L[q].shm \in Segs
      BY <3>1, SegmentsAre DEF Valid, ListRecords
    <3> QED
      BY <2>2, <3>1, <3>2 DEF Valid
  <2> QED
    BY <2>1, <2>2
<1>2. ASSUME NEW q \in DOMAIN L, NEW k \in DOMAIN L, q # k, M[q].n > 0 PROVE M[k].shm # M[q].shm
  <2>1. M[q] = L[q] /\ M[q].shm \in Segs
    BY <1>0, <1>1, <1>2, SegmentsAre DEF Valid, ListRecords
  <2>2. M[k] = L[k] \/ M[k].shm = None
    BY <1>0
  <2> QED
    BY <1>2, <2>1, <2>2, SegmentsAre DEF AllValid
<1> QED
  BY <1>1, <1>2 DEF AllValid

(* A list of a job, the pools, or the list a user edits changes.           *)
LEMMA ListsAreLawful ==
  ASSUME ListInv
  PROVE  /\ Lawful(TextsOf(kind), heap, pools) /\ Lawful(TextsOf(kind), heap, edited)
         /\ Lawful(TextsOf(kind), heap, EmptyList)
         /\ \A j \in Jobs : Lawful(TextsOf(kind), heap, jobs[j].list)
<1>1. TextsOf(kind) \subseteq Texts /\ <<>> \in TextsOf(kind)
  BY EmptyText DEF TextsOf, DistinctTexts
<1>2. AllValid(heap, Owners(jobs, pools, edited))
  BY DEF ListInv, Lists, Owners
<1>3. Valid(heap, pools) /\ Valid(heap, edited) /\ \A j \in Jobs : Valid(heap, jobs[j].list)
  <2>1. /\ NJobs + 1 \in 1 .. NJobs + 2 /\ NJobs + 2 \in 1 .. NJobs + 2
    BY Sizes
  <2> QED
    BY <1>2, <2>1, OwnersAre DEF ListInv, AllValid
<1>4. Lawful(TextsOf(kind), heap, pools)
  BY <1>1, <1>3 DEF ListInv, Lawful
<1> QED
  BY <1>1, <1>3, <1>4, EmptyIsLawful DEF ListInv, Lawful

LEMMA JobListChanges ==
  ASSUME ListInv, NEW j \in Jobs, NEW r, Good(TextsOf(kind), heap, jobs[j].list, r),
         NEW rec \in JobRecords, rec.list = r.list, kind = "pools" => r.list = EmptyList,
         jobs' = [jobs EXCEPT ![j] = rec], heap' = r.heap, requests' \in 0 .. MaxRequests,
         UNCHANGED <<pools, edited, kind>>
  PROVE  ListInv'
<1>0. jobs \in [Jobs -> JobRecords] /\ pools \in ListRecords /\ edited \in ListRecords
  BY DEF ListInv
<1> DEFINE next == [jobs EXCEPT ![j] = rec]
           L == Owners(jobs, pools, edited)
           M == Owners(next, pools, edited)
<1>1. next \in [Jobs -> JobRecords] /\ next[j] = rec /\ (\A i \in Jobs : i # j => next[i] = jobs[i]) /\ jobs' = next
  BY <1>0
<1>2. AllValid(heap, L) /\ Lists' = M
  BY DEF ListInv, Lists, Owners
<1>3. L = Owners(jobs, pools, edited) /\ M = Owners(next, pools, edited)
  OBVIOUS
<1> HIDE DEF L, M, next
<1>8. /\ DOMAIN L = 1 .. NJobs + 2 /\ L[NJobs + 1] = pools /\ L[NJobs + 2] = edited
      /\ \A i \in Jobs : i \in DOMAIN L /\ L[i] = jobs[i].list
  BY <1>0, <1>3, OwnersAre
<1>9. /\ DOMAIN M = 1 .. NJobs + 2 /\ M[NJobs + 1] = pools /\ M[NJobs + 2] = edited
      /\ \A i \in Jobs : i \in DOMAIN M /\ M[i] = next[i].list
  BY <1>0, <1>1, <1>3, OwnersAre
<1>4. DOMAIN M = DOMAIN L /\ j \in DOMAIN L /\ L[j] = jobs[j].list /\ M[j] = r.list
  BY <1>1, <1>8, <1>9
<1>5. ASSUME NEW q \in DOMAIN L, q # j PROVE M[q] = L[q]
  <2>1. q \in Jobs \/ q = NJobs + 1 \/ q = NJobs + 2
    BY <1>0, <1>3, OwnersOf
  <2> QED
    BY <1>1, <1>5, <1>8, <1>9, <2>1
<1>6. AllValid(heap', M)
  BY <1>2, <1>4, <1>5, OneListChanges DEF Good, Aside
<1>7. heap' \in Heaps(TextsOf(kind)) /\ \A i \in Jobs : kind = "pools" => next[i].list = EmptyList
  BY <1>1 DEF Good, ListInv
<1> QED
  BY <1>0, <1>1, <1>2, <1>6, <1>7 DEF ListInv

LEMMA PoolsChange ==
  ASSUME ListInv, NEW r, Good(TextsOf(kind), heap, pools, r),
         pools' = r.list, heap' = r.heap, requests' \in 0 .. MaxRequests, UNCHANGED <<jobs, edited, kind>>
  PROVE  ListInv'
<1> DEFINE L == Owners(jobs, pools, edited)
           M == Owners(jobs, pools', edited)
<1>0. jobs \in [Jobs -> JobRecords] /\ pools \in ListRecords /\ edited \in ListRecords /\ pools' \in ListRecords
  BY DEF ListInv, Good, Valid
<1>2. AllValid(heap, L) /\ Lists' = M
  BY DEF ListInv, Lists, Owners
<1>3. L = Owners(jobs, pools, edited) /\ M = Owners(jobs, pools', edited)
  OBVIOUS
<1> HIDE DEF L, M
<1>4. DOMAIN M = DOMAIN L /\ NJobs + 1 \in DOMAIN L /\ L[NJobs + 1] = pools /\ M[NJobs + 1] = r.list
  BY <1>0, <1>3, OwnersAre, Sizes
<1>5. \A q \in DOMAIN L : q # NJobs + 1 => M[q] = L[q]
  <2>1. SUFFICES ASSUME NEW q \in DOMAIN L, q # NJobs + 1 PROVE M[q] = L[q]
    OBVIOUS
  <2>2. q \in Jobs \/ q = NJobs + 2
    BY <1>0, <1>3, <2>1, OwnersOf
  <2> QED
    BY <1>0, <1>3, <2>1, <2>2, OwnersAre
<1>6. AllValid(heap', M)
  BY <1>2, <1>4, <1>5, OneListChanges DEF Good, Aside
<1>7. heap' \in Heaps(TextsOf(kind))
  BY DEF Good
<1> QED
  BY <1>0, <1>2, <1>6, <1>7 DEF ListInv

LEMMA EditedChanges ==
  ASSUME ListInv, NEW r, Good(TextsOf(kind), heap, edited, r),
         edited' = r.list, heap' = r.heap, requests' \in 0 .. MaxRequests, UNCHANGED <<jobs, pools, kind>>
  PROVE  ListInv'
<1> DEFINE L == Owners(jobs, pools, edited)
           M == Owners(jobs, pools, edited')
<1>0. jobs \in [Jobs -> JobRecords] /\ pools \in ListRecords /\ edited \in ListRecords /\ edited' \in ListRecords
  BY DEF ListInv, Good, Valid
<1>2. AllValid(heap, L) /\ Lists' = M
  BY DEF ListInv, Lists, Owners
<1>3. L = Owners(jobs, pools, edited) /\ M = Owners(jobs, pools, edited')
  OBVIOUS
<1> HIDE DEF L, M
<1>4. DOMAIN M = DOMAIN L /\ NJobs + 2 \in DOMAIN L /\ L[NJobs + 2] = edited /\ M[NJobs + 2] = r.list
  BY <1>0, <1>3, OwnersAre, Sizes
<1>5. \A q \in DOMAIN L : q # NJobs + 2 => M[q] = L[q]
  <2>1. SUFFICES ASSUME NEW q \in DOMAIN L, q # NJobs + 2 PROVE M[q] = L[q]
    OBVIOUS
  <2>2. q \in Jobs \/ q = NJobs + 1
    BY <1>0, <1>3, <2>1, OwnersOf
  <2> QED
    BY <1>0, <1>3, <2>1, <2>2, OwnersAre
<1>6. AllValid(heap', M)
  BY <1>2, <1>4, <1>5, OneListChanges DEF Good, Aside
<1>7. heap' \in Heaps(TextsOf(kind))
  BY DEF Good
<1> QED
  BY <1>0, <1>2, <1>6, <1>7 DEF ListInv

(* A list received is dropped, or takes the place of one that is freed.    *)
LEMMA DroppedIsGood ==
  ASSUME NEW T, NEW h, NEW l, NEW r, Lawful(T, h, l), Good(T, h, EmptyList, r)
  PROVE  Good(T, h, l, Result(EmptyList, r.heap, TRUE))
BY SegmentsAre DEF Good, Lawful, Valid, Aside, Result, EmptyList, ListRecords

LEMMA SwappedIsGood ==
  ASSUME NEW T, NEW h, NEW l, NEW r, Lawful(T, h, l), Good(T, h, EmptyList, r)
  PROVE  Good(T, h, l, Result(r.list, Removed(r.heap, l.shm), TRUE))
<1> DEFINE g == Removed(r.heap, l.shm)
<1>1. l.shm \in Segs \cup {None} /\ (l.shm \in Segs => h[l.shm] # Gone)
  BY SegmentsAre DEF Lawful, Valid, ListRecords
<1>2. g \in Heaps(T) /\ \A q \in Segs : q # l.shm => g[q] = r.heap[q]
  BY <1>1, RemovedIsAside DEF Good
<1>3. \A s \in Segs : h[s] # Gone => r.heap[s] = h[s] /\ r.list.shm # s
  BY SegmentsAre DEF Good, Aside, EmptyList
<1>4. r.list.n > 0 => r.list.shm \in Segs /\ r.list.shm # l.shm
  <2>1. r.list.n > 0 => r.list.shm \in Segs
    BY SegmentsAre DEF Good, Valid, ListRecords
  <2>2. r.list.shm \in Segs => r.list.shm # l.shm
    BY <1>1, <1>3, SegmentsAre
  <2> QED
    BY <2>1, <2>2
<1> HIDE DEF g
<1>5. Valid(g, r.list)
  BY <1>2, <1>4 DEF Good, Valid
<1>6. \A s \in Segs : h[s] # Gone /\ s # l.shm => g[s] = h[s] /\ r.list.shm # s
  BY <1>2, <1>3
<1> QED
  BY <1>2, <1>5, <1>6 DEF Good, Aside, Result, g

LEMMA ListsKept ==
  ASSUME ListInv, NEW r, Good(TextsOf(kind), heap, EmptyList, r), heap' = r.heap,
         requests' \in 0 .. MaxRequests, UNCHANGED <<jobs, pools, edited, kind>>
  PROVE  ListInv'
<1>1. AllValid(heap, Lists) /\ Lists' = Lists
  BY DEF ListInv, Lists
<1>2. \A s \in Segs : heap[s] # Gone => heap'[s] = heap[s]
  BY SegmentsAre DEF Good, Aside, EmptyList
<1>3. AllValid(heap', Lists)
  BY <1>1, <1>2, ListsDropped
<1>4. heap' \in Heaps(TextsOf(kind))
  BY DEF Good
<1> QED
  BY <1>1, <1>3, <1>4 DEF ListInv

(* No list but the one a user edits.                                       *)
LEMMA OneListLeft ==
  ASSUME NEW g, NEW e, Valid(g, e), NEW q, q = [j \in Jobs |-> EmptyJob]
  PROVE  q \in [Jobs -> JobRecords] /\ EmptyList \in ListRecords /\ AllValid(g, Owners(q, EmptyList, e))
<1> DEFINE L == Owners(q, EmptyList, e)
<1>1. EmptyList \in ListRecords /\ EmptyList.n = 0 /\ EmptyList.shm = None /\ e \in ListRecords
  BY DEF EmptyList, ListRecords, Valid, None
<1>2. 0 \in 0 .. OldJob
  BY Sizes DEF OldJob
<1>3. q \in [Jobs -> JobRecords] /\ \A j \in Jobs : q[j].list = EmptyList
  BY <1>1, <1>2 DEF EmptyJob, JobRecords
<1>4. L = Owners(q, EmptyList, e)
  OBVIOUS
<1> HIDE DEF L
<1>5. ASSUME NEW o \in DOMAIN L PROVE L[o] = EmptyList \/ (o = NJobs + 2 /\ L[o] = e)
  BY <1>1, <1>3, <1>4, <1>5, OwnersOf
<1>6. ASSUME NEW o \in DOMAIN L PROVE Valid(g, L[o])
  BY <1>1, <1>5, <1>6 DEF Valid
<1>7. ASSUME NEW o \in DOMAIN L, NEW k \in DOMAIN L, o # k, L[o].n > 0 PROVE L[k].shm # L[o].shm
  <2>1. L[o] = e /\ L[k] = EmptyList
    BY <1>1, <1>5, <1>7
  <2> QED
    BY <1>1, <1>7, <2>1 DEF Valid
<1> QED
  BY <1>1, <1>3, <1>6, <1>7 DEF AllValid, L

LEMMA FirstListIsValid ==
  ASSUME kind \in {"hosts", "variables", "pools"}
  PROVE  FirstHeap \in Heaps(TextsOf(kind)) /\ Valid(FirstHeap, FirstEdited)
<1> DEFINE t == <<OldEntry>>
<1>1. OldEntry \in Names
  BY NamesAssumption DEF OldEntry
<1>2. t \in Texts /\ Len(t) = 1 /\ t \in DistinctTexts
  BY <1>1 DEF Texts, DistinctTexts, Distinct
<1> HIDE DEF t
<1>3. t \in TextsOf(kind)
  BY <1>2 DEF TextsOf
<1>4. FirstHeap = [s \in Segs |-> IF s = FirstEdited.shm THEN t ELSE Gone]
  BY DEF FirstHeap, t
<1>5. FirstHeap \in Heaps(TextsOf(kind))
  BY <1>3, <1>4 DEF Heaps
<1>6. FirstEdited \in ListRecords /\ FirstEdited.n \in {0, 1}
  BY SegmentsAre DEF FirstEdited, EmptyList, ListRecords
<1>7. (FirstEdited.n = 0) = (FirstEdited.shm = None)
  BY DEF FirstEdited, EmptyList, None
<1>8. FirstEdited.n > 0 => FirstEdited.n = 1 /\ FirstEdited.shm \in Segs /\ FirstHeap[FirstEdited.shm] = t
  BY <1>4, <1>6, <1>7, SegmentsAre DEF ListRecords
<1>9. t # Gone
  BY <1>2, SegmentsAre
<1> QED
  BY <1>2, <1>5, <1>6, <1>7, <1>8, <1>9 DEF Valid

----------------------------------------------------------------------------
(* What a start loads.                                                     *)
LEMMA NothingIsReceived ==
  ASSUME NEW h, NEW f, NEW c
  PROVE  recv_envvars(h, <<>>, f, c) = Result(EmptyList, h, TRUE)
<1> DEFINE first == Result(EmptyList, h, TRUE)
           t == <<>>
           next(i, r) == envvars_variable_add(r.heap, r.list, t[i], IF i = c THEN f ELSE "no")
           Adds(k) == k = [i \in 0 .. 0 |-> IF i = 0 THEN first ELSE next(i, k[i - 1])]
<1>1. recv_envvars(h, t, f, c) = (CHOOSE k : Adds(k))[0]
  BY EmptyText DEF recv_envvars, Built
<1> HIDE DEF first, next
<1>2. Adds([i \in 0 .. 0 |-> first])
  OBVIOUS
<1>3. Adds(CHOOSE k : Adds(k))
  BY <1>2
<1> QED
  BY <1>1, <1>3 DEF first

LEMMA LoadedIsGood ==
  ASSUME kind \in {"hosts", "variables", "pools"}, NEW t \in JobTexts(kind), NEW h, NEW f,
         Lawful(TextsOf(kind), h, EmptyList), NEW q, q = Loaded(t, h, f)
  PROVE  /\ Good(TextsOf(kind), h, EmptyList, q)
         /\ kind = "pools" => q.list = EmptyList
         /\ kind = "hosts" /\ q.ok => Entries(q.heap, q.list) = t
         /\ kind = "hosts" /\ f = "no" /\ ~ NoneLeft(h) => q.ok
         /\ kind # "hosts" => q.ok
<1>1. CASE kind = "hosts"
  BY <1>1, LoadedHostsAreGood DEF Loaded, TextsOf, JobTexts
<1>2. CASE kind = "variables"
  <2> DEFINE r == recv_envvars(h, t, f, Len(t))
  <2>1. Good(Texts, h, EmptyList, r)
    BY <1>2, ReceivedVariablesAreGood DEF TextsOf, JobTexts
  <2>2. q = [r EXCEPT !.ok = TRUE]
    BY <1>2 DEF Loaded
  <2> HIDE DEF r
  <2>3. q = Result(r.list, r.heap, TRUE)
    BY <2>1, <2>2, ZenonT(60) DEF Good, Result
  <2>4. q.list = r.list /\ q.heap = r.heap /\ q.ok = TRUE /\ q = Result(q.list, q.heap, q.ok)
    BY <2>3 DEF Result
  <2> QED
    BY <1>2, <2>1, <2>4 DEF Good, Aside, TextsOf
<1>3. CASE kind = "pools"
  <2>1. t = <<>>
    BY <1>3 DEF JobTexts
  <2>2. q = [Result(EmptyList, h, TRUE) EXCEPT !.ok = TRUE]
    BY <1>3, <2>1, NothingIsReceived DEF Loaded
  <2>3. q = Forgotten(h, TRUE)
    BY <2>2, ZenonT(60) DEF Forgotten, Result
  <2>4. q.list = EmptyList /\ q.ok = TRUE
    BY <2>3 DEF Forgotten, Result
  <2> QED
    BY <1>3, <2>3, <2>4, ForgottenIsGood
<1> QED
  BY <1>1, <1>2, <1>3

OneByOne(f, c, r) ==
  /\ r[0] = Result(EmptyList, heap, TRUE)
  /\ \A j \in Jobs : /\ ~ r[j - 1].ok => r[j] = r[j - 1]
                     /\ r[j - 1].ok => r[j] = Loaded(file.jobs[j].list, r[j - 1].heap, IF j = c THEN f ELSE "no")
  /\ \A j \in 0 .. NJobs : Good(TextsOf(kind), heap, EmptyList, r[j])
LEMMA LoadedOneByOne ==
  ASSUME ListInv, FileInv, \A j \in Jobs : file.jobs[j] # Gone, NEW f, NEW c, NEW r, r = LoadedJobs(f, c)
  PROVE  OneByOne(f, c, r)
<1> DEFINE T == TextsOf(kind)
           n == NJobs
           first == Result(EmptyList, heap, TRUE)
           next(j, q) == IF ~ q.ok THEN q ELSE Loaded(file.jobs[j].list, q.heap, IF j = c THEN f ELSE "no")
           Adds(k) == k = [j \in 0 .. n |-> IF j = 0 THEN first ELSE next(j, k[j - 1])]
           Whole == {q \in [list : ListRecords, heap : Heaps(T), ok : BOOLEAN] : Good(T, heap, EmptyList, q)}
<1>0. r = CHOOSE k : Adds(k)
  <2> HIDE DEF Loaded
  <2>1. \A k : Adds(k) <=> k = [j \in 0 .. NJobs |-> IF j = 0 THEN Result(EmptyList, heap, TRUE)
                                    ELSE IF ~ k[j - 1].ok THEN k[j - 1]
                                    ELSE Loaded(file.jobs[j].list, k[j - 1].heap, IF j = c THEN f ELSE "no")]
    OBVIOUS
  <2> QED
    BY DEF LoadedJobs
<1>1. n \in Nat /\ \A j \in 1 .. n : file.jobs[j].list \in JobTexts(kind)
  BY Sizes DEF FileInv, Jobs, SavedJobs
<1>2. Lawful(T, heap, EmptyList) /\ Good(T, heap, EmptyList, first)
  BY ListsAreLawful DEF Good, Lawful, Aside, Result, EmptyList
<1>3. ASSUME NEW j \in 1 .. n, NEW q, Good(T, heap, EmptyList, q)
      PROVE  Good(T, heap, EmptyList, next(j, q))
  <2>1. CASE ~ q.ok
    BY <1>3, <2>1
  <2>2. CASE q.ok
    <3> DEFINE p == Loaded(file.jobs[j].list, q.heap, IF j = c THEN f ELSE "no")
    <3>1. Lawful(T, q.heap, q.list) /\ Lawful(T, q.heap, EmptyList)
      BY <1>2, <1>3, LawfulAfterGood, EmptyIsLawful
    <3>2. Good(T, q.heap, EmptyList, p)
      <4> HIDE DEF Loaded
      <4> QED
        BY <1>1, <3>1, LoadedIsGood DEF ListInv
    <3> HIDE DEF p
    <3>3. Good(T, q.heap, q.list, p)
      BY <3>1, <3>2, GoodFromEmpty
    <3>4. Good(T, heap, EmptyList, p)
      BY <1>2, <1>3, <3>3, GoodAfterGood
    <3> QED
      BY <2>2, <3>4 DEF p
  <2> QED
    BY <2>1, <2>2
<1>4. first \in Whole /\ \A j \in 1 .. n, q \in Whole : next(j, q) \in Whole
  <2> HIDE DEF next, n, first, T
  <2> QED
    BY <1>2, <1>3, GoodIsResult
<1>6. \A q \in Whole : Good(T, heap, EmptyList, q)
  OBVIOUS
<1> HIDE DEF n, first, next, Whole, T
<1>7. \E k : Adds(k)
  <2> DEFINE step == [p \in (1 .. n) \X Whole |-> next(p[1], p[2])]
  <2>1. \A j \in 1 .. n, q \in Whole : step[<<j, q>>] = next(j, q)
    OBVIOUS
  <2> HIDE DEF step
  <2>2. PICK k : Recursive(k, n, first, step)
    BY <1>1, RecursionExists
  <2>3. \A j \in 0 .. n : k[j] \in Whole
    BY <1>1, <1>4, <2>1, <2>2, RecursionStays
  <2>4. ASSUME NEW j \in 0 .. n PROVE (IF j = 0 THEN first ELSE step[<<j, k[j - 1]>>]) = IF j = 0 THEN first ELSE next(j, k[j - 1])
    BY <1>1, <2>1, <2>3
  <2>5. Adds(k)
    BY <2>2, <2>4 DEF Recursive
  <2> QED
    BY <2>5
<1>8. Adds(r)
  BY <1>0, <1>7
<1>9. r[0] = first /\ \A j \in 1 .. n : r[j] = next(j, r[j - 1])
  BY <1>1, <1>8
<1>10. \A j \in 0 .. n : r[j] \in Whole
  <2> DEFINE S == {j \in 0 .. n : r[j] \in Whole}
  <2>2. 0 \in S /\ \A j \in 1 .. n : j - 1 \in S => j \in S
    BY <1>1, <1>4, <1>9
  <2> HIDE DEF S
  <2>3. \A j \in 0 .. n : j \in S
    BY <1>1, <2>2, IntervalInduction
  <2> QED
    BY <2>3 DEF S
<1>11. \A j \in Jobs : /\ ~ r[j - 1].ok => r[j] = r[j - 1]
                       /\ r[j - 1].ok => r[j] = Loaded(file.jobs[j].list, r[j - 1].heap, IF j = c THEN f ELSE "no")
  <2> HIDE DEF Loaded
  <2> QED
    BY <1>9 DEF n, next, Jobs
<1> QED
  BY <1>6, <1>9, <1>10, <1>11 DEF T, n, first, OneByOne

(* The lists of the jobs loaded have each a segment of its own, that       *)
(* nothing had before.                                                     *)
LEMMA LoadedListsAreValid ==
  ASSUME ListInv, FileInv, \A j \in Jobs : file.jobs[j] # Gone, NEW f, NEW c, NEW r, r = LoadedJobs(f, c),
         r[NJobs].ok
  PROVE  LET g == r[NJobs].heap
         IN  /\ \A j \in Jobs : /\ Valid(g, r[j].list)
                                /\ kind = "hosts" => Entries(g, r[j].list) = file.jobs[j].list
                                /\ kind = "pools" => r[j].list = EmptyList
             /\ \A i, j \in Jobs : i # j /\ r[i].list.n > 0 => r[j].list.shm # r[i].list.shm
             /\ \A j \in Jobs, s \in Segs : heap[s] # Gone => r[j].list.shm # s
<1> DEFINE T == TextsOf(kind)
           Each(g, j) == /\ Valid(g, r[j].list)
                         /\ kind = "hosts" => Entries(g, r[j].list) = file.jobs[j].list
                         /\ kind = "pools" => r[j].list = EmptyList
                         /\ \A s \in Segs : heap[s] # Gone => r[j].list.shm # s
           Apart(i, j) == r[i].list.n > 0 => r[j].list.shm # r[i].list.shm
           P(m) == r[m].ok => /\ \A j \in 1 .. m : Each(r[m].heap, j)
                              /\ \A i, j \in 1 .. m : i # j => Apart(i, j)
           S == {m \in 0 .. NJobs : P(m)}
<1>1. NJobs \in Nat
  BY Sizes
<1>2. /\ \A j \in Jobs : /\ ~ r[j - 1].ok => r[j] = r[j - 1]
                         /\ r[j - 1].ok => r[j] = Loaded(file.jobs[j].list, r[j - 1].heap, IF j = c THEN f ELSE "no")
      /\ \A j \in 0 .. NJobs : Good(T, heap, EmptyList, r[j])
  <2>1. OneByOne(f, c, r)
    BY LoadedOneByOne
  <2> QED
    BY <2>1 DEF OneByOne
<1>3. 0 \in S
  BY <1>1
<1>4. ASSUME NEW m \in 1 .. NJobs, m - 1 \in S PROVE m \in S
  <2>1. SUFFICES ASSUME r[m].ok
                 PROVE  /\ \A j \in 1 .. m : Each(r[m].heap, j)
                        /\ \A i, j \in 1 .. m : i # j => Apart(i, j)
    BY <1>1
  <2> DEFINE h == r[m - 1].heap
             q == r[m]
  <2>2. m \in Jobs /\ m - 1 \in 0 .. NJobs /\ m \in 0 .. NJobs
    BY <1>1 DEF Jobs
  <2>3. r[m - 1].ok /\ q = Loaded(file.jobs[m].list, h, IF m = c THEN f ELSE "no")
    BY <1>2, <2>1, <2>2
  <2>4. Good(T, heap, EmptyList, r[m - 1]) /\ Lawful(T, heap, EmptyList)
    BY <1>2, <2>2, ListsAreLawful
  <2>5. Lawful(T, h, EmptyList)
    BY <2>4, LawfulAfterGood, EmptyIsLawful
  <2>6. file.jobs[m].list \in JobTexts(kind)
    BY <2>2 DEF FileInv, SavedJobs
  <2>7. /\ Good(T, h, EmptyList, q)
        /\ kind = "pools" => q.list = EmptyList
        /\ kind = "hosts" => Entries(q.heap, q.list) = file.jobs[m].list
    <3> HIDE DEF h, q, T
    <3> QED
      BY <2>1, <2>3, <2>5, <2>6, LoadedIsGood DEF ListInv, q, T
  <2>8. \A s \in Segs : h[s] # Gone => q.heap[s] = h[s] /\ q.list.shm # s
    BY <2>7, SegmentsAre DEF Good, Aside, EmptyList
  <2>9. \A s \in Segs : heap[s] # Gone => h[s] # Gone
    BY <2>4, SegmentsAre DEF Good, Aside, EmptyList
  <2>10. P(m - 1)
    BY <1>4
  <2> HIDE DEF h, q
  <2>11. \A j \in 1 .. m - 1 : Each(h, j)
    BY <2>3, <2>10 DEF h
  <2>12. \A i, j \in 1 .. m - 1 : i # j => Apart(i, j)
    BY <2>3, <2>10 DEF h
  <2>13. ASSUME NEW j \in 1 .. m - 1
         PROVE  Each(q.heap, j) /\ Apart(m, j) /\ Apart(j, m)
    <3>1. Each(h, j)
      BY <2>11
    <3>2. CASE r[j].list.n > 0
      <4>1. r[j].list.shm \in Segs /\ h[r[j].list.shm] # Gone
        BY <3>1, <3>2, SegmentsAre DEF Valid, ListRecords
      <4>2. q.heap[r[j].list.shm] = h[r[j].list.shm] /\ q.list.shm # r[j].list.shm
        BY <2>8, <4>1
      <4>3. Valid(q.heap, r[j].list) /\ Entries(q.heap, r[j].list) = Entries(h, r[j].list)
        BY <3>1, <4>2 DEF Valid, Entries
      <4> QED
        BY <3>1, <4>2, <4>3 DEF q
    <3>3. CASE r[j].list.n = 0
      <4>1. r[j].list.shm = None /\ Valid(q.heap, r[j].list) /\ Entries(q.heap, r[j].list) = Entries(h, r[j].list)
        BY <3>1, <3>3 DEF Valid, Entries
      <4>2. q.list.n > 0 => q.list.shm # None
        BY <2>7 DEF Good, Valid
      <4> QED
        BY <3>1, <3>3, <4>1, <4>2 DEF q
    <3>4. r[j].list.n \in Nat
      BY <3>1 DEF Valid, ListRecords
    <3> QED
      BY <3>2, <3>3, <3>4
  <2>14. Each(q.heap, m)
    BY <2>7, <2>8, <2>9 DEF Good, q
  <2>15. \A j \in 1 .. m : j = m \/ j \in 1 .. m - 1
    BY <1>1
  <2> HIDE DEF Each, Apart
  <2>16. \A i, j \in 1 .. m : i # j => Apart(i, j)
    BY <2>12, <2>13, <2>15
  <2> QED
    BY <2>13, <2>14, <2>15, <2>16 DEF q
<1> HIDE DEF S
<1>5. \A m \in 0 .. NJobs : m \in S
  BY <1>1, <1>3, <1>4, IntervalInduction
<1>6. P(NJobs)
  BY <1>1, <1>5 DEF S
<1> QED
  BY <1>6 DEF Jobs

LEMMA JobFields ==
  ASSUME NEW a, NEW l \in ListRecords
  PROVE  /\ a \in JobRecords => /\ [a EXCEPT !.list = l] \in JobRecords /\ [a EXCEPT !.list = l].list = l
                                /\ [a EXCEPT !.list = l].used = a.used /\ [a EXCEPT !.list = l].sub = a.sub
         /\ \A k : a \in SavedJobs(k) => /\ [a EXCEPT !.list = l] \in JobRecords /\ [a EXCEPT !.list = l].list = l
                                         /\ [a EXCEPT !.list = l].used = a.used /\ [a EXCEPT !.list = l].sub = a.sub
BY ZenonT(60) DEF JobRecords, SavedJobs

LEMMA EmptyRecords == EmptyList \in ListRecords /\ EmptyJob \in JobRecords /\ Reserved \in JobRecords
                      /\ EmptyJob.list = EmptyList /\ Reserved.list = EmptyList
                      /\ EmptyJob.used = FALSE /\ EmptyJob.sub = 0 /\ Reserved.used = TRUE /\ Reserved.sub = 0
<1>1. EmptyList \in ListRecords
  BY SegmentsAre DEF EmptyList, ListRecords
<1>2. 0 \in 0 .. OldJob
  BY Sizes DEF OldJob
<1>3. [used |-> FALSE, sub |-> 0, list |-> EmptyList] \in JobRecords
  BY <1>1, <1>2 DEF JobRecords
<1>4. ASSUME NEW a \in JobRecords, NEW b, b = [a EXCEPT !.used = TRUE]
      PROVE  b \in JobRecords /\ b.used = TRUE /\ b.sub = a.sub /\ b.list = a.list
  BY <1>4, ZenonT(60) DEF JobRecords
<1>5. EmptyJob.list = EmptyList /\ EmptyJob.used = FALSE /\ EmptyJob.sub = 0
  BY DEF EmptyJob
<1> QED
  BY <1>1, <1>3, <1>4, <1>5 DEF EmptyJob, Reserved

(* The table after a start, whether its lists were loaded or not.          *)
LEMMA LoadKeepsLists ==
  ASSUME ListInv, FileInv, NEW f, NEW c, Load(f, c)
  PROVE  ListInv' /\ FileInv'
<1> DEFINE r == LoadedJobs(f, c)
           whole == file.head /\ \A j \in Jobs : file.jobs[j] # Gone
           loads == whole /\ r[NJobs].ok
           Empty == [j \in Jobs |-> EmptyJob]
<1>1. /\ UNCHANGED <<file, saved, kind, edited, requests>> /\ pools' = EmptyList
      /\ jobs' = [j \in Jobs |-> IF loads THEN [file.jobs[j] EXCEPT !.list = r[j].list] ELSE EmptyJob]
      /\ heap' = IF whole THEN r[NJobs].heap ELSE heap
  BY DEF Load
<1>2. r = LoadedJobs(f, c)
  OBVIOUS
<1>3. FileInv'
  BY <1>1 DEF FileInv
<1>4. Lawful(TextsOf(kind), heap, EmptyList) /\ Valid(heap, edited)
  BY ListsAreLawful DEF Lawful
<1> HIDE DEF r
<1>5. whole => OneByOne(f, c, r)
  BY <1>2, LoadedOneByOne
<1>6. /\ heap' \in Heaps(TextsOf(kind))
      /\ \A s \in Segs : heap[s] # Gone => heap'[s] = heap[s]
  <2>1. CASE whole
    <3>0. NJobs \in 0 .. NJobs
      BY Sizes
    <3>1. Good(TextsOf(kind), heap, EmptyList, r[NJobs])
      BY <1>5, <2>1, <3>0, Zenon DEF OneByOne
    <3> QED
      BY <1>1, <2>1, <3>1, SegmentsAre DEF Good, Aside, EmptyList
  <2>2. CASE ~ whole
    BY <1>1, <2>2 DEF ListInv
  <2> QED
    BY <2>1, <2>2
<1>7. Valid(heap', edited) /\ (edited.n > 0 => edited.shm \in Segs /\ heap[edited.shm] # Gone) /\ edited.n \in Nat
  <2> HIDE DEF whole
  <2>1. edited.n \in Nat /\ (edited.n > 0 => edited.shm \in Segs /\ heap[edited.shm] # Gone)
    BY <1>4, SegmentsAre DEF Valid, ListRecords
  <2>2. edited.n > 0 => heap'[edited.shm] = heap[edited.shm]
    BY <1>6, <2>1
  <2> QED
    BY <1>4, <2>1, <2>2 DEF Valid
<1>8. CASE ~ loads
  <2>1. jobs' = Empty
    BY <1>1, <1>8
  <2>2. Empty \in [Jobs -> JobRecords] /\ AllValid(heap', Owners(Empty, EmptyList, edited))
    BY <1>7, OneListLeft
  <2>3. \A j \in Jobs : Empty[j].list = EmptyList
    BY EmptyRecords
  <2> QED
    BY <1>1, <1>3, <1>6, <2>1, <2>2, <2>3, EmptyRecords DEF ListInv, Lists, Owners
<1>9. CASE loads
  <2>1. /\ \A j \in Jobs : Valid(heap', r[j].list) /\ (kind = "pools" => r[j].list = EmptyList)
        /\ \A i, j \in Jobs : i # j /\ r[i].list.n > 0 => r[j].list.shm # r[i].list.shm
        /\ \A j \in Jobs, s \in Segs : heap[s] # Gone => r[j].list.shm # s
    BY <1>1, <1>2, <1>9, LoadedListsAreValid
  <2>2. \A j \in Jobs : file.jobs[j] \in SavedJobs(kind) /\ r[j].list \in ListRecords
    BY <1>9, <2>1 DEF FileInv, Valid
  <2> DEFINE Full == [j \in Jobs |-> [file.jobs[j] EXCEPT !.list = r[j].list]]
  <2>3. jobs' = Full
    BY <1>1, <1>9
  <2>4. Full \in [Jobs -> JobRecords] /\ \A j \in Jobs : Full[j].list = r[j].list
    BY <2>2, JobFields
  <2> DEFINE M == Owners(Full, EmptyList, edited)
  <2>5. M = Owners(Full, EmptyList, edited) /\ Lists' = M
    BY <1>1, <2>3 DEF Lists, Owners
  <2> HIDE DEF M, Full, whole
  <2>6. EmptyList \in ListRecords /\ edited \in ListRecords /\ NJobs \in Nat
    BY EmptyRecords, Sizes DEF ListInv
  <2>7. ASSUME NEW o \in DOMAIN M
        PROVE  \/ o \in Jobs /\ M[o] = r[o].list
               \/ o = NJobs + 1 /\ M[o] = EmptyList
               \/ o = NJobs + 2 /\ M[o] = edited
    BY <2>4, <2>5, <2>6, <2>7, OwnersOf
  <2>8. Valid(heap', EmptyList)
    BY <2>6 DEF Valid, EmptyList
  <2>9. \A o \in DOMAIN M : Valid(heap', M[o])
    BY <1>7, <2>1, <2>7, <2>8
  <2>10. ASSUME NEW o \in DOMAIN M, NEW k \in DOMAIN M, o # k, M[o].n > 0 PROVE M[k].shm # M[o].shm
    <3>1. M[o].shm \in Segs /\ M[o] # EmptyList
      BY <2>9, <2>10, SegmentsAre DEF Valid, ListRecords, EmptyList
    <3>2. CASE M[k] = EmptyList
      BY <3>1, <3>2, SegmentsAre DEF EmptyList
    <3>3. CASE o \in Jobs /\ M[o] = r[o].list /\ k \in Jobs /\ M[k] = r[k].list
      BY <2>1, <2>10, <3>3
    <3>4. CASE o \in Jobs /\ M[o] = r[o].list /\ M[k] = edited
      <4>1. CASE edited.n > 0
        BY <1>7, <2>1, <3>4, <4>1
      <4>2. CASE edited.n = 0
        BY <1>7, <3>1, <3>4, <4>2, SegmentsAre DEF Valid
      <4> QED
        BY <1>7, <4>1, <4>2
    <3>5. CASE o = NJobs + 2 /\ M[o] = edited /\ k \in Jobs /\ M[k] = r[k].list
      BY <1>7, <2>1, <2>10, <3>5
    <3> QED
      BY <2>7, <2>10, <3>1, <3>2, <3>3, <3>4, <3>5
  <2>11. AllValid(heap', M)
    BY <2>9, <2>10 DEF AllValid
  <2>12. \A j \in Jobs : kind = "pools" => Full[j].list = EmptyList
    BY <2>1, <2>4
  <2> QED
    BY <1>1, <1>3, <1>6, <2>3, <2>4, <2>5, <2>6, <2>11, <2>12 DEF ListInv
<1> QED
  BY <1>8, <1>9

LEMMA SentIsText ==
  ASSUME ListInv
  PROVE  Sent \in Texts /\ (kind = "pools" => TextsOf(kind) = DistinctTexts) /\ (kind = "variables" => TextsOf(kind) = Texts)
BY ListsAreLawful, EntriesAre, EmptyText DEF Sent, TextsOf

SentVariables == IF kind = "variables" THEN Sent ELSE <<>>
LEMMA ReceivedIsGood ==
  ASSUME ListInv, NEW f, NEW k, NEW r, r = recv_envvars(heap, SentVariables, f, k)
  PROVE  Good(TextsOf(kind), heap, EmptyList, r) /\ (kind # "variables" => r.list = EmptyList /\ r.heap = heap)
<1>1. CASE kind = "variables"
  <2>1. r = recv_envvars(heap, Sent, f, k)
    BY <1>1 DEF SentVariables
  <2> QED
    BY <1>1, <2>1, SentIsText, ListsAreLawful, ReceivedVariablesAreGood
<1>2. CASE kind # "variables"
  <2>1. r = Forgotten(heap, TRUE)
    BY <1>2, NothingIsReceived DEF Forgotten, SentVariables
  <2>2. r.list = EmptyList /\ r.heap = heap
    BY <2>1 DEF Forgotten, Result
  <2> QED
    BY <1>2, <2>1, <2>2, ListsAreLawful, ForgottenIsGood
<1> QED
  BY <1>1, <1>2

LEMMA ListsUnchanged ==
  ASSUME ListInv, UNCHANGED <<jobs, pools, heap, edited, kind>>, requests' \in 0 .. MaxRequests
  PROVE  ListInv'
BY DEF ListInv, Lists

LEMMA OnlyEditedLeft ==
  ASSUME kind' \in {"hosts", "variables", "pools"}, requests' \in 0 .. MaxRequests,
         heap' \in Heaps(TextsOf(kind')), Valid(heap', edited'),
         jobs' = [j \in Jobs |-> EmptyJob], pools' = EmptyList
  PROVE  ListInv'
<1> DEFINE Empty == [j \in Jobs |-> EmptyJob]
<1>1. Empty \in [Jobs -> JobRecords] /\ AllValid(heap', Owners(Empty, EmptyList, edited'))
  BY OneListLeft
<1>2. \A j \in Jobs : Empty[j].list = EmptyList
  BY EmptyRecords
<1>3. Lists' = Owners(Empty, EmptyList, edited')
  BY DEF Lists, Owners
<1> QED
  BY <1>1, <1>2, <1>3, EmptyRecords DEF ListInv, Valid

LEMMA ListStep == ListInv /\ FileInv /\ ProcessInv /\ [Next]_vars => ListInv'
<1> SUFFICES ASSUME ListInv, FileInv, ProcessInv, [Next]_vars PROVE ListInv'
  OBVIOUS
<1> DEFINE T == TextsOf(kind)
<1>0. requests \in 0 .. MaxRequests /\ (Request => requests' \in 0 .. MaxRequests) /\ kind \in {"hosts", "variables", "pools"}
  BY Sizes DEF ListInv, Request
<1>a. /\ Lawful(T, heap, pools) /\ Lawful(T, heap, edited) /\ Lawful(T, heap, EmptyList)
      /\ \A j \in Jobs : Lawful(T, heap, jobs[j].list)
  BY ListsAreLawful
<1>b. jobs \in [Jobs -> JobRecords] /\ \A j \in Jobs : kind = "pools" => jobs[j].list = EmptyList
  BY DEF ListInv
<1> HIDE DEF T
<1>1. CASE \/ \E force \in BOOLEAN : Start(force)
           \/ ForkChild \/ WaitChild
           \/ \E c \in Children : SetHandlers(c) \/ ClientServed(c) \/ HandlerReturns(c)
           \/ Stop \/ StopGroup
           \/ CheckerDies \/ MainDies \/ OperatorKills \/ UNCHANGED vars
  <2>1. UNCHANGED <<jobs, pools, heap, edited, kind, requests>>
    BY <1>1 DEF Start, ForkChild, WaitChild, SetHandlers, ClientServed, HandlerReturns, Stop, StopGroup,
                CheckerDies, MainDies, OperatorKills, vars, memory, history
  <2> QED
    BY <1>0, <2>1, ListsUnchanged
<1>2. CASE \E p \in DOMAIN pc : OpenFile(p) \/ WriteJob(p) \/ KillGroup(p) \/ WaitAll(p) \/ WriteFails(p) \/ WriteCrashes(p)
  <2>1. UNCHANGED <<jobs, pools, heap, edited, kind, requests>>
    BY <1>2 DEF OpenFile, WriteJob, KillGroup, WaitAll, WriteFails, WriteCrashes, memory, history
  <2> QED
    BY <1>0, <2>1, ListsUnchanged
<1>3. CASE Loads
  <2>1. PICK f \in Failures, k \in Jobs : Load(f, k)
    BY <1>3 DEF Loads
  <2> QED
    BY <2>1, LoadKeepsLists
<1>4. ASSUME NEW c \in Children, HoldSemaphore(c) PROVE ListInv'
  <2>1. Good(T, heap, pools, Forgotten(heap, TRUE))
    BY <1>a, ForgottenIsGood
  <2>2. pools' = EmptyList /\ heap' = heap /\ UNCHANGED <<jobs, edited, kind>> /\ Request
    BY <1>4 DEF HoldSemaphore
  <2>3. Forgotten(heap, TRUE).list = EmptyList /\ Forgotten(heap, TRUE).heap = heap
    BY DEF Forgotten, Result
  <2> QED
    BY <1>0, <2>1, <2>2, <2>3, PoolsChange DEF T
<1>5. ASSUME NEW c \in Children, NEW f, NEW k, ReceiveComputer(c, f, k) PROVE ListInv'
  <2> DEFINE r == recv_computer_pools(heap, Sent, f, k)
  <2>1. kind = "pools" /\ pools' = r.list /\ heap' = r.heap /\ UNCHANGED <<jobs, edited, kind, requests>>
    BY <1>5 DEF ReceiveComputer
  <2>2. Good(T, heap, EmptyList, r)
    BY <1>a, <2>1, SentIsText, ReceivedPoolsAreGood DEF T
  <2> HIDE DEF r
  <2>3. Good(T, heap, pools, r)
    BY <1>a, <2>2, GoodFromEmpty
  <2> QED
    BY <1>0, <2>1, <2>3, PoolsChange DEF T
<1>6. ASSUME NEW c \in Children, NEW f, NEW k, ReceivePools(c, f, k) PROVE ListInv'
  <2> DEFINE r == recv_computer_pools(heap, Sent, f, k)
             q == Result(r.list, Removed(r.heap, pools.shm), TRUE)
  <2>1. /\ kind = "pools" /\ pools' = r.list /\ heap' = Removed(r.heap, pools.shm) /\ UNCHANGED <<jobs, edited, kind>>
        /\ Request
    BY <1>6 DEF ReceivePools
  <2>2. Good(T, heap, EmptyList, r)
    BY <1>a, <2>1, SentIsText, ReceivedPoolsAreGood DEF T
  <2> HIDE DEF r
  <2>3. Good(T, heap, pools, q)
    BY <1>a, <2>2, SwappedIsGood
  <2>4. pools' = q.list /\ heap' = q.heap
    BY <2>1 DEF Result
  <2> HIDE DEF q
  <2> QED
    BY <1>0, <2>1, <2>3, <2>4, PoolsChange DEF T
<1>7. CASE ForgetComputer
  <2> DEFINE q == Freed(heap, pools, TRUE)
  <2>1. pools' = q.list /\ heap' = q.heap /\ UNCHANGED <<jobs, edited, kind, requests>>
    BY <1>7 DEF ForgetComputer, Freed, Result
  <2>2. Good(T, heap, pools, q)
    BY <1>a, FreedIsGood
  <2> HIDE DEF q
  <2> QED
    BY <1>0, <2>1, <2>2, PoolsChange DEF T
<1>8. ASSUME NEW c \in Children, ReserveJob(c) PROVE ListInv'
  <2>1. PICK j \in Jobs : jobs' = [jobs EXCEPT ![j] = Reserved]
    BY <1>8 DEF ReserveJob
  <2>2. heap' = heap /\ UNCHANGED <<pools, edited, kind>> /\ Request
    BY <1>8 DEF ReserveJob
  <2>3. Good(T, heap, jobs[j].list, Forgotten(heap, TRUE))
    BY <1>a, ForgottenIsGood
  <2>4. Forgotten(heap, TRUE).list = EmptyList /\ Forgotten(heap, TRUE).heap = heap
    BY DEF Forgotten, Result
  <2> QED
    BY <1>0, <2>1, <2>2, <2>3, <2>4, EmptyRecords, JobListChanges DEF T
<1>9. ASSUME NEW c \in Children, NEW f, NEW k, ReceiveJob(c, f, k) PROVE ListInv'
  <2> DEFINE r == recv_envvars(heap, SentVariables, f, k)
             rec == [used |-> TRUE, sub |-> requests', list |-> r.list]
  <2>1. /\ jobs' = [jobs EXCEPT ![at[c]] = rec] /\ heap' = r.heap /\ UNCHANGED <<pools, edited, kind>> /\ Request
    BY <1>9 DEF ReceiveJob, SentVariables
  <2>2. Good(T, heap, EmptyList, r) /\ (kind # "variables" => r.list = EmptyList /\ r.heap = heap)
    BY ReceivedIsGood DEF T
  <2>3. kind = "pools" => r.list = EmptyList
    BY <2>2
  <2> HIDE DEF r
  <2>4. requests' \in 0 .. OldJob /\ requests' \in 0 .. MaxRequests
    BY <1>0, <2>1, Sizes DEF OldJob
  <2>5. rec \in JobRecords /\ rec.list = r.list
    BY <2>2, <2>4 DEF JobRecords, Good, Valid
  <2> HIDE DEF rec
  <2>6. CASE at[c] \in Jobs
    <3>1. Good(T, heap, jobs[at[c]].list, r)
      BY <1>a, <2>2, <2>6, GoodFromEmpty
    <3> QED
      BY <2>1, <2>3, <2>4, <2>5, <2>6, <3>1, JobListChanges DEF T
  <2>7. CASE at[c] \notin Jobs
    <3>1. jobs' = jobs
      BY <1>b, <2>1, <2>7
    <3> QED
      BY <2>1, <2>2, <2>4, <3>1, ListsKept DEF T
  <2> QED
    BY <2>6, <2>7
<1>10. ASSUME NEW c \in Children, ReceiveFails(c) PROVE ListInv'
  <2> DEFINE r == recv_envvars(heap, SentVariables, "no", 0)
             q == Result(EmptyList, r.heap, TRUE)
  <2>1. Good(T, heap, EmptyList, r) /\ (kind # "variables" => r.list = EmptyList /\ r.heap = heap)
    BY ReceivedIsGood DEF T
  <2>2. /\ jobs' = [jobs EXCEPT ![at[c]] = EmptyJob] /\ UNCHANGED <<pools, edited, kind, requests>>
        /\ heap' = IF kind = "variables" THEN recv_envvars(heap, Sent, "no", 0).heap ELSE heap
    BY <1>10 DEF ReceiveFails
  <2>3. heap' = r.heap
    <3>1. CASE kind = "variables"
      BY <2>2, <3>1 DEF SentVariables
    <3>2. CASE kind # "variables"
      BY <2>1, <2>2, <3>2 DEF Forgotten, Result
    <3> QED
      BY <3>1, <3>2
  <2> HIDE DEF r
  <2>4. heap' = q.heap /\ EmptyList = q.list
    BY <2>3 DEF Result
  <2>5. CASE at[c] \in Jobs
    <3>1. Good(T, heap, jobs[at[c]].list, q)
      BY <1>a, <2>1, <2>5, DroppedIsGood
    <3> HIDE DEF q
    <3> QED
      BY <1>0, <2>2, <2>4, <2>5, <3>1, EmptyRecords, JobListChanges DEF T
  <2>6. CASE at[c] \notin Jobs
    <3>1. jobs' = jobs
      BY <1>b, <2>2, <2>6
    <3> QED
      BY <1>0, <2>1, <2>2, <2>3, <3>1, ListsKept DEF T
  <2> QED
    BY <2>5, <2>6
<1>11. ASSUME NEW c \in Children, NEW j \in Jobs, DeleteJob(c, j) PROVE ListInv'
  <2> DEFINE q == Freed(heap, jobs[j].list, TRUE)
  <2>1. jobs' = [jobs EXCEPT ![j] = EmptyJob] /\ EmptyList = q.list /\ heap' = q.heap /\ UNCHANGED <<pools, edited, kind>> /\ Request
    BY <1>11 DEF DeleteJob, Freed, Result
  <2>2. Good(T, heap, jobs[j].list, q)
    BY <1>a, FreedIsGood
  <2> HIDE DEF q
  <2> QED
    BY <1>0, <2>1, <2>2, EmptyRecords, JobListChanges DEF T
<1>12. ASSUME NEW c \in Children, NEW j \in Jobs, NEW x \in Names, NEW f, ChangeHosts(c, j, x, f) PROVE ListInv'
  <2>1. kind = "hosts" /\ Request /\ UNCHANGED <<pools, edited, kind>>
    BY <1>12 DEF ChangeHosts
  <2>2. PICK r : /\ \/ r = job_block_host_add(heap, jobs[j].list, x, f)
                    \/ r = job_block_host_remove_by_name(heap, jobs[j].list, x, f)
                    \/ \E i \in 1 .. jobs[j].list.n : r = job_delete_blocked_host(heap, jobs[j].list, i, f)
                 /\ jobs' = [jobs EXCEPT ![j].list = r.list] /\ heap' = r.heap
    BY <1>12 DEF ChangeHosts
  <2>3. T = DistinctTexts
    BY <2>1 DEF T, TextsOf
  <2>4. Good(T, heap, jobs[j].list, r)
    BY <1>a, <2>2, <2>3, BlockHostIsGood, UnblockNameIsGood, UnblockAtIsGood
  <2> DEFINE rec == [jobs[j] EXCEPT !.list = r.list]
  <2>5. jobs' = [jobs EXCEPT ![j] = rec]
    BY <2>2
  <2>6. rec \in JobRecords /\ rec.list = r.list
    BY <1>b, <2>4, JobFields DEF Good, Valid
  <2> HIDE DEF rec
  <2> QED
    BY <1>0, <2>1, <2>2, <2>4, <2>5, <2>6, JobListChanges DEF T
<1>13. ASSUME NEW x \in Names, NEW f, Edit(x, f) PROVE ListInv'
  <2>1. Request /\ UNCHANGED <<jobs, pools, kind>>
    BY <1>13 DEF Edit
  <2>2. PICK r : /\ \/ kind = "pools" /\ r = computer_pool_add(heap, edited, x, f)
                    \/ kind = "pools" /\ r = computer_pool_remove(heap, edited, x, f)
                    \/ kind = "variables" /\ r = envvars_variable_add(heap, edited, x, f)
                    \/ kind = "variables" /\ r = envvars_variable_delete(heap, edited, x, f)
                 /\ edited' = r.list /\ heap' = r.heap
    BY <1>13 DEF Edit
  <2>3. (kind = "pools" => T = DistinctTexts) /\ (kind = "variables" => T = Texts)
    BY DEF T, TextsOf
  <2>4. Good(T, heap, edited, r)
    BY <1>a, <2>2, <2>3, AddPoolIsGood, RemovePoolIsGood, AddVariableIsGood, DeleteVariableIsGood
  <2> QED
    BY <1>0, <2>1, <2>2, <2>4, EditedChanges DEF T
<1>14. ASSUME NEW p, FreeAll(p) PROVE ListInv'
  <2>1. /\ jobs' = [j \in Jobs |-> EmptyJob] /\ pools' = EmptyList /\ UNCHANGED <<edited, kind, requests>>
        /\ heap' = [s \in Segs |-> IF s \in {jobs[j].list.shm : j \in Jobs} \cup {pools.shm} THEN Gone ELSE heap[s]]
    BY <1>14 DEF FreeAll
  <2>2. heap' \in Heaps(T)
    BY <1>a, <2>1 DEF Lawful, Heaps
  <2>3. ASSUME edited.n > 0
        PROVE  edited.shm \in Segs /\ edited.shm \notin {jobs[j].list.shm : j \in Jobs} \cup {pools.shm}
    <3> DEFINE L == Owners(jobs, pools, edited)
    <3>1. AllValid(heap, L)
      BY DEF ListInv, Lists, Owners
    <3>2. pools \in ListRecords /\ edited \in ListRecords /\ L = Owners(jobs, pools, edited) /\ NJobs \in Nat
      BY Sizes DEF ListInv
    <3> HIDE DEF L
    <3>3. /\ DOMAIN L = 1 .. NJobs + 2 /\ L[NJobs + 1] = pools /\ L[NJobs + 2] = edited
          /\ \A j \in Jobs : j \in DOMAIN L /\ j # NJobs + 2 /\ L[j] = jobs[j].list
      BY <1>b, <3>2, OwnersAre DEF Jobs
    <3>4. pools.shm # edited.shm /\ \A j \in Jobs : jobs[j].list.shm # edited.shm
      BY <2>3, <3>1, <3>2, <3>3 DEF AllValid
    <3> QED
      BY <1>a, <2>3, <3>4, SegmentsAre DEF Lawful, Valid, ListRecords
  <2>4. Valid(heap', edited)
    <3>1. edited.n > 0 => heap'[edited.shm] = heap[edited.shm]
      BY <2>1, <2>3
    <3> QED
      BY <1>a, <3>1 DEF Lawful, Valid
  <2> QED
    BY <1>0, <2>1, <2>2, <2>4, OnlyEditedLeft DEF T
<1>15. CASE Reboot
  <2>1. /\ jobs' = [j \in Jobs |-> EmptyJob] /\ pools' = EmptyList /\ edited' = FirstEdited /\ heap' = FirstHeap
        /\ UNCHANGED <<kind, requests>>
    BY <1>15 DEF Reboot
  <2>2. heap' \in Heaps(T) /\ Valid(heap', edited')
    BY <1>0, <2>1, FirstListIsValid DEF T
  <2> QED
    BY <1>0, <2>1, <2>2, OnlyEditedLeft DEF T
<1> QED
  BY <1>1, <1>2, <1>3, <1>4, <1>5, <1>6, <1>7, <1>8, <1>9, <1>10, <1>11, <1>12, <1>13, <1>14, <1>15 DEF Next, Requests, CleansOut

----------------------------------------------------------------------------
(* The file, what was saved, and the numbers of the jobs.                  *)
Numbers == 0 .. requests \cup {OldJob}
NumbersInv ==
  /\ \A j \in Jobs : jobs[j].sub \in Numbers
  /\ \A j \in Jobs : file.jobs[j] # Gone => file.jobs[j].sub \in Numbers
  /\ owed \subseteq 1 .. OldJob
  /\ spoiled \in {"no", "fault", "mixed"}

LEMMA SavedIsNotGone == ASSUME NEW k, NEW a \in SavedJobs(k) PROVE a # Gone
<1>1. JobTexts(k) \subseteq Texts /\ 0 .. OldJob \subseteq Nat
  BY EmptyText DEF JobTexts, TextsOf, DistinctTexts
<1>2. a \in [used : BOOLEAN, sub : Nat, list : Texts]
  BY <1>1, ZenonT(60) DEF SavedJobs
<1> QED
  BY <1>2, GoneAssumption DEF Texts

LEMMA QueueIs ==
  ASSUME ListInv
  PROVE  /\ Queue \in [Jobs -> SavedJobs(kind)]
         /\ \A j \in Jobs : /\ Queue[j].used = jobs[j].used /\ Queue[j].sub = jobs[j].sub
                            /\ Queue[j].list = Entries(heap, jobs[j].list)
<1>1. ASSUME NEW j \in Jobs PROVE Entries(heap, jobs[j].list) \in JobTexts(kind)
  <2>1. Entries(heap, jobs[j].list) \in TextsOf(kind)
    BY ListsAreLawful, EntriesAre
  <2>2. kind = "pools" => Entries(heap, jobs[j].list) = <<>>
    BY DEF ListInv, Entries, EmptyList
  <2> QED
    BY <2>1, <2>2 DEF JobTexts
<1>2. ASSUME NEW a \in JobRecords, NEW t \in JobTexts(kind), NEW b, b = [a EXCEPT !.list = t]
      PROVE  b \in SavedJobs(kind) /\ b.used = a.used /\ b.sub = a.sub /\ b.list = t
  BY <1>2, ZenonT(60) DEF JobRecords, SavedJobs
<1>3. \A j \in Jobs : Queue[j] = [jobs[j] EXCEPT !.list = Entries(heap, jobs[j].list)] /\ jobs[j] \in JobRecords
  BY DEF Queue, Content, ListInv
<1>4. Queue = [j \in Jobs |-> [jobs[j] EXCEPT !.list = Entries(heap, jobs[j].list)]]
  BY DEF Queue, Content
<1> QED
  BY <1>1, <1>2, <1>3, <1>4

LEMMA FileStep == ListInv /\ FileInv /\ [Next]_vars => FileInv'
<1> SUFFICES ASSUME ListInv, FileInv, [Next]_vars PROVE FileInv'
  OBVIOUS
<1>1. CASE UNCHANGED <<file, saved, kind>>
  BY <1>1 DEF FileInv
<1>2. ASSUME NEW p, OpenFile(p) PROVE FileInv'
  <2>1. CASE UNCHANGED <<file, saved, kind>>
    BY <1>1, <2>1
  <2>2. CASE file' = Opened(file) /\ saved' = Queue /\ kind' = kind
    <3>1. Opened(file) \in [head : BOOLEAN, jobs : [Jobs -> SavedJobs(kind) \cup {Gone}]]
      BY DEF Opened, NotWritten
    <3> QED
      BY <2>2, <3>1, QueueIs DEF FileInv
  <2> QED
    BY <1>2, <2>1, <2>2 DEF OpenFile
<1>3. ASSUME NEW p, WriteJob(p) PROVE FileInv'
  <2>1. file' = [file EXCEPT !.jobs[at[p]] = Queue[at[p]]] /\ UNCHANGED <<saved, kind>>
    BY <1>3 DEF WriteJob, history
  <2> DEFINE js == [file.jobs EXCEPT ![at[p]] = Queue[at[p]]]
  <2>2. js \in [Jobs -> SavedJobs(kind) \cup {Gone}]
    BY QueueIs DEF FileInv
  <2>3. file' = [file EXCEPT !.jobs = js]
    BY <2>1
  <2> HIDE DEF js
  <2>4. file' \in [head : BOOLEAN, jobs : [Jobs -> SavedJobs(kind) \cup {Gone}]]
    BY <2>2, <2>3, ZenonT(60) DEF FileInv
  <2> QED
    BY <2>1, <2>4 DEF FileInv
<1>4. CASE \/ \E force \in BOOLEAN : Start(force)
           \/ Loads \/ ForkChild \/ WaitChild
           \/ \E c \in Children : SetHandlers(c) \/ ClientServed(c) \/ HandlerReturns(c)
           \/ Stop \/ StopGroup
           \/ CheckerDies \/ MainDies \/ OperatorKills \/ Reboot \/ UNCHANGED vars
  <2>1. UNCHANGED <<file, saved, kind>>
    BY <1>4 DEF Start, Loads, Load, ForkChild, WaitChild, SetHandlers, ClientServed, HandlerReturns, Stop, StopGroup,
                CheckerDies, MainDies, OperatorKills, Reboot, vars, history
  <2> QED
    BY <1>1, <2>1
<1>5. CASE \/ \E c \in Children : Requests(c)
           \/ ForgetComputer \/ \E x \in Names, f \in Failures : Edit(x, f)
  <2>2. ASSUME NEW c \in Children, Requests(c) PROVE UNCHANGED <<file, saved, kind>>
    <3>1. ASSUME NEW f, NEW k, ReceiveComputer(c, f, k) \/ ReceivePools(c, f, k) PROVE UNCHANGED <<file, saved, kind>>
      BY <3>1 DEF ReceiveComputer, ReceivePools, history
    <3>2. ASSUME NEW f, NEW k, ReceiveJob(c, f, k) PROVE UNCHANGED <<file, saved, kind>>
      BY <3>2 DEF ReceiveJob, history
    <3>3. ASSUME NEW f, NEW j, NEW x, ChangeHosts(c, j, x, f) PROVE UNCHANGED <<file, saved, kind>>
      BY <3>3 DEF ChangeHosts, history
    <3>4. CASE HoldSemaphore(c) \/ ReserveJob(c) \/ ReceiveFails(c) \/ \E j \in Jobs : DeleteJob(c, j)
      BY <3>4 DEF HoldSemaphore, ReserveJob, ReceiveFails, DeleteJob, history
    <3> QED
      BY <2>2, <3>1, <3>2, <3>3, <3>4 DEF Requests
  <2>3. ASSUME ForgetComputer \/ \E x \in Names, f \in Failures : Edit(x, f) PROVE UNCHANGED <<file, saved, kind>>
    BY <2>3 DEF ForgetComputer, Edit, history
  <2>1. UNCHANGED <<file, saved, kind>>
    BY <1>5, <2>2, <2>3
  <2> QED
    BY <1>1, <2>1
<1>6. CASE \E p \in DOMAIN pc : KillGroup(p) \/ WaitAll(p) \/ FreeAll(p) \/ WriteFails(p) \/ WriteCrashes(p)
  <2>1. UNCHANGED <<file, saved, kind>>
    BY <1>6 DEF KillGroup, WaitAll, FreeAll, WriteFails, WriteCrashes, history
  <2> QED
    BY <1>1, <2>1
<1> QED
  BY <1>2, <1>3, <1>4, <1>5, <1>6 DEF Next, CleansOut

LEMMA NumbersChange ==
  ASSUME ListInv, NumbersInv, requests' \in {requests, requests + 1},
         \A j \in Jobs : jobs'[j].sub \in Numbers \cup {0, requests'},
         \A j \in Jobs : file'.jobs[j] # Gone => file'.jobs[j].sub \in Numbers,
         owed' \subseteq owed \/ owed' = Owed,
         spoiled' \in {spoiled, "no", "fault", "mixed"}
  PROVE  NumbersInv'
<1>1. requests \in Nat /\ MaxRequests \in Nat /\ \A j \in Jobs : jobs[j] \in JobRecords
  BY Sizes DEF ListInv
<1>2. Numbers \cup {0, requests'} \subseteq Numbers'
  BY <1>1 DEF Numbers, OldJob
<1>3. Owed \subseteq 1 .. OldJob
  <2>1. \A j \in Jobs : jobs[j].sub \in 0 .. OldJob
    BY <1>1 DEF JobRecords
  <2>2. \A n \in 0 .. OldJob : n # 0 => n \in 1 .. OldJob
    BY <1>1 DEF OldJob
  <2> QED
    BY <2>1, <2>2 DEF Owed
<1> QED
  BY <1>2, <1>3 DEF NumbersInv

LEMMA NumbersStep == ListInv /\ FileInv /\ NumbersInv /\ [Next]_vars => NumbersInv'
<1> SUFFICES ASSUME ListInv, FileInv, NumbersInv, [Next]_vars PROVE NumbersInv'
  OBVIOUS
<1>0. (Request => requests' = requests + 1) /\ requests \in Nat /\ jobs \in [Jobs -> JobRecords]
  BY DEF Request, ListInv
<1>1. ASSUME UNCHANGED jobs, \A j \in Jobs : file'.jobs[j] # Gone => file'.jobs[j].sub \in Numbers,
             requests' = requests \/ Request,
             owed' \subseteq owed \/ owed' = Owed, spoiled' \in {spoiled, "no", "fault", "mixed"}
      PROVE  NumbersInv'
  BY <1>0, <1>1, NumbersChange DEF NumbersInv
<1>2. ASSUME NEW j \in Jobs, NEW rec, jobs' = [jobs EXCEPT ![j] = rec], rec.sub \in Numbers \cup {0, requests'},
             UNCHANGED <<file, spoiled>>, requests' = requests \/ Request, owed' \subseteq owed
      PROVE  NumbersInv'
  <2>1. \A i \in Jobs : jobs'[i].sub \in Numbers \cup {0, requests'}
    BY <1>0, <1>2 DEF NumbersInv
  <2> QED
    BY <1>0, <1>2, <2>1, NumbersChange DEF NumbersInv
<1>3. CASE \/ \E force \in BOOLEAN : Start(force)
           \/ ForkChild \/ WaitChild
           \/ \E c \in Children : SetHandlers(c) \/ ClientServed(c) \/ HandlerReturns(c)
           \/ ForgetComputer \/ CheckerDies \/ OperatorKills \/ UNCHANGED vars
  <2>1. UNCHANGED <<jobs, file, owed, spoiled, requests>>
    BY <1>3 DEF Start, ForkChild, WaitChild, SetHandlers, ClientServed, HandlerReturns, ForgetComputer,
                CheckerDies, OperatorKills, vars, memory, history
  <2> QED
    BY <1>1, <2>1 DEF NumbersInv
<1>4. CASE Stop \/ StopGroup \/ MainDies
  <2>1. UNCHANGED <<jobs, file, requests>> /\ (owed' = owed \/ owed' = Owed) /\ spoiled' \in {spoiled, "fault"}
    BY <1>4 DEF Stop, StopGroup, MainDies, Worse, memory
  <2> QED
    BY <1>1, <2>1 DEF NumbersInv
<1>5. ASSUME NEW f, NEW c, Load(f, c) PROVE NumbersInv'
  <2> DEFINE r == LoadedJobs(f, c)
             loads == (file.head /\ \A j \in Jobs : file.jobs[j] # Gone) /\ r[NJobs].ok
  <2>1. /\ jobs' = [j \in Jobs |-> IF loads THEN [file.jobs[j] EXCEPT !.list = r[j].list] ELSE EmptyJob]
        /\ UNCHANGED <<file, requests>> /\ owed' \subseteq owed /\ spoiled' \in {spoiled, "no"}
    BY <1>5 DEF Load
  <2>2. CASE loads
    <3>1. \A j \in Jobs : Valid(r[NJobs].heap, r[j].list)
      BY <2>2, LoadedListsAreValid
    <3>2. \A j \in Jobs : file.jobs[j] # Gone /\ r[j].list \in ListRecords
      BY <2>2, <3>1 DEF Valid
    <3> HIDE DEF r
    <3>3. \A j \in Jobs : [file.jobs[j] EXCEPT !.list = r[j].list].sub = file.jobs[j].sub
      BY <3>2, JobFields DEF FileInv
    <3>4. \A j \in Jobs : jobs'[j].sub \in Numbers
      BY <2>1, <2>2, <3>2, <3>3 DEF NumbersInv
    <3> QED
      BY <2>1, <3>4, NumbersChange DEF NumbersInv
  <2>3. CASE ~ loads
    <3>1. \A j \in Jobs : jobs'[j].sub = 0
      BY <2>1, <2>3, EmptyRecords
    <3> QED
      BY <2>1, <3>1, NumbersChange DEF NumbersInv
  <2> QED
    BY <2>2, <2>3
<1>6. ASSUME NEW c \in Children, Requests(c) PROVE NumbersInv'
  <2>1. ASSUME NEW f, NEW k, ReceiveComputer(c, f, k) \/ ReceivePools(c, f, k) PROVE NumbersInv'
    <3>1. UNCHANGED <<jobs, file, owed, spoiled>> /\ (requests' = requests \/ Request)
      BY <2>1 DEF ReceiveComputer, ReceivePools, history
    <3> QED
      BY <1>1, <3>1 DEF NumbersInv
  <2>2. ASSUME NEW f, NEW k, ReceiveJob(c, f, k) PROVE NumbersInv'
    <3> DEFINE rec == [used |-> TRUE, sub |-> requests', list |-> jobs'[at[c]].list]
    <3>1. PICK l : jobs' = [jobs EXCEPT ![at[c]] = [used |-> TRUE, sub |-> requests', list |-> l]]
      BY <2>2 DEF ReceiveJob
    <3>2. UNCHANGED <<file, spoiled>> /\ Request /\ owed' \subseteq owed
      BY <2>2 DEF ReceiveJob
    <3>3. [used |-> TRUE, sub |-> requests', list |-> l].sub = requests'
      OBVIOUS
    <3>4. CASE at[c] \in Jobs
      BY <1>2, <3>1, <3>2, <3>3, <3>4
    <3>5. CASE at[c] \notin Jobs
      <4>1. jobs' = jobs
        BY <1>0, <3>1, <3>5
      <4> QED
        BY <1>1, <3>2, <4>1 DEF NumbersInv
    <3> QED
      BY <3>4, <3>5
  <2>3. CASE ReceiveFails(c)
    <3>1. jobs' = [jobs EXCEPT ![at[c]] = EmptyJob] /\ UNCHANGED <<file, spoiled, requests>> /\ owed' \subseteq owed
      BY <2>3 DEF ReceiveFails
    <3>2. CASE at[c] \in Jobs
      BY <1>2, <3>1, <3>2, EmptyRecords
    <3>3. CASE at[c] \notin Jobs
      <4>1. jobs' = jobs
        BY <1>0, <3>1, <3>3
      <4> QED
        BY <1>1, <3>1, <4>1 DEF NumbersInv
    <3> QED
      BY <3>2, <3>3
  <2>4. ASSUME NEW f, NEW j \in Jobs, NEW x, ChangeHosts(c, j, x, f) PROVE NumbersInv'
    <3>1. PICK r : jobs' = [jobs EXCEPT ![j].list = r.list]
      BY <2>4 DEF ChangeHosts
    <3>2. UNCHANGED <<file, owed, spoiled>> /\ Request
      BY <2>4 DEF ChangeHosts, history
    <3>3. jobs' = [jobs EXCEPT ![j] = [jobs[j] EXCEPT !.list = r.list]]
      BY <3>1
    <3>4. \A a \in JobRecords : \A l : [a EXCEPT !.list = l].sub = a.sub
      BY DEF JobRecords
    <3>5. [jobs[j] EXCEPT !.list = r.list].sub \in Numbers
      BY <1>0, <3>4 DEF NumbersInv
    <3> QED
      BY <1>2, <3>2, <3>3, <3>5
  <2>5. CASE HoldSemaphore(c)
    <3>1. UNCHANGED <<jobs, file, owed, spoiled>> /\ Request
      BY <2>5 DEF HoldSemaphore, history
    <3> QED
      BY <1>1, <3>1 DEF NumbersInv
  <2>6. CASE ReserveJob(c)
    <3>1. PICK j \in Jobs : jobs' = [jobs EXCEPT ![j] = Reserved]
      BY <2>6 DEF ReserveJob
    <3>2. UNCHANGED <<file, owed, spoiled>> /\ Request
      BY <2>6 DEF ReserveJob, history
    <3> QED
      BY <1>2, <3>1, <3>2, EmptyRecords
  <2>7. ASSUME NEW j \in Jobs, DeleteJob(c, j) PROVE NumbersInv'
    <3>1. jobs' = [jobs EXCEPT ![j] = EmptyJob] /\ UNCHANGED <<file, spoiled>> /\ Request /\ owed' \subseteq owed
      BY <2>7 DEF DeleteJob
    <3> QED
      BY <1>2, <3>1, EmptyRecords
  <2> QED
    BY <1>6, <2>1, <2>2, <2>3, <2>4, <2>5, <2>6, <2>7 DEF Requests
<1>7. ASSUME NEW x, NEW f, Edit(x, f) PROVE NumbersInv'
  <2>1. UNCHANGED <<jobs, file, owed, spoiled>> /\ Request
    BY <1>7 DEF Edit, history
  <2> QED
    BY <1>1, <2>1 DEF NumbersInv
<1>8. ASSUME NEW p, OpenFile(p) PROVE NumbersInv'
  <2>1. UNCHANGED <<jobs, owed, requests>> /\ spoiled' \in {spoiled, "no", "fault"} /\ (file' = file \/ file' = Opened(file))
    BY <1>8 DEF OpenFile, Worse
  <2>2. \A j \in Jobs : file'.jobs[j] # Gone => file'.jobs[j].sub \in Numbers
    <3>1. \A j \in Jobs : Opened(file).jobs[j] = Gone
      BY DEF Opened, NotWritten
    <3> QED
      BY <2>1, <3>1 DEF NumbersInv
  <2> QED
    BY <1>1, <2>1, <2>2
<1>9. ASSUME NEW p, WriteJob(p) PROVE NumbersInv'
  <2>1. /\ file' = [file EXCEPT !.jobs[at[p]] = Queue[at[p]]] /\ UNCHANGED <<jobs, owed, requests, spoiled>>
    BY <1>9 DEF WriteJob, history
  <2>2. \A j \in Jobs : file'.jobs[j] = file.jobs[j] \/ (j = at[p] /\ file'.jobs[j] = Queue[j])
    BY <2>1 DEF FileInv
  <2>3. \A j \in Jobs : Queue[j].sub \in Numbers
    BY QueueIs DEF NumbersInv
  <2>4. \A j \in Jobs : file'.jobs[j] # Gone => file'.jobs[j].sub \in Numbers
    BY <2>2, <2>3 DEF NumbersInv
  <2> QED
    BY <1>1, <2>1, <2>4
<1>10. ASSUME NEW p, WriteFails(p) \/ WriteCrashes(p) \/ KillGroup(p) \/ WaitAll(p) PROVE NumbersInv'
  <2>1. UNCHANGED <<jobs, file, owed, requests>> /\ spoiled' \in {spoiled, "fault"}
    BY <1>10 DEF WriteFails, WriteCrashes, KillGroup, WaitAll, Worse, memory, history
  <2> QED
    BY <1>1, <2>1 DEF NumbersInv
<1>11. CASE (\E p \in DOMAIN pc : FreeAll(p)) \/ Reboot
  <2>1. /\ jobs' = [j \in Jobs |-> EmptyJob] /\ UNCHANGED <<file, owed, requests>>
        /\ spoiled' \in {spoiled, "fault", "mixed"}
    BY <1>11 DEF FreeAll, Reboot, Worse
  <2>2. \A j \in Jobs : jobs'[j].sub = 0
    BY <2>1, EmptyRecords
  <2> QED
    BY <2>1, <2>2, NumbersChange DEF NumbersInv
<1> QED
  BY <1>3, <1>4, <1>5, <1>6, <1>7, <1>8, <1>9, <1>10, <1>11 DEF Next, Loads, CleansOut

LEMMA DataInit == Init => ListInv /\ FileInv /\ NumbersInv
<1> SUFFICES ASSUME Init PROVE ListInv /\ FileInv /\ NumbersInv
  OBVIOUS
<1>1. kind \in {"hosts", "variables", "pools"} /\ requests = 0 /\ 0 \in 0 .. MaxRequests /\ OldJob \in Nat /\ OldJob > 0
  BY KindsAssumption, Sizes DEF Init, OldJob
<1>2. ListInv
  <2>1. FirstHeap \in Heaps(TextsOf(kind)) /\ Valid(FirstHeap, FirstEdited)
    BY <1>1, FirstListIsValid
  <2> DEFINE Empty == [j \in Jobs |-> EmptyJob]
  <2>2. Empty \in [Jobs -> JobRecords] /\ EmptyList \in ListRecords /\ AllValid(heap, Owners(Empty, EmptyList, edited))
    BY <2>1, OneListLeft DEF Init
  <2>3. \A j \in Jobs : Empty[j].list = EmptyList
    BY EmptyRecords
  <2>4. jobs = Empty /\ pools = EmptyList /\ Lists = Owners(jobs, pools, edited)
    BY DEF Init, Lists, Owners
  <2> QED
    BY <1>1, <2>1, <2>2, <2>3, <2>4 DEF ListInv, Init, Valid
<1> DEFINE empty == [used |-> FALSE, sub |-> 0, list |-> <<>>]
           one == [used |-> TRUE, sub |-> OldJob, list |-> IF kind = "pools" THEN <<>> ELSE <<OldEntry>>]
<1>3. OldEntry \in Names
  BY NamesAssumption DEF OldEntry
<1>4. <<OldEntry>> \in TextsOf(kind)
  <2> DEFINE t == <<OldEntry>>
  <2>1. t \in Texts /\ Len(t) = 1 /\ t \in DistinctTexts
    BY <1>3 DEF Texts, DistinctTexts, Distinct
  <2> HIDE DEF t
  <2>2. t \in TextsOf(kind)
    BY <2>1 DEF TextsOf
  <2> QED
    BY <2>2 DEF t
<1>5. empty \in SavedJobs(kind) /\ one \in SavedJobs(kind)
  <2>1. <<>> \in JobTexts(kind) /\ (IF kind = "pools" THEN <<>> ELSE <<OldEntry>>) \in JobTexts(kind)
    BY <1>4, EmptyText DEF JobTexts, TextsOf
  <2>2. 0 \in 0 .. OldJob /\ OldJob \in 0 .. OldJob
    BY <1>1
  <2> QED
    BY <2>1, <2>2 DEF SavedJobs
<1>6. empty.sub = 0 /\ one.sub = OldJob
  OBVIOUS
<1>7. EmptyQueue = [j \in Jobs |-> empty] /\ OldFile = [head |-> TRUE, jobs |-> [EmptyQueue EXCEPT ![1] = one]]
  BY DEF EmptyQueue, OldFile
<1> HIDE DEF empty, one
<1>8. EmptyQueue \in [Jobs -> SavedJobs(kind)] /\ OldFile.jobs \in [Jobs -> SavedJobs(kind)]
  BY <1>5, <1>7
<1>9. FileInv
  <2>1. NoFile \in [head : BOOLEAN, jobs : [Jobs -> SavedJobs(kind) \cup {Gone}]]
    BY DEF NoFile, NotWritten
  <2>2. OldFile \in [head : BOOLEAN, jobs : [Jobs -> SavedJobs(kind) \cup {Gone}]]
    BY <1>7, <1>8
  <2>3. file \in {NoFile, OldFile} /\ saved \in {EmptyQueue, OldFile.jobs}
    BY DEF Init
  <2> QED
    BY <1>8, <2>1, <2>2, <2>3 DEF FileInv
<1>10. NumbersInv
  <2>1. \A j \in Jobs : jobs[j].sub \in Numbers
    BY <1>1, EmptyRecords DEF Init, Numbers
  <2>2. \A j \in Jobs : file.jobs[j] # Gone => file.jobs[j].sub \in Numbers
    <3>1. \A j \in Jobs : OldFile.jobs[j] \in {empty, one}
      BY <1>7
    <3> QED
      BY <1>1, <1>6, <3>1 DEF Init, NoFile, NotWritten, Numbers
  <2>3. owed \subseteq 1 .. OldJob
    BY <1>1 DEF Init
  <2> QED
    BY <2>1, <2>2, <2>3 DEF NumbersInv, Init
<1> QED
  BY <1>2, <1>9, <1>10

DataInv == ListInv /\ FileInv /\ NumbersInv
LEMMA DataInvariant == Spec => [](ProcessInv /\ DataInv)
<1>1. ProcessInv /\ DataInv /\ [Next]_vars => (ProcessInv /\ DataInv)'
  BY ProcessStep, ListStep, FileStep, NumbersStep DEF DataInv
<1>2. Init => ProcessInv /\ DataInv
  BY ProcessInit, DataInit DEF DataInv
<1> QED
  BY <1>1, <1>2, PTL DEF Spec

(* Whatever calls fail, wherever a process ends: every list has a segment  *)
(* of its own, that exists and is as long as the list.                     *)
THEOREM ListsAreValid == Spec => []ListIsValid
<1>1. DataInv => ListIsValid
  <2> SUFFICES ASSUME DataInv, NEW o \in DOMAIN Lists
               PROVE  LET l == Lists[o]
                      IN  /\ (l.n = 0) = (l.shm = None)
                          /\ l.n > 0 => heap[l.shm] # Gone /\ Len(heap[l.shm]) = l.n
                          /\ l.n > 0 => \A q \in DOMAIN Lists \ {o} : Lists[q].shm # l.shm
    BY DEF ListIsValid
  <2> QED
    BY DEF DataInv, ListInv, AllValid, Valid
<1> QED
  BY <1>1, DataInvariant, PTL

(* Every variable keeps its type; n_children stays under MASTERNCHILDREN.  *)
THEOREM StorageTypes == Spec => []TypeOK
<1>1. ProcessInv /\ DataInv => TypeOK
  <2> SUFFICES ASSUME ProcessInv, DataInv PROVE TypeOK
    OBVIOUS
  <2>1. pc \in [Children \cup {Main} -> {"off", "load", "serve", "none", "fresh", "accepts", "receives", "holds"} \cup Cleaning]
    BY DEF ProcessInv, MainPlaces, ChildPlaces
  <2>2. zombies \in 0 .. MaxChildren + 1
    <3>1. Cardinality(Mine) \in Nat
      BY MineIsFinite DEF Mine
    <3> QED
      BY <3>1, Sizes DEF ProcessInv
  <2>3. \A j \in Jobs : jobs[j].used \in BOOLEAN /\ jobs[j].sub \in 0 .. OldJob
    BY DEF DataInv, ListInv, JobRecords
  <2>4. file.head \in BOOLEAN /\ DOMAIN file.jobs = Jobs
    BY DEF DataInv, FileInv
  <2> QED
    BY <2>1, <2>2, <2>3, <2>4 DEF TypeOK, ProcessInv, DataInv, NumbersInv
<1> QED
  BY <1>1, DataInvariant, PTL

----------------------------------------------------------------------------
(* One process writes the file at a time, while it has the semaphore; an   *)
(* exception are two that clean out at once.                               *)
Writes(p) == pc[p] = "write"
HandOverInv ==
  /\ (\E c \in Children : pc[c] \in Cleaning) => \A c \in Children : pc[c] # "fresh"
  /\ pc[Main] \in {"load", "serve"} => sem # "gone" /\ \A c \in Children : pc[c] \notin Cleaning
  /\ sem = "gone" => \A c \in Children : pc[c] # "fresh"
  /\ pc[Main] = "free" => Mine = {}
  /\ \A p \in Processes : Writes(p) => sem \in {p, "gone"} /\ at[p] \in Jobs
  /\ spoiled # "mixed" /\ sem = "gone" => \A p \in Processes : pc[p] \notin {"save", "write"}

LEMMA Moved ==
  ASSUME ProcessInv, NEW p \in Processes, NEW to, pc' = [pc EXCEPT ![p] = to]
  PROVE  pc'[p] = to /\ \A q \in Processes : q # p => pc'[q] = pc[q]
BY DEF ProcessInv, Processes

(* No process comes into clean_out, or on in it.                           *)
LEMMA HandOverShrinks ==
  ASSUME ProcessInv, HandOverInv,
         \A q \in Processes : pc'[q] = pc[q] \/ pc'[q] \in {"off", "none", "accepts", "receives", "holds"},
         \A q \in Processes : pc'[q] = "write" => at'[q] = at[q] /\ sem' = sem,
         (sem' = "gone") = (sem = "gone"), Mine' \subseteq Mine, (spoiled' = "mixed") = (spoiled = "mixed")
  PROVE  HandOverInv'
<1>0. Main \in Processes /\ Children \subseteq Processes
  BY DEF Processes
<1>1. \A q \in Processes : pc'[q] \in {"load", "serve", "fresh"} \cup Cleaning => pc'[q] = pc[q]
  BY DEF Cleaning
<1>2. (\E c \in Children : pc'[c] \in Cleaning) => \A c \in Children : pc'[c] # "fresh"
  BY <1>0, <1>1 DEF HandOverInv
<1>3. pc'[Main] \in {"load", "serve"} => sem' # "gone" /\ \A c \in Children : pc'[c] \notin Cleaning
  BY <1>0, <1>1 DEF HandOverInv
<1>4. sem' = "gone" => \A c \in Children : pc'[c] # "fresh"
  BY <1>0, <1>1 DEF HandOverInv
<1>5. pc'[Main] = "free" => Mine' = {}
  BY <1>0, <1>1 DEF HandOverInv, Cleaning
<1>6. \A p \in Processes : pc'[p] = "write" => sem' \in {p, "gone"} /\ at'[p] \in Jobs
  BY <1>1 DEF HandOverInv, Writes, Cleaning
<1>7. spoiled' # "mixed" /\ sem' = "gone" => \A p \in Processes : pc'[p] \notin {"save", "write"}
  BY <1>1 DEF HandOverInv, Cleaning
<1> QED
  BY <1>2, <1>3, <1>4, <1>5, <1>6, <1>7 DEF HandOverInv, Writes

LEMMA HandOverEnds ==
  ASSUME ProcessInv, HandOverInv, NEW c \in Children, pc[c] \in {"accepts", "receives", "holds"}, Ends(c),
         sem' = sem \/ (sem = c /\ sem' = Nobody), spoiled' = spoiled
  PROVE  HandOverInv'
<1>1. c \in Processes /\ pc'[c] = "none" /\ \A q \in Processes : q # c => pc'[q] = pc[q]
  BY Moved DEF Ends, Processes
<1>2. \A q \in Processes : q # c => at'[q] = at[q]
  BY DEF Ends, ProcessInv, Processes
<1>3. ASSUME NEW q \in Processes, pc'[q] = "write" PROVE at'[q] = at[q] /\ sem' = sem
  BY <1>1, <1>2, <1>3, NamesOfProcesses DEF HandOverInv, Writes
<1>4. Mine' \subseteq Mine
  BY <1>1, NamesOfProcesses DEF Mine, Ends, Processes
<1>5. (sem' = "gone") = (sem = "gone")
  BY NamesOfProcesses
<1> QED
  BY <1>1, <1>3, <1>4, <1>5, HandOverShrinks

(* A process goes on in clean_out, done with the file.                     *)
LEMMA HandOverGoesOn ==
  ASSUME ProcessInv, HandOverInv, NEW p \in Processes, pc[p] \in Cleaning,
         NEW to \in {"kill", "wait", "free"}, pc' = [pc EXCEPT ![p] = to],
         \A q \in Processes : q # p => at'[q] = at[q],
         sem' = sem \/ (sem = p /\ sem' = Nobody), old' = old,
         p = Main /\ to = "free" => Mine = {},
         (spoiled' = "mixed") = (spoiled = "mixed")
  PROVE  HandOverInv'
<1>0. Main \in Processes /\ Children \subseteq Processes
  BY DEF Processes
<1>1. pc'[p] = to /\ \A q \in Processes : q # p => pc'[q] = pc[q]
  BY Moved
<1>2. (\E c \in Children : pc'[c] \in Cleaning) => \A c \in Children : pc'[c] # "fresh"
  BY <1>0, <1>1 DEF HandOverInv
<1>3. pc'[Main] \in {"load", "serve"} => sem' # "gone" /\ \A c \in Children : pc'[c] \notin Cleaning
  BY <1>0, <1>1, NamesOfProcesses DEF HandOverInv
<1>4. sem' = "gone" => \A c \in Children : pc'[c] # "fresh"
  BY <1>0, <1>1, NamesOfProcesses DEF HandOverInv
<1>5. pc'[Main] = "free" => Mine' = {}
  <2>1. \A c \in Children : pc'[c] # "none" <=> pc[c] # "none"
    BY <1>0, <1>1 DEF Cleaning
  <2>2. Mine' = Mine
    BY <2>1 DEF Mine
  <2> QED
    BY <1>0, <1>1, <2>2 DEF HandOverInv
<1>6. ASSUME NEW q \in Processes, pc'[q] = "write" PROVE sem' \in {q, "gone"} /\ at'[q] \in Jobs
  <2>1. q # p /\ pc[q] = "write" /\ at'[q] = at[q]
    BY <1>1, <1>6
  <2>2. sem \in {q, "gone"} /\ at[q] \in Jobs
    BY <2>1 DEF HandOverInv, Writes
  <2>3. p # "gone"
    BY NamesOfProcesses DEF Processes
  <2> QED
    BY <2>1, <2>2, <2>3
<1>7. spoiled' # "mixed" /\ sem' = "gone" => \A q \in Processes : pc'[q] \notin {"save", "write"}
  BY <1>1, NamesOfProcesses DEF HandOverInv
<1> QED
  BY <1>2, <1>3, <1>4, <1>5, <1>6, <1>7 DEF HandOverInv, Writes
(* A signal to the group: handlers end, a child just forked cleans out.    *)
LEMMA SignalledIs ==
  ASSUME ProcessInv
  PROVE  /\ DOMAIN Signalled = Processes
         /\ Signalled[Main] = IF pc[Main] = "serve" THEN "save" ELSE pc[Main]
         /\ \A c \in Children : Signalled[c] = IF c \in old \/ pc[c] \in Cleaning THEN pc[c]
                                               ELSE IF pc[c] = "fresh" THEN "save" ELSE "none"
BY NamesOfProcesses DEF Signalled, CleanOut, ProcessInv, Processes

LEMMA HandOverGroup ==
  ASSUME ProcessInv, HandOverInv, NEW next, DOMAIN next = Processes, GroupGets(next), old' = old, spoiled' = spoiled,
         \A c \in Children : \/ next[c] = Signalled[c]
                             \/ (next[c] = "wait" /\ pc[c] = "kill"),
         \/ next[Main] = "save" /\ pc[Main] = "serve"
         \/ next[Main] = "wait" /\ pc[Main] = "kill"
         \/ next[Main] = pc[Main] /\ pc[Main] \notin {"load", "serve"}
  PROVE  HandOverInv'
<1>0. Main \in Processes /\ Children \subseteq Processes /\ \A q \in Processes : q = Main \/ q \in Children
  BY DEF Processes
<1>1. pc' = next /\ (sem' = sem \/ (sem \in Children /\ next[sem] = "none" /\ sem' = Nobody))
      /\ at' = [q \in DOMAIN at |-> IF next[q] = "none" THEN 0 ELSE at[q]] /\ DOMAIN at = Processes
  BY DEF GroupGets, ProcessInv, Processes
<1>2. ASSUME NEW c \in Children
      PROVE  /\ pc'[c] # "fresh"
             /\ pc'[c] = "save" => pc[c] \in {"save", "fresh"}
             /\ pc'[c] = "write" => pc[c] = "write"
             /\ pc'[c] # "none" => pc[c] # "none"
  BY <1>1, SignalledIs DEF ProcessInv, Cleaning, ChildPlaces
<1>3. /\ pc'[Main] \notin {"load", "serve"} /\ (pc'[Main] = "free" => pc[Main] = "free")
      /\ pc'[Main] = "save" => pc[Main] \in {"save", "serve"}
      /\ pc'[Main] = "write" => pc[Main] = "write"
  BY <1>1
<1>4. pc'[Main] = "free" => Mine' = {}
  <2>1. Mine' \subseteq Mine
    BY <1>2 DEF Mine
  <2> QED
    BY <1>3, <2>1 DEF HandOverInv
<1>5. ASSUME NEW q \in Processes, pc'[q] = "write" PROVE sem' \in {q, "gone"} /\ at'[q] \in Jobs
  <2>1. pc[q] = "write" /\ at'[q] = at[q]
    BY <1>0, <1>1, <1>2, <1>3, <1>5
  <2>2. sem \in {q, "gone"} /\ at[q] \in Jobs
    BY <2>1 DEF HandOverInv, Writes
  <2> QED
    BY <1>1, <1>5, <2>1, <2>2, NamesOfProcesses
<1>6. ASSUME spoiled' # "mixed", sem' = "gone", NEW q \in Processes PROVE pc'[q] \notin {"save", "write"}
  <2>1. sem = "gone" /\ spoiled # "mixed"
    BY <1>1, <1>6, NamesOfProcesses
  <2>2. pc[q] \notin {"save", "write", "fresh"} /\ pc[Main] # "serve"
    BY <1>0, <2>1, NamesOfProcesses DEF HandOverInv, ProcessInv, MainPlaces, Cleaning
  <2> QED
    BY <1>0, <1>2, <1>3, <2>2
<1> QED
  BY <1>2, <1>3, <1>4, <1>5, <1>6 DEF HandOverInv, Writes

LEMMA HandOverStep == ProcessInv /\ HandOverInv /\ [Next]_vars => HandOverInv'
<1> SUFFICES ASSUME ProcessInv, HandOverInv, [Next]_vars PROVE HandOverInv'
  OBVIOUS
<1>0. /\ Main \in Processes /\ Children \subseteq Processes /\ DOMAIN pc = Processes
      /\ \A q \in Processes : q = Main \/ q \in Children
      /\ Main \notin Children /\ Nobody # "gone"
  BY NamesOfProcesses DEF ProcessInv, Processes
<1>a. \A c \in Children : pc[c] \in ChildPlaces
  BY DEF ProcessInv
<1>1. ASSUME UNCHANGED <<pc, at, old, sem, spoiled>> PROVE HandOverInv'
  <2>1. UNCHANGED Mine
    BY <1>1 DEF Mine
  <2> QED
    BY <1>1, <2>1 DEF HandOverInv, Writes
<1>2. CASE WaitChild \/ ForgetComputer \/ (\E x \in Names, f \in Failures : Edit(x, f)) \/ CheckerDies \/ UNCHANGED vars
  <2>1. UNCHANGED <<pc, at, old, sem, spoiled>>
    BY <1>2 DEF WaitChild, ForgetComputer, Edit, CheckerDies, vars, processes, memory, history
  <2> QED
    BY <1>1, <2>1
<1>3. ASSUME NEW force, Start(force) PROVE HandOverInv'
  <2>1. /\ pc' = [pc EXCEPT ![Main] = "load"] /\ sem' = Nobody /\ pc[Main] = "off" /\ UNCHANGED <<at, spoiled>>
        /\ \A c \in Children : pc[c] \notin {"fresh", "accepts"} \cup Cleaning
    BY <1>3 DEF Start, PortTaken, history
  <2>2. pc'[Main] = "load" /\ \A c \in Children : pc'[c] = pc[c]
    BY <1>0, <2>1, Moved
  <2> QED
    BY <1>0, <2>1, <2>2 DEF HandOverInv, Writes, Cleaning
<1>4. CASE Loads
  <2>1. PICK f, k : Load(f, k)
    BY <1>4 DEF Loads
  <2>2. /\ pc' = [pc EXCEPT ![Main] = "serve"] /\ pc[Main] = "load" /\ UNCHANGED <<at, sem, old>>
        /\ spoiled' \in {spoiled, "no"}
    BY <2>1 DEF Load
  <2>3. pc'[Main] = "serve" /\ \A c \in Children : pc'[c] = pc[c]
    BY <1>0, <2>2, Moved
  <2>4. sem # "gone" /\ \A c \in Children : pc[c] \notin Cleaning
    BY <2>2 DEF HandOverInv
  <2> QED
    BY <1>0, <2>2, <2>3, <2>4 DEF HandOverInv, Writes, Cleaning
<1>5. CASE ForkChild
  <2>1. /\ pc[Main] = "serve" /\ \E c \in Children : pc[c] = "none"
        /\ pc' = [pc EXCEPT ![NewChild] = "fresh"] /\ UNCHANGED <<at, old, sem, spoiled>>
    BY <1>5 DEF ForkChild, memory, history
  <2>2. NewChild \in Children
    BY <2>1 DEF NewChild
  <2>3. pc'[NewChild] = "fresh" /\ \A q \in Processes : q # NewChild => pc'[q] = pc[q]
    BY <1>0, <2>1, <2>2, Moved
  <2>4. sem # "gone" /\ \A c \in Children : pc[c] \notin Cleaning
    BY <2>1 DEF HandOverInv
  <2>5. pc'[Main] = "serve" /\ \A c \in Children : pc'[c] \notin Cleaning
    BY <1>0, <2>1, <2>2, <2>3, <2>4 DEF Cleaning
  <2> QED
    BY <1>0, <2>1, <2>4, <2>5 DEF HandOverInv, Writes, Cleaning
<1>6. ASSUME NEW c \in Children, SetHandlers(c) PROVE HandOverInv'
  <2>1. pc[c] = "fresh" /\ pc' = [pc EXCEPT ![c] = "accepts"] /\ UNCHANGED <<at, old, sem, spoiled>>
    BY <1>6 DEF SetHandlers, memory, history
  <2>2. pc'[c] = "accepts" /\ \A q \in Processes : q # c => pc'[q] = pc[q]
    BY <1>0, <2>1, Moved
  <2>3. Mine' \subseteq Mine
    BY <1>0, <2>1, <2>2 DEF Mine
  <2> QED
    BY <2>1, <2>2, <2>3, HandOverShrinks
<1>7. ASSUME NEW c \in Children, ClientServed(c) \/ HandlerReturns(c) PROVE HandOverInv'
  <2>1. pc[c] \in {"accepts", "receives", "holds"} /\ Ends(c) /\ spoiled' = spoiled /\ (sem' = sem \/ (sem = c /\ sem' = Nobody))
    BY <1>7 DEF ClientServed, HandlerReturns, Holding, memory, history
  <2> QED
    BY <2>1, HandOverEnds
<1>8. ASSUME NEW c \in Children, Requests(c) PROVE HandOverInv'
  <2>1. ASSUME NEW f, NEW k, ReceiveComputer(c, f, k) \/ ReceivePools(c, f, k) PROVE HandOverInv'
    <3>1. pc[c] \in {"accepts", "receives", "holds"} /\ Ends(c) /\ spoiled' = spoiled /\ (sem' = sem \/ (sem = c /\ sem' = Nobody))
      BY <2>1 DEF ReceiveComputer, ReceivePools, Holding, history
    <3> QED
      BY <3>1, HandOverEnds
  <2>2. ASSUME NEW f, NEW k, ReceiveJob(c, f, k) PROVE HandOverInv'
    <3>1. pc[c] \in {"accepts", "receives", "holds"} /\ Ends(c) /\ spoiled' = spoiled /\ sem' = sem
      BY <2>2 DEF ReceiveJob
    <3> QED
      BY <3>1, HandOverEnds
  <2>3. ASSUME NEW f, NEW j, NEW x, ChangeHosts(c, j, x, f) PROVE HandOverInv'
    <3>1. pc[c] \in {"accepts", "receives", "holds"} /\ Ends(c) /\ spoiled' = spoiled /\ sem' = sem
      BY <2>3 DEF ChangeHosts, history
    <3> QED
      BY <3>1, HandOverEnds
  <2>4. CASE ReceiveFails(c) \/ \E j \in Jobs : DeleteJob(c, j)
    <3>1. pc[c] \in {"accepts", "receives", "holds"} /\ Ends(c) /\ spoiled' = spoiled /\ sem' = sem
      BY <2>4 DEF ReceiveFails, DeleteJob
    <3> QED
      BY <3>1, HandOverEnds
  <2>5. CASE HoldSemaphore(c)
    <3>1. /\ pc[c] = "accepts" /\ pc' = [pc EXCEPT ![c] = "holds"] /\ UNCHANGED <<at, old, spoiled>>
          /\ sem \in {Nobody, "gone"} /\ sem' = IF sem = "gone" THEN sem ELSE c
      BY <2>5 DEF HoldSemaphore, Free, history
    <3>2. pc'[c] = "holds" /\ \A q \in Processes : q # c => pc'[q] = pc[q]
      BY <1>0, <3>1, Moved
    <3>3. ASSUME NEW q \in Processes, pc'[q] = "write" PROVE at'[q] = at[q] /\ sem' = sem
      <4>1. pc[q] = "write"
        BY <3>2, <3>3
      <4>2. sem = "gone"
        BY <3>1, <4>1, NamesOfProcesses DEF HandOverInv, Writes, Processes
      <4> QED
        BY <3>1, <4>2
    <3>4. Mine' \subseteq Mine
      BY <1>0, <3>1, <3>2 DEF Mine
    <3>5. (sem' = "gone") = (sem = "gone")
      BY <3>1, NamesOfProcesses
    <3> QED
      BY <3>1, <3>2, <3>3, <3>4, <3>5, HandOverShrinks
  <2>6. CASE ReserveJob(c)
    <3>1. /\ pc[c] = "accepts" /\ pc' = [pc EXCEPT ![c] = "receives"] /\ UNCHANGED <<old, spoiled, sem>>
          /\ \E j \in Jobs : at' = [at EXCEPT ![c] = j]
      BY <2>6 DEF ReserveJob, history
    <3>2. pc'[c] = "receives" /\ \A q \in Processes : q # c => pc'[q] = pc[q] /\ at'[q] = at[q]
      BY <1>0, <3>1, Moved DEF ProcessInv, Processes
    <3>3. Mine' \subseteq Mine
      BY <1>0, <3>1, <3>2 DEF Mine
    <3> QED
      BY <3>1, <3>2, <3>3, HandOverShrinks
  <2> QED
    BY <1>8, <2>1, <2>2, <2>3, <2>4, <2>5, <2>6 DEF Requests
<1>9. CASE Stop
  <2>1. pc[Main] = "serve" /\ pc' = [pc EXCEPT ![Main] = "save"] /\ UNCHANGED <<at, old, sem, spoiled>>
    BY <1>9 DEF Stop, CleanOut, memory
  <2>2. pc'[Main] = "save" /\ \A q \in Processes : q # Main => pc'[q] = pc[q]
    BY <1>0, <2>1, Moved
  <2>3. sem # "gone" /\ \A c \in Children : pc[c] \notin Cleaning
    BY <2>1 DEF HandOverInv
  <2> QED
    BY <1>0, <2>1, <2>2, <2>3 DEF HandOverInv, Writes, Cleaning
<1>10. CASE StopGroup
  <2>1. pc[Main] = "serve" /\ GroupGets(Signalled) /\ UNCHANGED <<old, spoiled>>
    BY <1>10 DEF StopGroup
  <2> QED
    BY <2>1, SignalledIs, HandOverGroup
<1>11. ASSUME NEW p \in Processes, OpenFile(p) PROVE HandOverInv'
  <2>1. pc[p] = "save" /\ sem \in {Nobody, "gone"} /\ sem' = (IF sem = "gone" THEN sem ELSE p) /\ old' = old
    BY <1>11 DEF OpenFile, Free
  <2>2. CASE /\ pc' = [pc EXCEPT ![p] = "write"] /\ at' = [at EXCEPT ![p] = 1]
             /\ sem = "gone" => spoiled' = spoiled
    <3>1. pc'[p] = "write" /\ at'[p] = 1 /\ \A q \in Processes : q # p => pc'[q] = pc[q] /\ at'[q] = at[q]
      BY <2>2, Moved DEF ProcessInv, Processes
    <3>2. 1 \in Jobs
      BY Sizes DEF Jobs
    <3>3. (\E c \in Children : pc'[c] \in Cleaning) => \A c \in Children : pc'[c] # "fresh"
      BY <1>0, <2>1, <3>1 DEF HandOverInv, Cleaning
    <3>4. pc'[Main] \notin {"load", "serve"}
      BY <1>0, <2>1, <3>1 DEF HandOverInv, Cleaning
    <3>5. sem' = "gone" => sem = "gone" /\ \A c \in Children : pc'[c] # "fresh"
      BY <1>0, <2>1, <3>1, NamesOfProcesses DEF HandOverInv
    <3>6. pc'[Main] = "free" => Mine' = {}
      <4>1. \A c \in Children : pc'[c] # "none" <=> pc[c] # "none"
        BY <1>0, <2>1, <3>1
      <4>2. Mine' = Mine
        BY <2>1, <4>1 DEF Mine
      <4> QED
        BY <1>0, <3>1, <4>2 DEF HandOverInv
    <3>7. ASSUME NEW q \in Processes, pc'[q] = "write" PROVE sem' \in {q, "gone"} /\ at'[q] \in Jobs
      <4>1. CASE q = p
        BY <2>1, <3>1, <3>2, <4>1
      <4>2. CASE q # p
        <5>1. sem \in {q, "gone"} /\ at[q] \in Jobs /\ q # Nobody
          BY <1>0, <3>1, <3>7, <4>2, NamesOfProcesses DEF HandOverInv, Writes
        <5> QED
          BY <2>1, <3>1, <4>2, <5>1
      <4> QED
        BY <4>1, <4>2
    <3>8. ~ (spoiled' # "mixed" /\ sem' = "gone")
      BY <2>1, <2>2, <3>5 DEF HandOverInv
    <3> QED
      BY <3>3, <3>4, <3>5, <3>6, <3>7, <3>8 DEF HandOverInv, Writes
  <2>3. CASE pc' = [pc EXCEPT ![p] = "kill"] /\ at' = at /\ spoiled' = Worse
    <3>1. pc'[p] = "kill" /\ \A q \in Processes : q # p => pc'[q] = pc[q]
      BY <2>3, Moved
    <3>2. (spoiled' = "mixed") = (spoiled = "mixed")
      BY <2>3 DEF Worse
    <3>3. (sem' = "gone") = (sem = "gone")
      BY <2>1, NamesOfProcesses DEF Processes
    <3>4. (\E c \in Children : pc'[c] \in Cleaning) => \A c \in Children : pc'[c] # "fresh"
      BY <1>0, <2>1, <3>1 DEF HandOverInv, Cleaning
    <3>5. pc'[Main] \notin {"load", "serve"} /\ (sem' = "gone" => \A c \in Children : pc'[c] # "fresh")
      BY <1>0, <2>1, <3>1, <3>3 DEF HandOverInv, Cleaning
    <3>6. pc'[Main] = "free" => Mine' = {}
      <4>1. \A c \in Children : pc'[c] # "none" <=> pc[c] # "none"
        BY <1>0, <2>1, <3>1
      <4>2. Mine' = Mine
        BY <2>1, <4>1 DEF Mine
      <4> QED
        BY <1>0, <3>1, <4>2 DEF HandOverInv
    <3>7. ASSUME NEW q \in Processes, pc'[q] = "write" PROVE sem' \in {q, "gone"} /\ at'[q] \in Jobs
      <4>1. sem \in {q, "gone"} /\ at[q] \in Jobs /\ q # Nobody
        BY <1>0, <3>1, <3>7, NamesOfProcesses DEF HandOverInv, Writes
      <4> QED
        BY <2>1, <2>3, <4>1
    <3>8. spoiled' # "mixed" /\ sem' = "gone" => \A q \in Processes : pc'[q] \notin {"save", "write"}
      BY <3>1, <3>2, <3>3 DEF HandOverInv
    <3> QED
      BY <3>4, <3>5, <3>6, <3>7, <3>8 DEF HandOverInv, Writes
  <2> QED
    BY <1>11, <2>2, <2>3 DEF OpenFile, Gives
<1>12. ASSUME NEW p \in Processes, WriteJob(p) PROVE HandOverInv'
  <2>1. pc[p] = "write" /\ UNCHANGED <<old, spoiled>>
    BY <1>12 DEF WriteJob, history
  <2>2. CASE at[p] < NJobs /\ at' = [at EXCEPT ![p] = @ + 1] /\ UNCHANGED <<pc, sem>>
    <3>1. at'[p] = at[p] + 1 /\ \A q \in Processes : q # p => at'[q] = at[q]
      BY <2>2 DEF ProcessInv, Processes
    <3>2. at[p] \in Jobs /\ at[p] + 1 \in Jobs
      BY <2>1, <2>2, Sizes DEF HandOverInv, Writes, Jobs
    <3>3. Mine' = Mine
      BY <2>1, <2>2 DEF Mine
    <3> QED
      BY <2>1, <2>2, <3>1, <3>2, <3>3 DEF HandOverInv, Writes
  <2>3. CASE Gives(p, "kill") /\ sem' = Released(p) /\ at' = [at EXCEPT ![p] = 0]
    <3>1. pc' = [pc EXCEPT ![p] = "kill"] /\ (sem' = sem \/ (sem = p /\ sem' = Nobody)) /\ \A q \in Processes : q # p => at'[q] = at[q]
      BY <2>3 DEF Gives, Released, Holding, ProcessInv, Processes
    <3> QED
      BY <2>1, <3>1, HandOverGoesOn DEF Cleaning
  <2> QED
    BY <1>12, <2>2, <2>3 DEF WriteJob
<1>13. ASSUME NEW p \in Processes, WriteFails(p) PROVE HandOverInv'
  <2>1. /\ pc[p] = "write" /\ pc' = [pc EXCEPT ![p] = "kill"] /\ UNCHANGED <<sem, old>>
        /\ \A q \in Processes : q # p => at'[q] = at[q]
    BY <1>13 DEF WriteFails, Gives, memory, ProcessInv, Processes
  <2>2. (spoiled' = "mixed") = (spoiled = "mixed")
    BY <1>13 DEF WriteFails, Worse
  <2> QED
    BY <2>1, <2>2, HandOverGoesOn DEF Cleaning
<1>14. ASSUME NEW p \in Processes, WriteCrashes(p) PROVE HandOverInv'
  <2>1. pc[p] = "write" /\ old' = old /\ \A q \in Processes : q # p => at'[q] = at[q]
    BY <1>14 DEF WriteCrashes, ProcessInv, Processes
  <2>2. (spoiled' = "mixed") = (spoiled = "mixed")
    BY <1>14 DEF WriteCrashes, Worse
  <2>3. CASE pc' = [pc EXCEPT ![p] = "kill"] /\ sem' = sem
    BY <2>1, <2>2, <2>3, HandOverGoesOn DEF Cleaning
  <2>4. CASE pc' = [pc EXCEPT ![p] = IF p = Main THEN "off" ELSE "none"] /\ sem' = Released(p)
    <3>1. pc'[p] \in {"off", "none"} /\ (\A q \in Processes : q # p => pc'[q] = pc[q]) /\ (p # Main => pc'[p] = "none")
      BY <2>4, Moved
    <3>2. sem' = sem \/ (sem = p /\ sem' = Nobody)
      BY <2>4 DEF Released, Holding
    <3>3. ASSUME NEW q \in Processes, pc'[q] = "write" PROVE at'[q] = at[q] /\ sem' = sem
      <4>1. q # p /\ pc[q] = "write"
        BY <3>1, <3>3
      <4>2. sem # p
        BY <4>1, NamesOfProcesses DEF HandOverInv, Writes, Processes
      <4> QED
        BY <2>1, <3>2, <4>1, <4>2
    <3>4. Mine' \subseteq Mine
      BY <1>0, <2>1, <3>1 DEF Mine
    <3>5. (sem' = "gone") = (sem = "gone")
      BY <3>2, NamesOfProcesses DEF Processes
    <3> QED
      BY <2>2, <3>1, <3>3, <3>4, <3>5, HandOverShrinks
  <2> QED
    BY <1>14, <2>3, <2>4 DEF WriteCrashes, Gives
<1>15. ASSUME NEW p \in Processes, KillGroup(p) PROVE HandOverInv'
  <2> DEFINE next == [Signalled EXCEPT ![p] = "wait"]
  <2>1. pc[p] = "kill" /\ GroupGets(next) /\ UNCHANGED <<old, spoiled>>
    BY <1>15 DEF KillGroup, history
  <2>2. DOMAIN next = Processes /\ next[p] = "wait" /\ \A q \in Processes : q # p => next[q] = Signalled[q]
    BY SignalledIs
  <2> HIDE DEF next
  <2>3. \A c \in Children : next[c] = Signalled[c] \/ (next[c] = "wait" /\ pc[c] = "kill")
    BY <1>0, <2>1, <2>2
  <2>4. \/ next[Main] = "wait" /\ pc[Main] = "kill"
        \/ next[Main] = pc[Main] /\ pc[Main] \notin {"load", "serve"}
    <3>1. CASE p = Main
      BY <2>1, <2>2, <3>1
    <3>2. CASE p \in Children
      <4>1. pc[Main] \notin {"load", "serve"}
        BY <2>1, <3>2 DEF HandOverInv, Cleaning
      <4> QED
        BY <1>0, <2>2, <3>2, <4>1, SignalledIs
    <3> QED
      BY <1>0, <3>1, <3>2
  <2> QED
    BY <2>1, <2>2, <2>3, <2>4, HandOverGroup
<1>16. ASSUME NEW p \in Processes, WaitAll(p) PROVE HandOverInv'
  <2>1. /\ pc[p] = "wait" /\ pc' = [pc EXCEPT ![p] = "free"] /\ UNCHANGED <<at, old, sem, spoiled>>
        /\ p = Main => \A c \in Children \ old : pc[c] = "none"
    BY <1>16 DEF WaitAll, Gives, Alive, memory, history
  <2>2. p = Main => Mine = {}
    BY <2>1 DEF Mine
  <2> QED
    BY <2>1, <2>2, HandOverGoesOn DEF Cleaning
<1>17. ASSUME NEW p \in Processes, FreeAll(p) PROVE HandOverInv'
  <2>1. /\ pc[p] = "free" /\ pc' = [pc EXCEPT ![p] = IF p = Main THEN "off" ELSE "none"] /\ sem' = "gone" /\ UNCHANGED <<at, old>>
        /\ spoiled' = IF \E q \in Processes \ {p} : pc[q] \in {"save", "write"} THEN "mixed" ELSE spoiled
    BY <1>0, <1>17 DEF FreeAll, Gives
  <2>2. pc'[p] = (IF p = Main THEN "off" ELSE "none") /\ \A q \in Processes : q # p => pc'[q] = pc[q]
    BY <2>1, Moved
  <2>3. \A c \in Children : pc[c] # "fresh"
    <3>1. CASE p = Main
      <4>1. Mine = {}
        BY <2>1, <3>1 DEF HandOverInv
      <4> QED
        BY <4>1 DEF Mine, ProcessInv
    <3>2. CASE p \in Children
      BY <2>1, <3>2 DEF HandOverInv, Cleaning
    <3> QED
      BY <1>0, <3>1, <3>2
  <2>4. \A c \in Children : pc'[c] # "fresh"
    BY <1>0, <2>2, <2>3
  <2>5. pc'[Main] \notin {"load", "serve"}
    BY <1>0, <2>1, <2>2 DEF HandOverInv, Cleaning
  <2>6. pc'[Main] = "free" => Mine' = {}
    <3>1. Mine' \subseteq Mine
      BY <1>0, <2>1, <2>2 DEF Mine
    <3> QED
      BY <1>0, <2>1, <2>2, <3>1 DEF HandOverInv
  <2>7. \A q \in Processes : pc'[q] = "write" => sem' \in {q, "gone"} /\ at'[q] \in Jobs
    BY <2>1, <2>2 DEF HandOverInv, Writes
  <2>8. spoiled' # "mixed" => \A q \in Processes : pc'[q] \notin {"save", "write"}
    BY <2>1, <2>2
  <2> QED
    BY <2>4, <2>5, <2>6, <2>7, <2>8 DEF HandOverInv, Writes
<1>18. CASE MainDies
  <2>1. pc' = [pc EXCEPT ![Main] = "off"] /\ at' = [at EXCEPT ![Main] = 0] /\ sem' = Released(Main) /\ old' = old
    BY <1>18 DEF MainDies, Gives
  <2>2. (spoiled' = "mixed") = (spoiled = "mixed")
    BY <1>18 DEF MainDies, Worse
  <2>3. pc'[Main] = "off" /\ \A q \in Processes : q # Main => pc'[q] = pc[q] /\ at'[q] = at[q]
    BY <1>0, <2>1, Moved DEF ProcessInv, Processes
  <2>4. sem' = sem \/ (sem = Main /\ sem' = Nobody)
    BY <2>1 DEF Released, Holding
  <2>5. ASSUME NEW q \in Processes, pc'[q] = "write" PROVE at'[q] = at[q] /\ sem' = sem
    <3>1. q # Main /\ pc[q] = "write"
      BY <2>3, <2>5
    <3>2. sem # Main
      BY <3>1, NamesOfProcesses DEF HandOverInv, Writes
    <3> QED
      BY <2>3, <2>4, <3>1, <3>2
  <2>6. Mine' \subseteq Mine
    BY <1>0, <2>1, <2>3 DEF Mine
  <2>7. (sem' = "gone") = (sem = "gone")
    BY <2>4, NamesOfProcesses
  <2> QED
    BY <2>2, <2>3, <2>5, <2>6, <2>7, HandOverShrinks
<1>19. CASE OperatorKills \/ Reboot
  <2>1. pc' = [q \in DOMAIN pc |-> IF q = Main THEN "off" ELSE "none"]
    BY <1>19 DEF OperatorKills, Reboot
  <2>2. \A q \in Processes : pc'[q] \in {"off", "none"}
    BY <1>0, <2>1
  <2> QED
    BY <1>0, <2>2 DEF HandOverInv, Writes, Cleaning
<1> QED
  BY <1>0, <1>2, <1>3, <1>4, <1>5, <1>6, <1>7, <1>8, <1>9, <1>10, <1>11, <1>12, <1>13, <1>14, <1>15, <1>16, <1>17, <1>18, <1>19 DEF Next, CleansOut

LEMMA HandOverInit == Init => HandOverInv
<1> SUFFICES ASSUME Init PROVE HandOverInv
  OBVIOUS
<1>1. \A q \in Processes : pc[q] \in {"off", "none"}
  BY DEF Init, Processes
<1> QED
  BY <1>1 DEF HandOverInv, Writes, Cleaning, Processes

----------------------------------------------------------------------------
(* What is in the file is the queue when the save had the semaphore.       *)
BareJob(r) == <<r.used, r.sub, IF kind = "hosts" THEN r.list ELSE <<>>>>
AsSaved(r, j) == r.used = saved[j].used /\ r.sub = saved[j].sub /\ (kind = "hosts" => r.list = saved[j].list)
SnapshotInv ==
  spoiled # "mixed" =>
    /\ \A j \in Jobs : file.jobs[j] # Gone => AsSaved(file.jobs[j], j)
    /\ \A p \in Processes : Writes(p) =>
         /\ \A j \in Jobs : AsSaved(Queue[j], j)
         /\ file.head /\ \A j \in 1 .. at[p] - 1 : file.jobs[j] # Gone

LEMMA NobodyWrites ==
  ASSUME HandOverInv, Free, spoiled # "mixed"
  PROVE  \A p \in Processes : pc[p] # "write" /\ (sem = "gone" => pc[p] # "save")
BY NamesOfProcesses DEF HandOverInv, Free, Writes, Processes

LEMMA SnapshotKept ==
  ASSUME SnapshotInv, UNCHANGED <<file, saved, kind>>, spoiled' # "mixed" => spoiled # "mixed",
         spoiled # "mixed" => \A p \in Processes : pc'[p] = "write" =>
            /\ pc[p] = "write" /\ at'[p] = at[p]
            /\ \A j \in Jobs : /\ Queue'[j].used = Queue[j].used /\ Queue'[j].sub = Queue[j].sub
                               /\ kind = "hosts" => Queue'[j].list = Queue[j].list
  PROVE  SnapshotInv'
BY DEF SnapshotInv, AsSaved, Writes

LEMMA SnapshotStep == ProcessInv /\ DataInv /\ DataInv' /\ HandOverInv /\ SnapshotInv /\ [Next]_vars => SnapshotInv'
<1> SUFFICES ASSUME ProcessInv, DataInv, DataInv', HandOverInv, SnapshotInv, [Next]_vars PROVE SnapshotInv'
  OBVIOUS
<1>0. /\ Main \in Processes /\ Children \subseteq Processes /\ DOMAIN pc = Processes
      /\ \A q \in Processes : q = Main \/ q \in Children
      /\ Main \notin Children /\ Nobody # "gone"
  BY NamesOfProcesses DEF ProcessInv, Processes
<1>a. ListInv /\ FileInv /\ NumbersInv /\ ListInv'
  BY DEF DataInv
<1>1. ASSUME UNCHANGED <<jobs, heap, file, saved, kind>>, spoiled' # "mixed" => spoiled # "mixed",
             \A p \in Processes : pc'[p] = "write" => pc[p] = "write" /\ at'[p] = at[p]
      PROVE  SnapshotInv'
  <2>1. Queue' = Queue
    BY <1>1 DEF Queue, Content
  <2> QED
    BY <1>1, <2>1, SnapshotKept
<1>2. ASSUME UNCHANGED <<jobs, file, saved, kind, spoiled>>, heap' = heap \/ kind # "hosts",
             \A p \in Processes : pc'[p] = "write" => pc[p] = "write" /\ at'[p] = at[p]
      PROVE  SnapshotInv'
  <2>1. \A j \in Jobs : Queue'[j].used = Queue[j].used /\ Queue'[j].sub = Queue[j].sub
    <3>1. \A j \in Jobs : Queue[j].used = jobs[j].used /\ Queue[j].sub = jobs[j].sub
      BY <1>a, QueueIs
    <3>3. \A j \in Jobs : jobs[j] \in JobRecords /\ Queue'[j] = [jobs[j] EXCEPT !.list = Entries(heap', jobs[j].list)]
      BY <1>2, <1>a DEF Queue, Content, ListInv
    <3>4. ASSUME NEW j \in Jobs PROVE Queue'[j].used = jobs[j].used /\ Queue'[j].sub = jobs[j].sub
      <4> DEFINE a == jobs[j]
                 t == Entries(heap', a.list)
                 b == Queue'[j]
      <4>1. a \in JobRecords /\ b = [a EXCEPT !.list = t]
        BY <3>3
      <4> HIDE DEF a, t, b
      <4>2. b.used = a.used /\ b.sub = a.sub
        BY <4>1, ZenonT(60) DEF JobRecords
      <4> QED
        BY <4>2 DEF a, b
    <3> QED
      BY <3>1, <3>4
  <2>2. heap' = heap => Queue' = Queue
    BY <1>2 DEF Queue, Content
  <2> QED
    BY <1>2, <2>1, <2>2, SnapshotKept
<1>3. ASSUME UNCHANGED <<file, saved, kind>>, spoiled' # "mixed" => spoiled # "mixed",
             spoiled' # "mixed" => \A p \in Processes : pc'[p] # "write"
      PROVE  SnapshotInv'
  BY <1>3 DEF SnapshotInv, AsSaved, Writes
<1>4. ASSUME NEW p \in Processes, NEW to, to # "write", pc' = [pc EXCEPT ![p] = to],
             \A q \in Processes : q # p => at'[q] = at[q], UNCHANGED <<jobs, heap, file, saved, kind>>,
             spoiled' # "mixed" => spoiled # "mixed"
      PROVE  SnapshotInv'
  <2>1. \A q \in Processes : pc'[q] = "write" => pc[q] = "write" /\ at'[q] = at[q]
    BY <1>4, Moved
  <2> QED
    BY <1>1, <1>4, <2>1
<1>5. ASSUME NEW c \in Children, Free, UNCHANGED <<file, saved, kind, spoiled>>,
             \E to \in {"none", "holds", "receives"} : pc' = [pc EXCEPT ![c] = to]
      PROVE  SnapshotInv'
  <2>1. spoiled # "mixed" => \A q \in Processes : pc'[q] # "write"
    BY <1>0, <1>5, Moved, NobodyWrites
  <2> QED
    BY <1>3, <1>5, <2>1
<1>6. ASSUME NEW force, Start(force) PROVE SnapshotInv'
  <2>1. pc' = [pc EXCEPT ![Main] = "load"] /\ UNCHANGED <<at, jobs, heap, file, saved, kind, spoiled>>
    BY <1>6 DEF Start, history
  <2> QED
    BY <1>0, <1>4, <2>1
<1>7. CASE Loads
  <2>1. PICK f, k : Load(f, k)
    BY <1>7 DEF Loads
  <2>2. /\ pc' = [pc EXCEPT ![Main] = "serve"] /\ pc[Main] = "load" /\ UNCHANGED <<file, saved, kind>>
        /\ spoiled' # "mixed" => spoiled # "mixed"
    BY <2>1 DEF Load
  <2>3. \A c \in Children : pc[c] # "write"
    BY <2>2 DEF HandOverInv, Cleaning
  <2>4. \A q \in Processes : pc'[q] # "write"
    BY <1>0, <2>2, <2>3, Moved
  <2> QED
    BY <1>3, <2>2, <2>4
<1>8. CASE ForkChild
  <2>1. /\ \E c \in Children : pc[c] = "none"
        /\ pc' = [pc EXCEPT ![NewChild] = "fresh"] /\ UNCHANGED <<at, jobs, heap, file, saved, kind, spoiled>>
    BY <1>8 DEF ForkChild, memory, history
  <2>2. NewChild \in Processes
    BY <1>0, <2>1 DEF NewChild
  <2> QED
    BY <1>4, <2>1, <2>2
<1>9. CASE WaitChild \/ CheckerDies \/ UNCHANGED vars
  <2>1. UNCHANGED <<pc, at, jobs, heap, file, saved, kind, spoiled>>
    BY <1>9 DEF WaitChild, CheckerDies, vars, processes, memory, history
  <2> QED
    BY <1>2, <2>1
<1>10. ASSUME NEW c \in Children, SetHandlers(c) PROVE SnapshotInv'
  <2>1. pc' = [pc EXCEPT ![c] = "accepts"] /\ UNCHANGED <<at, jobs, heap, file, saved, kind, spoiled>>
    BY <1>10 DEF SetHandlers, memory, history
  <2> QED
    BY <1>0, <1>4, <2>1
<1>11. ASSUME NEW c \in Children, ClientServed(c) \/ HandlerReturns(c) PROVE SnapshotInv'
  <2>1. pc' = [pc EXCEPT ![c] = "none"] /\ at' = [at EXCEPT ![c] = 0] /\ UNCHANGED <<jobs, heap, file, saved, kind, spoiled>>
    BY <1>11 DEF ClientServed, HandlerReturns, Ends, memory, history
  <2>2. \A q \in Processes : q # c => at'[q] = at[q]
    BY <2>1 DEF ProcessInv, Processes
  <2> QED
    BY <1>0, <1>4, <2>1, <2>2
<1>12. ASSUME NEW c \in Children, Requests(c) PROVE SnapshotInv'
  <2>1. ASSUME NEW f, NEW k, ReceiveComputer(c, f, k) PROVE SnapshotInv'
    <3>1. pc' = [pc EXCEPT ![c] = "none"] /\ at' = [at EXCEPT ![c] = 0] /\ kind # "hosts" /\ UNCHANGED <<jobs, file, saved, kind, spoiled>>
      BY <2>1 DEF ReceiveComputer, Ends, history
    <3>2. \A q \in Processes : pc'[q] = "write" => pc[q] = "write" /\ at'[q] = at[q]
      BY <1>0, <3>1, Moved DEF ProcessInv, Processes
    <3> QED
      BY <1>2, <3>1, <3>2
  <2>2. ASSUME NEW f, NEW k, ReceivePools(c, f, k) PROVE SnapshotInv'
    BY <1>5, <2>2 DEF ReceivePools, Ends, history
  <2>3. ASSUME NEW f, NEW k, ReceiveJob(c, f, k) PROVE SnapshotInv'
    <3>1. Free /\ pc' = [pc EXCEPT ![c] = "none"] /\ UNCHANGED <<file, saved, kind, spoiled>>
      BY <2>3 DEF ReceiveJob, Ends
    <3> QED
      BY <1>5, <3>1
  <2>4. ASSUME NEW f, NEW j, NEW x, ChangeHosts(c, j, x, f) PROVE SnapshotInv'
    <3>1. Free /\ pc' = [pc EXCEPT ![c] = "none"] /\ UNCHANGED <<file, saved, kind, spoiled>>
      BY <2>4 DEF ChangeHosts, Ends, history
    <3> QED
      BY <1>5, <3>1
  <2>5. CASE HoldSemaphore(c) \/ ReserveJob(c)
    <3>1. /\ Free /\ UNCHANGED <<file, saved, kind, spoiled>>
          /\ pc' = [pc EXCEPT ![c] = "holds"] \/ pc' = [pc EXCEPT ![c] = "receives"]
      BY <2>5 DEF HoldSemaphore, ReserveJob, history
    <3> QED
      BY <1>5, <3>1
  <2>6. CASE ReceiveFails(c) \/ \E j \in Jobs : DeleteJob(c, j)
    <3>1. Free /\ UNCHANGED <<file, saved, kind, spoiled>> /\ pc' = [pc EXCEPT ![c] = "none"]
      BY <2>6 DEF ReceiveFails, DeleteJob, Ends
    <3> QED
      BY <1>5, <3>1
  <2> QED
    BY <1>12, <2>1, <2>2, <2>3, <2>4, <2>5, <2>6 DEF Requests
<1>13. CASE ForgetComputer
  <2>1. Free /\ UNCHANGED <<pc, file, saved, kind, spoiled>>
    BY <1>13 DEF ForgetComputer, processes, history
  <2>2. spoiled # "mixed" => \A q \in Processes : pc'[q] # "write"
    BY <2>1, NobodyWrites
  <2> QED
    BY <1>3, <2>1, <2>2
<1>14. ASSUME NEW x, NEW f, Edit(x, f) PROVE SnapshotInv'
  <2>1. UNCHANGED <<pc, at, jobs, file, saved, kind, spoiled>> /\ kind # "hosts"
    BY <1>14 DEF Edit, processes, history
  <2> QED
    BY <1>2, <2>1
<1>15. CASE Stop
  <2>1. pc' = [pc EXCEPT ![Main] = "save"] /\ UNCHANGED <<at, jobs, heap, file, saved, kind, spoiled>>
    BY <1>15 DEF Stop, CleanOut, memory
  <2> QED
    BY <1>0, <1>4, <2>1
<1>16. ASSUME NEW next, DOMAIN next = Processes, GroupGets(next), UNCHANGED <<jobs, heap, file, saved, kind, spoiled>>,
              \A q \in Processes : next[q] = "write" => pc[q] = "write"
       PROVE  SnapshotInv'
  <2>1. pc' = next /\ at' = [q \in Processes |-> IF next[q] = "none" THEN 0 ELSE at[q]]
    BY <1>16 DEF GroupGets, ProcessInv, Processes
  <2> QED
    BY <1>1, <1>16, <2>1
<1>17. \A q \in Processes : Signalled[q] = "write" => pc[q] = "write"
  BY <1>0, SignalledIs
<1>18. CASE StopGroup
  <2>1. GroupGets(Signalled) /\ UNCHANGED <<jobs, heap, file, saved, kind, spoiled>>
    BY <1>18 DEF StopGroup
  <2> QED
    BY <1>16, <1>17, <2>1, SignalledIs
<1>19. ASSUME NEW p \in Processes, KillGroup(p) PROVE SnapshotInv'
  <2> DEFINE next == [Signalled EXCEPT ![p] = "wait"]
  <2>1. GroupGets(next) /\ UNCHANGED <<jobs, heap, file, saved, kind, spoiled>>
    BY <1>19 DEF KillGroup, history
  <2>2. DOMAIN next = Processes /\ next[p] = "wait" /\ \A q \in Processes : q # p => next[q] = Signalled[q]
    BY SignalledIs
  <2> HIDE DEF next
  <2> QED
    BY <1>16, <1>17, <2>1, <2>2
<1>20. ASSUME NEW p \in Processes, WaitAll(p) PROVE SnapshotInv'
  <2>1. pc' = [pc EXCEPT ![p] = "free"] /\ UNCHANGED <<at, jobs, heap, file, saved, kind, spoiled>>
    BY <1>20 DEF WaitAll, Gives, memory, history
  <2> QED
    BY <1>4, <2>1
<1>21. ASSUME NEW p \in Processes, WriteFails(p) \/ WriteCrashes(p) PROVE SnapshotInv'
  <2>1. /\ UNCHANGED <<jobs, heap, file, saved, kind>> /\ at' = [at EXCEPT ![p] = 0] /\ spoiled' = Worse
        /\ \E to \in {"kill", "off", "none"} : pc' = [pc EXCEPT ![p] = to]
    BY <1>21 DEF WriteFails, WriteCrashes, Gives, memory
  <2>2. (\A q \in Processes : q # p => at'[q] = at[q]) /\ (spoiled' # "mixed" => spoiled # "mixed")
    BY <2>1 DEF ProcessInv, Processes, Worse
  <2> QED
    BY <1>4, <2>1, <2>2
<1>22. CASE MainDies
  <2>1. /\ UNCHANGED <<jobs, heap, file, saved, kind>> /\ at' = [at EXCEPT ![Main] = 0] /\ spoiled' = Worse
        /\ pc' = [pc EXCEPT ![Main] = "off"]
    BY <1>22 DEF MainDies, Gives
  <2>2. (\A q \in Processes : q # Main => at'[q] = at[q]) /\ (spoiled' # "mixed" => spoiled # "mixed")
    BY <2>1 DEF ProcessInv, Processes, Worse
  <2> QED
    BY <1>0, <1>4, <2>1, <2>2
<1>23. CASE OperatorKills \/ Reboot
  <2>1. /\ pc' = [q \in DOMAIN pc |-> IF q = Main THEN "off" ELSE "none"] /\ UNCHANGED <<file, saved, kind>>
        /\ spoiled' # "mixed" => spoiled # "mixed"
    BY <1>23 DEF OperatorKills, Reboot, history, Worse
  <2>2. \A q \in Processes : pc'[q] # "write"
    BY <1>0, <2>1
  <2> QED
    BY <1>3, <2>1, <2>2
<1>24. ASSUME NEW p \in Processes, FreeAll(p) PROVE SnapshotInv'
  <2>1. /\ pc' = [pc EXCEPT ![p] = IF p = Main THEN "off" ELSE "none"] /\ UNCHANGED <<file, saved, kind>>
        /\ spoiled' = IF \E q \in Processes \ {p} : pc[q] \in {"save", "write"} THEN "mixed" ELSE spoiled
    BY <1>0, <1>24 DEF FreeAll, Gives
  <2>2. pc'[p] = (IF p = Main THEN "off" ELSE "none") /\ \A q \in Processes : q # p => pc'[q] = pc[q]
    BY <2>1, Moved
  <2>3. spoiled' # "mixed" => spoiled # "mixed" /\ \A q \in Processes : pc'[q] # "write"
    BY <2>1, <2>2
  <2> QED
    BY <1>3, <2>1, <2>3
<1>25. ASSUME NEW p \in Processes, OpenFile(p) PROVE SnapshotInv'
  <2>1. pc[p] = "save" /\ sem \in {Nobody, "gone"} /\ UNCHANGED <<jobs, heap, kind>>
    BY <1>25 DEF OpenFile, Free
  <2>2. ASSUME file' = Opened(file), saved' = Queue, pc' = [pc EXCEPT ![p] = "write"], at' = [at EXCEPT ![p] = 1],
               sem = "gone" => spoiled' = spoiled, spoiled' # "mixed"
        PROVE  SnapshotInv'
    <3>1. sem = Nobody
      BY <2>1, <2>2 DEF HandOverInv
    <3>2. \A q \in Processes : pc'[q] = "write" => q = p
      BY <2>2, <3>1, Moved, NamesOfProcesses DEF HandOverInv, Writes, Processes
    <3>3. at'[p] = 1 /\ 1 .. at'[p] - 1 = {}
      BY <2>2 DEF ProcessInv, Processes
    <3>4. file'.head /\ \A j \in Jobs : file'.jobs[j] = Gone
      BY <2>2 DEF Opened, NotWritten
    <3>5. Queue' = saved'
      BY <2>1, <2>2 DEF Queue, Content
    <3> QED
      BY <3>2, <3>3, <3>4, <3>5 DEF SnapshotInv, AsSaved, Writes
  <2>3. ASSUME spoiled' = "mixed" PROVE SnapshotInv'
    BY <2>3 DEF SnapshotInv
  <2>4. CASE pc' = [pc EXCEPT ![p] = "kill"] /\ UNCHANGED <<file, saved, at>> /\ spoiled' = Worse
    <3>1. spoiled' # "mixed" => spoiled # "mixed"
      BY <2>4 DEF Worse
    <3> QED
      BY <1>4, <2>1, <2>4, <3>1
  <2> QED
    BY <1>25, <2>2, <2>3, <2>4 DEF OpenFile, Gives
<1>26. ASSUME NEW p \in Processes, WriteJob(p) PROVE SnapshotInv'
  <2>1. /\ pc[p] = "write" /\ UNCHANGED <<jobs, heap, kind, saved, spoiled>>
        /\ file' = [file EXCEPT !.jobs[at[p]] = Queue[at[p]]]
    BY <1>26 DEF WriteJob, history
  <2> SUFFICES ASSUME spoiled # "mixed" PROVE SnapshotInv'
    BY <2>1 DEF SnapshotInv
  <2>2. sem = p /\ at[p] \in Jobs
    BY <2>1 DEF HandOverInv, Writes
  <2>3. \A q \in Processes : pc[q] = "write" => q = p
    BY <2>2, NamesOfProcesses DEF HandOverInv, Writes, Processes
  <2>4. Queue' = Queue
    BY <2>1 DEF Queue, Content
  <2>5. /\ file'.head = file.head /\ file'.jobs[at[p]] = Queue[at[p]]
        /\ \A j \in Jobs : j # at[p] => file'.jobs[j] = file.jobs[j]
    <3> DEFINE js == [file.jobs EXCEPT ![at[p]] = Queue[at[p]]]
    <3>1. js[at[p]] = Queue[at[p]] /\ \A j \in Jobs : j # at[p] => js[j] = file.jobs[j]
      BY <1>a, <2>2 DEF FileInv
    <3>2. file' = [file EXCEPT !.jobs = js]
      BY <2>1
    <3> HIDE DEF js
    <3>3. file'.jobs = js /\ file'.head = file.head
      BY <1>a, <3>2, ZenonT(60) DEF FileInv
    <3> QED
      BY <3>1, <3>3
  <2>6. Queue[at[p]] # Gone
    BY <1>a, <2>2, QueueIs, SavedIsNotGone
  <2>7. /\ \A j \in Jobs : file.jobs[j] # Gone => AsSaved(file.jobs[j], j)
        /\ \A j \in Jobs : AsSaved(Queue[j], j)
        /\ file.head /\ \A j \in 1 .. at[p] - 1 : file.jobs[j] # Gone
    BY <2>1 DEF SnapshotInv, Writes
  <2>9. \A j \in Jobs : file'.jobs[j] # Gone => AsSaved(file'.jobs[j], j)
    BY <2>2, <2>5, <2>7
  <2>10. \A j \in Jobs : AsSaved(Queue[j], j) => AsSaved(Queue[j], j)'
    BY <2>1, <2>4 DEF AsSaved
  <2>11. \A j \in 1 .. at[p] : file'.jobs[j] # Gone
    <3>1. \A j \in 1 .. at[p] : j \in Jobs /\ (j = at[p] \/ j \in 1 .. at[p] - 1)
      BY <2>2, Sizes DEF Jobs
    <3> QED
      BY <2>5, <2>6, <2>7, <3>1
  <2>12. \A q \in Processes : pc'[q] = "write" => q = p /\ at'[p] = at[p] + 1
    <3>1. CASE at'= [at EXCEPT ![p] = @ + 1] /\ pc' = pc
      <4>1. at'[p] = at[p] + 1
        BY <3>1 DEF ProcessInv, Processes
      <4> QED
        BY <2>3, <3>1, <4>1
    <3>2. CASE pc' = [pc EXCEPT ![p] = "kill"]
      <4>1. pc'[p] = "kill" /\ \A q \in Processes : q # p => pc'[q] = pc[q]
        BY <3>2, Moved
      <4> QED
        BY <2>3, <4>1
    <3> QED
      BY <1>26, <3>1, <3>2 DEF WriteJob, Gives
  <2>13. at'[p] = at[p] + 1 => 1 .. at'[p] - 1 = 1 .. at[p]
    BY <2>2, Sizes DEF Jobs
  <2>14. \A j \in Jobs : AsSaved(file'.jobs[j], j) = AsSaved(file.jobs[j], j)' /\ AsSaved(Queue[j], j)'
    BY <2>1, <2>7, <2>10 DEF AsSaved
  <2> QED
    BY <2>1, <2>5, <2>7, <2>9, <2>11, <2>12, <2>13, <2>14 DEF SnapshotInv, Writes
<1> QED
  BY <1>0, <1>6, <1>7, <1>8, <1>9, <1>10, <1>11, <1>12, <1>13, <1>14, <1>15, <1>18, <1>19, <1>20, <1>21, <1>22, <1>23, <1>24, <1>25, <1>26 DEF Next, CleansOut

LEMMA SnapshotInit == Init => SnapshotInv
<1> SUFFICES ASSUME Init PROVE SnapshotInv
  OBVIOUS
<1>1. \A q \in Processes : pc[q] # "write"
  BY DEF Init, Processes
<1>2. \A j \in Jobs : file.jobs[j] # Gone => saved = file.jobs
  BY DEF Init, NoFile, NotWritten
<1> QED
  BY <1>1, <1>2 DEF SnapshotInv, AsSaved, Writes

LEMMA StorageInvariant == Spec => [](ProcessInv /\ DataInv /\ HandOverInv /\ SnapshotInv)
<1>1. Init => HandOverInv /\ SnapshotInv
  BY HandOverInit, SnapshotInit
<1>2. (ProcessInv /\ DataInv) /\ (ProcessInv /\ DataInv)' /\ (HandOverInv /\ SnapshotInv) /\ [Next]_vars => (HandOverInv /\ SnapshotInv)'
  BY HandOverStep, SnapshotStep
<1> QED
  BY <1>1, <1>2, DataInvariant, PTL DEF Spec

(* Only the end of database_load makes main serve.                         *)
LEMMA OnlyLoadServes ==
  ASSUME ProcessInv, [Next]_vars, pc[Main] = "load", pc'[Main] = "serve"
  PROVE  Loads
<1>0. /\ Main \in Processes /\ Children \subseteq Processes /\ DOMAIN pc = Processes
      /\ \A q \in Processes : q = Main \/ q \in Children
      /\ Main \notin Children
  BY NamesOfProcesses DEF ProcessInv, Processes
<1>1. ASSUME NEW p \in Processes, NEW to, to # "serve", pc' = [pc EXCEPT ![p] = to] PROVE FALSE
  BY <1>0, <1>1, Moved
<1>2. CASE (\E force \in BOOLEAN : Start(force)) \/ Stop \/ StopGroup \/ ForkChild \/ WaitChild
           \/ ForgetComputer \/ CheckerDies \/ UNCHANGED vars
  BY <1>2 DEF Start, Stop, StopGroup, ForkChild, WaitChild, ForgetComputer, CheckerDies, vars, processes
<1>3. ASSUME NEW c \in Children, SetHandlers(c) \/ ClientServed(c) \/ HandlerReturns(c) PROVE FALSE
  BY <1>0, <1>1, <1>3 DEF SetHandlers, ClientServed, HandlerReturns, Ends
<1>4. ASSUME NEW c \in Children, Requests(c) PROVE FALSE
  <2>1. ASSUME NEW f, NEW k, ReceiveComputer(c, f, k) \/ ReceivePools(c, f, k) PROVE FALSE
    BY <1>0, <1>1, <2>1 DEF ReceiveComputer, ReceivePools, Ends
  <2>2. ASSUME NEW f, NEW k, ReceiveJob(c, f, k) PROVE FALSE
    <3>1. pc' = [pc EXCEPT ![c] = "none"]
      BY <2>2 DEF ReceiveJob, Ends
    <3> QED
      BY <1>0, <1>1, <3>1
  <2>3. ASSUME NEW f, NEW j, NEW x, ChangeHosts(c, j, x, f) PROVE FALSE
    <3>1. pc' = [pc EXCEPT ![c] = "none"]
      BY <2>3 DEF ChangeHosts, Ends
    <3> QED
      BY <1>0, <1>1, <3>1
  <2>4. CASE HoldSemaphore(c) \/ ReserveJob(c) \/ ReceiveFails(c) \/ \E j \in Jobs : DeleteJob(c, j)
    <3>1. \E to \in {"holds", "receives", "none"} : pc' = [pc EXCEPT ![c] = to]
      BY <2>4 DEF HoldSemaphore, ReserveJob, ReceiveFails, DeleteJob, Ends
    <3> QED
      BY <1>0, <1>1, <3>1
  <2> QED
    BY <1>4, <2>1, <2>2, <2>3, <2>4 DEF Requests
<1>5. ASSUME NEW x, NEW f, Edit(x, f) PROVE FALSE
  BY <1>5 DEF Edit, processes
<1>6. ASSUME NEW p \in Processes, OpenFile(p) PROVE FALSE
  BY <1>1, <1>6 DEF OpenFile, Gives
<1>7. ASSUME NEW p \in Processes, WriteJob(p) PROVE FALSE
  BY <1>1, <1>7 DEF WriteJob, Gives
<1>8. ASSUME NEW p \in Processes, WriteFails(p) \/ WriteCrashes(p) PROVE FALSE
  BY <1>1, <1>8 DEF WriteFails, WriteCrashes, Gives
<1>9. ASSUME NEW p \in Processes, KillGroup(p) PROVE FALSE
  <2>1. pc[p] = "kill" /\ pc' = [Signalled EXCEPT ![p] = "wait"]
    BY <1>9 DEF KillGroup, GroupGets
  <2>2. p # Main /\ pc'[Main] = Signalled[Main]
    BY <1>0, <2>1, SignalledIs
  <2> QED
    BY <2>2, SignalledIs
<1>10. ASSUME NEW p \in Processes, WaitAll(p) \/ FreeAll(p) PROVE FALSE
  BY <1>1, <1>10 DEF WaitAll, FreeAll, Gives
<1>11. CASE MainDies \/ OperatorKills \/ Reboot
  <2>1. pc'[Main] = "off"
    BY <1>0, <1>11, Moved DEF MainDies, OperatorKills, Reboot, Gives
  <2> QED
    BY <2>1
<1> QED
  BY <1>0, <1>2, <1>3, <1>4, <1>5, <1>6, <1>7, <1>8, <1>9, <1>10, <1>11 DEF Next, CleansOut

LEMMA BareIs ==
  ASSUME NEW h, NEW q, \A j \in Jobs : q[j] \in JobRecords
  PROVE  \A j \in Jobs : Bare(Content(h, q))[j] = <<q[j].used, q[j].sub, IF kind = "hosts" THEN Entries(h, q[j].list) ELSE <<>>>>
<1> SUFFICES ASSUME NEW j \in Jobs
             PROVE  Bare(Content(h, q))[j] = <<q[j].used, q[j].sub, IF kind = "hosts" THEN Entries(h, q[j].list) ELSE <<>>>>
  OBVIOUS
<1> DEFINE a == q[j]
           t == Entries(h, a.list)
           b == Content(h, q)[j]
<1>1. a \in JobRecords /\ b = [a EXCEPT !.list = t]
  BY DEF Content
<1> HIDE DEF a, t
<1>2. b.used = a.used /\ b.sub = a.sub /\ b.list = t
  <2> HIDE DEF b
  <2> QED
    BY <1>1, ZenonT(60) DEF JobRecords
<1>3. Bare(Content(h, q))[j] = <<b.used, b.sub, IF kind = "hosts" THEN b.list ELSE <<>>>>
  BY DEF Bare
<1> HIDE DEF b
<1> QED
  BY <1>2, <1>3 DEF a, t

LEMMA LoadsSnapshot ==
  ASSUME ProcessInv, DataInv, DataInv', SnapshotInv, spoiled # "mixed", NEW f, NEW c, Load(f, c)
  PROVE  Bare(Content(heap', jobs')) \in {Bare(saved), Bare(EmptyQueue)}
<1> DEFINE r == LoadedJobs(f, c)
           whole == file.head /\ \A j \in Jobs : file.jobs[j] # Gone
           loads == whole /\ r[NJobs].ok
<1>1. /\ UNCHANGED <<saved, kind>>
      /\ jobs' = [j \in Jobs |-> IF loads THEN [file.jobs[j] EXCEPT !.list = r[j].list] ELSE EmptyJob]
      /\ heap' = IF whole THEN r[NJobs].heap ELSE heap
  BY DEF Load
<1>2. r = LoadedJobs(f, c)
  OBVIOUS
<1>3. ListInv /\ FileInv /\ \A j \in Jobs : jobs'[j] \in JobRecords
  BY DEF DataInv, ListInv
<1> DEFINE after == Bare(Content(heap', jobs'))
<1>4. after = [j \in Jobs |-> after[j]] /\ \A j \in Jobs :
        after[j] = <<jobs'[j].used, jobs'[j].sub, IF kind = "hosts" THEN Entries(heap', jobs'[j].list) ELSE <<>>>>
  BY <1>3, BareIs DEF Bare
<1> HIDE DEF r, after
<1>5. CASE ~ loads
  <2>1. \A j \in Jobs : jobs'[j].used = FALSE /\ jobs'[j].sub = 0 /\ Entries(heap', jobs'[j].list) = <<>>
    BY <1>1, <1>5, EmptyRecords DEF Entries, EmptyList
  <2>2. after = [j \in Jobs |-> <<FALSE, 0, IF kind = "hosts" THEN <<>> ELSE <<>>>>]
    BY <1>4, <2>1
  <2>3. Bare(EmptyQueue) = [j \in Jobs |-> <<FALSE, 0, IF kind = "hosts" THEN <<>> ELSE <<>>>>]
    BY DEF Bare, EmptyQueue
  <2> QED
    BY <1>1, <2>2, <2>3 DEF after
<1>6. CASE loads
  <2>1. \A j \in Jobs : AsSaved(file.jobs[j], j)
    BY <1>6 DEF SnapshotInv
  <2>2. \A j \in Jobs : Valid(heap', r[j].list) /\ (kind = "hosts" => Entries(heap', r[j].list) = file.jobs[j].list)
    BY <1>1, <1>2, <1>3, <1>6, LoadedListsAreValid
  <2>3. \A j \in Jobs : r[j].list \in ListRecords
    BY <2>2 DEF Valid
  <2>4. ASSUME NEW j \in Jobs
        PROVE  jobs'[j].used = saved[j].used /\ jobs'[j].sub = saved[j].sub /\ jobs'[j].list = r[j].list
    <3>1. file.jobs[j] \in SavedJobs(kind)
      BY <1>3, <1>6 DEF FileInv
    <3>2. jobs'[j] = [file.jobs[j] EXCEPT !.list = r[j].list]
      BY <1>1, <1>6
    <3> QED
      BY <2>1, <2>3, <3>1, <3>2, JobFields DEF AsSaved
  <2>5. \A j \in Jobs : after[j] = <<saved[j].used, saved[j].sub, IF kind = "hosts" THEN saved[j].list ELSE <<>>>>
    BY <1>4, <2>1, <2>2, <2>4 DEF AsSaved
  <2>6. after = Bare(saved)
    BY <1>4, <2>5 DEF Bare
  <2> QED
    BY <1>1, <2>6 DEF after
<1> QED
  BY <1>5, <1>6

(* A start loads the queue as it was when the last save had the semaphore, *)
(* or nothing: no part of it, and no queue of two times, whatever          *)
(* processes were killed and whatever calls and writes failed, unless two  *)
(* processes cleaned out at once (database_save, database_load, clean_out).*)
THEOREM StartLoadsSnapshot == Spec => RestartIsSnapshot
<1> DEFINE A == pc[Main] = "load" /\ pc'[Main] = "serve" /\ spoiled # "mixed" =>
                  Bare(Content(heap', jobs')) \in {Bare(saved), Bare(EmptyQueue)}
<1>1. (ProcessInv /\ DataInv /\ HandOverInv /\ SnapshotInv) /\ (ProcessInv /\ DataInv /\ HandOverInv /\ SnapshotInv)'
      /\ [Next]_vars => [A]_vars
  <2> SUFFICES ASSUME ProcessInv, DataInv, SnapshotInv, DataInv', [Next]_vars, pc[Main] = "load", pc'[Main] = "serve",
                      spoiled # "mixed"
               PROVE  Bare(Content(heap', jobs')) \in {Bare(saved), Bare(EmptyQueue)}
    BY DEF A
  <2>1. Loads
    BY OnlyLoadServes
  <2>2. PICK f, c : Load(f, c)
    BY <2>1 DEF Loads
  <2> QED
    BY <2>2, LoadsSnapshot
<1>2. [][A]_vars <=> RestartIsSnapshot
  BY DEF RestartIsSnapshot
<1> QED
  BY <1>1, <1>2, StorageInvariant, PTL DEF Spec

----------------------------------------------------------------------------
(* With a segment for each job the load of a whole file succeeds.          *)
FreeSegments(h) == {s \in Segs : h[s] = Gone}
SegmentsSuffice == pc[Main] = "load" /\ kind = "hosts" => Cardinality(FreeSegments(heap)) >= NJobs

LEMMA FreeSegmentsAreFinite ==
  ASSUME NEW h
  PROVE  /\ IsFiniteSet(FreeSegments(h)) /\ Cardinality(FreeSegments(h)) \in Nat
         /\ Cardinality(FreeSegments(h)) > 0 => ~ NoneLeft(h)
<1>1. IsFiniteSet(Segs) /\ FreeSegments(h) \subseteq Segs
  BY SegmentsAssumption, FS_Interval DEF Segs, FreeSegments
<1>2. IsFiniteSet(FreeSegments(h)) /\ Cardinality(FreeSegments(h)) \in Nat
  BY <1>1, FS_Subset, FS_CardinalityType
<1>3. FreeSegments(h) = {} => Cardinality(FreeSegments(h)) = 0
  BY FS_EmptySet
<1> QED
  BY <1>2, <1>3 DEF FreeSegments, NoneLeft

LEMMA LoadedTakesOne ==
  ASSUME NEW t, NEW h, NEW f, NEW T, Lawful(T, h, EmptyList), NEW q, q = load_blocked_hosts(h, t, f)
  PROVE  Cardinality(FreeSegments(q.heap)) >= Cardinality(FreeSegments(h)) - 1
<1> DEFINE s == NewSegment(h)
<1>1. q.heap = h \/ (~ NoneLeft(h) /\ \E x : q.heap = [h EXCEPT ![s] = x])
  <2>1. EmptyList.shm = None
    BY DEF EmptyList
  <2>2. q \in {Result(EmptyList, h, TRUE), Unchanged(h, EmptyList, FALSE)} => q.heap = h
    BY DEF Result, Unchanged
  <2>3. q = Lost(h, EmptyList) => q.heap = [h EXCEPT ![s] = <<>>]
    BY DEF Lost, Result
  <2>4. q = Replaced(h, EmptyList, t) => q.heap = [h EXCEPT ![s] = t]
    BY <2>1 DEF Replaced, Result, Removed
  <2> QED
    BY <2>2, <2>3, <2>4 DEF load_blocked_hosts, GetFails
<1>2. CASE q.heap = h
  BY <1>2, FreeSegmentsAreFinite
<1>3. CASE ~ NoneLeft(h) /\ \E x : q.heap = [h EXCEPT ![s] = x]
  <2>1. s \in Segs /\ s \in FreeSegments(h)
    BY <1>3, NewIsFree DEF FreeSegments
  <2>2. \A i \in Segs : i # s => q.heap[i] = h[i]
    BY <1>3 DEF Lawful, Heaps
  <2>3. FreeSegments(h) \ {s} \subseteq FreeSegments(q.heap)
    BY <2>2 DEF FreeSegments
  <2> HIDE DEF s
  <2>4. Cardinality(FreeSegments(h) \ {s}) = Cardinality(FreeSegments(h)) - 1
    BY <2>1, FreeSegmentsAreFinite, FS_RemoveElement
  <2>5. Cardinality(FreeSegments(h) \ {s}) <= Cardinality(FreeSegments(q.heap))
    BY <2>3, FreeSegmentsAreFinite, FS_Subset
  <2>6. Cardinality(FreeSegments(h)) \in Nat /\ Cardinality(FreeSegments(q.heap)) \in Nat
    BY FreeSegmentsAreFinite
  <2> QED
    BY <2>4, <2>5, <2>6
<1> QED
  BY <1>1, <1>2, <1>3

LEMMA LoadSucceeds ==
  ASSUME ListInv, FileInv, \A j \in Jobs : file.jobs[j] # Gone, NEW c, NEW r, r = LoadedJobs("no", c),
         kind = "hosts" => Cardinality(FreeSegments(heap)) >= NJobs
  PROVE  r[NJobs].ok
<1> DEFINE left(j) == Cardinality(FreeSegments(r[j].heap))
           S == {j \in 0 .. NJobs : r[j].ok /\ (kind = "hosts" => left(j) >= NJobs - j)}
<1>1. OneByOne("no", c, r)
  BY LoadedOneByOne
<1>2. r[0] = Result(EmptyList, heap, TRUE) /\ \A j \in 0 .. NJobs : Good(TextsOf(kind), heap, EmptyList, r[j])
  BY <1>1, Zenon DEF OneByOne
<1>3. 0 \in S
  <2>1. r[0].ok = TRUE /\ r[0].heap = heap
    BY <1>2 DEF Result
  <2> QED
    BY <2>1, Sizes
<1>4. ASSUME NEW j \in 1 .. NJobs, j - 1 \in S PROVE j \in S
  <2> DEFINE p == r[j - 1]
             q == r[j]
             t == file.jobs[j].list
  <2>1. p.ok /\ j - 1 \in 0 .. NJobs /\ j \in 0 .. NJobs /\ j \in Jobs
    BY <1>4, Sizes DEF Jobs
  <2>2. q = Loaded(t, p.heap, "no")
    <3>1. q = Loaded(t, p.heap, IF j = c THEN "no" ELSE "no")
      BY <1>1, <2>1 DEF OneByOne
    <3>2. (IF j = c THEN "no" ELSE "no") = "no"
      OBVIOUS
    <3> QED
      BY <3>1, <3>2
  <2>3. t \in JobTexts(kind)
    BY <2>1 DEF FileInv, SavedJobs
  <2>4. Lawful(TextsOf(kind), p.heap, EmptyList)
    <3>1. Good(TextsOf(kind), heap, EmptyList, p) /\ Lawful(TextsOf(kind), heap, EmptyList)
      BY <1>2, <2>1, ListsAreLawful
    <3>2. Lawful(TextsOf(kind), p.heap, p.list)
      BY <3>1, LawfulAfterGood
    <3> QED
      BY <3>2, EmptyIsLawful
  <2>5. kind = "hosts" => left(j - 1) >= NJobs - (j - 1)
    BY <1>4
  <2> HIDE DEF p, q, t
  <2>6. kind = "hosts" => ~ NoneLeft(p.heap)
    BY <2>1, <2>5, FreeSegmentsAreFinite, Sizes DEF p
  <2>7. q.ok
    BY <2>2, <2>3, <2>4, <2>6, LoadedIsGood DEF ListInv
  <2>8. kind = "hosts" => left(j) >= NJobs - j
    <3>1. kind = "hosts" => q = load_blocked_hosts(p.heap, t, "no")
      BY <2>2 DEF Loaded
    <3>2. kind = "hosts" => left(j) >= left(j - 1) - 1
      BY <3>1, <2>4, LoadedTakesOne DEF p, q
    <3>3. left(j) \in Nat /\ left(j - 1) \in Nat
      BY FreeSegmentsAreFinite
    <3> HIDE DEF left
    <3> QED
      BY <2>5, <3>2, <3>3, Sizes
  <2> QED
    BY <2>1, <2>7, <2>8 DEF q
<1> HIDE DEF S
<1>5. \A j \in 0 .. NJobs : j \in S
  BY <1>3, <1>4, Sizes, IntervalInduction
<1> QED
  BY <1>5, Sizes DEF S

----------------------------------------------------------------------------
(* What the queue owes to clients is in the table until it is saved, then  *)
(* in the file until it is loaded.                                         *)
Kept == /\ file.head /\ \A j \in Jobs : file.jobs[j] # Gone
        /\ \A o \in owed : \E j \in Jobs : file.jobs[j].used /\ file.jobs[j].sub = o
HasTable == pc[Main] \in {"serve"} \cup Cleaning /\ sem # "gone"
HasSaved == pc[Main] \in {"kill", "wait", "free", "off", "load"}
OwedInTable == HasTable => owed \subseteq Owed
NobodyCleans ==
  spoiled = "no" /\ pc[Main] \in {"off", "load"} =>
    \A c \in Children : pc[c] \notin {"fresh", "accepts"} \cup Cleaning
OwedInFile == spoiled = "no" /\ HasSaved /\ (\A p \in Processes : ~ Writes(p)) => owed = {} \/ Kept
OwedInv == OwedInTable /\ NobodyCleans /\ OwedInFile

LEMMA SameJob ==
  ASSUME NEW a \in JobRecords, NEW t, NEW b, b = [a EXCEPT !.list = t]
  PROVE  b.used = a.used /\ b.sub = a.sub
BY ZenonT(60) DEF JobRecords

(* A job of the queue stays, but the one of slot j.                        *)
LEMMA OwedStays ==
  ASSUME NEW j, \A i \in Jobs : i # j => jobs'[i] = jobs[i],
         NEW S, S \subseteq Owed,
         \/ \A o \in S : j \in Jobs /\ jobs[j].used => jobs[j].sub # o
         \/ j \in Jobs => jobs'[j].used = jobs[j].used /\ jobs'[j].sub = jobs[j].sub
  PROVE  S \subseteq Owed'
<1> SUFFICES ASSUME NEW o \in S PROVE o \in Owed'
  OBVIOUS
<1>1. PICK i \in Jobs : jobs[i].used /\ jobs[i].sub = o /\ o # 0
  BY DEF Owed
<1>2. jobs'[i].used /\ jobs'[i].sub = o
  BY <1>1
<1> QED
  BY <1>1, <1>2 DEF Owed

LEMMA WrittenJob ==
  ASSUME ListInv, FileInv, NEW i \in Jobs, file' = [file EXCEPT !.jobs[i] = Queue[i]]
  PROVE  /\ file'.head = file.head /\ file'.jobs[i] = Queue[i] /\ file'.jobs[i] # Gone
         /\ \A j \in Jobs : j # i => file'.jobs[j] = file.jobs[j]
<1> DEFINE js == [file.jobs EXCEPT ![i] = Queue[i]]
<1>1. js[i] = Queue[i] /\ \A j \in Jobs : j # i => js[j] = file.jobs[j]
  BY DEF FileInv
<1>2. file' = [file EXCEPT !.jobs = js]
  OBVIOUS
<1> HIDE DEF js
<1>3. file'.jobs = js /\ file'.head = file.head
  BY <1>2, ZenonT(60) DEF FileInv
<1>4. Queue[i] # Gone
  BY QueueIs, SavedIsNotGone
<1> QED
  BY <1>1, <1>3, <1>4

(* What was loaded from a file with the jobs owed has them.                *)
LEMMA LoadKeeps ==
  ASSUME ProcessInv, DataInv, HandOverInv, OwedInv, SegmentsSuffice, NEW f, NEW c, Load(f, c)
  PROVE  OwedInv'
<1> DEFINE r == LoadedJobs(f, c)
           whole == file.head /\ \A j \in Jobs : file.jobs[j] # Gone
           loads == whole /\ r[NJobs].ok
<1>1. /\ pc[Main] = "load" /\ pc' = [pc EXCEPT ![Main] = "serve"] /\ UNCHANGED file
      /\ jobs' = [j \in Jobs |-> IF loads THEN [file.jobs[j] EXCEPT !.list = r[j].list] ELSE EmptyJob]
      /\ owed' = IF spoiled # "no" \/ f # "no" THEN {} ELSE owed
  BY DEF Load
<1>2. pc'[Main] = "serve" /\ \A q \in Children : pc'[q] = pc[q]
  BY <1>1, Moved, NamesOfProcesses DEF Processes
<1>3. NobodyCleans' /\ OwedInFile'
  BY <1>2 DEF NobodyCleans, OwedInFile, HasSaved
<1>4. CASE owed' = {}
  BY <1>3, <1>4 DEF OwedInv, OwedInTable
<1>5. CASE owed' # {}
  <2>1. spoiled = "no" /\ f = "no" /\ owed' = owed /\ owed # {}
    BY <1>1, <1>5
  <2>2. \A p \in Processes : ~ Writes(p)
    BY <1>1, NamesOfProcesses DEF HandOverInv, Writes, Processes, Cleaning
  <2>3. Kept
    BY <1>1, <2>1, <2>2 DEF OwedInv, OwedInFile, HasSaved
  <2>4. ListInv /\ FileInv /\ 0 \notin owed
    BY DEF DataInv, NumbersInv
  <2>5. r = LoadedJobs("no", c)
    BY <2>1
  <2> HIDE DEF r
  <2>6. loads
    BY <1>1, <2>3, <2>4, <2>5, LoadSucceeds DEF Kept, SegmentsSuffice
  <2>7. ASSUME NEW j \in Jobs PROVE jobs'[j].used = file.jobs[j].used /\ jobs'[j].sub = file.jobs[j].sub
    <3>1. file.jobs[j] \in SavedJobs(kind)
      BY <2>3, <2>4 DEF Kept, FileInv
    <3>2. jobs'[j] = [file.jobs[j] EXCEPT !.list = r[j].list]
      BY <1>1, <2>6
    <3> DEFINE a == file.jobs[j]
               b == jobs'[j]
               t == r[j].list
    <3>3. a \in SavedJobs(kind) /\ b = [a EXCEPT !.list = t]
      BY <3>1, <3>2
    <3> HIDE DEF a, b, t
    <3>4. b.used = a.used /\ b.sub = a.sub
      BY <3>3, ZenonT(60) DEF SavedJobs
    <3> QED
      BY <3>4 DEF a, b
  <2>8. owed' \subseteq Owed'
    <3> SUFFICES ASSUME NEW o \in owed PROVE o \in Owed'
      BY <2>1
    <3>1. PICK j \in Jobs : file.jobs[j].used /\ file.jobs[j].sub = o
      BY <2>3 DEF Kept
    <3>2. jobs'[j].used /\ jobs'[j].sub = o /\ o # 0
      BY <2>4, <2>7, <3>1
    <3> QED
      BY <3>2 DEF Owed
  <2> QED
    BY <1>3, <2>8 DEF OwedInv, OwedInTable
<1> QED
  BY <1>4, <1>5

(* Main stays where it is, or goes on in clean_out after its save; nobody  *)
(* takes clients or writes who did not.                                    *)
LEMMA OwedGoesOn ==
  ASSUME OwedInv, UNCHANGED file, owed' \subseteq owed, owed \subseteq Owed => owed' \subseteq Owed',
         sem' # "gone" => sem # "gone", spoiled' = "no" => spoiled = "no",
         pc'[Main] = pc[Main] \/ (pc[Main] \in {"kill", "wait", "free"} /\ pc'[Main] \in {"wait", "free", "off"}),
         \A c \in Children : pc'[c] \in {"fresh", "accepts"} \cup Cleaning => pc[c] \in {"fresh", "accepts"} \cup Cleaning,
         \A c \in Children : pc'[Main] = "off" /\ pc[Main] # "off" => pc'[c] \notin {"fresh", "accepts"} \cup Cleaning,
         \A q \in Processes : pc[q] = "write" => pc'[q] = "write"
  PROVE  OwedInv'
<1>1. OwedInTable'
  BY DEF OwedInv, OwedInTable, HasTable, Cleaning
<1>2. NobodyCleans'
  BY DEF OwedInv, NobodyCleans, Cleaning
<1>3. OwedInFile'
  <2>1. spoiled' = "no" /\ HasSaved' => spoiled = "no" /\ HasSaved
    BY DEF HasSaved
  <2>2. (\A p \in Processes : ~ Writes(p))' => \A p \in Processes : ~ Writes(p)
    BY DEF Writes
  <2>3. Kept => Kept'
    BY DEF Kept
  <2> QED
    BY <2>1, <2>2, <2>3 DEF OwedInv, OwedInFile
<1> QED
  BY <1>1, <1>2, <1>3 DEF OwedInv

(* Something failed: the file is not relied on.                            *)
LEMMA OwedSpoiled ==
  ASSUME OwedInv, spoiled' # "no", UNCHANGED <<jobs, owed>>, sem' # "gone" => sem # "gone",
         pc'[Main] \in {"serve"} \cup Cleaning => pc[Main] \in {"serve"} \cup Cleaning
  PROVE  OwedInv'
<1>1. Owed' = Owed
  BY DEF Owed
<1> QED
  BY <1>1 DEF OwedInv, OwedInTable, NobodyCleans, OwedInFile, HasTable

LEMMA OwedStep ==
  ProcessInv /\ DataInv /\ HandOverInv /\ SnapshotInv /\ SnapshotInv' /\ OwedInv /\ SegmentsSuffice /\ [Next]_vars => OwedInv'
<1> SUFFICES ASSUME ProcessInv, DataInv, HandOverInv, SnapshotInv, SnapshotInv', OwedInv, SegmentsSuffice, [Next]_vars
             PROVE  OwedInv'
  OBVIOUS
<1>0. /\ Main \in Processes /\ Children \subseteq Processes /\ DOMAIN pc = Processes
      /\ \A q \in Processes : q = Main \/ q \in Children
      /\ Main \notin Children /\ Nobody # "gone" /\ \A q \in Processes : q # "gone"
  BY NamesOfProcesses DEF ProcessInv, Processes
<1>a. ListInv /\ FileInv /\ \A j \in Jobs : jobs[j] \in JobRecords
  BY DEF DataInv, ListInv
<1>1. ASSUME UNCHANGED <<pc, file, jobs, sem, owed, spoiled>> PROVE OwedInv'
  <2>1. Owed' = Owed
    BY <1>1 DEF Owed
  <2> QED
    BY <1>1, <2>1, OwedGoesOn
(* A child that serves a client, or ends.                                  *)
<1>2. ASSUME NEW c \in Children, pc[c] \in {"fresh", "accepts", "receives", "holds"},
             NEW to \in {"accepts", "receives", "holds", "none"}, pc' = [pc EXCEPT ![c] = to],
             to = "accepts" => pc[c] = "fresh",
             UNCHANGED <<file, spoiled>>, owed' \subseteq owed, owed \subseteq Owed => owed' \subseteq Owed',
             sem' # "gone" => sem # "gone"
      PROVE  OwedInv'
  <2>1. pc'[c] = to /\ \A q \in Processes : q # c => pc'[q] = pc[q]
    BY <1>0, <1>2, Moved
  <2>2. pc'[Main] = pc[Main]
    BY <1>0, <2>1
  <2>3. \A q \in Children : pc'[q] \in {"fresh", "accepts"} \cup Cleaning => pc[q] \in {"fresh", "accepts"} \cup Cleaning
    BY <1>0, <1>2, <2>1 DEF Cleaning
  <2>4. \A q \in Processes : pc[q] = "write" => pc'[q] = "write"
    BY <1>2, <2>1
  <2> QED
    BY <1>2, <2>2, <2>3, <2>4, OwedGoesOn
<1>3. ASSUME UNCHANGED jobs PROVE Owed' = Owed
  BY <1>3 DEF Owed
<1>4. CASE WaitChild \/ ForgetComputer \/ CheckerDies \/ (\E x \in Names, f \in Failures : Edit(x, f)) \/ UNCHANGED vars
  <2>1. UNCHANGED <<pc, file, jobs, sem, owed, spoiled>>
    BY <1>4 DEF WaitChild, ForgetComputer, CheckerDies, Edit, vars, processes, memory, history
  <2> QED
    BY <1>1, <2>1
<1>5. ASSUME NEW force, Start(force) PROVE OwedInv'
  <2>1. /\ pc' = [pc EXCEPT ![Main] = "load"] /\ pc[Main] = "off" /\ UNCHANGED <<file, owed, spoiled>>
        /\ \A c \in Children : pc[c] \notin {"fresh", "accepts"} \cup Cleaning
    BY <1>5 DEF Start, PortTaken, history
  <2>2. pc'[Main] = "load" /\ \A q \in Processes : q # Main => pc'[q] = pc[q]
    BY <1>0, <2>1, Moved
  <2>3. OwedInTable' /\ NobodyCleans'
    BY <1>0, <2>1, <2>2 DEF OwedInTable, HasTable, NobodyCleans, Cleaning
  <2>4. (\A p \in Processes : ~ Writes(p))' => \A p \in Processes : ~ Writes(p)
    BY <2>1, <2>2 DEF Writes
  <2>5. Kept => Kept'
    BY <2>1 DEF Kept
  <2> QED
    BY <2>1, <2>3, <2>4, <2>5 DEF OwedInv, OwedInFile, HasSaved
<1>6. CASE Loads
  BY <1>6, LoadKeeps DEF Loads
<1>7. CASE ForkChild
  <2>1. /\ pc[Main] = "serve" /\ \E c \in Children : pc[c] = "none"
        /\ pc' = [pc EXCEPT ![NewChild] = "fresh"] /\ UNCHANGED <<jobs, sem, owed>>
    BY <1>7 DEF ForkChild, memory, history
  <2>2. NewChild \in Children
    BY <2>1 DEF NewChild
  <2>3. pc'[Main] = "serve"
    BY <1>0, <2>1, <2>2, Moved
  <2> QED
    BY <1>3, <2>1, <2>3 DEF OwedInv, OwedInTable, HasTable, NobodyCleans, OwedInFile, HasSaved
<1>8. ASSUME NEW c \in Children, SetHandlers(c) PROVE OwedInv'
  <2>1. pc[c] = "fresh" /\ pc' = [pc EXCEPT ![c] = "accepts"] /\ UNCHANGED <<file, jobs, sem, owed, spoiled>>
    BY <1>8 DEF SetHandlers, memory, history
  <2> QED
    BY <1>2, <1>3, <2>1
<1>9. ASSUME NEW c \in Children, ClientServed(c) \/ HandlerReturns(c) PROVE OwedInv'
  <2>1. /\ pc[c] \in {"accepts", "receives", "holds"} /\ pc' = [pc EXCEPT ![c] = "none"]
        /\ UNCHANGED <<file, jobs, owed, spoiled>> /\ (sem' # "gone" => sem # "gone")
    BY <1>0, <1>9 DEF ClientServed, HandlerReturns, Ends, Holding, memory, history
  <2> QED
    BY <1>2, <1>3, <2>1
(* A request that puts a record in a slot, what was in it not being owed.  *)
<1>10. ASSUME NEW j, NEW a, jobs' = [jobs EXCEPT ![j] = a],
              owed' = owed \ {jobs[j].sub} \/ (~ jobs[j].used /\ owed' = owed)
       PROVE  owed' \subseteq owed /\ (owed \subseteq Owed => owed' \subseteq Owed')
  <2>1. \A i \in Jobs : i # j => jobs'[i] = jobs[i]
    BY <1>a, <1>10 DEF ListInv
  <2>2. owed \subseteq Owed => owed' \subseteq Owed
    BY <1>10
  <2> QED
    BY <1>10, <2>1, <2>2, OwedStays
<1>11. ASSUME NEW c \in Children, Requests(c) PROVE OwedInv'
  <2>1. ASSUME NEW f, NEW k, ReceiveComputer(c, f, k) PROVE OwedInv'
    <3>1. pc[c] = "holds" /\ pc' = [pc EXCEPT ![c] = "none"] /\ UNCHANGED <<file, jobs, owed, spoiled>> /\ (sem' # "gone" => sem # "gone")
      BY <1>0, <2>1 DEF ReceiveComputer, Ends, Holding, history
    <3> QED
      BY <1>2, <1>3, <3>1
  <2>2. ASSUME NEW f, NEW k, ReceivePools(c, f, k) PROVE OwedInv'
    <3>1. pc[c] = "accepts" /\ pc' = [pc EXCEPT ![c] = "none"] /\ UNCHANGED <<file, jobs, owed, spoiled, sem>>
      BY <2>2 DEF ReceivePools, Ends, history
    <3> QED
      BY <1>2, <1>3, <3>1
  <2>3. ASSUME NEW f, NEW k, ReceiveJob(c, f, k) PROVE OwedInv'
    <3>1. /\ pc[c] = "receives" /\ pc' = [pc EXCEPT ![c] = "none"] /\ UNCHANGED <<file, spoiled, sem>>
          /\ \E a : jobs' = [jobs EXCEPT ![at[c]] = a]
          /\ owed' = owed \ {jobs[at[c]].sub}
      BY <2>3 DEF ReceiveJob, Ends
    <3>2. owed' \subseteq owed /\ (owed \subseteq Owed => owed' \subseteq Owed')
      BY <1>10, <3>1
    <3> QED
      BY <1>2, <3>1, <3>2
  <2>4. ASSUME NEW f, NEW j \in Jobs, NEW x, ChangeHosts(c, j, x, f) PROVE OwedInv'
    <3>1. /\ pc[c] = "accepts" /\ pc' = [pc EXCEPT ![c] = "none"] /\ UNCHANGED <<file, owed, spoiled, sem>>
          /\ \E t : jobs' = [jobs EXCEPT ![j].list = t]
      BY <2>4 DEF ChangeHosts, Ends, history
    <3>2. PICK t : jobs' = [jobs EXCEPT ![j] = [jobs[j] EXCEPT !.list = t]]
      BY <3>1
    <3> DEFINE a == jobs[j]
               b == [a EXCEPT !.list = t]
    <3>3. a \in JobRecords /\ b = [a EXCEPT !.list = t]
      BY <1>a
    <3>4. jobs' = [jobs EXCEPT ![j] = b]
      BY <3>2
    <3> HIDE DEF a, b
    <3>5. b.used = a.used /\ b.sub = a.sub
      BY <3>3, SameJob
    <3>6. jobs'[j] = b /\ \A i \in Jobs : i # j => jobs'[i] = jobs[i]
      BY <1>a, <3>4 DEF ListInv
    <3>7. jobs'[j].used = jobs[j].used /\ jobs'[j].sub = jobs[j].sub
      BY <3>5, <3>6 DEF a
    <3>8. owed \subseteq Owed => owed' \subseteq Owed'
      BY <3>1, <3>6, <3>7, OwedStays
    <3> QED
      BY <1>2, <3>1, <3>8
  <2>5. CASE HoldSemaphore(c)
    <3>1. pc[c] = "accepts" /\ pc' = [pc EXCEPT ![c] = "holds"] /\ UNCHANGED <<file, jobs, owed, spoiled>> /\ (sem' # "gone" => sem # "gone")
      BY <2>5 DEF HoldSemaphore, history
    <3> QED
      BY <1>2, <1>3, <3>1
  <2>6. CASE ReserveJob(c)
    <3>1. /\ pc[c] = "accepts" /\ pc' = [pc EXCEPT ![c] = "receives"] /\ UNCHANGED <<file, owed, spoiled, sem>>
          /\ \E j \in Jobs : ~ jobs[j].used /\ jobs' = [jobs EXCEPT ![j] = Reserved]
      BY <2>6 DEF ReserveJob, history
    <3>2. owed' \subseteq owed /\ (owed \subseteq Owed => owed' \subseteq Owed')
      BY <1>10, <3>1
    <3> QED
      BY <1>2, <3>1, <3>2
  <2>7. CASE ReceiveFails(c)
    <3>1. /\ pc[c] = "receives" /\ pc' = [pc EXCEPT ![c] = "none"] /\ UNCHANGED <<file, spoiled, sem>>
          /\ jobs' = [jobs EXCEPT ![at[c]] = EmptyJob]
          /\ owed' = owed \ {jobs[at[c]].sub}
      BY <2>7 DEF ReceiveFails, Ends
    <3>2. owed' \subseteq owed /\ (owed \subseteq Owed => owed' \subseteq Owed')
      BY <1>10, <3>1
    <3> QED
      BY <1>2, <3>1, <3>2
  <2>8. ASSUME NEW j \in Jobs, DeleteJob(c, j) PROVE OwedInv'
    <3>1. /\ pc[c] = "accepts" /\ pc' = [pc EXCEPT ![c] = "none"] /\ UNCHANGED <<file, spoiled, sem>>
          /\ jobs' = [jobs EXCEPT ![j] = EmptyJob]
          /\ owed' = owed \ {jobs[j].sub}
      BY <2>8 DEF DeleteJob, Ends
    <3>2. owed' \subseteq owed /\ (owed \subseteq Owed => owed' \subseteq Owed')
      BY <1>10, <3>1
    <3> QED
      BY <1>2, <3>1, <3>2
  <2> QED
    BY <1>11, <2>1, <2>2, <2>3, <2>4, <2>5, <2>6, <2>7, <2>8 DEF Requests
<1>12. CASE Stop
  <2>1. pc' = [pc EXCEPT ![Main] = "save"] /\ UNCHANGED jobs /\ owed' = Owed
    BY <1>12 DEF Stop, CleanOut, memory
  <2>2. pc'[Main] = "save"
    BY <1>0, <2>1, Moved
  <2> QED
    BY <1>3, <2>1, <2>2 DEF OwedInv, OwedInTable, NobodyCleans, OwedInFile, HasSaved
<1>13. CASE StopGroup
  <2>1. pc[Main] = "serve" /\ pc' = Signalled /\ UNCHANGED jobs /\ owed' = Owed
    BY <1>13 DEF StopGroup, GroupGets
  <2>2. pc'[Main] = "save"
    BY <1>0, <2>1, SignalledIs
  <2> QED
    BY <1>3, <2>1, <2>2 DEF OwedInv, OwedInTable, NobodyCleans, OwedInFile, HasSaved
<1>14. ASSUME NEW p \in Processes, OpenFile(p) PROVE OwedInv'
  <2>1. pc[p] = "save" /\ UNCHANGED <<jobs, owed>> /\ (sem' # "gone" => sem # "gone")
    BY <1>0, <1>14 DEF OpenFile, Free
  <2>2. CASE pc' = [pc EXCEPT ![p] = "write"] /\ (spoiled' = "no" => spoiled = "no" \/ p = Main)
    <3>1. pc'[p] = "write" /\ \A q \in Processes : q # p => pc'[q] = pc[q]
      BY <2>2, Moved
    <3>2. OwedInTable'
      BY <1>0, <1>3, <2>1, <3>1 DEF OwedInv, OwedInTable, HasTable, Cleaning
    <3>3. NobodyCleans'
      <4>1. CASE p = Main
        BY <3>1, <4>1 DEF NobodyCleans
      <4>2. CASE p \in Children
        BY <1>0, <2>1, <2>2, <3>1, <4>2 DEF OwedInv, NobodyCleans, Cleaning
      <4> QED
        BY <1>0, <4>1, <4>2
    <3>4. OwedInFile'
      BY <3>1 DEF OwedInFile, Writes
    <3> QED
      BY <3>2, <3>3, <3>4 DEF OwedInv
  <2>3. CASE pc' = [pc EXCEPT ![p] = "kill"] /\ spoiled' = Worse
    <3>1. spoiled' # "no"
      BY <2>3 DEF Worse
    <3>2. pc'[Main] \in {"serve"} \cup Cleaning => pc[Main] \in {"serve"} \cup Cleaning
      BY <1>0, <2>1, <2>3, Moved DEF Cleaning
    <3> QED
      BY <2>1, <3>1, <3>2, OwedSpoiled
  <2> QED
    BY <1>14, <2>2, <2>3 DEF OpenFile, Gives
<1>15. ASSUME NEW p \in Processes, WriteJob(p) PROVE OwedInv'
  <2>1. /\ pc[p] = "write" /\ UNCHANGED <<jobs, heap, saved, spoiled, owed>>
        /\ file' = [file EXCEPT !.jobs[at[p]] = Queue[at[p]]]
    BY <1>15 DEF WriteJob, history
  <2>2. sem \in {p, "gone"} /\ at[p] \in Jobs /\ p # "gone" /\ p # Nobody
    BY <2>1, NamesOfProcesses DEF HandOverInv, Writes, Processes
  <2>3. CASE at[p] < NJobs /\ UNCHANGED <<pc, sem>>
    <3>1. OwedInTable' /\ NobodyCleans'
      BY <1>3, <2>1, <2>3 DEF OwedInv, OwedInTable, HasTable, NobodyCleans
    <3>2. OwedInFile'
      BY <2>1, <2>3 DEF OwedInFile, Writes
    <3> QED
      BY <3>1, <3>2 DEF OwedInv
  <2>4. CASE ~ (at[p] < NJobs) /\ pc' = [pc EXCEPT ![p] = "kill"] /\ sem' = Released(p)
    <3>1. pc'[p] = "kill" /\ \A q \in Processes : q # p => pc'[q] = pc[q]
      BY <2>4, Moved
    <3>2. sem' # "gone" => sem # "gone"
      BY <1>0, <2>4 DEF Released, Holding
    <3>3. OwedInTable'
      BY <1>0, <1>3, <2>1, <3>1, <3>2 DEF OwedInv, OwedInTable, HasTable, Cleaning
    <3>4. NobodyCleans'
      BY <1>0, <2>1, <3>1 DEF OwedInv, NobodyCleans, Cleaning
    <3>5. ASSUME spoiled' = "no", HasSaved' PROVE Kept'
      <4>1. sem # "gone" /\ spoiled # "mixed"
        BY <2>1, <3>5 DEF HandOverInv
      <4>2. pc[Main] \in {"serve"} \cup Cleaning
        <5>1. CASE p = Main
          BY <2>1, <5>1 DEF Cleaning
        <5>2. CASE p \in Children
          BY <1>0, <2>1, <3>1, <3>5, <5>2 DEF HasSaved, OwedInv, NobodyCleans, Cleaning
        <5> QED
          BY <1>0, <5>1, <5>2
      <4>3. owed \subseteq Owed
        BY <4>1, <4>2 DEF OwedInv, OwedInTable, HasTable
      <4>4. file.head /\ \A j \in 1 .. at[p] - 1 : file.jobs[j] # Gone
        BY <2>1, <4>1 DEF SnapshotInv, Writes
      <4>5. /\ file'.head = file.head /\ file'.jobs[at[p]] # Gone
            /\ \A j \in Jobs : j # at[p] => file'.jobs[j] = file.jobs[j]
        BY <1>a, <2>1, <2>2, WrittenJob
      <4>6. \A j \in Jobs : j = at[p] \/ j \in 1 .. at[p] - 1
        BY <2>2, <2>4, Sizes DEF Jobs
      <4>7. file'.head /\ \A j \in Jobs : file'.jobs[j] # Gone
        BY <4>4, <4>5, <4>6
      <4>8. \A j \in Jobs : AsSaved(Queue[j], j)
        BY <2>1, <4>1 DEF SnapshotInv, Writes
      <4>9. \A j \in Jobs : AsSaved(file.jobs[j], j)'
        BY <2>1, <4>1, <4>7 DEF SnapshotInv
      <4>10. \A j \in Jobs : file'.jobs[j].used = jobs[j].used /\ file'.jobs[j].sub = jobs[j].sub
        BY <1>a, <2>1, <4>8, <4>9, QueueIs DEF AsSaved
      <4>11. \A o \in owed : \E j \in Jobs : jobs[j].used /\ jobs[j].sub = o
        BY <4>3 DEF Owed
      <4> QED
        BY <2>1, <4>7, <4>10, <4>11 DEF Kept
    <3> QED
      BY <3>3, <3>4, <3>5 DEF OwedInv, OwedInFile
  <2> QED
    BY <1>15, <2>3, <2>4 DEF WriteJob, Gives
<1>16. ASSUME NEW p \in Processes, WriteFails(p) \/ WriteCrashes(p) PROVE OwedInv'
  <2>1. /\ pc[p] = "write" /\ UNCHANGED <<jobs, owed>> /\ spoiled' = Worse
        /\ \E to \in {"kill", "off", "none"} : pc' = [pc EXCEPT ![p] = to]
        /\ sem' = sem \/ sem' = Released(p)
    BY <1>16 DEF WriteFails, WriteCrashes, Gives, memory
  <2>2. spoiled' # "no" /\ (sem' # "gone" => sem # "gone")
    BY <1>0, <2>1 DEF Worse, Released, Holding
  <2>3. pc'[Main] \in {"serve"} \cup Cleaning => pc[Main] \in {"serve"} \cup Cleaning
    BY <1>0, <2>1, Moved DEF Cleaning
  <2> QED
    BY <2>1, <2>2, <2>3, OwedSpoiled
<1>17. CASE MainDies
  <2>1. UNCHANGED <<jobs, owed>> /\ spoiled' = Worse /\ pc' = [pc EXCEPT ![Main] = "off"]
    BY <1>17 DEF MainDies, Gives
  <2>2. spoiled' # "no" /\ pc'[Main] = "off"
    BY <1>0, <2>1, Moved DEF Worse
  <2> QED
    BY <2>2 DEF OwedInv, OwedInTable, HasTable, NobodyCleans, OwedInFile, Cleaning
<1>18. CASE Reboot
  <2>1. spoiled' = Worse /\ pc' = [q \in DOMAIN pc |-> IF q = Main THEN "off" ELSE "none"]
    BY <1>18 DEF Reboot
  <2>2. spoiled' # "no" /\ pc'[Main] = "off"
    BY <1>0, <2>1 DEF Worse
  <2> QED
    BY <2>2 DEF OwedInv, OwedInTable, HasTable, NobodyCleans, OwedInFile, Cleaning
<1>19. CASE OperatorKills
  <2>1. /\ pc[Main] = "off" /\ pc' = [q \in DOMAIN pc |-> IF q = Main THEN "off" ELSE "none"]
        /\ UNCHANGED <<file, owed, spoiled>>
    BY <1>19 DEF OperatorKills, history
  <2>2. pc'[Main] = "off" /\ \A c \in Children : pc'[c] = "none"
    BY <1>0, <2>1
  <2>3. OwedInTable' /\ NobodyCleans'
    BY <2>2 DEF OwedInTable, HasTable, NobodyCleans, Cleaning
  <2>4. spoiled = "no" => \A p \in Processes : ~ Writes(p)
    BY <1>0, <2>1 DEF OwedInv, NobodyCleans, Writes, Cleaning
  <2>5. Kept => Kept'
    BY <2>1 DEF Kept
  <2> QED
    BY <2>1, <2>3, <2>4, <2>5 DEF OwedInv, OwedInFile, HasSaved
<1>20. ASSUME NEW p \in Processes, KillGroup(p) PROVE OwedInv'
  <2> DEFINE next == [Signalled EXCEPT ![p] = "wait"]
  <2>1. /\ pc[p] = "kill" /\ pc' = next /\ UNCHANGED <<file, jobs, owed, spoiled>>
        /\ sem' # "gone" => sem # "gone"
    BY <1>0, <1>20 DEF KillGroup, GroupGets, history
  <2>2. next[p] = "wait" /\ \A q \in Processes : q # p => next[q] = Signalled[q]
    BY SignalledIs
  <2> HIDE DEF next
  <2>3. pc[Main] = "serve" => FALSE
    BY <1>0, <2>1 DEF HandOverInv, Cleaning
  <2>4. pc'[Main] = pc[Main] \/ (pc[Main] = "kill" /\ pc'[Main] = "wait")
    BY <1>0, <2>1, <2>2, <2>3, SignalledIs
  <2>5. \A c \in Children : pc'[c] \in {"fresh", "accepts"} \cup Cleaning => pc[c] \in {"fresh", "accepts"} \cup Cleaning
    BY <1>0, <2>1, <2>2, SignalledIs DEF ProcessInv, Cleaning
  <2>6. \A q \in Processes : pc[q] = "write" => pc'[q] = "write"
    BY <1>0, <2>1, <2>2, SignalledIs DEF Cleaning
  <2> QED
    BY <1>3, <2>1, <2>4, <2>5, <2>6, OwedGoesOn
<1>21. ASSUME NEW p \in Processes, WaitAll(p) PROVE OwedInv'
  <2>1. pc[p] = "wait" /\ pc' = [pc EXCEPT ![p] = "free"] /\ UNCHANGED <<file, jobs, sem, owed, spoiled>>
    BY <1>21 DEF WaitAll, Gives, memory, history
  <2>2. pc'[p] = "free" /\ \A q \in Processes : q # p => pc'[q] = pc[q]
    BY <2>1, Moved
  <2>3. pc'[Main] = pc[Main] \/ (pc[Main] = "wait" /\ pc'[Main] = "free")
    BY <1>0, <2>1, <2>2
  <2>4. \A c \in Children : pc'[c] \in {"fresh", "accepts"} \cup Cleaning => pc[c] \in {"fresh", "accepts"} \cup Cleaning
    BY <1>0, <2>1, <2>2 DEF Cleaning
  <2>5. \A q \in Processes : pc[q] = "write" => pc'[q] = "write"
    BY <2>1, <2>2
  <2> QED
    BY <1>3, <2>1, <2>3, <2>4, <2>5, OwedGoesOn
<1>22. ASSUME NEW p \in Processes, FreeAll(p) PROVE OwedInv'
  <2>1. /\ pc[p] = "free" /\ pc' = [pc EXCEPT ![p] = IF p = Main THEN "off" ELSE "none"] /\ sem' = "gone"
        /\ UNCHANGED <<file, owed>> /\ (spoiled' = "no" => spoiled = "no")
    BY <1>22 DEF FreeAll, Gives
  <2>2. pc'[p] = (IF p = Main THEN "off" ELSE "none") /\ \A q \in Processes : q # p => pc'[q] = pc[q]
    BY <2>1, Moved
  <2>3. OwedInTable'
    BY <2>1 DEF OwedInTable, HasTable
  <2>4. p = Main => \A c \in Children : pc[c] \notin {"fresh", "accepts"} \cup Cleaning
    BY <2>1 DEF HandOverInv, Mine, ProcessInv, Cleaning
  <2>5. NobodyCleans'
    <3>1. CASE p = Main
      BY <1>0, <2>2, <2>4, <3>1 DEF NobodyCleans
    <3>2. CASE p \in Children
      BY <1>0, <2>1, <2>2, <3>2 DEF OwedInv, NobodyCleans, Cleaning
    <3> QED
      BY <1>0, <3>1, <3>2
  <2>6. HasSaved' => HasSaved
    BY <1>0, <2>1, <2>2 DEF HasSaved
  <2>7. (\A q \in Processes : ~ Writes(q))' => \A q \in Processes : ~ Writes(q)
    BY <2>1, <2>2 DEF Writes
  <2>8. Kept => Kept'
    BY <2>1 DEF Kept
  <2> QED
    BY <2>1, <2>3, <2>5, <2>6, <2>7, <2>8 DEF OwedInv, OwedInFile
<1> QED
  BY <1>0, <1>4, <1>5, <1>6, <1>7, <1>8, <1>9, <1>11, <1>12, <1>13, <1>14, <1>15, <1>16, <1>17, <1>18, <1>19, <1>20, <1>21, <1>22 DEF Next, CleansOut

LEMMA OwedInit == Init => OwedInv
<1> SUFFICES ASSUME Init PROVE OwedInv
  OBVIOUS
<1>1. pc[Main] = "off" /\ \A c \in Children : pc[c] = "none"
  BY NamesOfProcesses DEF Init
<1>2. OwedInTable /\ NobodyCleans
  BY <1>1 DEF OwedInTable, HasTable, NobodyCleans, Cleaning
<1>3. CASE file = NoFile
  BY <1>3, <1>2 DEF Init, OwedInv, OwedInFile
<1>4. CASE file = OldFile
  <2> DEFINE e == [used |-> TRUE, sub |-> OldJob, list |-> IF kind = "pools" THEN <<>> ELSE <<OldEntry>>]
  <2>1. file = [head |-> TRUE, jobs |-> [EmptyQueue EXCEPT ![1] = e]]
    BY <1>4 DEF OldFile
  <2>2. e.used /\ e.sub = OldJob
    OBVIOUS
  <2> HIDE DEF e
  <2>3. 1 \in Jobs
    BY Sizes DEF Jobs
  <2>4. file.head /\ file.jobs[1].used /\ file.jobs[1].sub = OldJob
    BY <2>1, <2>2, <2>3 DEF EmptyQueue
  <2>5. FileInv
    BY DataInit
  <2>6. \A j \in Jobs : file.jobs[j] # Gone
    <3>1. saved = file.jobs \/ file = NoFile
      BY DEF Init
    <3>2. file = NoFile => FALSE
      BY <2>4 DEF NoFile
    <3> QED
      BY <2>5, <3>1, <3>2, SavedIsNotGone DEF FileInv
  <2>7. owed \subseteq {OldJob}
    BY DEF Init
  <2> QED
    BY <1>2, <2>3, <2>4, <2>6, <2>7 DEF OwedInv, OwedInFile, Kept
<1> QED
  BY <1>3, <1>4 DEF Init

(* A job acknowledged before the master was told to stop is in the queue   *)
(* of the next master, unless it was deleted or a fault came between, as   *)
(* long as a segment is left for the blocked hosts of each job when a      *)
(* master loads (database_save, database_load, request.c).                 *)
THEOREM QueueIsKept == Spec /\ []SegmentsSuffice => []QueueKept
<1>1. (ProcessInv /\ DataInv /\ HandOverInv /\ SnapshotInv) /\ (ProcessInv /\ DataInv /\ HandOverInv /\ SnapshotInv)'
      /\ SegmentsSuffice /\ OwedInv /\ [Next]_vars => OwedInv'
  BY OwedStep
<1>2. HandOverInv /\ OwedInv => QueueKept
  BY DEF HandOverInv, OwedInv, OwedInTable, HasTable, QueueKept
<1> QED
  BY <1>1, <1>2, OwedInit, StorageInvariant, PTL DEF Spec

----------------------------------------------------------------------------
(* What a change of one list does to the entries of all.                   *)
JobsByOne ==
  \A j \in Jobs :
    kind = "hosts" /\ jobs[j].used /\ jobs'[j].used /\ jobs[j].sub = jobs'[j].sub /\ pc[Main] # "load"
      => ByOne(Listed(heap, jobs[j].list), Listed(heap', jobs'[j].list))
EditedByOne == faults' = faults /\ ~NoneLeft(heap) => ByOne(Listed(heap, edited), Listed(heap', edited'))

LEMMA SameIsByOne == ASSUME NEW a, NEW b, a = b PROVE ByOne(a, b)
<1>1. ((a \ b) \cup (b \ a)) \cap Names = {}
  OBVIOUS
<1> QED
  BY <1>1, FS_EmptySet DEF ByOne

LEMMA OneEntryIsByOne ==
  ASSUME NEW h, NEW l, NEW r, OneEntry(h, l, r)
  PROVE  ByOne(Listed(h, l), Listed(r.heap, r.list))
<1> DEFINE a == Listed(h, l)
           b == Listed(r.heap, r.list)
           d == ((a \ b) \cup (b \ a)) \cap Names
<1>1. PICK x : \A y \in Names \ {x} : y \in b <=> y \in a
  BY DEF OneEntry
<1>2. d \subseteq {x}
  BY <1>1
<1>3. IsFiniteSet({x}) /\ Cardinality({x}) = 1
  BY FS_Singleton
<1>4. Cardinality(d) <= 1
  BY <1>2, <1>3, FS_Subset
<1> QED
  BY <1>4 DEF ByOne

LEMMA SameListed ==
  ASSUME NEW h, NEW g, NEW l, l.n \in Nat, l.n > 0 => g[l.shm] = h[l.shm]
  PROVE  Listed(g, l) = Listed(h, l)
BY DEF Listed, Entries

InUse(l) == l.n \in Nat /\ (l.n > 0 => l.shm \in Segs /\ heap[l.shm] # Gone)
LEMMA ListsApart ==
  ASSUME ListInv
  PROVE  /\ InUse(pools) /\ InUse(edited) /\ \A j \in Jobs : InUse(jobs[j].list)
         /\ \A i, j \in Jobs : i # j /\ jobs[i].list.n > 0 => jobs[j].list.shm # jobs[i].list.shm
         /\ \A j \in Jobs : jobs[j].list.n > 0 => pools.shm # jobs[j].list.shm /\ edited.shm # jobs[j].list.shm
         /\ edited.n > 0 => pools.shm # edited.shm /\ \A j \in Jobs : jobs[j].list.shm # edited.shm
<1> DEFINE L == Owners(jobs, pools, edited)
<1>1. AllValid(heap, L)
  BY DEF ListInv, Lists, Owners
<1>2. pools \in ListRecords /\ edited \in ListRecords /\ L = Owners(jobs, pools, edited) /\ NJobs \in Nat /\ jobs \in [Jobs -> JobRecords]
  BY Sizes DEF ListInv
<1> HIDE DEF L
<1>3. /\ DOMAIN L = 1 .. NJobs + 2 /\ L[NJobs + 1] = pools /\ L[NJobs + 2] = edited
      /\ \A j \in Jobs : j \in DOMAIN L /\ L[j] = jobs[j].list
  BY <1>2, OwnersAre
<1>4. \A j \in Jobs : j # NJobs + 1 /\ j # NJobs + 2
  BY <1>2 DEF Jobs
<1>5. NJobs + 1 \in 1 .. NJobs + 2 /\ NJobs + 2 \in 1 .. NJobs + 2 /\ NJobs + 1 # NJobs + 2
  BY <1>2
<1>6. ASSUME NEW l, Valid(heap, l) PROVE InUse(l)
  BY <1>6, SegmentsAre DEF Valid, ListRecords, InUse
<1>7. InUse(pools) /\ InUse(edited) /\ \A j \in Jobs : InUse(jobs[j].list)
  BY <1>1, <1>3, <1>5, <1>6 DEF AllValid
<1>8. \A o \in DOMAIN L : L[o].n > 0 => \A q \in DOMAIN L : q # o => L[q].shm # L[o].shm
  BY <1>1 DEF AllValid
<1>9. \A i, j \in Jobs : i # j /\ jobs[i].list.n > 0 => jobs[j].list.shm # jobs[i].list.shm
  BY <1>3, <1>8
<1>10. \A j \in Jobs : jobs[j].list.n > 0 => pools.shm # jobs[j].list.shm /\ edited.shm # jobs[j].list.shm
  BY <1>3, <1>4, <1>5, <1>8
<1>11. edited.n > 0 => pools.shm # edited.shm /\ \A j \in Jobs : jobs[j].list.shm # edited.shm
  BY <1>3, <1>4, <1>5, <1>8
<1> QED
  BY <1>7, <1>9, <1>10, <1>11

(* The other lists keep their entries.                                     *)
LEMMA KeptAside ==
  ASSUME NEW T, NEW l, NEW r, Good(T, heap, l, r), NEW k, InUse(k), k.n > 0 => k.shm # l.shm
  PROVE  Listed(r.heap, k) = Listed(heap, k)
<1>1. k.n > 0 => r.heap[k.shm] = heap[k.shm]
  BY DEF Good, Aside, InUse
<1> QED
  BY <1>1, SameListed DEF InUse

LEMMA EmptyUsesNone == EmptyList.shm = None /\ \A k : InUse(k) /\ k.n > 0 => k.shm # EmptyList.shm
BY SegmentsAre DEF EmptyList, InUse

LEMMA OneJobChanges ==
  ASSUME ListInv, NEW j, NEW l, l = IF j \in Jobs THEN jobs[j].list ELSE EmptyList, NEW r,
         Good(TextsOf(kind), heap, l, r), heap' = r.heap, edited' = edited, \A i \in Jobs : i # j => jobs'[i] = jobs[i],
         \/ j \notin Jobs
         \/ ~ (jobs[j].used /\ jobs'[j].used /\ jobs[j].sub = jobs'[j].sub)
         \/ jobs'[j].list = r.list /\ OneEntry(heap, l, r)
  PROVE  JobsByOne /\ EditedByOne
<1>1. Listed(heap', edited) = Listed(heap, edited)
  BY ListsApart, KeptAside, EmptyUsesNone
<1>2. \A i \in Jobs : i # j => Listed(heap', jobs[i].list) = Listed(heap, jobs[i].list)
  BY ListsApart, KeptAside, EmptyUsesNone
<1>3. EditedByOne
  BY <1>1, SameIsByOne DEF EditedByOne
<1>4. ASSUME NEW i \in Jobs, jobs[i].used, jobs'[i].used, jobs[i].sub = jobs'[i].sub
      PROVE  ByOne(Listed(heap, jobs[i].list), Listed(heap', jobs'[i].list))
  <2>1. CASE i # j
    BY <1>2, <2>1, SameIsByOne
  <2>2. CASE i = j
    BY <1>4, <2>2, OneEntryIsByOne
  <2> QED
    BY <2>1, <2>2
<1> QED
  BY <1>3, <1>4 DEF JobsByOne

LEMMA OtherListChanges ==
  ASSUME ListInv, NEW r, Good(TextsOf(kind), heap, pools, r), heap' = r.heap, UNCHANGED <<jobs, edited>>
  PROVE  JobsByOne /\ EditedByOne
<1>1. Listed(heap', edited) = Listed(heap, edited)
  BY ListsApart, KeptAside
<1>2. \A i \in Jobs : Listed(heap', jobs[i].list) = Listed(heap, jobs[i].list)
  BY ListsApart, KeptAside
<1> QED
  BY <1>1, <1>2, SameIsByOne DEF JobsByOne, EditedByOne

LEMMA NoListChanges ==
  ASSUME ListInv, heap' = heap, edited' = edited, \A j \in Jobs : jobs'[j].used => jobs'[j] = jobs[j] \/ ~ jobs[j].used
  PROVE  JobsByOne /\ EditedByOne
BY SameIsByOne DEF JobsByOne, EditedByOne

(* Every fault is counted.                                                 *)
LEMMA FaultsCounted == faults \in Nat /\ [Next]_vars => faults' \in Nat
<1> SUFFICES ASSUME faults \in Nat, [Next]_vars PROVE faults' \in {faults, faults + 1}
  OBVIOUS
<1>1. CASE \/ \E force \in BOOLEAN : Start(force)
           \/ ForkChild \/ WaitChild
           \/ \E c \in Children : SetHandlers(c) \/ ClientServed(c) \/ HandlerReturns(c)
           \/ Stop \/ StopGroup \/ ForgetComputer \/ Loads
           \/ CheckerDies \/ MainDies \/ OperatorKills \/ Reboot \/ UNCHANGED vars
  BY <1>1 DEF Start, ForkChild, WaitChild, SetHandlers, ClientServed, HandlerReturns, Stop, StopGroup, ForgetComputer,
              Loads, Load, CheckerDies, MainDies, OperatorKills, Reboot, vars, Blame, Fault
<1>2. CASE \E p \in DOMAIN pc : OpenFile(p) \/ WriteJob(p) \/ KillGroup(p) \/ WaitAll(p) \/ FreeAll(p) \/ WriteFails(p) \/ WriteCrashes(p)
  BY <1>2 DEF OpenFile, WriteJob, KillGroup, WaitAll, FreeAll, WriteFails, WriteCrashes, Fault
<1>3. ASSUME NEW x, NEW f, Edit(x, f) PROVE faults' \in {faults, faults + 1}
  BY <1>3 DEF Edit, Blame
<1>4. ASSUME NEW c, Requests(c) PROVE faults' \in {faults, faults + 1}
  <2>1. ASSUME NEW f, NEW k, ReceiveComputer(c, f, k) \/ ReceivePools(c, f, k) PROVE faults' \in {faults, faults + 1}
    BY <2>1 DEF ReceiveComputer, ReceivePools, Blame
  <2>2. ASSUME NEW f, NEW k, ReceiveJob(c, f, k) PROVE faults' \in {faults, faults + 1}
    BY <2>2 DEF ReceiveJob, Blame
  <2>3. ASSUME NEW f, NEW j, NEW x, ChangeHosts(c, j, x, f) PROVE faults' \in {faults, faults + 1}
    BY <2>3 DEF ChangeHosts, Blame
  <2>4. CASE HoldSemaphore(c) \/ ReserveJob(c) \/ ReceiveFails(c) \/ \E j \in Jobs : DeleteJob(c, j)
    BY <2>4 DEF HoldSemaphore, ReserveJob, ReceiveFails, DeleteJob, Fault
  <2> QED
    BY <1>4, <2>1, <2>2, <2>3, <2>4 DEF Requests
<1> QED
  BY <1>1, <1>2, <1>3, <1>4 DEF Next, CleansOut

LEMMA OneEntryStep == ListInv /\ FileInv /\ NumbersInv /\ faults \in Nat /\ [Next]_vars => JobsByOne /\ EditedByOne
<1> SUFFICES ASSUME ListInv, FileInv, NumbersInv, faults \in Nat, [Next]_vars PROVE JobsByOne /\ EditedByOne
  OBVIOUS
<1> DEFINE T == TextsOf(kind)
           Done == JobsByOne /\ EditedByOne
<1>0. kind \in {"hosts", "variables", "pools"} /\ jobs \in [Jobs -> JobRecords] /\ requests \in Nat /\ requests <= MaxRequests
  BY Sizes DEF ListInv
<1>a. /\ Lawful(T, heap, pools) /\ Lawful(T, heap, edited) /\ Lawful(T, heap, EmptyList)
      /\ \A j \in Jobs : Lawful(T, heap, jobs[j].list)
  BY ListsAreLawful
<1> HIDE DEF T
<1>1. CASE \/ \E force \in BOOLEAN : Start(force)
           \/ ForkChild \/ WaitChild
           \/ \E c \in Children : SetHandlers(c) \/ ClientServed(c) \/ HandlerReturns(c)
           \/ Stop \/ StopGroup
           \/ CheckerDies \/ MainDies \/ OperatorKills \/ UNCHANGED vars
  <2>1. UNCHANGED <<jobs, heap, edited>>
    BY <1>1 DEF Start, ForkChild, WaitChild, SetHandlers, ClientServed, HandlerReturns, Stop, StopGroup,
                CheckerDies, MainDies, OperatorKills, vars, memory, history
  <2> QED
    BY <2>1, NoListChanges
<1>2. CASE \E p \in DOMAIN pc : OpenFile(p) \/ WriteJob(p) \/ KillGroup(p) \/ WaitAll(p) \/ WriteFails(p) \/ WriteCrashes(p)
  <2>1. UNCHANGED <<jobs, heap, edited>>
    BY <1>2 DEF OpenFile, WriteJob, KillGroup, WaitAll, WriteFails, WriteCrashes, memory, history
  <2> QED
    BY <2>1, NoListChanges
<1>3. CASE Loads
  <2>1. PICK f, k : Load(f, k)
    BY <1>3 DEF Loads
  <2> DEFINE r == LoadedJobs(f, k)
             whole == file.head /\ \A j \in Jobs : file.jobs[j] # Gone
  <2>2. pc[Main] = "load" /\ edited' = edited /\ heap' = IF whole THEN r[NJobs].heap ELSE heap
    BY <2>1 DEF Load
  <2>3. r = LoadedJobs(f, k)
    OBVIOUS
  <2> HIDE DEF r
  <2>4. CASE whole
    <3>0. NJobs \in 0 .. NJobs
      BY Sizes
    <3>1. OneByOne(f, k, r)
      BY <2>3, <2>4, LoadedOneByOne
    <3>2. Good(TextsOf(kind), heap, EmptyList, r[NJobs])
      BY <3>0, <3>1, Zenon DEF OneByOne
    <3>3. Listed(heap', edited) = Listed(heap, edited)
      BY <2>2, <2>4, <3>2, ListsApart, KeptAside, EmptyUsesNone
    <3> QED
      BY <2>2, <3>3, SameIsByOne DEF JobsByOne, EditedByOne
  <2>5. CASE ~ whole
    BY <2>2, <2>5, SameIsByOne DEF JobsByOne, EditedByOne
  <2> QED
    BY <2>4, <2>5
<1>4. ASSUME NEW c \in Children, HoldSemaphore(c) PROVE Done
  <2>1. UNCHANGED <<jobs, heap, edited>>
    BY <1>4 DEF HoldSemaphore
  <2> QED
    BY <2>1, NoListChanges
<1>5. ASSUME NEW c \in Children, NEW f, NEW k, ReceiveComputer(c, f, k) PROVE Done
  <2> DEFINE r == recv_computer_pools(heap, Sent, f, k)
  <2>1. kind = "pools" /\ heap' = r.heap /\ UNCHANGED <<jobs, edited>>
    BY <1>5 DEF ReceiveComputer
  <2>2. Good(T, heap, EmptyList, r)
    BY <1>a, <2>1, SentIsText, ReceivedPoolsAreGood DEF T
  <2> HIDE DEF r
  <2>3. Good(T, heap, pools, r)
    BY <1>a, <2>2, GoodFromEmpty
  <2> QED
    BY <2>1, <2>3, OtherListChanges DEF T
<1>6. ASSUME NEW c \in Children, NEW f, NEW k, ReceivePools(c, f, k) PROVE Done
  <2> DEFINE r == recv_computer_pools(heap, Sent, f, k)
             q == Result(r.list, Removed(r.heap, pools.shm), TRUE)
  <2>1. kind = "pools" /\ heap' = Removed(r.heap, pools.shm) /\ UNCHANGED <<jobs, edited>>
    BY <1>6 DEF ReceivePools
  <2>2. Good(T, heap, EmptyList, r)
    BY <1>a, <2>1, SentIsText, ReceivedPoolsAreGood DEF T
  <2> HIDE DEF r
  <2>3. Good(T, heap, pools, q)
    BY <1>a, <2>2, SwappedIsGood
  <2>4. heap' = q.heap
    BY <2>1 DEF Result
  <2> HIDE DEF q
  <2> QED
    BY <2>1, <2>3, <2>4, OtherListChanges DEF T
<1>7. CASE ForgetComputer
  <2> DEFINE q == Freed(heap, pools, TRUE)
  <2>1. heap' = q.heap /\ UNCHANGED <<jobs, edited>>
    BY <1>7 DEF ForgetComputer, Freed, Result
  <2>2. Good(T, heap, pools, q)
    BY <1>a, FreedIsGood
  <2> HIDE DEF q
  <2> QED
    BY <2>1, <2>2, OtherListChanges DEF T
<1>8. ASSUME NEW c \in Children, ReserveJob(c) PROVE Done
  <2>1. PICK j \in Jobs : ~ jobs[j].used /\ jobs' = [jobs EXCEPT ![j] = Reserved]
    BY <1>8 DEF ReserveJob
  <2>2. heap' = heap /\ edited' = edited
    BY <1>8 DEF ReserveJob
  <2>3. \A i \in Jobs : jobs'[i].used => jobs'[i] = jobs[i] \/ ~ jobs[i].used
    BY <1>0, <2>1
  <2> QED
    BY <2>2, <2>3, NoListChanges
<1>9. ASSUME NEW c \in Children, NEW f, NEW k, ReceiveJob(c, f, k) PROVE Done
  <2> DEFINE r == recv_envvars(heap, SentVariables, f, k)
             rec == [used |-> TRUE, sub |-> requests', list |-> r.list]
             j == at[c]
             l == IF j \in Jobs THEN jobs[j].list ELSE EmptyList
  <2>1. jobs' = [jobs EXCEPT ![j] = rec] /\ heap' = r.heap /\ edited' = edited /\ requests < MaxRequests /\ requests' = requests + 1
    BY <1>9 DEF ReceiveJob, SentVariables, Request
  <2>2. Good(T, heap, EmptyList, r)
    BY ReceivedIsGood DEF T
  <2> HIDE DEF r
  <2>3. rec.sub = requests + 1
    BY <2>1
  <2> HIDE DEF rec
  <2>4. j \in Jobs => jobs'[j] = rec
    BY <1>0, <2>1
  <2>5. \A i \in Jobs : i # j => jobs'[i] = jobs[i]
    BY <1>0, <2>1
  <2>6. j \in Jobs => jobs[j].sub # requests + 1
    <3>1. j \in Jobs => jobs[j].sub \in 0 .. requests \cup {MaxRequests + 1}
      BY DEF NumbersInv, Numbers, OldJob
    <3> QED
      BY <1>0, <2>1, <3>1, Sizes
  <2>7. Good(T, heap, l, r)
    BY <1>a, <2>2, GoodFromEmpty
  <2>8. l = IF j \in Jobs THEN jobs[j].list ELSE EmptyList
    OBVIOUS
  <2> HIDE DEF l, j
  <2>9. j \notin Jobs \/ ~ (jobs[j].used /\ jobs'[j].used /\ jobs[j].sub = jobs'[j].sub)
    BY <2>3, <2>4, <2>6
  <2> QED
    BY <2>1, <2>5, <2>7, <2>8, <2>9, OneJobChanges DEF T
<1>10. ASSUME NEW c \in Children, ReceiveFails(c) PROVE Done
  <2> DEFINE r == recv_envvars(heap, SentVariables, "no", 0)
             j == at[c]
             l == IF j \in Jobs THEN jobs[j].list ELSE EmptyList
  <2>1. Good(T, heap, EmptyList, r) /\ (kind # "variables" => r.list = EmptyList /\ r.heap = heap)
    BY ReceivedIsGood DEF T
  <2>2. /\ jobs' = [jobs EXCEPT ![j] = EmptyJob] /\ edited' = edited
        /\ heap' = IF kind = "variables" THEN recv_envvars(heap, Sent, "no", 0).heap ELSE heap
    BY <1>10 DEF ReceiveFails
  <2>3. heap' = r.heap
    <3>1. CASE kind = "variables"
      BY <2>2, <3>1 DEF SentVariables
    <3>2. CASE kind # "variables"
      BY <2>1, <2>2, <3>2
    <3> QED
      BY <3>1, <3>2
  <2> HIDE DEF r
  <2>4. \A i \in Jobs : i # j => jobs'[i] = jobs[i]
    BY <1>0, <2>2
  <2>5. j \in Jobs => jobs'[j].used = FALSE
    BY <1>0, <2>2, EmptyRecords
  <2>6. Good(T, heap, l, r)
    BY <1>a, <2>1, GoodFromEmpty
  <2>7. l = IF j \in Jobs THEN jobs[j].list ELSE EmptyList
    OBVIOUS
  <2> HIDE DEF l, j
  <2>8. j \notin Jobs \/ ~ (jobs[j].used /\ jobs'[j].used /\ jobs[j].sub = jobs'[j].sub)
    BY <2>5
  <2> QED
    BY <2>2, <2>3, <2>4, <2>6, <2>7, <2>8, OneJobChanges DEF T
<1>11. ASSUME NEW c \in Children, NEW j \in Jobs, DeleteJob(c, j) PROVE Done
  <2> DEFINE q == Freed(heap, jobs[j].list, TRUE)
             l == jobs[j].list
  <2>1. jobs' = [jobs EXCEPT ![j] = EmptyJob] /\ heap' = q.heap /\ edited' = edited
    BY <1>11 DEF DeleteJob, Freed, Result
  <2>2. Good(T, heap, l, q) /\ l = IF j \in Jobs THEN jobs[j].list ELSE EmptyList
    BY <1>a, FreedIsGood
  <2> HIDE DEF q, l
  <2>3. \A i \in Jobs : i # j => jobs'[i] = jobs[i]
    BY <1>0, <2>1
  <2>4. jobs'[j].used = FALSE
    BY <1>0, <2>1, EmptyRecords
  <2>5. j \notin Jobs \/ ~ (jobs[j].used /\ jobs'[j].used /\ jobs[j].sub = jobs'[j].sub)
    BY <2>4
  <2> QED
    BY <2>1, <2>2, <2>3, <2>5, OneJobChanges DEF T
<1>12. ASSUME NEW c \in Children, NEW j \in Jobs, NEW x \in Names, NEW f, ChangeHosts(c, j, x, f) PROVE Done
  <2> DEFINE l == jobs[j].list
  <2>1. kind = "hosts" /\ edited' = edited
    BY <1>12 DEF ChangeHosts
  <2>2. PICK r : /\ \/ r = job_block_host_add(heap, jobs[j].list, x, f)
                    \/ r = job_block_host_remove_by_name(heap, jobs[j].list, x, f)
                    \/ \E i \in 1 .. jobs[j].list.n : r = job_delete_blocked_host(heap, jobs[j].list, i, f)
                 /\ jobs' = [jobs EXCEPT ![j].list = r.list] /\ heap' = r.heap
    BY <1>12 DEF ChangeHosts
  <2>3. T = DistinctTexts
    BY <2>1 DEF T, TextsOf
  <2>4. Good(T, heap, l, r) /\ OneEntry(heap, l, r) /\ l = IF j \in Jobs THEN jobs[j].list ELSE EmptyList
    BY <1>a, <2>2, <2>3, BlockHostIsGood, UnblockNameIsGood, UnblockAtIsGood
  <2> DEFINE rec == [jobs[j] EXCEPT !.list = r.list]
  <2>5. jobs' = [jobs EXCEPT ![j] = rec]
    BY <2>2
  <2>6. rec.list = r.list
    BY <1>0, <2>4, JobFields DEF Good, Valid
  <2> HIDE DEF rec, l
  <2>7. \A i \in Jobs : i # j => jobs'[i] = jobs[i]
    BY <1>0, <2>5
  <2>8. jobs'[j].list = r.list
    BY <1>0, <2>5, <2>6
  <2> QED
    BY <2>1, <2>2, <2>4, <2>7, <2>8, OneJobChanges DEF T
<1>13. ASSUME NEW x \in Names, NEW f, Edit(x, f) PROVE Done
  <2>1. PICK r : /\ \/ kind = "pools" /\ r = computer_pool_add(heap, edited, x, f)
                    \/ kind = "pools" /\ r = computer_pool_remove(heap, edited, x, f)
                    \/ kind = "variables" /\ r = envvars_variable_add(heap, edited, x, f)
                    \/ kind = "variables" /\ r = envvars_variable_delete(heap, edited, x, f)
                 /\ edited' = r.list /\ heap' = r.heap
    BY <1>13 DEF Edit
  <2>2. (kind = "pools" => T = DistinctTexts) /\ (kind = "variables" => T = Texts)
    BY DEF T, TextsOf
  <2>3. f = "no" /\ ~ NoneLeft(heap) => OneEntry(heap, edited, r)
    BY <1>a, <2>1, <2>2, AddPoolIsGood, RemovePoolIsGood, AddVariableIsGood, DeleteVariableIsGood
  <2>4. faults' = faults => f = "no"
    BY <1>13 DEF Edit, Blame
  <2>5. EditedByOne
    BY <2>1, <2>3, <2>4, OneEntryIsByOne DEF EditedByOne
  <2>6. JobsByOne
    BY <2>1 DEF JobsByOne
  <2> QED
    BY <2>5, <2>6
<1>14. ASSUME NEW p, FreeAll(p) PROVE Done
  <2>1. /\ jobs' = [j \in Jobs |-> EmptyJob] /\ edited' = edited
        /\ heap' = [s \in Segs |-> IF s \in {jobs[j].list.shm : j \in Jobs} \cup {pools.shm} THEN Gone ELSE heap[s]]
    BY <1>14 DEF FreeAll
  <2>2. edited.n > 0 => heap'[edited.shm] = heap[edited.shm]
    BY <2>1, ListsApart DEF InUse
  <2>3. Listed(heap', edited) = Listed(heap, edited)
    BY <2>2, ListsApart, SameListed DEF InUse
  <2>4. JobsByOne
    BY <2>1, EmptyRecords DEF JobsByOne
  <2> QED
    BY <2>1, <2>3, <2>4, SameIsByOne DEF EditedByOne
<1>15. CASE Reboot
  <2>1. jobs' = [j \in Jobs |-> EmptyJob] /\ faults' = faults + 1
    BY <1>15 DEF Reboot, Fault
  <2>2. faults' # faults
    BY <2>1
  <2>3. JobsByOne
    BY <2>1, EmptyRecords DEF JobsByOne
  <2> QED
    BY <2>2, <2>3 DEF EditedByOne
<1> QED
  BY <1>1, <1>2, <1>3, <1>4, <1>5, <1>6, <1>7, <1>8, <1>9, <1>10, <1>11, <1>12, <1>13, <1>14, <1>15 DEF Next, Requests, CleansOut

(* A change of a list, or a failed one, costs no entry but the one it is   *)
(* about: for blocked hosts whatever call fails, for variables and pools   *)
(* when none does (job.c, envvars.c, computer_pool.c).                     *)
THEOREM EntriesStay == Spec => OneEntryChanges
<1> DEFINE F == faults \in Nat
           A == /\ \A j \in Jobs :
                     kind = "hosts" /\ jobs[j].used /\ jobs'[j].used /\ jobs[j].sub = jobs'[j].sub /\ pc[Main] # "load"
                       => ByOne(Listed(heap, jobs[j].list), Listed(heap', jobs'[j].list))
                /\ faults' = faults /\ ~NoneLeft(heap) => ByOne(Listed(heap, edited), Listed(heap', edited'))
<1>1. DataInv /\ F /\ [Next]_vars => [A]_vars
  BY OneEntryStep DEF JobsByOne, EditedByOne, DataInv
<1>2. Init => F
  BY DEF Init
<1>3. F /\ [Next]_vars => F'
  BY FaultsCounted
<1>4. Spec => []F
  <2> HIDE DEF F
  <2> QED
    BY <1>2, <1>3, PTL DEF Spec
<1>5. [][A]_vars <=> OneEntryChanges
  BY DEF OneEntryChanges
<1>6. Spec => []DataInv
  BY StorageInvariant, PTL
<1> HIDE DEF A, F
<1> QED
  BY <1>1, <1>4, <1>5, <1>6, PTL DEF Spec
=============================================================================
