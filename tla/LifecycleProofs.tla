-------------------------- MODULE LifecycleProofs --------------------------
(***************************************************************************)
(* For any finite set of processes, any control blocks and any number of   *)
(* threads: no process is lost, no process is taken for a zombie that is   *)
(* not one, no exit code is missing or changed, the asserts on             *)
(* Arc::strong_count fail only in the situations PanicsExplained names,    *)
(* and nobody dies with the lock of standard input.                        *)
(*                                                                         *)
(* The invariant LInv and the steps that end tasks are in LifecycleEnds.   *)
(***************************************************************************)
EXTENDS Stdin, LifecycleEnds

(* The beginning of tasks and processes. *)

(* Facts of the state every creation starts from. *)
LEMMA Types ==
  ASSUME LInv
  PROVE  /\ status \in [Tcb -> {"Ready", "Running", "Blocked", "Zombie"}]
         /\ tcode \in [Tcb -> Codes \cup {ErrCode, None}]
         /\ tasks \in [Pid -> [Tid -> Tcb \cup {None}]]
         /\ pcode \in [Pid -> Codes \cup {ErrCode, None}]
         /\ pstate \in [Pid -> {"free", "live", "zombie"}]
         /\ parent \in [Pid -> Pid \cup {None}] /\ children \in [Pid -> SUBSET Pid]
         /\ ready \subseteq Tcb /\ asleep \subseteq Tcb /\ inRead \subseteq Tcb
         /\ None \notin Tcb /\ InitPid \in Pid
         /\ \A p \in Pid : \A i \in Tid : tasks[p][i] \in Tcb \cup {None}
<1>1. None \notin Tcb /\ InitPid \in Pid
  BY Zenon, LifecycleAssumption
<1> QED
  BY <1>1 DEF LInv, TypeOK

(* A new task goes into a slot whose task, if any, has ended. *)
Joins(p, i, new) ==
  /\ current # None /\ failed = "no" /\ Strong(new) = 0
  /\ tasks[p][i] = None \/ status[tasks[p][i]] = "Zombie"
  /\ pstate[p] = "live" \/ i = RootTid
  /\ tasks' = [tasks EXCEPT ![p][i] = new]
  /\ status' = [status EXCEPT ![new] = "Ready"]
  /\ tcode' = [tcode EXCEPT ![new] = None]
  /\ ready' = ready \cup {new}
  /\ \A q \in Pid : pstate'[q] = "live" <=> pstate[q] = "live" \/ q = p
  /\ UNCHANGED <<current, asleep, inRead, failed>>

Joined(p, i, new) ==
  /\ Tasked'
  /\ status' \in [Tcb -> {"Ready", "Running", "Blocked", "Zombie"}]
  /\ tcode' \in [Tcb -> Codes \cup {ErrCode, None}]
  /\ tasks' \in [Pid -> [Tid -> Tcb \cup {None}]]
  /\ \A q \in Pid : \A j \in Tid : tasks'[q][j] = IF q = p /\ j = i THEN new ELSE tasks[q][j]
  /\ \A t \in Tcb : status'[t] = IF t = new THEN "Ready" ELSE status[t]
  /\ \A t \in Tcb : tcode'[t] = IF t = new THEN None ELSE tcode[t]
  /\ \A q \in Pid : \A j \in Tid : tasks[q][j] # new

(* A new task in a free slot, in the ready queue: fork and thread creation. *)
LEMMA NewTask ==
  ASSUME LInv, NEW p \in Pid, NEW i \in Tid, NEW new \in Tcb, Joins(p, i, new)
  PROVE  Joined(p, i, new)
<1> USE DEF Joins
<1>1. ~InSlot(new) /\ current # new /\ new \notin ready \cup asleep \cup inRead
  BY StrongZero
<1>2. status[new] = "Zombie" /\ \A q \in Pid : \A j \in Tid : tasks[q][j] # new
  BY <1>1 DEF LInv, Tasked, Owned, InSlot
<1>3. /\ status' \in [Tcb -> {"Ready", "Running", "Blocked", "Zombie"}]
      /\ \A t \in Tcb : status'[t] = IF t = new THEN "Ready" ELSE status[t]
  BY Types
<1>4. /\ tcode' \in [Tcb -> Codes \cup {ErrCode, None}]
      /\ \A t \in Tcb : tcode'[t] = IF t = new THEN None ELSE tcode[t]
  BY Types
<1>5. /\ tasks' \in [Pid -> [Tid -> Tcb \cup {None}]]
      /\ \A q \in Pid : \A j \in Tid : tasks'[q][j] = IF q = p /\ j = i THEN new ELSE tasks[q][j]
  BY Types
<1>6. OneSlot'
  BY <1>2, <1>5 DEF LInv, Tasked, OneSlot
<1>7. Owned'
  <2> SUFFICES ASSUME NEW t \in Tcb
               PROVE  /\ status'[t] # "Zombie" => InSlot(t)'
                      /\ status'[t] = "Running" <=> current' = t
                      /\ status'[t] = "Ready" => t \in ready' /\ t \notin asleep'
                      /\ status'[t] = "Running" => t \notin ready' /\ t \notin asleep'
                      /\ status'[t] = "Blocked" => t \notin ready'
    BY DEF Owned
  <2>1. CASE t = new
    <3>1. tasks'[p][i] = t
      BY <1>5, <2>1
    <3> QED
      BY <1>1, <1>3, <2>1, <3>1 DEF InSlot
  <2>2. CASE t # new
    <3>1. ASSUME status[t] # "Zombie" PROVE InSlot(t)'
      <4>1. PICK q \in Pid, j \in Tid : tasks[q][j] = t
        BY <3>1 DEF LInv, Tasked, Owned, InSlot
      <4>2. ~(q = p /\ j = i)
        BY <3>1, <4>1, Types
      <4>3. tasks'[q][j] = t
        BY <1>5, <4>1, <4>2
      <4> QED
        BY <4>3 DEF InSlot
    <3>2. status'[t] = status[t] /\ (t \in ready' <=> t \in ready) /\ current' = current /\ asleep' = asleep
      BY <1>3, <2>2
    <3> QED
      BY <3>1, <3>2 DEF LInv, Tasked, Owned
  <2> QED
    BY <2>1, <2>2
<1>8. Unreaped'
  <2> SUFFICES ASSUME NEW q \in Pid, NEW j \in Tid, tasks'[q][j] # None,
                      status'[tasks'[q][j]] = "Zombie"
               PROVE  /\ tasks'[q][j] \notin ready' \cup asleep' \cup inRead'
                      /\ tcode'[tasks'[q][j]] # None
    BY DEF Unreaped
  <2>1. tasks'[q][j] \in Tcb /\ tasks'[q][j] # new
    BY <1>3, <1>5
  <2>2. tasks'[q][j] = tasks[q][j] /\ status[tasks[q][j]] = "Zombie"
    BY <1>3, <1>5, <2>1
  <2>3. tcode'[tasks[q][j]] = tcode[tasks[q][j]]
    BY <1>4, <2>1, <2>2
  <2> QED
    BY <2>1, <2>2, <2>3 DEF LInv, Tasked, Unreaped
<1>9. Rooted'
  <2>1. ASSUME NEW q \in Pid, pstate'[q] = "live"
        PROVE  tasks'[q][RootTid] # None /\ status'[tasks'[q][RootTid]] # "Zombie"
    <3>1. CASE q = p /\ RootTid = i
      <4>1. tasks'[q][RootTid] = new /\ new # None
        BY <1>5, <3>1, Types, Tids
      <4> QED
        BY <1>3, <4>1
    <3>2. CASE ~(q = p /\ RootTid = i)
      <4>1. pstate[q] = "live" /\ tasks'[q][RootTid] = tasks[q][RootTid]
        BY <1>5, <2>1, <3>2, Tids
      <4>2. tasks[q][RootTid] # None /\ status[tasks[q][RootTid]] # "Zombie"
        BY <4>1 DEF LInv, Tasked, Rooted
      <4> QED
        BY <1>3, <4>1, <4>2, Types, Tids
    <3> QED
      BY <3>1, <3>2
  <2>2. ASSUME NEW q \in Pid, pstate'[q] # "live", NEW j \in Tid PROVE tasks'[q][j] = None
    <3>1. q # p /\ pstate[q] # "live"
      BY <2>2
    <3> QED
      BY <1>5, <3>1 DEF LInv, Tasked, Rooted
  <2> QED
    BY <2>1, <2>2 DEF Rooted
<1> QED
  BY <1>2, <1>3, <1>4, <1>5, <1>6, <1>7, <1>8, <1>9 DEF Tasked, Joined

(* sys_fork. *)
LEMMA Forks ==
  ASSUME LInv, NEW q \in Pid, NEW new \in Tcb, Fork(q, new)
  PROVE  Safe /\ PanicsExplained'
<1> DEFINE p == ProcessOf(current)
<1>1. /\ kernel = "running" /\ current # None /\ current \notin inRead /\ failed = "no"
      /\ pstate[q] = "free" /\ Strong(new) = 0
  BY DEF Fork, InUser
<1>2. CASE ~IsRoot(current)
  <2>1. ExitWith(ErrCode)
    BY <1>2 DEF Fork
  <2>2. ErrCode \in Codes \cup {ErrCode}
    OBVIOUS
  <2> QED
    BY <1>1, <2>1, <2>2, TaskEnds
<1>3. CASE IsRoot(current)
  <2>1. /\ pstate' = [pstate EXCEPT ![q] = "live"]
        /\ parent' = [parent EXCEPT ![q] = p]
        /\ children' = [children EXCEPT ![p] = @ \cup {q}]
        /\ pcode' = [pcode EXCEPT ![q] = None]
        /\ tasks' = [tasks EXCEPT ![q][RootTid] = new]
        /\ status' = [status EXCEPT ![new] = "Ready"]
        /\ tcode' = [tcode EXCEPT ![new] = None]
        /\ ready' = ready \cup {new}
        /\ UNCHANGED <<current, asleep, inRead, failed, kernel>>
    BY <1>3 DEF Fork
  <2>2. p \in Pid /\ pstate[p] = "live"
    BY <1>1, CurrentProcess DEF LInv
  <2> HIDE DEF p
  <2>3. q # p /\ q # InitPid
    BY <1>1, <2>2 DEF LInv, Family
  <2>4. /\ pstate' \in [Pid -> {"free", "live", "zombie"}]
        /\ \A x \in Pid : pstate'[x] = IF x = q THEN "live" ELSE pstate[x]
    BY <2>1, Types
  <2>5. /\ parent' \in [Pid -> Pid \cup {None}]
        /\ \A x \in Pid : parent'[x] = IF x = q THEN p ELSE parent[x]
    BY <2>1, <2>2, Types
  <2>6. /\ children' \in [Pid -> SUBSET Pid]
        /\ \A x \in Pid : children'[x] = IF x = p THEN children[x] \cup {q} ELSE children[x]
    BY Zenon, <2>1, <2>2, Types
  <2>7. /\ pcode' \in [Pid -> Codes \cup {ErrCode, None}]
        /\ \A x \in Pid : pcode'[x] = IF x = q THEN None ELSE pcode[x]
    BY <2>1, Types
  <2>8. tasks[q][RootTid] = None
    BY <1>1, Tids DEF LInv, Tasked, Rooted
  <2>9. Joined(q, RootTid, new)
    <3>1. Joins(q, RootTid, new)
      BY <1>1, <2>1, <2>4, <2>8 DEF Joins
    <3> QED
      BY <3>1, Tids, NewTask
  <2>10. TypeOK'
    BY <2>1, <2>4, <2>5, <2>6, <2>7, <2>9 DEF LInv, TypeOK, Joined
  <2>11. Coded'
    BY <2>4, <2>7 DEF LInv, Coded
  <2>12. Family'
    <3>1. pstate'[InitPid] # "free" /\ \A x \in Pid : InitPid \notin children'[x]
      <4>1. \A x \in Pid : children'[x] \subseteq children[x] \cup {q}
        BY <2>6
      <4>2. pstate'[InitPid] = pstate[InitPid]
        BY <2>3, <2>4, Types
      <4> QED
        BY <2>3, <4>1, <4>2 DEF LInv, Family
    <3>2. \A x \in Pid : pstate'[x] # "live" => children'[x] = {}
      BY <2>2, <2>4, <2>6 DEF LInv, Family
    <3>3. ASSUME NEW x \in Pid \ {InitPid}
          PROVE  /\ pstate'[x] = "free" => \A y \in Pid : x \notin children'[y]
                 /\ pstate'[x] # "free" =>
                      /\ parent'[x] \in Pid /\ pstate'[parent'[x]] = "live"
                      /\ \A y \in Pid : x \in children'[y] <=> parent'[x] = y
      <4>1. CASE x = q
        <5>1. \A y \in Pid : q \notin children[y]
          BY <1>1, <2>3 DEF LInv, Family
        <5>2. parent'[q] = p /\ pstate'[p] = "live"
          BY <2>2, <2>4, <2>5
        <5>3. \A y \in Pid : q \in children'[y] <=> y = p
          BY <2>6, <5>1
        <5> QED
          BY <2>2, <2>4, <4>1, <5>2, <5>3
      <4>2. CASE x # q
        <5>1. \A y \in Pid : x \in children'[y] <=> x \in children[y]
          BY <2>6, <4>2
        <5>2. pstate'[x] = pstate[x] /\ parent'[x] = parent[x]
          BY <2>4, <2>5, <4>2
        <5>3. /\ pstate[x] = "free" => \A y \in Pid : x \notin children[y]
              /\ pstate[x] # "free" =>
                   /\ parent[x] \in Pid /\ pstate[parent[x]] = "live"
                   /\ \A y \in Pid : x \in children[y] <=> parent[x] = y
          BY DEF LInv, Family
        <5>4. pstate[x] # "free" => pstate'[parent[x]] = "live"
          BY <2>4, <5>3
        <5> QED
          BY <5>1, <5>2, <5>3, <5>4
      <4> QED
        BY <4>1, <4>2
    <3>4. ASSUME NEW x \in Pid, pstate'[x] # "free" PROVE x \in Below(InitPid)'
      <4> SUFFICES ASSUME NEW S \in SUBSET Pid, InitPid \in S, \A r \in S : children'[r] \subseteq S
                   PROVE  x \in S
        BY DEF Below
      <4>1. \A r \in S : children[r] \subseteq S
        BY <2>6
      <4>2. Below(InitPid) \subseteq S
        BY <4>1, BelowLeast, Types
      <4>3. p \in S
        BY <2>2, <4>2 DEF LInv, Family
      <4>4. q \in S
        BY <2>2, <2>6, <4>3
      <4> QED
        BY <2>4, <3>4, <4>2, <4>4 DEF LInv, Family
    <3> QED
      BY <3>1, <3>2, <3>3, <3>4 DEF Family
  <2>13. \A x \in Pid : ProcessCodeKept(x)
    BY <1>1, <2>4, <2>7 DEF ProcessCodeKept
  <2>14. \A x \in Pid : \A j \in Tid : ThreadCodeKept(x, j)
    <3> SUFFICES ASSUME NEW x \in Pid, NEW j \in Tid, tasks[x][j] # None,
                        status[tasks[x][j]] = "Zombie"
                 PROVE  /\ tasks'[x][j] = tasks[x][j] /\ status'[tasks[x][j]] = "Zombie"
                        /\ tcode'[tasks[x][j]] = tcode[tasks[x][j]]
      BY DEF ThreadCodeKept
    <3>1. ~(x = q /\ j = RootTid)
      BY <2>8
    <3>2. tasks[x][j] \in Tcb /\ tasks[x][j] # new
      BY <2>9, Types DEF Joined
    <3> QED
      BY <2>9, <3>1, <3>2 DEF Joined
  <2> QED
    BY <1>1, <2>1, <2>9, <2>10, <2>11, <2>12, <2>13, <2>14 DEF Safe, LInv, PanicsExplained, Joined
<1> QED
  BY <1>2, <1>3

(* The smallest of the free thread ids exists. *)
LEMMA NewTidFree ==
  ASSUME NEW p, UsedTids(p) # Tid
  PROVE  NewTid(p) \in Tid /\ NewTid(p) \notin UsedTids(p)
<1> DEFINE T == Tid \ UsedTids(p)
<1>1. T \subseteq Nat /\ T # {}
  BY Zenon, Tids DEF UsedTids
<1>2. \E x \in T : \A y \in T : ~(<<y, x>> \in OpToRel(<, Nat))
  <2> HIDE DEF T
  <2> QED
    BY Zenon, <1>1, NatLessThanWellFounded, WFMin
<1>3. PICK x \in T : \A y \in T : ~(<<y, x>> \in OpToRel(<, Nat))
  BY Zenon, <1>2
<1>4. \A y \in T : x <= y
  <2> SUFFICES ASSUME NEW y \in T, y < x PROVE FALSE
    BY <1>1
  <2>1. <<y, x>> \in OpToRel(<, Nat)
    BY <1>1 DEF OpToRel
  <2> QED
    BY Zenon, <1>3, <2>1
<1>5. NewTid(p) \in T
  BY Zenon, <1>3, <1>4 DEF NewTid
<1> QED
  BY <1>5

(* sys_thread_create. *)
LEMMA ThreadCreates ==
  ASSUME LInv, NEW new \in Tcb, ThreadCreate(new)
  PROVE  Safe /\ PanicsExplained'
<1> DEFINE p == ProcessOf(current)
           i == NewTid(p)
<1>1. /\ kernel = "running" /\ current # None /\ current \notin inRead /\ failed = "no"
      /\ Strong(new) = 0
  BY DEF ThreadCreate, InUser
<1>2. CASE ~IsRoot(current) \/ UsedTids(p) = Tid
  <2>1. ExitWith(ErrCode)
    BY <1>2 DEF ThreadCreate
  <2>2. ErrCode \in Codes \cup {ErrCode}
    OBVIOUS
  <2> QED
    BY <1>1, <2>1, <2>2, TaskEnds
<1>3. CASE IsRoot(current) /\ UsedTids(p) # Tid
  <2>1. /\ tasks' = [tasks EXCEPT ![p][i] = new]
        /\ status' = [status EXCEPT ![new] = "Ready"]
        /\ tcode' = [tcode EXCEPT ![new] = None]
        /\ ready' = ready \cup {new}
        /\ UNCHANGED <<pstate, parent, children, pcode, current, asleep, inRead, failed, kernel>>
    BY <1>3 DEF ThreadCreate
  <2>2. p \in Pid /\ pstate[p] = "live" /\ current = tasks[p][RootTid]
    BY <1>1, <1>3, CurrentProcess DEF LInv, IsRoot
  <2>3. i \in Tid /\ (tasks[p][i] = None \/ status[tasks[p][i]] = "Zombie")
    <3>1. i \in Tid /\ i \notin UsedTids(p)
      BY <1>3, NewTidFree
    <3> QED
      BY Zenon, <3>1 DEF UsedTids
  <2> HIDE DEF p, i
  <2>4. PICK x \in Pid, k \in Tid : x = p /\ k = i
    BY <2>2, <2>3
  <2>5. Joined(x, k, new)
    <3>1. Joins(x, k, new)
      BY <1>1, <2>1, <2>2, <2>3, <2>4, Types DEF Joins
    <3> QED
      BY <3>1, NewTask
  <2>6. TypeOK'
    BY <2>1, <2>5 DEF LInv, TypeOK, Joined
  <2>7. \A q : Below(q)' = Below(q)
    BY <2>1 DEF Below
  <2>8. Family' /\ Coded'
    BY <2>1, <2>7 DEF LInv, Family, Coded
  <2>9. \A y \in Pid : ProcessCodeKept(y)
    BY <2>1 DEF ProcessCodeKept
  <2>10. \A y \in Pid : \A j \in Tid : ThreadCodeKept(y, j)
    <3> SUFFICES ASSUME NEW y \in Pid, NEW j \in Tid, tasks[y][j] # None,
                        status[tasks[y][j]] = "Zombie"
                 PROVE  \/ /\ tasks'[y][j] = tasks[y][j] /\ status'[tasks[y][j]] = "Zombie"
                           /\ tcode'[tasks[y][j]] = tcode[tasks[y][j]]
                        \/ current = tasks[y][RootTid] /\ status'[tasks'[y][j]] = "Ready"
      BY DEF ThreadCodeKept
    <3>1. CASE y = x /\ j = k
      BY <2>2, <2>4, <2>5, <3>1 DEF Joined
    <3>2. CASE ~(y = x /\ j = k)
      <4>1. tasks[y][j] \in Tcb /\ tasks[y][j] # new
        BY <2>5, Types DEF Joined
      <4> QED
        BY <2>5, <3>2, <4>1 DEF Joined
    <3> QED
      BY Zenon, <3>1, <3>2
  <2> QED
    BY <1>1, <2>1, <2>5, <2>6, <2>8, <2>9, <2>10 DEF Safe, LInv, PanicsExplained, Joined
<1> QED
  BY <1>2, <1>3

-----------------------------------------------------------------------------
(* Waiting. *)

(* sys_wait_pid of a zombie child. *)
LEMMA WaitsPid ==
  ASSUME LInv, NEW q \in Pid, NEW ok \in BOOLEAN, WaitPid(q, ok)
  PROVE  Safe /\ PanicsExplained'
<1> DEFINE p == ProcessOf(current)
<1>1. /\ kernel = "running" /\ current # None /\ current \notin inRead
      /\ q \in children[p] /\ IsZombie(q)
      /\ children' = [children EXCEPT ![p] = @ \ {q}]
      /\ pstate' = [pstate EXCEPT ![q] = "free"]
      /\ parent' = [parent EXCEPT ![q] = None]
      /\ pcode' = [pcode EXCEPT ![q] = None]
      /\ failed' \in {"no", "yes"}
      /\ UNCHANGED <<tasks, status, tcode, current, ready, asleep, inRead, kernel>>
  BY DEF WaitPid, InUser, Answer
<1>2. p \in Pid /\ pstate[p] = "live" /\ current \in TasksOf(p)
  BY <1>1, CurrentProcess DEF LInv
<1> HIDE DEF p
<1>3. q # InitPid /\ pstate[q] # "free" /\ parent[q] = p
  BY <1>1, <1>2 DEF LInv, Family
<1>4. pstate[q] = "zombie"
  <2> SUFFICES ASSUME pstate[q] = "live" PROVE FALSE
    BY <1>3, Types
  <2>1. tasks[q][RootTid] # None /\ status[tasks[q][RootTid]] # "Zombie"
    BY DEF LInv, Tasked, Rooted
  <2>2. tasks[q][RootTid] \in TasksOf(q)
    BY <2>1, Tids DEF TasksOf
  <2> QED
    BY <1>1, <2>1, <2>2 DEF IsZombie
<1>5. q # p /\ children[q] = {}
  BY <1>2, <1>4 DEF LInv, Family
<1>6. /\ pstate' \in [Pid -> {"free", "live", "zombie"}]
      /\ \A x \in Pid : pstate'[x] = IF x = q THEN "free" ELSE pstate[x]
  BY <1>1, Types
<1>7. /\ parent' \in [Pid -> Pid \cup {None}]
      /\ \A x \in Pid : x # q => parent'[x] = parent[x]
  BY <1>1, Types
<1>8. /\ children' \in [Pid -> SUBSET Pid]
      /\ \A x \in Pid : children'[x] = IF x = p THEN children[x] \ {q} ELSE children[x]
  BY Zenon, <1>1, <1>2, Types
<1>9. /\ pcode' \in [Pid -> Codes \cup {ErrCode, None}]
      /\ \A x \in Pid : x # q => pcode'[x] = pcode[x]
  BY <1>1, Types
<1>10. TypeOK'
  BY <1>1, <1>6, <1>7, <1>8, <1>9 DEF LInv, TypeOK
<1>11. Tasked'
  <2>1. \A t : InSlot(t)' <=> InSlot(t)
    BY <1>1 DEF InSlot
  <2>2. OneSlot' /\ Owned' /\ Unreaped'
    <3>1. OneSlot'
      BY <1>1 DEF LInv, Tasked, OneSlot
    <3>2. Owned'
      BY <1>1, <2>1 DEF LInv, Tasked, Owned
    <3>3. Unreaped'
      BY <1>1 DEF LInv, Tasked, Unreaped
    <3> QED
      BY <3>1, <3>2, <3>3
  <2>3. Rooted'
    <3>1. \A x \in Pid : pstate'[x] = "live" <=> pstate[x] = "live"
      BY <1>4, <1>6
    <3> QED
      BY <1>1, <3>1 DEF LInv, Tasked, Rooted
  <2> QED
    BY <1>1, <2>2, <2>3 DEF Tasked
<1>12. Coded'
  BY <1>6, <1>9 DEF LInv, Coded
<1>13. Family'
  <2>1. pstate'[InitPid] # "free" /\ \A x \in Pid : InitPid \notin children'[x]
    <3>1. \A x \in Pid : children'[x] \subseteq children[x]
      BY <1>8
    <3>2. pstate'[InitPid] = pstate[InitPid]
      BY <1>3, <1>6, Types
    <3> QED
      BY <3>1, <3>2 DEF LInv, Family
  <2>2. \A x \in Pid : pstate'[x] # "live" => children'[x] = {}
    BY <1>4, <1>5, <1>6, <1>8 DEF LInv, Family
  <2>3. ASSUME NEW x \in Pid \ {InitPid}
        PROVE  /\ pstate'[x] = "free" => \A y \in Pid : x \notin children'[y]
               /\ pstate'[x] # "free" =>
                    /\ parent'[x] \in Pid /\ pstate'[parent'[x]] = "live"
                    /\ \A y \in Pid : x \in children'[y] <=> parent'[x] = y
    <3>1. CASE x = q
      <4>1. \A y \in Pid : q \in children[y] => y = p
        BY <1>3 DEF LInv, Family
      <4> QED
        BY <1>6, <1>8, <3>1, <4>1
    <3>2. CASE x # q
      <4>1. \A y \in Pid : x \in children'[y] <=> x \in children[y]
        BY <1>8, <3>2
      <4>2. pstate'[x] = pstate[x] /\ parent'[x] = parent[x]
        BY <1>6, <1>7, <3>2
      <4>3. /\ pstate[x] = "free" => \A y \in Pid : x \notin children[y]
            /\ pstate[x] # "free" =>
                 /\ parent[x] \in Pid /\ pstate[parent[x]] = "live"
                 /\ \A y \in Pid : x \in children[y] <=> parent[x] = y
        BY DEF LInv, Family
      <4>4. pstate[x] # "free" => pstate'[parent[x]] = "live"
        BY <1>4, <1>6, <4>3
      <4> QED
        BY <4>1, <4>2, <4>3, <4>4
    <3> QED
      BY <3>1, <3>2
  <2>4. ASSUME NEW x \in Pid, pstate'[x] # "free" PROVE x \in Below(InitPid)'
    <3> SUFFICES ASSUME NEW S \in SUBSET Pid, InitPid \in S, \A r \in S : children'[r] \subseteq S
                 PROVE  x \in S
      BY DEF Below
    <3> DEFINE T == S \cup {q}
    <3>1. T \in SUBSET Pid /\ InitPid \in T
      OBVIOUS
    <3>2. \A r \in T : children[r] \subseteq T
      BY <1>5, <1>8
    <3>3. Below(InitPid) \subseteq T
      <4> HIDE DEF T
      <4> QED
        BY <3>1, <3>2, BelowLeast, Types
    <3> QED
      BY <1>6, <2>4, <3>3 DEF LInv, Family
  <2> QED
    BY <2>1, <2>2, <2>3, <2>4 DEF Family
<1>14. \A x \in Pid : ProcessCodeKept(x)
  <2> SUFFICES ASSUME NEW x \in Pid, pstate[x] = "zombie"
               PROVE  \/ pstate'[x] = "zombie" /\ pcode'[x] = pcode[x]
                      \/ current \in TasksOf(parent[x]) /\ pstate'[x] = "free"
    BY DEF ProcessCodeKept
  <2>1. CASE x = q
    BY <1>2, <1>3, <1>6, <2>1
  <2>2. CASE x # q
    BY <1>6, <1>9, <2>2
  <2> QED
    BY <2>1, <2>2
<1>15. \A x \in Pid : \A j \in Tid : ThreadCodeKept(x, j)
  BY <1>1 DEF ThreadCodeKept
<1> QED
  BY <1>1, <1>10, <1>11, <1>12, <1>13, <1>14, <1>15 DEF Safe, LInv, PanicsExplained

(* sys_wait_tid of a zombie thread. *)
LEMMA WaitsTid ==
  ASSUME LInv, NEW i \in Tid, NEW ok \in BOOLEAN, WaitTid(i, ok)
  PROVE  Safe /\ PanicsExplained'
<1> DEFINE p == ProcessOf(current)
           t == tasks[p][i]
<1>1. /\ kernel = "running" /\ current # None /\ current \notin inRead
      /\ t # None /\ status[t] = "Zombie"
  BY Zenon DEF WaitTid, InUser
<1>2. p \in Pid /\ current \in TasksOf(p) /\ current \in Tcb /\ status[current] = "Running"
      /\ pstate[p] = "live"
  BY <1>1, CurrentProcess DEF LInv
<1>3. t \in Tcb
  BY <1>1, <1>2, Types
<1>4. Strong(t) = 1
  <2>1. InSlot(t)
    BY <1>2 DEF InSlot
  <2>2. Strong(t) = 1 + One(current = t) + One(t \in ready) + One(t \in asleep) + One(t \in inRead)
    <3> HIDE DEF t
    <3> QED
      BY <1>3, <2>1, StrongOne DEF LInv, Tasked
  <2>3. t \notin ready /\ t \notin asleep /\ t \notin inRead
    BY <1>1, <1>2 DEF LInv, Tasked, Unreaped
  <2>4. current # t
    BY <1>1, <1>2
  <2> QED
    BY <2>2, <2>3, <2>4 DEF One
<1>5. /\ tasks' = [tasks EXCEPT ![p][i] = None]
      /\ failed' \in {"no", "yes"}
      /\ UNCHANGED <<pstate, parent, children, pcode, status, tcode,
                     current, ready, asleep, inRead, kernel>>
  BY <1>4 DEF WaitTid, Answer
<1> HIDE DEF p, t
<1>6. /\ tasks' \in [Pid -> [Tid -> Tcb \cup {None}]]
      /\ \A x \in Pid : \A j \in Tid : tasks'[x][j] = IF x = p /\ j = i THEN None ELSE tasks[x][j]
  BY <1>2, <1>5, Types
<1>7. TypeOK'
  BY <1>5, <1>6 DEF LInv, TypeOK
<1>8. tasks[p][i] = t
  BY DEF t
<1>9. Tasked'
  <2>1. OneSlot'
    BY <1>6 DEF LInv, Tasked, OneSlot
  <2>2. Owned'
    <3>1. ASSUME NEW u \in Tcb, status[u] # "Zombie" PROVE InSlot(u)'
      <4>1. PICK x \in Pid, j \in Tid : tasks[x][j] = u
        BY <3>1 DEF LInv, Tasked, Owned, InSlot
      <4>2. tasks'[x][j] = u
        BY <1>1, <1>6, <1>8, <3>1, <4>1
      <4> QED
        BY <4>2 DEF InSlot
    <3> QED
      BY <1>5, <3>1 DEF LInv, Tasked, Owned
  <2>3. Unreaped'
    <3> SUFFICES ASSUME NEW x \in Pid, NEW j \in Tid, tasks'[x][j] # None,
                        status'[tasks'[x][j]] = "Zombie"
                 PROVE  /\ tasks'[x][j] \notin ready' \cup asleep' \cup inRead'
                        /\ tcode'[tasks'[x][j]] # None
      BY DEF Unreaped
    <3>1. tasks'[x][j] = tasks[x][j]
      BY <1>6
    <3> QED
      BY <1>5, <3>1 DEF LInv, Tasked, Unreaped
  <2>4. Rooted'
    BY <1>1, <1>5, <1>6, <1>8, Tids DEF LInv, Tasked, Rooted
  <2> QED
    BY <1>1, <1>5, <2>1, <2>2, <2>3, <2>4 DEF Tasked
<1>10. \A x : Below(x)' = Below(x)
  BY <1>5 DEF Below
<1>11. Family' /\ Coded'
  BY <1>5, <1>10 DEF LInv, Family, Coded
<1>12. \A x \in Pid : ProcessCodeKept(x)
  BY <1>5 DEF ProcessCodeKept
<1>13. \A x \in Pid : \A j \in Tid : ThreadCodeKept(x, j)
  BY Zenon, <1>2, <1>5, <1>6 DEF ThreadCodeKept
<1> QED
  BY <1>1, <1>5, <1>7, <1>9, <1>11, <1>12, <1>13 DEF Safe, LInv, PanicsExplained

-----------------------------------------------------------------------------

(* The initial process alone, with its root task in the ready queue. *)
LEMMA LInvInit ==
  ASSUME Init
  PROVE  LInv /\ PanicsExplained
<1>1. PICK root \in Tcb :
        /\ pstate = [p \in Pid |-> IF p = InitPid THEN "live" ELSE "free"]
        /\ parent = [p \in Pid |-> None]
        /\ children = [p \in Pid |-> {}]
        /\ pcode = [p \in Pid |-> None]
        /\ tasks = [p \in Pid |-> [i \in Tid |-> IF p = InitPid /\ i = RootTid THEN root ELSE None]]
        /\ status = [t \in Tcb |-> IF t = root THEN "Ready" ELSE "Zombie"]
        /\ tcode = [t \in Tcb |-> None]
        /\ current = None
        /\ ready = {root}
        /\ asleep = {} /\ inRead = {}
        /\ failed = "no"
        /\ kernel = "running"
  BY DEF Init
<1>2. None \notin Tcb /\ InitPid \in Pid
  BY Zenon, LifecycleAssumption
<1>3. TypeOK
  BY <1>1, <1>2 DEF TypeOK
<1>4. /\ \A p \in Pid : \A i \in Tid : tasks[p][i] = IF p = InitPid /\ i = RootTid THEN root ELSE None
      /\ \A t \in Tcb : status[t] = IF t = root THEN "Ready" ELSE "Zombie"
      /\ \A p \in Pid : pstate[p] = IF p = InitPid THEN "live" ELSE "free"
      /\ \A p \in Pid : children[p] = {}
  BY <1>1
<1>5. OneSlot
  <2>1. \A p \in Pid : \A i \in Tid : tasks[p][i] # None => p = InitPid /\ i = RootTid
    BY <1>4
  <2> QED
    BY <2>1 DEF OneSlot
<1>6. Owned
  BY <1>1, <1>2, <1>4, Tids DEF Owned, InSlot
<1>7. Unreaped
  BY <1>4 DEF Unreaped
<1>8. Rooted
  BY <1>2, <1>4, Tids DEF Rooted
<1>9. Tasked
  BY <1>1, <1>5, <1>6, <1>7, <1>8 DEF Tasked
<1>10. InitPid \in Below(InitPid)
  BY <1>2, <1>3, BelowClosed DEF TypeOK
<1>11. Family
  BY Zenon, <1>2, <1>4, <1>10 DEF Family
<1>12. Coded
  BY <1>4 DEF Coded
<1> QED
  BY <1>1, <1>3, <1>9, <1>11, <1>12 DEF LInv, PanicsExplained

(* One step of the system. *)
LEMMA LInvNext ==
  ASSUME LInv, PanicsExplained, [Next]_vars
  PROVE  Safe /\ PanicsExplained'
<1>1. ASSUME NEW code \in Codes \cup {ErrCode}, Exit(code) PROVE Safe /\ PanicsExplained'
  <2>1. kernel = "running" /\ current # None /\ current \notin inRead /\ ExitWith(code)
    BY <1>1 DEF Exit, InUser
  <2> QED
    BY <2>1, TaskEnds
<1>2. ASSUME NEW q \in Pid, ForkFails(q) PROVE Safe /\ PanicsExplained'
  <2>1. /\ kernel = "running" /\ current # None /\ pstate[q] = "free"
        /\ ProcessEnd(ProcessOf(current), Below(ProcessOf(current)) \cup {q}, ErrCode)
    BY <1>2 DEF ForkFails, InUser
  <2>2. {q} \in SUBSET Pid /\ (\A x \in {q} : pstate[x] = "free") /\ ErrCode \in Codes \cup {ErrCode}
    BY <2>1
  <2> QED
    BY Zenon, <2>1, <2>2, ProcessEnds
<1>3. ASSUME NEW q \in Pid, NEW new \in Tcb, Fork(q, new) PROVE Safe /\ PanicsExplained'
  BY <1>3, Forks
<1>4. ASSUME NEW new \in Tcb, ThreadCreate(new) PROVE Safe /\ PanicsExplained'
  BY <1>4, ThreadCreates
<1>5. ASSUME NEW ok \in BOOLEAN, NEW q \in Pid, WaitPid(q, ok) PROVE Safe /\ PanicsExplained'
  BY <1>5, WaitsPid
<1>6. ASSUME NEW ok \in BOOLEAN, NEW i \in Tid, WaitTid(i, ok) PROVE Safe /\ PanicsExplained'
  BY <1>6, WaitsTid
<1>7. CASE ExitFailed
  <2>1. kernel = "running" /\ current # None /\ current \notin inRead /\ ExitWith(ErrCode)
    BY <1>7 DEF ExitFailed, LInv, Tasked
  <2>2. ErrCode \in Codes \cup {ErrCode}
    OBVIOUS
  <2> QED
    BY <2>1, <2>2, TaskEnds
<1>8. CASE Schedule \/ Suspend \/ ReadSuspend \/ ReadReturn \/ Sleep \/ SyncBlock
  <2>1. kernel' = "running"
    BY <1>8 DEF Schedule, Suspend, ReadSuspend, ReadReturn, Sleep, SyncBlock, InUser, procVars
  <2> QED
    BY Zenon, <1>8, <2>1, QueueActions DEF PanicsExplained
<1>9. ASSUME NEW t \in Tcb, TimerExpires(t) \/ SyncWake(t) PROVE Safe /\ PanicsExplained'
  <2>1. kernel' = "running"
    BY <1>9 DEF TimerExpires, SyncWake, InUser, procVars
  <2> QED
    BY Zenon, <1>9, <2>1, QueueActions DEF PanicsExplained
<1>10. CASE UNCHANGED vars
  <2>1. Frozen /\ kernel' = kernel
    BY <1>10 DEF vars, Frozen
  <2>2. Explained(kernel')
    BY Zenon, <2>1 DEF PanicsExplained, Explained
  <2> QED
    BY <2>1, <2>2, PanicKeeps, ExplainedNext DEF Frozen
<1> QED
  BY <1>1, <1>2, <1>3, <1>4, <1>5, <1>6, <1>7, <1>8, <1>9, <1>10 DEF Next, OtherStep

(* What the invariant says of the properties the runs check. *)
LEMMA LInvImplies ==
  ASSUME LInv
  PROVE  FamilyTree /\ RootKeepsProcess /\ CodeToRead
<1>1. FamilyTree
  <2>1. \A p \in Pid : pstate[p] = "zombie" => children[p] = {} /\ TasksOf(p) = {}
    BY DEF LInv, Family, Tasked, Rooted, TasksOf
  <2> QED
    BY <2>1 DEF LInv, Family, FamilyTree
<1>2. ASSUME NEW p \in Pid, pstate[p] # "free"
      PROVE  /\ IsZombie(p) <=> pstate[p] = "zombie"
             /\ pstate[p] = "live" => /\ tasks[p][RootTid] # None
                                      /\ status[tasks[p][RootTid]] # "Zombie"
  <2>1. CASE pstate[p] = "live"
    <3>1. tasks[p][RootTid] # None /\ status[tasks[p][RootTid]] # "Zombie"
      BY <2>1 DEF LInv, Tasked, Rooted
    <3>2. tasks[p][RootTid] \in TasksOf(p)
      BY <3>1, Tids DEF TasksOf
    <3> QED
      BY <2>1, <3>1, <3>2 DEF IsZombie
  <2>2. CASE pstate[p] = "zombie"
    <3>1. TasksOf(p) = {}
      BY <2>2 DEF LInv, Tasked, Rooted, TasksOf
    <3> QED
      BY <2>2, <3>1 DEF IsZombie
  <2> QED
    BY <1>2, <2>1, <2>2, Types
<1>3. RootKeepsProcess
  BY <1>2 DEF RootKeepsProcess
<1>4. CodeToRead
  <2>1. \A p \in Pid : pstate[p] # "free" /\ IsZombie(p) => pcode[p] # None
    BY <1>2 DEF LInv, Coded
  <2>2. \A p \in Pid : \A t \in TasksOf(p) : status[t] = "Zombie" => tcode[t] # None
    BY DEF LInv, Tasked, Unreaped, TasksOf
  <2> QED
    BY <2>1, <2>2 DEF CodeToRead
<1> QED
  BY <1>1, <1>3, <1>4

(* Whatever the processes do and in whatever order, each one that is not    *)
(* the initial process is listed by one live parent until it is waited     *)
(* for: mark_zombie hands every process below an exiting one to INIT_PROC. *)
THEOREM LifecycleFamily == Spec => []FamilyTree
<1>1. Init => LInv /\ PanicsExplained
  BY LInvInit
<1>2. LInv /\ PanicsExplained /\ [Next]_vars => (LInv /\ PanicsExplained)'
  BY LInvNext DEF Safe
<1>3. LInv => FamilyTree
  BY LInvImplies
<1> QED
  BY <1>1, <1>2, <1>3, PTL DEF Spec

(* is_zombie and the exit of the root task agree, and wait_pid and         *)
(* wait_tid always find the exit code they unwrap.                         *)
THEOREM LifecycleZombies == Spec => [](RootKeepsProcess /\ CodeToRead)
<1>1. Init => LInv /\ PanicsExplained
  BY LInvInit
<1>2. LInv /\ PanicsExplained /\ [Next]_vars => (LInv /\ PanicsExplained)'
  BY LInvNext DEF Safe
<1>3. LInv => RootKeepsProcess /\ CodeToRead
  BY LInvImplies
<1> QED
  BY <1>1, <1>2, <1>3, PTL DEF Spec

(* The asserts on Arc::strong_count in exit and in wait_tid never fail;    *)
(* the one in mark_zombie fails only for a task that no queue holds or     *)
(* that is inside sys_read.                                                *)
THEOREM LifecycleAsserts == Spec => []PanicsExplained
<1>1. Init => LInv /\ PanicsExplained
  BY LInvInit
<1>2. LInv /\ PanicsExplained /\ [Next]_vars => (LInv /\ PanicsExplained)'
  BY LInvNext DEF Safe
<1> QED
  BY <1>1, <1>2, PTL DEF Spec

(* An exit code is lost or replaced only by the steps CodesKept names: a   *)
(* wait, a thread that gets the tid, the end of the process or its parent. *)
THEOREM LifecycleCodes == Spec => CodesKept
<1>1. Init => LInv /\ PanicsExplained
  BY LInvInit
<1>2. LInv /\ PanicsExplained /\ [Next]_vars => (LInv /\ PanicsExplained)'
  BY LInvNext DEF Safe
<1>3. LInv /\ PanicsExplained /\ [Next]_vars =>
        [\A p \in Pid : ProcessCodeKept(p) /\ \A i \in Tid : ThreadCodeKept(p, i)]_vars
  BY LInvNext DEF Safe
<1> QED
  BY <1>1, <1>2, <1>3, PTL DEF Spec, CodesKept


-----------------------------------------------------------------------------
(* Standard input. *)

(* A task suspended inside sys_read is ready or running: nothing ends it.  *)
ReadersRun == \A t \in inRead : status[t] \in {"Ready", "Running"}

(* mark_zombie's assertion fails for a task that is inside sys_read. *)
LEMMA ReaderCount ==
  ASSUME LInv, NEW t \in Tcb, t \in inRead, status[t] \in {"Ready", "Running"}
  PROVE  Strong(t) + 1 # 3
<1>1. Strong(t) = 1 + One(current = t) + One(t \in ready) + One(t \in asleep) + One(t \in inRead)
  BY StrongOne DEF LInv, Tasked, Owned
<1>2. current = t \/ t \in ready
  BY DEF LInv, Tasked, Owned
<1> QED
  BY <1>1, <1>2 DEF One

(* The end of a process leaves its readers alone: had it any, the kernel   *)
(* would have stopped.                                                     *)
LEMMA ReadersOutlive ==
  ASSUME LInv, ReadersRun, NEW p, NEW procs, NEW code, ProcessEnd(p, procs, code)
  PROVE  ReadersRun'
<1>1. inRead \subseteq Tcb
  BY DEF LInv, TypeOK
<1>2. CASE CountsAsserted(procs) /\ MarkZombie(p, procs, code)
  <2> SUFFICES ASSUME NEW t \in inRead PROVE status'[t] \in {"Ready", "Running"}
    BY <1>2 DEF ReadersRun, MarkZombie
  <2>1. t \in Tcb /\ status[t] \in {"Ready", "Running"}
    BY <1>1 DEF ReadersRun
  <2>2. Strong(t) + 1 # 3
    BY <2>1, ReaderCount
  <2>3. t \notin Ended(procs)
    BY <1>2, <2>2 DEF CountsAsserted
  <2> QED
    BY <1>2, <2>1, <2>3 DEF MarkZombie
<1>3. CASE \E reason : Panic(reason)
  BY <1>3 DEF Panic, ReadersRun
<1> QED
  BY Zenon, <1>2, <1>3 DEF ProcessEnd

(* Nor does the exit of the task that runs. *)
LEMMA ReadersStay ==
  ASSUME LInv, ReadersRun, current # None, current \notin inRead, NEW code, ExitWith(code)
  PROVE  ReadersRun'
<1>1. status \in [Tcb -> {"Ready", "Running", "Blocked", "Zombie"}] /\ inRead \subseteq Tcb
  BY DEF LInv, TypeOK
<1>2. CASE \E reason : Panic(reason)
  BY <1>2 DEF Panic, ReadersRun
<1>3. CASE ThreadEnd(current, code)
  BY <1>1, <1>3 DEF ThreadEnd, ReadersRun
<1>4. CASE ProcessEnd(ProcessOf(current), Below(ProcessOf(current)), code)
  BY <1>4, ReadersOutlive
<1> QED
  BY Zenon, <1>2, <1>3, <1>4 DEF ExitWith

(* The steps that neither begin nor end a read. *)
LEMMA ReadersOther ==
  ASSUME LInv, ReadersRun, OtherStep
  PROVE  ReadersRun' /\ inRead' = inRead
<1>0. /\ status \in [Tcb -> {"Ready", "Running", "Blocked", "Zombie"}] /\ inRead \subseteq Tcb
      /\ current \in Tcb \cup {None}
  BY DEF LInv, TypeOK
<1>1. ASSUME NEW code, current # None, current \notin inRead, ExitWith(code)
      PROVE  ReadersRun' /\ inRead' = inRead
  <2>1. inRead' = inRead
    BY Zenon, <1>1 DEF ExitWith, Panic, ProcessEnd, MarkZombie, ThreadEnd
  <2> QED
    BY <1>1, <2>1, ReadersStay
<1>2. ASSUME NEW code, Exit(code) PROVE ReadersRun' /\ inRead' = inRead
  BY <1>1, <1>2 DEF Exit, InUser
<1>3. ASSUME NEW q \in Pid, ForkFails(q) PROVE ReadersRun' /\ inRead' = inRead
  <2>1. ProcessEnd(ProcessOf(current), Below(ProcessOf(current)) \cup {q}, ErrCode)
    BY <1>3 DEF ForkFails
  <2>2. inRead' = inRead
    BY Zenon, <2>1 DEF ProcessEnd, Panic, MarkZombie
  <2> QED
    BY <2>1, <2>2, ReadersOutlive
<1>4. ASSUME NEW q \in Pid, NEW new \in Tcb, Fork(q, new) PROVE ReadersRun' /\ inRead' = inRead
  <2>1. CASE ExitWith(ErrCode)
    BY <1>1, <1>4, <2>1 DEF Fork, InUser
  <2>2. CASE status' = [status EXCEPT ![new] = "Ready"] /\ inRead' = inRead
    BY <1>0, <2>2 DEF ReadersRun
  <2> QED
    BY <1>4, <2>1, <2>2 DEF Fork
<1>5. ASSUME NEW new \in Tcb, ThreadCreate(new) PROVE ReadersRun' /\ inRead' = inRead
  <2>1. CASE ExitWith(ErrCode)
    BY <1>1, <1>5, <2>1 DEF ThreadCreate, InUser
  <2>2. CASE status' = [status EXCEPT ![new] = "Ready"] /\ inRead' = inRead
    BY <1>0, <2>2 DEF ReadersRun
  <2> QED
    BY <1>5, <2>1, <2>2 DEF ThreadCreate
<1>6. ASSUME NEW ok, NEW q \in Pid, WaitPid(q, ok) PROVE ReadersRun' /\ inRead' = inRead
  BY <1>6 DEF WaitPid, ReadersRun
<1>7. ASSUME NEW ok, NEW i \in Tid, WaitTid(i, ok) PROVE ReadersRun' /\ inRead' = inRead
  BY Zenon, <1>7 DEF WaitTid, Panic, ReadersRun
<1>8. CASE ExitFailed
  BY <1>1, <1>8 DEF ExitFailed, LInv, Tasked
<1>9. CASE Schedule
  BY <1>0, <1>9 DEF Schedule, ReadersRun
<1>10. CASE Suspend \/ Sleep \/ SyncBlock
  BY <1>0, <1>10 DEF Suspend, Sleep, SyncBlock, InUser, ReadersRun
<1>11. ASSUME NEW t \in Tcb, TimerExpires(t) \/ SyncWake(t) PROVE ReadersRun' /\ inRead' = inRead
  BY <1>0, <1>11 DEF TimerExpires, SyncWake, ReadersRun
<1> QED
  BY <1>2, <1>3, <1>4, <1>5, <1>6, <1>7, <1>8, <1>9, <1>10, <1>11 DEF OtherStep


(* The invariant of standard input: who reads it is inside sys_read, and   *)
(* who has its lock reads it.                                              *)
ConsoleInv ==
  /\ ReadersRun
  /\ console \subseteq inRead
  /\ lock # None => lock \in console

(* A step of the composition is a step of Lifecycle or leaves it alone. *)
LEMMA StdinImplements == [StdinNext]_<<vars, stdinVars>> => [Next]_vars
BY DEF StdinNext, StdinSuspend, StdinReturn, PipeRead, Next

(* One step of the composition. *)
LEMMA ConsoleNext ==
  ASSUME LInv, ConsoleInv, [StdinNext]_<<vars, stdinVars>>
  PROVE  ConsoleInv'
<1>0. /\ status \in [Tcb -> {"Ready", "Running", "Blocked", "Zombie"}] /\ inRead \subseteq Tcb
      /\ current \in Tcb \cup {None} /\ (current \in Tcb => (status[current] = "Running"))
  BY DEF LInv, TypeOK, Tasked, Owned
<1>1. ASSUME ReadSuspend
      PROVE  ReadersRun' /\ inRead' = inRead \cup {current} /\ current \in Tcb
  BY <1>0, <1>1 DEF ReadSuspend, ConsoleInv, ReadersRun
<1>2. ASSUME ReadReturn
      PROVE  ReadersRun' /\ inRead' = inRead \ {current}
  BY <1>0, <1>2 DEF ReadReturn, ConsoleInv, ReadersRun
<1>3. CASE StdinSuspend
  BY <1>1, <1>3 DEF StdinSuspend, ConsoleInv
<1>4. CASE StdinReturn
  BY <1>2, <1>4 DEF StdinReturn, ConsoleInv
<1>5. CASE PipeRead
  BY <1>1, <1>2, <1>5 DEF PipeRead, ConsoleInv, stdinVars
<1>6. CASE OtherStep /\ UNCHANGED stdinVars
  BY <1>6, ReadersOther DEF ConsoleInv, stdinVars
<1>7. CASE UNCHANGED <<vars, stdinVars>>
  BY <1>7 DEF vars, stdinVars, ConsoleInv, ReadersRun
<1> QED
  BY <1>3, <1>4, <1>5, <1>6, <1>7 DEF StdinNext

(* With readers of the console told apart the system still is Lifecycle,   *)
(* so that every theorem above holds of it.                                *)
THEOREM StdinLifecycle == StdinSpec => Spec
<1>1. StdinInit => Init
  BY DEF StdinInit
<1> QED
  BY <1>1, StdinImplements, PTL DEF StdinSpec, Spec

(* Stdin's lock is always with a task that is inside read() and will run   *)
(* again: a process that ends cannot take the lock with it, because the    *)
(* count mark_zombie asserts of a task inside sys_read is one too high.    *)
THEOREM StdinLock == StdinSpec => []StdinServed
<1>1. StdinInit => LInv /\ PanicsExplained /\ ConsoleInv
  BY LInvInit DEF StdinInit, Init, ConsoleInv, ReadersRun
<1>2. LInv /\ PanicsExplained /\ ConsoleInv /\ [StdinNext]_<<vars, stdinVars>> =>
        (LInv /\ PanicsExplained /\ ConsoleInv)'
  BY StdinImplements, LInvNext, ConsoleNext DEF Safe
<1>3. LInv /\ ConsoleInv => StdinServed
  BY DEF ConsoleInv, ReadersRun, StdinServed
<1> QED
  BY <1>1, <1>2, <1>3, PTL DEF StdinSpec

=============================================================================
