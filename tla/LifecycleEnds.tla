--------------------------- MODULE LifecycleEnds ---------------------------
(***************************************************************************)
(* The invariant of Lifecycle and how the end of tasks and processes keeps *)
(* it, for any finite set of processes, any control blocks and any number  *)
(* of threads.  LifecycleProofs goes on from here.                         *)
(*                                                                         *)
(* The invariant has two halves that share pstate and tasks: where each    *)
(* task is (Tasked), and how the processes hang together (Family).         *)
(***************************************************************************)
EXTENDS Lifecycle, FiniteSetTheorems, WellFoundedInduction, TLAPS

(* No control block is in two places of the maps. *)
OneSlot ==
  \A p, q \in Pid : \A i, j \in Tid :
    tasks[p][i] # None /\ tasks[p][i] = tasks[q][j] => p = q /\ i = j

InSlot(t) == \E p \in Pid : \E i \in Tid : tasks[p][i] = t

(* A task that has not ended is in a map, and in the queue its status      *)
(* names; Blocked leaves open whether the timer heap or nobody has it.     *)
Owned ==
  \A t \in Tcb :
    /\ status[t] # "Zombie" => InSlot(t)
    /\ status[t] = "Running" <=> current = t
    /\ status[t] = "Ready" => t \in ready /\ t \notin asleep
    /\ status[t] = "Running" => t \notin ready /\ t \notin asleep
    /\ status[t] = "Blocked" => t \notin ready

(* A thread that has ended alone waits in the map for wait_tid: no queue   *)
(* has it, and its code is there.                                          *)
Unreaped ==
  \A p \in Pid : \A i \in Tid :
    tasks[p][i] # None /\ status[tasks[p][i]] = "Zombie" =>
      /\ tasks[p][i] \notin ready \cup asleep \cup inRead
      /\ tcode[tasks[p][i]] # None

(* A live process has a root task that has not ended; no other has tasks.  *)
Rooted ==
  \A p \in Pid :
    /\ pstate[p] = "live" => /\ tasks[p][RootTid] # None
                             /\ status[tasks[p][RootTid]] # "Zombie"
    /\ pstate[p] # "live" => \A i \in Tid : tasks[p][i] = None

Tasked ==
  /\ OneSlot /\ Owned /\ Unreaped /\ Rooted
  /\ failed = "yes" => current # None /\ current \notin inRead

(* Every process in use is below the initial one, so there is no cycle;    *)
(* children and parent are inverse; only live processes have children.     *)
Family ==
  /\ pstate[InitPid] # "free"
  /\ \A q \in Pid : InitPid \notin children[q]
  /\ \A p \in Pid : pstate[p] # "live" => children[p] = {}
  /\ \A p \in Pid \ {InitPid} :
       /\ pstate[p] = "free" => \A q \in Pid : p \notin children[q]
       /\ pstate[p] # "free" =>
            /\ parent[p] \in Pid /\ pstate[parent[p]] = "live"
            /\ \A q \in Pid : p \in children[q] <=> parent[p] = q
  /\ \A p \in Pid : pstate[p] # "free" => p \in Below(InitPid)

Coded == \A p \in Pid : pstate[p] = "zombie" => pcode[p] # None

LInv == TypeOK /\ Tasked /\ Family /\ Coded

-----------------------------------------------------------------------------
(* Reference counts. *)

(* The thread ids are finitely many numbers, 0 among them. *)
LEMMA Tids == RootTid \in Tid /\ IsFiniteSet(Tid) /\ Tid \subseteq Nat
<1>1. MaxTid \in Nat \ {0}
  BY Zenon, LifecycleAssumption
<1>2. 0 \in Int /\ MaxTid - 1 \in Int
  BY <1>1
<1>3. IsFiniteSet(0 .. (MaxTid - 1))
  BY <1>2, FS_Interval
<1>4. 0 \in 0 .. (MaxTid - 1) /\ 0 .. (MaxTid - 1) \subseteq Nat
  BY <1>1
<1> QED
  BY <1>3, <1>4 DEF Tid, RootTid

Slots(t) == {x \in Pid \X Tid : tasks[x[1]][x[2]] = t}

(* A task in the maps is there once, and counts for one reference. *)
LEMMA SlotCount ==
  ASSUME NEW t
  PROVE  /\ Cardinality(Slots(t)) \in Nat
         /\ Cardinality(Slots(t)) = 0 => ~InSlot(t)
         /\ t # None /\ OneSlot /\ InSlot(t) => Cardinality(Slots(t)) = 1
<1>1. IsFiniteSet(Pid \X Tid)
  BY Zenon, Tids, LifecycleAssumption, FS_Product
<1>2. IsFiniteSet(Slots(t))
  <2>1. Slots(t) \in SUBSET (Pid \X Tid)
    BY DEF Slots
  <2> QED
    BY <1>1, <2>1, FS_Subset
<1>3. Cardinality(Slots(t)) = 0 => ~InSlot(t)
  <2> SUFFICES ASSUME Cardinality(Slots(t)) = 0, NEW p \in Pid, NEW i \in Tid, tasks[p][i] = t
               PROVE  FALSE
    BY DEF InSlot
  <2>1. Slots(t) = {}
    BY <1>2, FS_EmptySet
  <2>2. <<p, i>> \in Slots(t)
    BY DEF Slots
  <2> QED
    BY <2>1, <2>2
<1>4. ASSUME t # None, OneSlot, InSlot(t) PROVE Cardinality(Slots(t)) = 1
  <2>1. PICK p \in Pid, i \in Tid : tasks[p][i] = t
    BY <1>4 DEF InSlot
  <2>2. \A q \in Pid, j \in Tid : tasks[q][j] = t => q = p /\ j = i
    BY <1>4, <2>1 DEF OneSlot
  <2>3. Slots(t) = {<<p, i>>}
    BY <2>1, <2>2 DEF Slots
  <2> QED
    BY Zenon, <2>3, FS_Singleton
<1> QED
  BY <1>2, <1>3, <1>4, FS_CardinalityType

(* A control block nobody holds is in no map and in no queue. *)
LEMMA StrongZero ==
  ASSUME NEW t \in Tcb, Strong(t) = 0
  PROVE  ~InSlot(t) /\ current # t /\ t \notin ready \cup asleep \cup inRead
<1>1. Cardinality(Slots(t)) \in Nat /\ (Cardinality(Slots(t)) = 0 => ~InSlot(t))
  BY SlotCount
<1>2. Cardinality(Slots(t)) + One(current = t) + One(t \in ready) + One(t \in asleep) + One(t \in inRead) = 0
  BY DEF Strong, Slots
<1>3. Cardinality(Slots(t)) = 0 /\ current # t /\ t \notin ready /\ t \notin asleep /\ t \notin inRead
  BY <1>1, <1>2 DEF One
<1> QED
  BY <1>1, <1>3

(* The count of a task in the maps: one, and one for every queue. *)
LEMMA StrongOne ==
  ASSUME NEW t \in Tcb, OneSlot, InSlot(t)
  PROVE  Strong(t) = 1 + One(current = t) + One(t \in ready) + One(t \in asleep) + One(t \in inRead)
<1>1. t # None
  BY Zenon, LifecycleAssumption
<1>2. Cardinality(Slots(t)) = 1
  BY <1>1, SlotCount
<1> QED
  BY <1>2 DEF Strong, Slots

(* The process of the current task. *)
LEMMA CurrentProcess ==
  ASSUME TypeOK, Tasked, current # None
  PROVE  /\ current \in Tcb /\ status[current] = "Running"
         /\ ProcessOf(current) \in Pid /\ pstate[ProcessOf(current)] = "live"
         /\ \E i \in Tid : tasks[ProcessOf(current)][i] = current
         /\ current \in TasksOf(ProcessOf(current))
<1>1. current \in Tcb /\ status[current] = "Running"
  BY DEF TypeOK, Tasked, Owned
<1>2. InSlot(current)
  BY <1>1 DEF Tasked, Owned
<1>3. \E p \in Pid : current \in TasksOf(p)
  BY <1>2 DEF InSlot, TasksOf
<1>4. ProcessOf(current) \in Pid /\ current \in TasksOf(ProcessOf(current))
  BY <1>3 DEF ProcessOf
<1>5. \E i \in Tid : tasks[ProcessOf(current)][i] = current
  BY <1>4 DEF TasksOf
<1>6. pstate[ProcessOf(current)] = "live"
  BY <1>4, <1>5 DEF Tasked, Rooted
<1> QED
  BY <1>1, <1>4, <1>5, <1>6

-----------------------------------------------------------------------------
(* The tree of processes. *)

(* Below(p) has p, the children of its members, and nothing else. *)
LEMMA BelowClosed ==
  ASSUME NEW p \in Pid, children \in [Pid -> SUBSET Pid]
  PROVE  /\ Below(p) \in SUBSET Pid
         /\ p \in Below(p)
         /\ \A r \in Below(p) : children[r] \subseteq Below(p)
<1>1. Below(p) \in SUBSET Pid /\ p \in Below(p)
  BY DEF Below
<1>2. ASSUME NEW r \in Below(p), NEW c \in children[r] PROVE c \in Below(p)
  <2>1. r \in Pid /\ c \in Pid
    BY <1>1
  <2>2. ASSUME NEW S \in SUBSET Pid, p \in S, \A x \in S : children[x] \subseteq S
        PROVE  c \in S
    <3>1. r \in S
      BY <2>2 DEF Below
    <3> QED
      BY <2>2, <3>1, <1>2
  <2> QED
    BY <2>1, <2>2 DEF Below
<1> QED
  BY <1>1, <1>2

(* Below(p) is within every set with p that is closed under children. *)
LEMMA BelowLeast ==
  ASSUME NEW p \in Pid, NEW S \in SUBSET Pid, p \in S, \A x \in S : children[x] \subseteq S
  PROVE  Below(p) \subseteq S
BY DEF Below

(* Every other member of Below(p) is a child of a member. *)
LEMMA BelowParent ==
  ASSUME NEW p \in Pid, children \in [Pid -> SUBSET Pid], NEW x \in Below(p), x # p
  PROVE  \E r \in Below(p) : x \in children[r]
<1> SUFFICES ASSUME \A r \in Below(p) : x \notin children[r] PROVE FALSE
  OBVIOUS
<1> DEFINE S == Below(p) \ {x}
<1>1. S \in SUBSET Pid /\ p \in S
  BY BelowClosed
<1>2. \A y \in S : children[y] \subseteq S
  BY BelowClosed
<1>3. Below(p) \subseteq S
  <2> HIDE DEF S
  <2> QED
    BY <1>1, <1>2, BelowLeast
<1> QED
  BY <1>3

(* A process other than the initial one is not below itself, and the       *)
(* initial process is not below it.                                        *)
LEMMA NoCycle ==
  ASSUME TypeOK, Family, NEW p \in Pid, p # InitPid, pstate[p] # "free"
  PROVE  InitPid \notin Below(p) /\ parent[p] \in Pid /\ parent[p] \notin Below(p)
<1>0. children \in [Pid -> SUBSET Pid] /\ InitPid \in Pid
  BY Zenon, LifecycleAssumption DEF TypeOK
<1>1. InitPid \notin Below(p)
  <2> SUFFICES ASSUME InitPid \in Below(p) PROVE FALSE
    OBVIOUS
  <2>1. \E r \in Below(p) : InitPid \in children[r]
    BY <1>0, BelowParent
  <2> QED
    BY <1>0, <2>1, BelowClosed DEF Family
<1>2. parent[p] \in Pid /\ p \in Below(InitPid)
  BY DEF Family
<1>3. parent[p] \notin Below(p)
  <2> SUFFICES ASSUME parent[p] \in Below(p) PROVE FALSE
    OBVIOUS
  <2> DEFINE S == Pid \ Below(p)
  <2>1. S \in SUBSET Pid /\ InitPid \in S
    BY <1>0, <1>1
  <2>2. ASSUME NEW r \in S, NEW c \in children[r] PROVE c \in S
    <3> SUFFICES ASSUME c \in Below(p) PROVE FALSE
      BY <1>0
    <3>1. r \in Pid /\ c \in Pid /\ c # InitPid
      BY <1>0, <2>2 DEF Family
    <3>2. pstate[c] # "free" /\ parent[c] = r
      BY <3>1, <2>2 DEF Family
    <3>3. CASE c = p
      BY <3>2, <3>3
    <3>4. CASE c # p
      <4>1. PICK s \in Below(p) : c \in children[s]
        BY <1>0, <3>4, BelowParent
      <4>2. s \in Pid /\ parent[c] = s
        BY <1>0, <4>1, <3>1, <3>2, BelowClosed DEF Family
      <4> QED
        BY <3>2, <4>1, <4>2
    <3> QED
      BY <3>3, <3>4
  <2>3. Below(InitPid) \subseteq S
    <3> HIDE DEF S
    <3> QED
      BY <1>0, <2>1, <2>2, BelowLeast
  <2> QED
    BY <1>0, <1>2, <2>3, BelowClosed
<1> QED
  BY <1>1, <1>2, <1>3

(* If the initial process has ended it was the last. *)
LEMMA InitLast ==
  ASSUME TypeOK, Family, children[InitPid] = {}
  PROVE  \A p \in Pid : p # InitPid => pstate[p] = "free"
<1>0. InitPid \in Pid
  BY Zenon, LifecycleAssumption
<1>1. {InitPid} \in SUBSET Pid /\ \A x \in {InitPid} : children[x] \subseteq {InitPid}
  BY <1>0
<1>2. Below(InitPid) \subseteq {InitPid}
  BY Zenon, <1>0, <1>1, BelowLeast
<1> QED
  BY <1>2 DEF Family

-----------------------------------------------------------------------------
(* Steps that move a task between the queues. *)

(* What such a step leaves alone. *)
LEMMA ProcessesKept ==
  ASSUME LInv, UNCHANGED procVars
  PROVE  OneSlot' /\ Family' /\ Coded'
<1>1. UNCHANGED <<pstate, parent, children, pcode, tasks>>
  BY DEF procVars
<1>2. \A p : Below(p)' = Below(p)
  BY <1>1 DEF Below
<1> QED
  BY <1>1, <1>2 DEF LInv, Tasked, OneSlot, Family, Coded

(* The rest of the invariant, if nobody ends and the owners stay right. *)
LEMMA QueueStep ==
  ASSUME LInv, UNCHANGED procVars,
         status' \in [Tcb -> {"Ready", "Running", "Blocked", "Zombie"}],
         current' \in Tcb \cup {None},
         ready' \subseteq Tcb, asleep' \subseteq Tcb, inRead' \subseteq Tcb,
         \A t \in Tcb : status'[t] = "Zombie" <=> status[t] = "Zombie",
         \A t \in Tcb : /\ status'[t] = "Running" <=> current' = t
                        /\ status'[t] = "Ready" => t \in ready' /\ t \notin asleep'
                        /\ status'[t] = "Running" => t \notin ready' /\ t \notin asleep'
                        /\ status'[t] = "Blocked" => t \notin ready',
         \A t \in Tcb : t \in ready' \cup asleep' \cup inRead' =>
                          t \in ready \cup asleep \cup inRead \/ status[t] # "Zombie",
         failed = "yes" => current' # None /\ current' \notin inRead'
  PROVE  LInv' /\ \A p \in Pid : ProcessCodeKept(p) /\ \A i \in Tid : ThreadCodeKept(p, i)
<1>1. pstate' = pstate /\ pcode' = pcode /\ tasks' = tasks /\ tcode' = tcode /\ failed' = failed
  BY DEF procVars
<1>2. TypeOK'
  BY DEF LInv, TypeOK, procVars
<1>3. \A p \in Pid : \A i \in Tid : tasks[p][i] \in Tcb \cup {None}
  BY DEF LInv, TypeOK
<1>4. \A t : InSlot(t)' <=> InSlot(t)
  BY <1>1 DEF InSlot
<1>5. Owned'
  BY <1>4 DEF LInv, Tasked, Owned
<1>6. Unreaped'
  BY <1>1, <1>3 DEF LInv, Tasked, Unreaped
<1>7. Rooted'
  BY <1>1, <1>3, Tids DEF LInv, Tasked, Rooted
<1>8. \A p \in Pid : ProcessCodeKept(p)
  BY <1>1 DEF ProcessCodeKept
<1>9. \A p \in Pid : \A i \in Tid : ThreadCodeKept(p, i)
  BY <1>1, <1>3 DEF ThreadCodeKept
<1>10. failed' = "yes" => current' # None /\ current' \notin inRead'
  BY <1>1
<1> QED
  BY <1>2, <1>5, <1>6, <1>7, <1>8, <1>9, <1>10, ProcessesKept DEF LInv, Tasked

Safe == LInv' /\ \A p \in Pid : ProcessCodeKept(p) /\ \A i \in Tid : ThreadCodeKept(p, i)

(* The steps that only move tasks between the processor and the queues. *)
LEMMA QueueActions ==
  ASSUME LInv
  PROVE  /\ Schedule \/ Suspend \/ ReadSuspend \/ ReadReturn \/ Sleep \/ SyncBlock => Safe
         /\ \A t \in Tcb : TimerExpires(t) \/ SyncWake(t) => Safe
<1>0. /\ status \in [Tcb -> {"Ready", "Running", "Blocked", "Zombie"}]
      /\ current \in Tcb \cup {None} /\ None \notin Tcb
      /\ ready \subseteq Tcb /\ asleep \subseteq Tcb /\ inRead \subseteq Tcb
  BY Zenon, LifecycleAssumption DEF LInv, TypeOK
<1>00. \A t \in Tcb : /\ status[t] = "Running" <=> current = t
                      /\ status[t] = "Ready" => t \in ready /\ t \notin asleep
                      /\ status[t] = "Running" => t \notin ready /\ t \notin asleep
                      /\ status[t] = "Blocked" => t \notin ready
  BY DEF LInv, Tasked, Owned
<1>000. failed = "yes" => current # None /\ current \notin inRead
  BY DEF LInv, Tasked
<1>1. CASE Schedule
  <2>1. PICK t \in ready :
          /\ ready' = ready \ {t}
          /\ IF status[t] = "Zombie" THEN UNCHANGED <<current, status>>
             ELSE current' = t /\ status' = [status EXCEPT ![t] = "Running"]
    BY <1>1 DEF Schedule
  <2>2. UNCHANGED procVars /\ UNCHANGED <<asleep, inRead>> /\ current = None /\ failed # "yes"
    BY <1>1, <1>000 DEF Schedule
  <2>3. CASE status[t] = "Zombie"
    BY <1>0, <1>00, <2>1, <2>2, <2>3, QueueStep DEF Safe
  <2>4. CASE status[t] # "Zombie"
    <3>1. status[t] = "Ready"
      BY <1>0, <1>00, <2>1, <2>2, <2>4
    <3> QED
      BY <1>0, <1>00, <2>1, <2>2, <3>1, QueueStep DEF Safe
  <2> QED
    BY <2>3, <2>4
<1>2. CASE Suspend
  <2>1. current # None /\ failed # "yes" /\ UNCHANGED procVars
    BY <1>2 DEF Suspend, InUser
  <2> QED
    BY <1>0, <1>00, <1>2, <2>1, QueueStep DEF Suspend, Safe
<1>3. CASE ReadSuspend
  <2>1. current # None /\ failed # "yes" /\ UNCHANGED procVars
    BY <1>3 DEF ReadSuspend
  <2> QED
    BY <1>0, <1>00, <1>3, <2>1, QueueStep DEF ReadSuspend, Safe
<1>4. CASE ReadReturn
  <2>1. current \in inRead /\ failed # "yes" /\ UNCHANGED procVars
    BY <1>4, <1>000 DEF ReadReturn
  <2> QED
    BY <1>0, <1>00, <1>4, <2>1, QueueStep DEF ReadReturn, Safe
<1>5. CASE Sleep
  <2>1. current # None /\ failed # "yes" /\ UNCHANGED procVars
    BY <1>5 DEF Sleep, InUser
  <2> QED
    BY <1>0, <1>00, <1>5, <2>1, QueueStep DEF Sleep, Safe
<1>6. CASE SyncBlock
  <2>1. current # None /\ failed # "yes" /\ UNCHANGED procVars
    BY <1>6 DEF SyncBlock, InUser
  <2> QED
    BY <1>0, <1>00, <1>6, <2>1, QueueStep DEF SyncBlock, Safe
<1>7. ASSUME NEW t \in Tcb, TimerExpires(t) PROVE Safe
  <2>1. t \in asleep /\ failed # "yes" /\ UNCHANGED procVars
    BY <1>7, <1>000 DEF TimerExpires, InUser
  <2>2. CASE status[t] = "Zombie"
    BY <1>0, <1>00, <1>7, <2>1, <2>2, QueueStep DEF TimerExpires, Safe
  <2>3. CASE status[t] # "Zombie"
    BY <1>0, <1>00, <1>7, <2>1, <2>3, QueueStep DEF TimerExpires, Safe
  <2> QED
    BY <2>2, <2>3
<1>8. ASSUME NEW t \in Tcb, SyncWake(t) PROVE Safe
  <2>1. t \notin asleep /\ failed # "yes" /\ UNCHANGED procVars
    BY <1>8 DEF SyncWake, InUser
  <2> QED
    BY <1>0, <1>00, <1>8, <2>1, QueueStep DEF SyncWake, Safe
<1> QED
  BY <1>1, <1>2, <1>3, <1>4, <1>5, <1>6, <1>7, <1>8

-----------------------------------------------------------------------------
(* The end of tasks and processes. *)

(* A thread that is not the root task ends alone. *)
LEMMA ThreadEnds ==
  ASSUME LInv, current # None, current \notin inRead, NEW code \in Codes \cup {ErrCode},
         ~IsRoot(current), ThreadEnd(current, code)
  PROVE  Safe
<1> DEFINE t == current
<1>1. /\ t \in Tcb /\ status[t] = "Running" /\ ProcessOf(t) \in Pid
      /\ \E i \in Tid : tasks[ProcessOf(t)][i] = t
  BY CurrentProcess DEF LInv
<1>2. t \notin ready /\ t \notin asleep /\ t # None
  BY <1>1 DEF LInv, Tasked, Owned
<1>3. code # None
  BY Zenon, LifecycleAssumption DEF ErrCode
<1>4. /\ UNCHANGED <<pstate, parent, children, pcode, tasks, ready, inRead>>
      /\ status' = [status EXCEPT ![t] = "Zombie"] /\ tcode' = [tcode EXCEPT ![t] = code]
      /\ current' = None /\ asleep' = asleep \ {t} /\ failed' = "no"
  BY DEF ThreadEnd
<1>5. /\ status \in [Tcb -> {"Ready", "Running", "Blocked", "Zombie"}]
      /\ tcode \in [Tcb -> Codes \cup {ErrCode, None}]
      /\ \A p \in Pid : \A i \in Tid : tasks[p][i] \in Tcb \cup {None}
      /\ None \notin Tcb /\ ready \subseteq Tcb /\ asleep \subseteq Tcb /\ inRead \subseteq Tcb
  <2>1. None \notin Tcb
    BY Zenon, LifecycleAssumption
  <2> QED
    BY <2>1 DEF LInv, TypeOK
<1>6. \A p \in Pid : tasks[p][RootTid] # t
  <2>1. tasks[ProcessOf(t)][RootTid] # t
    BY DEF IsRoot
  <2> SUFFICES ASSUME NEW p \in Pid, tasks[p][RootTid] = t PROVE FALSE
    OBVIOUS
  <2>2. PICK i \in Tid : tasks[ProcessOf(t)][i] = t
    BY <1>1
  <2>3. RootTid \in Tid /\ OneSlot
    BY Tids DEF LInv, Tasked
  <2>4. p = ProcessOf(t)
    BY <1>1, <1>2, <2>2, <2>3 DEF OneSlot
  <2> QED
    BY <2>1, <2>4
<1>7. TypeOK'
  <2>1. status' \in [Tcb -> {"Ready", "Running", "Blocked", "Zombie"}]
    BY <1>1, <1>4, <1>5
  <2>2. tcode' \in [Tcb -> Codes \cup {ErrCode, None}]
    BY <1>1, <1>4, <1>5
  <2> QED
    BY <1>4, <2>1, <2>2 DEF LInv, TypeOK
<1> HIDE DEF t
<1>8. \A u \in Tcb : /\ status'[u] = IF u = t THEN "Zombie" ELSE status[u]
                     /\ tcode'[u] = IF u = t THEN code ELSE tcode[u]
  BY <1>1, <1>4, <1>5
<1>9. \A p : Below(p)' = Below(p)
  BY <1>4 DEF Below
<1>10. OneSlot' /\ Family' /\ Coded'
  BY <1>4, <1>9 DEF LInv, Tasked, OneSlot, Family, Coded
<1>11. \A u : InSlot(u)' <=> InSlot(u)
  BY <1>4 DEF InSlot
<1>12. Owned'
  <2> SUFFICES ASSUME NEW u \in Tcb
               PROVE  /\ status'[u] # "Zombie" => InSlot(u)'
                      /\ status'[u] = "Running" <=> current' = u
                      /\ status'[u] = "Ready" => u \in ready' /\ u \notin asleep'
                      /\ status'[u] = "Running" => u \notin ready' /\ u \notin asleep'
                      /\ status'[u] = "Blocked" => u \notin ready'
    BY DEF Owned
  <2>1. CASE u = t
    BY <1>4, <1>5, <1>8, <2>1
  <2>2. CASE u # t
    BY <1>4, <1>5, <1>8, <1>11, <2>2 DEF LInv, Tasked, Owned, t
  <2> QED
    BY <2>1, <2>2
<1>13. Unreaped'
  <2> SUFFICES ASSUME NEW p \in Pid, NEW i \in Tid, tasks[p][i] # None,
                      status'[tasks[p][i]] = "Zombie"
               PROVE  /\ tasks[p][i] \notin ready' \cup asleep' \cup inRead'
                      /\ tcode'[tasks[p][i]] # None
    BY <1>4 DEF Unreaped
  <2>1. CASE tasks[p][i] = t
    BY <2>1, <1>1, <1>2, <1>3, <1>4, <1>8 DEF t
  <2>2. CASE tasks[p][i] # t
    BY <2>2, <1>4, <1>5, <1>8 DEF LInv, Tasked, Unreaped
  <2> QED
    BY <2>1, <2>2
<1>14. Rooted'
  BY <1>4, <1>5, <1>6, <1>8, Tids DEF LInv, Tasked, Rooted
<1>15. Tasked'
  BY <1>4, <1>10, <1>12, <1>13, <1>14 DEF Tasked
<1>16. \A p \in Pid : ProcessCodeKept(p)
  BY <1>4 DEF ProcessCodeKept
<1>17. \A p \in Pid : \A i \in Tid : ThreadCodeKept(p, i)
  <2>1. \A u \in Tcb : status[u] = "Zombie" => status'[u] = "Zombie" /\ tcode'[u] = tcode[u]
    BY <1>1, <1>8
  <2> QED
    BY <1>4, <1>5, <2>1 DEF ThreadCodeKept
<1> QED
  BY <1>7, <1>10, <1>15, <1>16, <1>17 DEF Safe, LInv

(* The processes mark_zombie reaches from p, with a child that has only    *)
(* just been made or without.                                              *)
Doomed(p, procs) ==
  /\ p \in procs /\ procs \in SUBSET Pid
  /\ \A r \in procs : children[r] \subseteq procs
  /\ \A x \in procs \ {p} : pstate[x] = "free" \/ \E r \in procs : x \in children[r]
  /\ p = InitPid => procs = {p}
  /\ p # InitPid => InitPid \notin procs /\ parent[p] \in Pid \ procs

(* mark_zombie keeps the family: who is ended gives up its children, and all *)
(* but the first of them go to the initial process.                        *)
LEMMA MarkedFamily ==
  ASSUME TypeOK, Family, NEW p \in Pid, pstate[p] = "live", NEW procs, Doomed(p, procs),
         NEW code, MarkZombie(p, procs, code)
  PROVE  Family'
<1>0. /\ children \in [Pid -> SUBSET Pid] /\ InitPid \in Pid
      /\ parent \in [Pid -> Pid \cup {None}]
      /\ pstate \in [Pid -> {"free", "live", "zombie"}]
  BY Zenon, LifecycleAssumption DEF TypeOK
<1>1. /\ \A q \in Pid : pstate'[q] = IF q \in procs THEN "zombie" ELSE pstate[q]
      /\ \A q \in Pid : parent'[q] = IF q \in procs \ {p} THEN InitPid ELSE parent[q]
      /\ \A q \in procs : q \in Pid => children'[q] = {}
      /\ \A q \in Pid \ procs : children'[q] = IF q = InitPid THEN children[q] \cup (procs \ {p}) ELSE children[q]
  BY DEF MarkZombie
<1>2. procs \in SUBSET Pid /\ p \in procs
  BY DEF Doomed
<1>3. pstate[InitPid] = "live"
  <2> SUFFICES ASSUME pstate[InitPid] # "live" PROVE FALSE
    OBVIOUS
  <2>1. children[InitPid] = {}
    BY <1>0 DEF Family
  <2>2. \A q \in Pid : q # InitPid => pstate[q] = "free"
    BY <2>1, InitLast
  <2> QED
    BY <2>2
<1>4. \A x \in procs \ {p} : x # InitPid /\ (pstate[x] # "free" => parent[x] \in procs)
  <2> SUFFICES ASSUME NEW x \in procs \ {p}
               PROVE  x # InitPid /\ (pstate[x] # "free" => parent[x] \in procs)
    OBVIOUS
  <2>1. x # InitPid /\ x \in Pid
    BY <1>2 DEF Doomed
  <2>2. ASSUME pstate[x] # "free" PROVE parent[x] \in procs
    <3>1. PICK r \in procs : x \in children[r]
      BY <2>2 DEF Doomed
    <3>2. parent[x] = r
      BY <1>2, <2>1, <2>2, <3>1 DEF Family
    <3> QED
      BY <3>2
  <2> QED
    BY <2>1, <2>2
<1>5. pstate'[InitPid] # "free" /\ \A q \in Pid : InitPid \notin children'[q]
  <2>1. pstate'[InitPid] # "free"
    BY <1>0, <1>1, <1>3
  <2>2. \A q \in Pid \ procs : InitPid \notin children'[q]
    <3>1. InitPid \notin procs \ {p} /\ \A q \in Pid : InitPid \notin children[q]
      BY <1>4 DEF Family
    <3>2. \A q \in Pid \ procs : children'[q] \subseteq children[q] \cup (procs \ {p})
      BY Zenon, <1>1
    <3> QED
      BY <3>1, <3>2
  <2>3. \A q \in procs : InitPid \notin children'[q]
    BY <1>1, <1>2
  <2> QED
    BY <2>1, <2>2, <2>3
<1>6. \A q \in Pid : pstate'[q] # "live" => children'[q] = {}
  BY Zenon, <1>0, <1>1, <1>3 DEF Family
<1>7. ASSUME NEW x \in Pid \ {InitPid}
      PROVE  /\ pstate'[x] = "free" => \A q \in Pid : x \notin children'[q]
             /\ pstate'[x] # "free" =>
                  /\ parent'[x] \in Pid /\ pstate'[parent'[x]] = "live"
                  /\ \A q \in Pid : x \in children'[q] <=> parent'[x] = q
  <2>1. CASE x \in procs \ {p}
    <3>1. p # InitPid /\ InitPid \notin procs
      BY <2>1 DEF Doomed
    <3>2. parent'[x] = InitPid /\ pstate'[InitPid] = "live" /\ pstate'[x] = "zombie"
      BY <1>0, <1>1, <1>3, <2>1, <3>1
    <3>3. x \in children'[InitPid]
      BY Zenon, <1>0, <1>1, <2>1, <3>1
    <3>4. \A q \in Pid : q # InitPid => x \notin children'[q]
      <4> SUFFICES ASSUME NEW q \in Pid, q # InitPid, q \notin procs, x \in children[q] PROVE FALSE
        BY Zenon, <1>1
      <4>1. pstate[x] # "free" /\ parent[x] = q
        BY DEF Family
      <4> QED
        BY <1>4, <2>1, <4>1
    <3> QED
      BY <1>0, <3>2, <3>3, <3>4
  <2>2. CASE x = p
    <3>1. p # InitPid /\ InitPid \notin procs /\ parent[p] \in Pid \ procs
      BY <2>2 DEF Doomed
    <3>2. pstate'[x] = "zombie" /\ parent'[x] = parent[p] /\ pstate'[parent[p]] = pstate[parent[p]]
      BY <1>1, <1>2, <2>2, <3>1
    <3>3. pstate[parent[p]] = "live" /\ \A q \in Pid : p \in children[q] <=> parent[p] = q
      BY <2>2 DEF Family
    <3>4. \A q \in Pid \ procs : p \in children'[q] <=> p \in children[q]
      BY Zenon, <1>1
    <3>5. \A q \in procs : p \notin children'[q]
      BY <1>1, <1>2
    <3> QED
      BY <2>2, <3>1, <3>2, <3>3, <3>4, <3>5
  <2>3. CASE x \notin procs
    <3>1. pstate'[x] = pstate[x] /\ parent'[x] = parent[x]
      BY <1>1, <2>3
    <3>2. \A q \in Pid \ procs : x \in children'[q] <=> x \in children[q]
      BY Zenon, <1>1, <2>3
    <3>3. \A q \in procs : x \notin children'[q] /\ x \notin children[q]
      BY <1>1, <1>2, <2>3 DEF Doomed
    <3>4. pstate[x] # "free" => parent[x] \in Pid \ procs
      BY <3>3 DEF Family
    <3>5. pstate[x] # "free" => pstate'[parent[x]] = "live"
      BY <1>1, <3>4 DEF Family
    <3>6. /\ pstate[x] = "free" => \A q \in Pid : x \notin children[q]
          /\ pstate[x] # "free" => \A q \in Pid : x \in children[q] <=> parent[x] = q
      BY DEF Family
    <3> QED
      BY <1>2, <3>1, <3>2, <3>3, <3>4, <3>5, <3>6
  <2> QED
    BY <1>2, <2>1, <2>2, <2>3
<1>8. ASSUME NEW x \in Pid, pstate'[x] # "free" PROVE x \in Below(InitPid)'
  <2> SUFFICES ASSUME NEW S \in SUBSET Pid, InitPid \in S, \A r \in S : children'[r] \subseteq S
               PROVE  x \in S
    BY DEF Below
  <2>1. procs \ {p} \subseteq S
    <3>1. CASE p = InitPid
      BY <3>1 DEF Doomed
    <3>2. CASE p # InitPid
      BY Zenon, <1>0, <1>1, <3>2 DEF Doomed
    <3> QED
      BY <3>1, <3>2
  <2> DEFINE T == S \cup procs
  <2>2. T \in SUBSET Pid /\ InitPid \in T
    BY <1>2
  <2>3. ASSUME NEW r \in T, NEW c \in children[r] PROVE c \in T
    <3>1. CASE r \in procs
      BY <2>3, <3>1 DEF Doomed
    <3>2. CASE r \notin procs
      <4>1. r \in S /\ r \in Pid \ procs
        BY <3>2
      <4>2. children[r] \subseteq children'[r]
        BY Zenon, <1>1, <4>1
      <4> QED
        BY <2>3, <4>1, <4>2
    <3> QED
      BY <3>1, <3>2
  <2>4. Below(InitPid) \subseteq T
    <3> HIDE DEF T
    <3> QED
      BY <1>0, <2>2, <2>3, BelowLeast
  <2>5. CASE x \in procs \ {p}
    BY <2>1, <2>5
  <2>6. CASE x \notin procs
    <3>1. pstate[x] # "free"
      BY <1>1, <1>8, <2>6
    <3> QED
      BY <2>4, <2>6, <3>1 DEF Family
  <2>7. CASE x = p
    <3>1. CASE p = InitPid
      BY <2>7, <3>1
    <3>2. CASE p # InitPid
      <4>1. parent[p] \in Pid \ procs /\ p \in children[parent[p]] /\ pstate[parent[p]] # "free"
        BY <3>2 DEF Doomed, Family
      <4>2. parent[p] \in S
        BY <2>4, <4>1 DEF Family
      <4>3. p \in children'[parent[p]]
        BY Zenon, <1>1, <4>1
      <4> QED
        BY <2>7, <4>2, <4>3
    <3> QED
      BY <3>1, <3>2
  <2> QED
    BY <2>5, <2>6, <2>7
<1> QED
  BY <1>5, <1>6, <1>7, <1>8 DEF Family

(* mark_zombie ends every task of the processes it reaches, and no other.  *)
LEMMA ProcessesEnd ==
  ASSUME LInv, current # None, NEW code \in Codes \cup {ErrCode}, NEW procs,
         Doomed(ProcessOf(current), procs), MarkZombie(ProcessOf(current), procs, code)
  PROVE  Safe
<1> DEFINE p == ProcessOf(current)
<1>1. /\ current \in Tcb /\ status[current] = "Running"
      /\ p \in Pid /\ pstate[p] = "live" /\ current \in TasksOf(p)
  BY CurrentProcess DEF LInv
<1>2. Family'
  BY <1>1, MarkedFamily DEF LInv
<1>3. p \in procs /\ procs \in SUBSET Pid /\ code # None
  BY Zenon, LifecycleAssumption DEF Doomed, ErrCode
<1>4. /\ status' = [t \in Tcb |-> IF t \in Ended(procs) THEN "Zombie" ELSE status[t]]
      /\ tcode' = [t \in Tcb |-> IF t \in Ended(procs) THEN code ELSE tcode[t]]
      /\ tasks' = [q \in Pid |-> IF q \in procs THEN [i \in Tid |-> None] ELSE tasks[q]]
      /\ pcode' = [q \in Pid |-> IF q \in procs THEN code ELSE pcode[q]]
      /\ pstate' = [q \in Pid |-> IF q \in procs THEN "zombie" ELSE pstate[q]]
      /\ parent' = [q \in Pid |-> IF q \in procs \ {p} THEN InitPid ELSE parent[q]]
      /\ failed' = "no" /\ current' = None /\ asleep' = asleep \ {current}
      /\ UNCHANGED <<ready, inRead>>
  BY DEF MarkZombie
<1>5. /\ status \in [Tcb -> {"Ready", "Running", "Blocked", "Zombie"}]
      /\ tcode \in [Tcb -> Codes \cup {ErrCode, None}]
      /\ tasks \in [Pid -> [Tid -> Tcb \cup {None}]]
      /\ pcode \in [Pid -> Codes \cup {ErrCode, None}]
      /\ pstate \in [Pid -> {"free", "live", "zombie"}]
      /\ parent \in [Pid -> Pid \cup {None}] /\ children \in [Pid -> SUBSET Pid]
  BY DEF LInv, TypeOK
<1>6. None \notin Tcb /\ InitPid \in Pid
  BY Zenon, LifecycleAssumption
<1>7. children' \in [Pid -> SUBSET Pid]
  <2>1. children' = [q \in Pid |-> CASE q \in procs -> {}
                                     [] q = InitPid /\ q \notin procs -> children[q] \cup (procs \ {p})
                                     [] OTHER -> children[q]]
    BY DEF MarkZombie
  <2> QED
    BY <1>3, <1>5, <2>1
<1>8. \A t \in Tcb : t \in Ended(procs) <=>
        status[t] # "Zombie" /\ \E q \in procs : \E i \in Tid : tasks[q][i] = t
  BY <1>6 DEF Ended, TasksOf
<1>9. TypeOK'
  <2>1. status' \in [Tcb -> {"Ready", "Running", "Blocked", "Zombie"}]
    BY <1>4, <1>5
  <2>2. tcode' \in [Tcb -> Codes \cup {ErrCode, None}]
    BY <1>4, <1>5
  <2>3. tasks' \in [Pid -> [Tid -> Tcb \cup {None}]]
    BY <1>4, <1>5
  <2>4. pcode' \in [Pid -> Codes \cup {ErrCode, None}]
    BY <1>4, <1>5
  <2>5. pstate' \in [Pid -> {"free", "live", "zombie"}]
    BY <1>4, <1>5
  <2>6. parent' \in [Pid -> Pid \cup {None}]
    BY <1>4, <1>5, <1>6
  <2> QED
    BY <1>4, <1>7, <2>1, <2>2, <2>3, <2>4, <2>5, <2>6 DEF LInv, TypeOK
<1>10. /\ \A t \in Tcb : status'[t] = IF t \in Ended(procs) THEN "Zombie" ELSE status[t]
       /\ \A t \in Tcb : tcode'[t] = IF t \in Ended(procs) THEN code ELSE tcode[t]
       /\ \A q \in Pid : \A i \in Tid : tasks'[q][i] = IF q \in procs THEN None ELSE tasks[q][i]
       /\ \A q \in Pid : pcode'[q] = IF q \in procs THEN code ELSE pcode[q]
       /\ \A q \in Pid : pstate'[q] = IF q \in procs THEN "zombie" ELSE pstate[q]
       /\ \A q \in Pid : \A i \in Tid : tasks[q][i] \in Tcb \cup {None}
  BY <1>4, <1>5
<1>11. current \in Ended(procs)
  BY <1>1, <1>3, <1>8 DEF TasksOf
<1> HIDE DEF p
<1>12. \A q \in Pid \ procs : \A i \in Tid : tasks[q][i] \notin Ended(procs)
  <2> SUFFICES ASSUME NEW q \in Pid \ procs, NEW i \in Tid, tasks[q][i] \in Ended(procs)
               PROVE  FALSE
    OBVIOUS
  <2>1. tasks[q][i] \in Tcb
    BY <1>10, <1>3 DEF Ended, TasksOf
  <2>2. PICK r \in procs, j \in Tid : tasks[r][j] = tasks[q][i]
    BY <1>8, <2>1
  <2> QED
    BY <1>3, <1>6, <2>1, <2>2 DEF LInv, Tasked, OneSlot
<1>13. OneSlot'
  BY <1>10 DEF LInv, Tasked, OneSlot
<1>14. \A t \in Tcb : status'[t] # "Zombie" => status'[t] = status[t] /\ InSlot(t)'
  <2> SUFFICES ASSUME NEW t \in Tcb, status'[t] # "Zombie"
               PROVE  status'[t] = status[t] /\ InSlot(t)'
    OBVIOUS
  <2>1. t \notin Ended(procs) /\ status'[t] = status[t]
    BY <1>10
  <2>2. PICK q \in Pid, i \in Tid : tasks[q][i] = t
    BY <2>1 DEF LInv, Tasked, Owned, InSlot
  <2>3. q \notin procs
    BY <1>8, <2>1, <2>2
  <2> QED
    BY <1>10, <2>1, <2>2, <2>3 DEF InSlot
<1>15. Owned'
  <2>1. \A t \in Tcb : status'[t] # "Running"
    BY Zenon, <1>10, <1>11 DEF LInv, Tasked, Owned
  <2> QED
    BY <1>4, <1>6, <1>14, <2>1 DEF LInv, Tasked, Owned
<1>16. Unreaped'
  <2> SUFFICES ASSUME NEW q \in Pid, NEW i \in Tid, tasks'[q][i] # None,
                      status'[tasks'[q][i]] = "Zombie"
               PROVE  /\ tasks'[q][i] \notin ready' \cup asleep' \cup inRead'
                      /\ tcode'[tasks'[q][i]] # None
    BY DEF Unreaped
  <2>1. q \notin procs /\ tasks'[q][i] = tasks[q][i] /\ tasks[q][i] \in Tcb
    BY <1>10
  <2>2. status[tasks[q][i]] = "Zombie" /\ tcode'[tasks[q][i]] = tcode[tasks[q][i]]
    BY <1>10, <1>12, <2>1
  <2> QED
    BY Zenon, <1>4, <2>1, <2>2 DEF LInv, Tasked, Unreaped
<1>17. Rooted'
  <2>1. ASSUME NEW q \in Pid, pstate'[q] = "live"
        PROVE  tasks'[q][RootTid] # None /\ status'[tasks'[q][RootTid]] # "Zombie"
    <3>1. q \notin procs /\ pstate[q] = "live"
      BY <1>10, <2>1
    <3>2. tasks[q][RootTid] # None /\ status[tasks[q][RootTid]] # "Zombie"
      BY <3>1 DEF LInv, Tasked, Rooted
    <3> QED
      BY <1>10, <1>12, <3>1, <3>2, Tids
  <2>2. ASSUME NEW q \in Pid, pstate'[q] # "live", NEW i \in Tid PROVE tasks'[q][i] = None
    <3>1. CASE q \in procs
      BY <1>10, <3>1
    <3>2. CASE q \notin procs
      <4>1. pstate[q] # "live" /\ tasks'[q][i] = tasks[q][i]
        BY <1>10, <2>2, <3>2
      <4> QED
        BY <4>1 DEF LInv, Tasked, Rooted
    <3> QED
      BY <3>1, <3>2
  <2> QED
    BY <2>1, <2>2 DEF Rooted
<1>18. Coded'
  BY Zenon, <1>3, <1>10 DEF LInv, Coded
<1>19. \A q \in Pid : ProcessCodeKept(q)
  <2> SUFFICES ASSUME NEW q \in Pid, pstate[q] = "zombie"
               PROVE  \/ pstate'[q] = "zombie" /\ pcode'[q] = pcode[q]
                      \/ pstate'[parent[q]] = "zombie"
    BY DEF ProcessCodeKept
  <2>1. CASE q \notin procs
    BY <1>10, <2>1
  <2>2. CASE q \in procs
    <3>1. q # p
      BY <1>1 DEF p
    <3>2. q # InitPid
      BY <2>2, <3>1 DEF Doomed, p
    <3>3. PICK r \in procs : q \in children[r]
      BY <2>2, <3>1 DEF Doomed, p
    <3>4. parent[q] = r
      BY <1>3, <3>2, <3>3 DEF LInv, Family
    <3> QED
      BY <1>3, <1>10, <3>4
  <2> QED
    BY <2>1, <2>2
<1>20. \A q \in Pid : \A i \in Tid : ThreadCodeKept(q, i)
  <2> SUFFICES ASSUME NEW q \in Pid, NEW i \in Tid, tasks[q][i] # None,
                      status[tasks[q][i]] = "Zombie"
               PROVE  \/ /\ tasks'[q][i] = tasks[q][i] /\ status'[tasks[q][i]] = "Zombie"
                         /\ tcode'[tasks[q][i]] = tcode[tasks[q][i]]
                      \/ pstate'[q] = "zombie"
    BY DEF ThreadCodeKept
  <2> QED
    BY Zenon, <1>10, <1>12
<1> QED
  BY <1>2, <1>4, <1>9, <1>13, <1>15, <1>16, <1>17, <1>18, <1>19, <1>20 DEF Safe, LInv, Tasked

(* A kernel that panics changes nothing but that. *)
LEMMA PanicKeeps ==
  ASSUME LInv, UNCHANGED <<pstate, parent, children, pcode, tasks, status, tcode, current,
                           ready, asleep, inRead, failed>>
  PROVE  Safe
<1>1. \A p : Below(p)' = Below(p)
  BY DEF Below
<1>2. \A t : InSlot(t)' <=> InSlot(t)
  BY DEF InSlot
<1>3. TypeOK'
  BY DEF LInv, TypeOK
<1>4. Tasked'
  BY <1>2 DEF LInv, Tasked, OneSlot, Owned, Unreaped, Rooted
<1>5. Family' /\ Coded'
  BY <1>1 DEF LInv, Family, Coded
<1>6. \A p \in Pid : ProcessCodeKept(p) /\ \A i \in Tid : ThreadCodeKept(p, i)
  BY DEF ProcessCodeKept, ThreadCodeKept
<1> QED
  BY <1>3, <1>4, <1>5, <1>6 DEF Safe, LInv

(* The assertion of exit_current_and_run_other_task holds. *)
LEMMA ExitCount ==
  ASSUME LInv, current # None, current \notin inRead
  PROVE  Strong(current) - One(current \in asleep) = 2
<1>1. current \in Tcb /\ status[current] = "Running"
  BY CurrentProcess DEF LInv
<1>2. InSlot(current) /\ current \notin ready /\ current \notin asleep
  BY <1>1 DEF LInv, Tasked, Owned
<1>3. Strong(current) = 1 + One(current = current) + One(current \in ready)
                          + One(current \in asleep) + One(current \in inRead)
  BY <1>1, <1>2, StrongOne DEF LInv, Tasked
<1> QED
  BY <1>2, <1>3 DEF One

(* A task mark_zombie ends has the count it asserts, unless nobody holds    *)
(* it or it holds itself.                                                  *)
LEMMA MarkCount ==
  ASSUME LInv, NEW t \in Tcb, status[t] # "Zombie", t \notin inRead,
         status[t] = "Blocked" => t \in asleep
  PROVE  Strong(t) + 1 = 3
<1>1. Strong(t) = 1 + One(current = t) + One(t \in ready) + One(t \in asleep) + One(t \in inRead)
  BY StrongOne DEF LInv, Tasked, Owned
<1>2. status[t] \in {"Ready", "Running", "Blocked"}
  BY DEF LInv, TypeOK
<1>3. /\ status[t] = "Running" <=> current = t
      /\ status[t] = "Ready" => t \in ready /\ t \notin asleep
      /\ status[t] = "Running" => t \notin ready /\ t \notin asleep
      /\ status[t] = "Blocked" => t \notin ready
  BY DEF LInv, Tasked, Owned
<1>4. CASE status[t] = "Running"
  BY <1>1, <1>3, <1>4 DEF One
<1>5. CASE status[t] = "Ready"
  BY <1>1, <1>3, <1>5 DEF One
<1>6. CASE status[t] = "Blocked"
  BY <1>1, <1>3, <1>6 DEF One
<1> QED
  BY <1>2, <1>4, <1>5, <1>6

(* PanicsExplained, of a kernel in the given state. *)
Explained(k) ==
  \/ k = "running"
  \/ /\ k = "strong count in mark_zombie"
     /\ \E t \in Ended(Below(ProcessOf(current))) :
          t \in inRead \/ (status[t] = "Blocked" /\ t \notin asleep)
  \/ /\ k = "double borrow of INIT_PROC"
     /\ ProcessOf(current) = InitPid

Frozen == UNCHANGED <<pstate, parent, children, pcode, tasks, status, tcode, current,
                      ready, asleep, inRead, failed>>

(* A panic changes nothing else, so what explains it stays true. *)
LEMMA ExplainedNext ==
  ASSUME Frozen, Explained(kernel')
  PROVE  PanicsExplained'
<1>1. \A t : TasksOf(t)' = TasksOf(t)
  BY DEF TasksOf, Frozen
<1>2. \A p : Below(p)' = Below(p)
  BY DEF Below, Frozen
<1>3. ProcessOf(current)' = ProcessOf(current)
  BY DEF ProcessOf, TasksOf, Frozen
<1>4. Ended(Below(ProcessOf(current)))' = Ended(Below(ProcessOf(current)))
  BY DEF Ended, Below, ProcessOf, TasksOf, Frozen
<1> QED
  BY Zenon, <1>3, <1>4 DEF PanicsExplained, Explained, Frozen

(* The processes an exit, or a fork that fails, takes along. *)
LEMMA DoomedBelow ==
  ASSUME LInv, current # None, NEW new \in SUBSET Pid, \A q \in new : pstate[q] = "free",
         ProcessOf(current) = InitPid => Below(InitPid) \cup new = {InitPid}
  PROVE  Doomed(ProcessOf(current), Below(ProcessOf(current)) \cup new)
<1> DEFINE p == ProcessOf(current)
<1>1. p \in Pid /\ pstate[p] = "live"
  BY CurrentProcess DEF LInv
<1>2. children \in [Pid -> SUBSET Pid] /\ InitPid \in Pid
  BY Zenon, LifecycleAssumption DEF LInv, TypeOK
<1> HIDE DEF p
<1>3. /\ Below(p) \in SUBSET Pid /\ p \in Below(p)
      /\ \A r \in Below(p) : children[r] \subseteq Below(p)
  BY <1>1, <1>2, BelowClosed
<1>4. \A r \in new : children[r] = {}
  BY DEF LInv, Family
<1>5. \A x \in Below(p) : x # p => \E r \in Below(p) : x \in children[r]
  BY <1>1, <1>2, BelowParent
<1>6. ASSUME p # InitPid
      PROVE  InitPid \notin Below(p) \cup new /\ parent[p] \in Pid \ (Below(p) \cup new)
  <2>1. InitPid \notin Below(p) /\ parent[p] \in Pid /\ parent[p] \notin Below(p)
    BY <1>1, <1>6, NoCycle DEF LInv
  <2>2. InitPid \notin new
    BY <1>2 DEF LInv, Family
  <2>3. parent[p] \notin new
    BY <1>1, <1>6 DEF LInv, Family
  <2> QED
    BY <2>1, <2>2, <2>3
<1>7. p = InitPid => Below(p) \cup new = {p}
  BY DEF p
<1>8. Doomed(p, Below(p) \cup new)
  BY <1>3, <1>4, <1>5, <1>6, <1>7 DEF Doomed
<1> QED
  BY <1>8 DEF p

(* A process ends, or the kernel stops at an assertion PanicsExplained     *)
(* names.                                                                  *)
LEMMA ProcessEnds ==
  ASSUME LInv, kernel = "running", current # None, NEW code \in Codes \cup {ErrCode},
         NEW new \in SUBSET Pid, \A q \in new : pstate[q] = "free",
         ProcessEnd(ProcessOf(current), Below(ProcessOf(current)) \cup new, code)
  PROVE  Safe /\ PanicsExplained'
<1> DEFINE p == ProcessOf(current)
           procs == Below(p) \cup new
<1>0. p \in Pid /\ children \in [Pid -> SUBSET Pid]
  BY CurrentProcess DEF LInv, TypeOK
<1>1. p \in procs
  BY <1>0, BelowClosed
<1>2. CASE ~CountsAsserted(procs)
  <2>1. kernel' = "strong count in mark_zombie" /\ Frozen
    BY Zenon, <1>2 DEF ProcessEnd, Panic, Frozen
  <2>2. PICK t \in Ended(procs) : Strong(t) + 1 # 3
    BY <1>2 DEF CountsAsserted
  <2>3. t \in Ended(Below(p))
    <3>1. \A q \in new : TasksOf(q) = {}
      BY Zenon DEF LInv, Tasked, Rooted, TasksOf
    <3> QED
      BY <2>2, <3>1 DEF Ended
  <2>4. t \in Tcb /\ status[t] # "Zombie"
    <3>1. PICK q \in procs, i \in Tid : t = tasks[q][i] /\ t # None
      BY <2>2 DEF Ended, TasksOf
    <3>2. procs \in SUBSET Pid
      BY <1>0, BelowClosed
    <3>3. t \in Tcb
      BY <3>1, <3>2 DEF LInv, TypeOK
    <3> QED
      BY <2>2, <3>3 DEF Ended
  <2>5. t \in inRead \/ (status[t] = "Blocked" /\ t \notin asleep)
    BY <2>2, <2>4, MarkCount
  <2>6. Explained(kernel')
    BY Zenon, <2>1, <2>3, <2>5 DEF Explained
  <2> QED
    BY Zenon, <2>1, <2>6, ExplainedNext, PanicKeeps DEF Frozen
<1>3. CASE CountsAsserted(procs) /\ p = InitPid /\ procs # {p}
  <2>1. kernel' = "double borrow of INIT_PROC" /\ Frozen
    BY Zenon, <1>3 DEF ProcessEnd, Panic, Frozen
  <2>2. Explained(kernel')
    BY Zenon, <1>3, <2>1 DEF Explained
  <2> QED
    BY Zenon, <2>1, <2>2, ExplainedNext, PanicKeeps DEF Frozen
<1>4. CASE CountsAsserted(procs) /\ ~(p = InitPid /\ procs # {p})
  <2>1. MarkZombie(p, procs, code)
    BY Zenon, <1>4 DEF ProcessEnd
  <2>2. Doomed(p, procs)
    BY <1>4, DoomedBelow
  <2>3. kernel' = "running"
    BY <2>1 DEF MarkZombie
  <2>4. Safe
    BY <2>1, <2>2, ProcessesEnd
  <2> QED
    BY <2>3, <2>4 DEF PanicsExplained
<1> QED
  BY <1>2, <1>3, <1>4

(* The end of the current task, by sys_exit or by the error of a call. *)
LEMMA TaskEnds ==
  ASSUME LInv, kernel = "running", current # None, current \notin inRead,
         NEW code \in Codes \cup {ErrCode}, ExitWith(code)
  PROVE  Safe /\ PanicsExplained'
<1>1. Strong(current) - One(current \in asleep) = 2
  BY ExitCount
<1>2. CASE IsRoot(current)
  <2>1. ProcessEnd(ProcessOf(current), Below(ProcessOf(current)) \cup {}, code)
    BY <1>1, <1>2 DEF ExitWith
  <2>2. {} \in SUBSET Pid /\ \A q \in {} : pstate[q] = "free"
    OBVIOUS
  <2> QED
    BY Zenon, <2>1, <2>2, ProcessEnds
<1>3. CASE ~IsRoot(current)
  <2>1. ThreadEnd(current, code)
    BY <1>1, <1>3 DEF ExitWith
  <2>2. kernel' = "running"
    BY <2>1 DEF ThreadEnd
  <2> QED
    BY <1>3, <2>1, <2>2, ThreadEnds DEF PanicsExplained
<1> QED
  BY <1>2, <1>3

=============================================================================
