-------------------------------- MODULE Pipe --------------------------------
(***************************************************************************)
(* A pipe and the tasks that use it (fs/pipe.rs, sys_read, sys_write and   *)
(* sys_close in syscall/fs.rs). The read end holds the ring buffer, the    *)
(* write end only a Weak to it; a writer inside write() holds an upgraded  *)
(* reference while it is suspended.                                        *)
(*                                                                         *)
(* The buffer is a bounded queue, which RingBuffer is shown to implement:  *)
(* here only how many bytes it holds matters. No task is suspended with    *)
(* the buffer's lock, so try_lock always succeeds on the one processor.    *)
(*                                                                         *)
(* Each reader and each writer has a descriptor of its own for the end,    *)
(* as after a fork or a dup. Another thread of its process may close it    *)
(* during the call. Entering a call and its first look at the pipe are two *)
(* steps: what others do in between they may as well do before the call.   *)
(***************************************************************************)
EXTENDS Naturals, FiniteSetsExt

CONSTANTS
  Readers, Writers,
  Capacity,     \* of the ring buffer
  Sizes,        \* lengths the programs read and write
  MayDie        \* writers whose process may be ended by its parent's exit

ASSUME PipeAssumption ==
  /\ Readers \cap Writers = {}
  /\ Capacity \in Nat /\ Capacity > 2
  /\ Sizes \subseteq Nat \ {0}
  /\ MayDie \subseteq Writers

VARIABLES
  fill,   \* bytes in the ring buffer
  fds,    \* tasks whose descriptor is open
  call,   \* [size, done] of the call each task is in; size 0 for none
  held,   \* writers suspended with an upgraded reference to the buffer
  dead    \* writers that ended inside write(): their kernel stack stays as it is

vars == <<fill, fds, call, held, dead>>

Tasks == Readers \cup Writers

Idle == [size |-> 0, done |-> 0]

Init ==
  /\ fill = 0
  /\ fds = Tasks
  /\ call = [t \in Tasks |-> Idle]
  /\ held = {}
  /\ dead = {}

(* A call keeps its own Arc of the file. *)
EndOpen(side) == \E t \in side : t \in fds \/ call[t] # Idle

Begin(t, size) ==
  /\ t \in fds
  /\ call[t] = Idle
  /\ call' = [call EXCEPT ![t] = [size |-> size, done |-> 0]]
  /\ UNCHANGED <<fill, fds, held, dead>>

Transfer(t, n) == call' = [call EXCEPT ![t].done = @ + n]

Return(t) == call' = [call EXCEPT ![t] = Idle]

(* Variant: an empty buffer ends the call. *)
ReadGivesUp(t) ==
  LET wait == Min({fill, call[t].size - call[t].done})
  IN  /\ call[t] # Idle
      /\ IF wait = 0 THEN Return(t) /\ fill' = fill
         ELSE Transfer(t, wait) /\ fill' = fill - wait
      /\ UNCHANGED <<fds, held, dead>>

(* Variant: the reader does not look for writers. *)
ReadNoEnd(t) ==
  LET wait == Min({fill, call[t].size - call[t].done})
  IN  /\ call[t] # Idle
      /\ IF call[t].done = call[t].size THEN Return(t) /\ fill' = fill
         ELSE Transfer(t, wait) /\ fill' = fill - wait
      /\ UNCHANGED <<fds, held, dead>>

(* Pipe::read from one suspension to the next: a complete read returns one *)
(* turn after its last byte.                                               *)
Read(t) ==
  LET wait == Min({fill, call[t].size - call[t].done})
  IN  /\ call[t] # Idle
      /\ IF call[t].done = call[t].size THEN Return(t) /\ fill' = fill
         ELSE IF wait = 0 /\ ~EndOpen(Writers) THEN Return(t) /\ fill' = fill
         ELSE Transfer(t, wait) /\ fill' = fill - wait
      /\ UNCHANGED <<fds, held, dead>>

(* Variant: a full buffer ends the call. *)
WriteGivesUp(t) ==
  LET wait == Min({Capacity - fill, call[t].size - call[t].done})
  IN  /\ call[t] # Idle
      /\ t \notin dead
      /\ IF wait = 0
         THEN Return(t) /\ held' = held \ {t} /\ fill' = fill
         ELSE Transfer(t, wait) /\ held' = held \cup {t} /\ fill' = fill + wait
      /\ UNCHANGED <<fds, dead>>

(* Variant: the reference is dropped after the next upgrade. *)
WriteKeepsOwn(t) ==
  LET wait == Min({Capacity - fill, call[t].size - call[t].done})
      upgraded == EndOpen(Readers) \/ held # {}
  IN  /\ call[t] # Idle
      /\ t \notin dead
      /\ IF ~upgraded \/ call[t].done = call[t].size
         THEN Return(t) /\ held' = held \ {t} /\ fill' = fill
         ELSE Transfer(t, wait) /\ held' = held \cup {t} /\ fill' = fill + wait
      /\ UNCHANGED <<fds, dead>>

(* Pipe::write from one suspension to the next. The reference of the turn  *)
(* before is dropped first; without another one the upgrade fails. The     *)
(* test of all_read_end_closed comes after the upgrade, so it is false.    *)
Write(t) ==
  LET wait == Min({Capacity - fill, call[t].size - call[t].done})
      upgraded == EndOpen(Readers) \/ held \ {t} # {}
  IN  /\ call[t] # Idle
      /\ t \notin dead
      /\ IF ~upgraded \/ call[t].done = call[t].size
         THEN Return(t) /\ held' = held \ {t} /\ fill' = fill
         ELSE Transfer(t, wait) /\ held' = held \cup {t} /\ fill' = fill + wait
      /\ UNCHANGED <<fds, dead>>

Close(t) ==
  /\ t \in fds
  /\ fds' = fds \ {t}
  /\ UNCHANGED <<fill, call, held, dead>>

(* The process of a writer suspended in write() ends. mark_zombie never    *)
(* unwinds the kernel stack: the references on it stay.                    *)
Die(t) ==
  /\ t \in held
  /\ t \notin dead
  /\ dead' = dead \cup {t}
  /\ UNCHANGED <<fill, fds, call, held>>

Next ==
  \/ \E t \in Tasks : Close(t) \/ \E size \in Sizes : Begin(t, size)
  \/ \E t \in Readers : Read(t)
  \/ \E t \in Writers : Write(t)
  \/ \E t \in MayDie : Die(t)

Spec == Init /\ [][Next]_vars

(* A suspended task is in the ready queue: it gets its turn. A zombie's     *)
(* descriptors go when its parent waits for it.                            *)
Fairness ==
  /\ \A t \in Readers : WF_vars(Read(t))
  /\ \A t \in Writers : WF_vars(Write(t))

FairSpec == Spec /\ Fairness

-----------------------------------------------------------------------------

(* Type invariant. *)
TypeOK ==
  /\ fill \in 0 .. Capacity
  /\ fds \subseteq Tasks
  /\ call \in [Tasks -> [size : Sizes \cup {0}, done : Nat]]
  /\ \A t \in Tasks : call[t].done <= call[t].size
  /\ held \subseteq Writers /\ dead \subseteq Writers

(* A reader gets fewer bytes than it asked for only at the end of the      *)
(* stream: nobody can write any more and every byte written has been read. *)
ShortReadIsEnd ==
  [][\A t \in Readers :
       call[t].done < call[t].size /\ call'[t] = Idle
         => fill = 0 /\ ~EndOpen(Writers)]_vars

(* A writer gets rid of fewer bytes than it has only when nobody can read  *)
(* them.                                                                   *)
ShortWriteIsUnread ==
  [][\A t \in Writers :
       call[t].done < call[t].size /\ call'[t] = Idle => ~EndOpen(Readers)]_vars

(* Once no read end is left, no live writer stays in write(): "weak        *)
(* references on the writable side will no longer be able to be written".  *)
(* The model refutes it (see the README).                                  *)
WritersReturn ==
  \A t \in Writers :
    (~EndOpen(Readers) /\ t \notin dead) ~> (call[t] = Idle \/ t \in dead)

(* The same for the only writer left: the reference it holds itself while  *)
(* it is suspended does not keep it in write(), however full the buffer.   *)
LastWriterReturns ==
  \A t \in Writers :
    (~EndOpen(Readers) /\ ~EndOpen(Writers \ {t}) /\ t \notin dead)
      ~> (call[t] = Idle \/ t \in dead)

(* Once no write end is left, every reader returns, after it has read what *)
(* is in the buffer, whoever else reads from it. A writer that ended inside *)
(* write() counts as a write end for ever: its kernel stack has the Arc.   *)
ReadersReturn == \A t \in Readers : ~EndOpen(Writers) ~> (call[t] = Idle)

(* The same with only the living counted: "the pipe is closed and cannot   *)
(* write anymore byte into it". The model refutes it (see the README).     *)
ReadersOutliveWriters ==
  \A t \in Readers :
    (\A w \in Writers : w \notin fds /\ (call[w] = Idle \/ w \in dead)) ~> (call[t] = Idle)

=============================================================================
