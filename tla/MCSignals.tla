----------------------------- MODULE MCSignals -----------------------------
(* Signals for TLC. The signals have their POSIX numbers, and Signal::iter  *)
(* goes through them in that order.                                        *)
EXTENDS Signals

AllOrder == <<"INT", "KILL", "SEGV", "CONT", "STOP">>
FaultOrder == <<"INT", "SEGV">>

NoMasks == {{}}
SegvMask == {{}, {"SEGV"}}
IntMask == {{}, {"INT"}}

=============================================================================
