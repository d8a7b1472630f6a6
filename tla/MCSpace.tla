------------------------------- MODULE MCSpace -------------------------------
(***************************************************************************)
(* Two processes of two threads over a table of 27 pages.                  *)
(***************************************************************************)
EXTENDS Space

MCFrames == 1..20

(* A program with room for both threads; one whose second stack meets a    *)
(* segment that comes first in the file, one whose first stack does; one   *)
(* whose stack meets the trap context; one with a segment over the         *)
(* trampoline, and one with segments that overlap, which do not load.      *)
MCPrograms ==
  { << <<0, 1>> >>, << <<6, 7>>, <<0, 2>> >>, << <<3, 4>>, <<0, 1>> >>,
    << <<22, 23>> >>, << <<26, 27>>, <<0, 1>> >>, << <<0, 2>>, <<1, 3>> >> }
=============================================================================
