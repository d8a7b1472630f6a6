--------------------------- MODULE MCKernelStacks ---------------------------
(***************************************************************************)
(* Three stacks in a kernel space of 64 pages. The image is a page of      *)
(* device registers, text, rodata, an empty data section and a boot stack. *)
(***************************************************************************)
EXTENDS KernelStacks

MCSections == << <<0, 1>>, <<2, 3>>, <<3, 4>>, <<4, 4>>, <<4, 5>>, <<6, 26>> >>

MCFrames == 6..25
=============================================================================
