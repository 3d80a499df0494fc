--------------------------- MODULE MCBreakpoints ---------------------------
(***************************************************************************)
(* Two runs with two blocks each, which pause three times in all, the       *)
(* repeats of a loop.                                                      *)
(***************************************************************************)
EXTENDS Breakpoints
=============================================================================
