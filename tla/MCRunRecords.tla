---------------------------- MODULE MCRunRecords ----------------------------
(***************************************************************************)
(* Small numbers of processes, runs and steps for RunRecords: the second   *)
(* step of the workflow needs the first.                                   *)
(***************************************************************************)
EXTENDS RunRecords, TLC

CONSTANT LastStep

MCNeeds == [s \in Steps |-> IF s = LastStep THEN Steps \ {s} ELSE {}]

\* A save that fails is followed up where one process is alive and nothing is
\* cancelled; MCRunRecordsCancel.cfg has the two together.
MCFailsAlone == unsaved # {} => Cardinality(alive) <= 1 /\ cancelled = {}

MCSymmetry == Permutations(Procs) \cup Permutations(Pids)
=============================================================================
