-------------------------- MODULE MCGitWorkspaces --------------------------
(***************************************************************************)
(* The branches and folders of small instances of GitWorkspaces: chains    *)
(* other than `Other` work on one branch, and the two branches have one    *)
(* folder, as feature/a and feature-a have.                                *)
(***************************************************************************)
EXTENDS GitWorkspaces, TLC

CONSTANTS Other, First, Second, Folder

MCBranchOf == [c \in Chains |-> IF c = Other THEN Second ELSE First]
MCPathOf == [b \in Branches |-> Folder]
=============================================================================
