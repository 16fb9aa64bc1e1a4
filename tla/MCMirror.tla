------------------------------ MODULE MCMirror ------------------------------
(* Instantiates Mirror for TLC.                                            *)
EXTENDS Mirror

\* The handlers fuser_mirror_assign_ops installs, and the full contract.
\* fsync changes no server state and runs in the installed set only.
MCDefaultOps == DefaultOps
MCAllOps == Ops \ {"fsync"}

MCNames == {"a", "b"}
MCInos == {"i1", "i2"}

\* Start trees: one file named a; one file with the two links a and b.
MCOneFile == {[n \in MCNames |-> IF n = "a" THEN "i1" ELSE None]}
MCHardLink == {[n \in MCNames |-> "i1"]}
MCOneIno == {"i1"}
MCOneFileOrLink == MCOneFile \cup MCHardLink
\* Two distinct files a and b.
MCTwoFiles == {[n \in MCNames |-> IF n = "a" THEN "i1" ELSE "i2"]}
=============================================================================
