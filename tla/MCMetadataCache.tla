--------------------------- MODULE MCMetadataCache ---------------------------
(***************************************************************************)
(* Two processes on one cache directory, with room for both entries as     *)
(* long as numpy is what it was.                                           *)
(***************************************************************************)
EXTENDS MetadataCache

\* Processes differ in nothing but their name.
Symmetry == Permutations(Process)

MCKey == {"numpy==1", "torch==1"}

\* The metadata of numpy, as it was and as it is now, and that of torch.
MCValue == {"n1", "n2", "t"}
MCDescribes == [v \in MCValue |-> IF v = "t" THEN "torch==1" ELSE "numpy==1"]

MCSize == [v \in MCValue |-> IF v = "n2" THEN 2 ELSE 1]
=============================================================================
