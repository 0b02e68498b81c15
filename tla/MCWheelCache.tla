---------------------------- MODULE MCWheelCache -----------------------------
(***************************************************************************)
(* A small and a larger wheel that do not fit into the cache together.     *)
(* What the larger one calls itself is not what the lock calls it.         *)
(***************************************************************************)
EXTENDS WheelCache

MCKey == {"numpy-1", "torch-2"}

MCContents == [k \in MCKey |-> IF k = "numpy-1"
                               THEN <<"np/a.py", "np/b.py">>
                               ELSE <<"torch/a.py", "torch/b.so", "torch/c.py">>]
=============================================================================
