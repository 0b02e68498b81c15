---------------------------- MODULE MCEnvironment ----------------------------
(***************************************************************************)
(* Two environments that share an archive.  numpy-2 drops a file of        *)
(* numpy-1 and brings a launcher; pip is there from the start and torch    *)
(* is on its own.                                                          *)
(***************************************************************************)
EXTENDS Environment

MCWheel == {"pip", "numpy-1", "numpy-2", "torch"}

MCNameOf == [k \in MCWheel |-> IF k \in {"numpy-1", "numpy-2"}
                               THEN "numpy" ELSE k]

MCContents == ("pip" :> <<"pip.py">>) @@ ("numpy-1" :> <<"np.py", "old.py">>)
              @@ ("numpy-2" :> <<"np.py">>) @@ ("torch" :> <<"torch.py">>)

MCLaunchers == [k \in MCWheel |-> IF k = "numpy-2" THEN {"bin/f2py"} ELSE {}]

MCSitePackages == {"pip.py", "np.py", "old.py", "torch.py"}

MCLocks == {{"numpy-1"}, {"numpy-2", "torch"}}

\* The first environment is created with pip, the second empty.
MCBundled == ("e1" :> {"pip"}) @@ ("e2" :> {})
=============================================================================
