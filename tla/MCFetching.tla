----------------------------- MODULE MCFetching -----------------------------
(***************************************************************************)
(* Small worlds for Fetching.                                              *)
(***************************************************************************)
EXTENDS FetchingProperties

MCVersion == {1, 2}

\* Two packages that share the permits of one index; sdist has a version with
\* nothing to read metadata from, is pinned, and is then withdrawn.
MCOneIndex == {"pypi"}
MCOnePriority == <<"pypi">>
MCTwoPackages == {"numpy", "sdist"}
MCBothScope == [pypi |-> MCTwoPackages]
MCBothLists == [pypi |-> [numpy |-> <<{1, 2}>>, sdist |-> <<{1}, {}>>]]
MCBothSource == [numpy |-> <<"wheel", "sidecar">>, sdist |-> <<"none", "none">>]
MCBothPins == [numpy |-> None, sdist |-> 1]

\* Only torch, which both of two indexes may serve.
MCTwoIndexes == {"pypi", "pytorch"}
MCTwoPriority == <<"pytorch", "pypi">>
MCTorch == {"torch"}
MCTorchScopes == [i \in MCTwoIndexes |-> MCTorch]
MCTorchLists == [pypi |-> [torch |-> <<{2}>>],
                 pytorch |-> [torch |-> <<{1}, {2}>>]]
MCTorchSource == [torch |-> <<"sidecar", "wheel">>]
MCTorchPins == [torch |-> None]
=============================================================================
