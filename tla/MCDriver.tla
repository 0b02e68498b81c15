------------------------------ MODULE MCDriver ------------------------------
(***************************************************************************)
(* Two small worlds for Driver.                                            *)
(***************************************************************************)
EXTENDS DriverProperties

MCVersion == 1..3

Need(p) == [package |-> p, range |-> MCVersion]

\* The project depends on torch, which the torch backend routes to pytorch;
\* the command line asks for lib, which the sources route to internal and
\* which needs torch as well.  app, an ordinary dependency, and torch share
\* mpmath; torch also needs sympy, which a dependency group names.
MCPackage == {"app", "lib", "torch", "sympy", "mpmath"}
MCExtra == <<"mirror", "internal">>
MCExplicit == {"internal"}
MCSources == [p \in MCPackage |-> IF p = "lib" THEN {"internal"}
                                  ELSE IF p = "app" THEN {"mirror"} ELSE {}]
MCTorch == {"torch"}
MCDependencies == {"app", "torch"}
MCGroups == {"sympy"}
MCRequested == {"lib"}
MCPin == [p \in MCPackage |-> IF p = "app" THEN 2 ELSE None]
MCRangeOverride == [p \in MCPackage |-> IF p = "sympy" THEN {1} ELSE None]
MCSubstitutions == {[members |-> {"sympy", "mpmath"}, prefer |-> "sympy"]}
MCPreRelease == {3}
MCDeclares == [p \in MCPackage |-> IF p = "lib" THEN {"torch"} ELSE {}]
Nothing == <<>>
MCPublished ==
    [pypi |-> [app |-> 2 :> {Need("mpmath")}, lib |-> Nothing,
               torch |-> 1 :> {}, mpmath |-> <<{}>>,
               sympy |-> <<{Need("sympy")}, {Need("mpmath")}, {}>>],
     mirror |-> [app |-> 1 :> {}, lib |-> 2 :> {}, torch |-> 3 :> {},
                 sympy |-> Nothing, mpmath |-> <<{}>>],
     internal |-> [app |-> Nothing, lib |-> 1 :> {Need("torch")},
                   torch |-> 2 :> {Need("sympy")}, sympy |-> 3 :> {},
                   mpmath |-> Nothing],
     pytorch |-> [app |-> Nothing, lib |-> Nothing, sympy |-> <<{}, {}>>,
                  torch |-> <<{Need("mpmath")}, {Need("sympy")}>>,
                  mpmath |-> <<{}, {}>>]]

\* torch and app share sympy, of which pytorch has a version of its own.
MCDiamond == {"app", "torch", "sympy"}
MCDiamondSources == [p \in MCDiamond |-> {}]
MCDiamondPin == [p \in MCDiamond |-> None]
MCDiamondDeclares == [p \in MCDiamond |-> {}]
MCDiamondPublished ==
    [pypi |-> [app |-> 1 :> {[package |-> "sympy", range |-> {1, 2}]},
               torch |-> <<{}>>, sympy |-> <<{}>>],
     pytorch |-> [app |-> Nothing, torch |-> <<{Need("sympy")}>>,
                  sympy |-> 2 :> {Need("torch")} @@ 3 :> {}]]
=============================================================================
