------------------------------- MODULE MCViews -------------------------------
(***************************************************************************)
(* Small instances of Views.                                               *)
(***************************************************************************)
EXTENDS Views, TLC

CONSTANTS w1, w2, log, report, email, bearer

MCWorkspaces == {w1, w2}

Scope(workspace) == [tenant |-> <<"plain">>, workspace |-> workspace]

TwoScopes == {Scope(w1), Scope(w2)}

MCTexts == {report}

MCKinds == {email, bearer}

MCFindings == [t \in Texts |-> IF t = log THEN {} ELSE MCKinds]

Symmetry == Permutations(Requests)

=============================================================================
