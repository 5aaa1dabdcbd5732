---------------------------- MODULE MCControlPlane ----------------------------
(***************************************************************************)
(* Small instances of ControlPlane.                                        *)
(***************************************************************************)
EXTENDS ControlPlaneProperties, TLC

CONSTANTS w1, w2, log, report, email, bearer

MCWorkspaces == {w1, w2}

Scope(tenant, workspace) == [tenant |-> tenant, workspace |-> workspace]

(* Two tenants whose references read back.                                 *)
Org   == <<"plain">>
Other == <<"digit">>

OneScope   == {Scope(Org, w1)}
TwoScopes  == {Scope(Org, w1), Scope(Org, w2)}
ManyScopes == {Scope(Org, w1), Scope(Org, w2), Scope(Other, w1)}

OneText  == {log}
TwoTexts == {log, report}

MCKinds == {email, bearer}

MCFindings == [t \in Texts |-> IF t = log THEN {} ELSE MCKinds]

Symmetry == Permutations(Requests)

=============================================================================
