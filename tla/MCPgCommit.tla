------------------------------ MODULE MCPgCommit ------------------------------
(***************************************************************************)
(* Small instances of PgCommit: one scope, one text with a redaction.      *)
(***************************************************************************)
EXTENDS PgCommit

CONSTANTS w1, report, email

MCWorkspaces == {w1}

OneScope == {[tenant |-> <<"plain">>, workspace |-> w1]}

MCTexts == {report}

MCKinds == {email}

MCFindings == [t \in Texts |-> MCKinds]

=============================================================================
