------------------------------ MODULE MCRouter ------------------------------
(* The instance of Router that TLC checks: one subscription with a          *)
(* wildcard, a subject it matches and one it does not.                     *)
EXTENDS Router

MCPatterns == {<<"A", "*">>}
MCSubjects == {<<"A", "B">>, <<"B", "B">>}
=============================================================================
