--------------------------- MODULE MCRunClangTidy ---------------------------
(* Five entries, one of them filtered out and one a third party's.           *)
EXTENDS RunClangTidy

MCMatching == {1, 2, 4, 5}
MCThirdParty == {2}
=============================================================================
