--------------------------- MODULE MCSourceAccess ---------------------------
(***************************************************************************)
(* A small instance of SourceAccess: three calls of ckan, one of them      *)
(* streamed, and an unmetered call of another source to the same host,     *)
(* as social_facilities.py goes to data.ibb.gov.tr for its table.          *)
(***************************************************************************)
EXTENDS SourceAccess, TLC

CONSTANTS c1, c2, c3, c4, ckan, social, data

MCSourceOf == [c \in Calls |-> IF c = c4 THEN social ELSE ckan]
MCHostOf == [c \in Calls |-> data]
CallSymmetry == Permutations({c1, c2})
=============================================================================
