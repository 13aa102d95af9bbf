------------------------------ MODULE MCHttpApi ------------------------------
(***************************************************************************)
(* Instances of HttpApi for TLC.                                            *)
(***************************************************************************)
EXTENDS HttpApi

CONSTANTS here, there, OneFromThere

\* All requests come from one address, except one.
MCOrigin == [r \in HttpRequest |-> IF r \in OneFromThere THEN there ELSE here]
=============================================================================
