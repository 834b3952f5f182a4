------------------------------ MODULE Binding ------------------------------
(***************************************************************************)
(* With(e, LAMBDA x : body) names the value of e in body, as LET does.     *)
(* It is used where a definition threads a state through many calls: the   *)
(* expression named is written, and visited by TLC, once.                  *)
(***************************************************************************)
With(v, Op(_)) == Op(v)
============================================================================
