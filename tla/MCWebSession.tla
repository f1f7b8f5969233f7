----------------------------- MODULE MCWebSession -----------------------------
(* Two logins of one browser, each of a user of its own. *)
EXTENDS WebSession, TLC

CONSTANTS s1, s2, u1, u2

MCOwner == s1 :> u1 @@ s2 :> u2
===============================================================================
