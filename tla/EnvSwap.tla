------------------------------ MODULE EnvSwap ------------------------------
(***************************************************************************)
(* What a plugin may rely on about its environment: there always is a      *)
(* complete one, built for some Python, and a rebuild replaces it at once  *)
(* by one for the Python the manager runs on.                              *)
(***************************************************************************)
CONSTANT Pythons

VARIABLES env, python

Init == env \in Pythons /\ python \in Pythons

Rebuild == env # python /\ env' = python /\ UNCHANGED python

\* The container comes back with another Python.
Upgrade == python' \in Pythons /\ UNCHANGED env

Spec == Init /\ [][Rebuild \/ Upgrade]_<<env, python>>
=============================================================================
