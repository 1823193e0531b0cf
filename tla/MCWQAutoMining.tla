--------------------------- MODULE MCWQAutoMining ---------------------------
(* Instances of WQAutoMining for TLC. *)
EXTENDS WQAutoMining

\* A seed that repeats itself.
RepeatedSeeds == <<"a", "b", "a">>
=============================================================================
