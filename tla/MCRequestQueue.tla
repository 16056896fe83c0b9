---------------------------- MODULE MCRequestQueue ----------------------------
(* Small instances of RequestQueue for TLC.                                  *)
EXTENDS RequestQueue

OneStream == [r \in Request |-> "k1"]
===============================================================================
