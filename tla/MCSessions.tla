----------------------------- MODULE MCSessions -----------------------------
(* One HTTP session, three requests of any kind on it and the checker.      *)
EXTENDS Sessions
=============================================================================
