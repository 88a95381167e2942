-------------------------------- MODULE Backend --------------------------------
(***************************************************************************)
(* What the models of the backend's handlers have in common.               *)
(***************************************************************************)
CONSTANTS Videos, Users, Requests,
          Faults,     \* what may fail: "db" (MySQL), "redis", "tube" (YouTube)
          None        \* no row, no user, no value

(* A statement that writes is answered as a, or its answer is lost.        *)
Written(a) == IF "db" \in Faults THEN {a, "error"} ELSE {a}
=============================================================================
