---------------------------- MODULE MCEchoAsync -----------------------------
(* Finite values for EchoAsync. *)
EXTENDS EchoAsync

(* Messages with no byte and with one: the buffer holds the first and the
   beginning of another, or ends with the second. *)
Messages == {<<>>, <<1>>}

(* One client waits for its echo, as those in examples/ do; one does not. *)
OneAhead == LET hasty == CHOOSE c \in Client : TRUE
            IN [c \in Client |-> IF c = hasty THEN 2 ELSE 0]
AllFaults == {"setup", "accept", "fcntl"}
==============================================================================
