------------------------------ MODULE MCWorkers ------------------------------
(* The workers for one model of a few capacities, and one open session. *)
EXTENDS Workers

Told(window, output) ==
  [window |-> window, windowSource |-> IF window = 0 THEN Unknown ELSE FromResponse,
   output |-> output, outputSource |-> IF output = 0 THEN Unknown ELSE FromResponse]
Tried(output) == [Nothing EXCEPT !.output = output, !.outputSource = FromRequest]

MCObservations == {Told(100000, 8000), Told(40000, 0), Tried(32000)}
MCSettings == {[window |-> 0, output |-> 0, threshold |-> 85],
               [window |-> 100000, output |-> 0, threshold |-> 70]}
=============================================================================
