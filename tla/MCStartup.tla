----------------------------- MODULE MCStartup -----------------------------
(* Startup with four ports, three possible lcores, and every flag. *)
EXTENDS Startup

MCPortBits == 0 .. 4

\* The rings of port 2 are smaller than the default, and so are those of the
\* port after it.
MCDescLim ==
  [p \in Port |-> [min |-> 1, max |-> IF p = 2 THEN 3 ELSE 8]]
=============================================================================
