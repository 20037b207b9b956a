----------------------------- MODULE MCDelivery -----------------------------
(* Small instances of Delivery for TLC. *)
EXTENDS Delivery, TLC

CONSTANTS d1, d2, o1, o2

\* a credential, or a file, handed on again after a delivery was rolled back
Sequel == (d1 :> o1) @@ (d2 :> o1)
FileSequel == (d1 :> o2) @@ (d2 :> o2)

\* a credential and a fresh copy, handed on side by side
Side == (d1 :> o1) @@ (d2 :> None)

\* a client that sends its request for a fresh copy twice
Repeat == (d1 :> None) @@ (d2 :> None)

AllOrigins == {Sequel, FileSequel, Side, Repeat}
Stops == (Sequel :> 1) @@ (FileSequel :> 1) @@ (Side :> 1) @@ (Repeat :> 0)

\* the violation runs: one file; a credential and a fresh copy
FileOrigins == {d1 :> o1}
SideBySide == {Side}
NoStops == [f \in Origins |-> 0]

=============================================================================
