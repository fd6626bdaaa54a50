----------------------------- MODULE MCTransports -----------------------------
(* Transports on small instances: two devices at the bridge, with a payload each. *)
EXTENDS Transports

MCRadio == {<<"a1", "p1">>, <<"a2", "p2">>}
===============================================================================
