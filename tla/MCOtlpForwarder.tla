--------------------------- MODULE MCOtlpForwarder ---------------------------
(* OtlpForwarder with the constants of the MC*.cfg files that name it. *)
EXTENDS OtlpForwarder
=============================================================================
