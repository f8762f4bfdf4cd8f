-------------------------------- MODULE MCOtp --------------------------------
(* Small instances of Otp: one phone, two calls at once.  Every constant is *)
(* a set of model values or a number, given in the configurations.          *)
EXTENDS Otp
==============================================================================
