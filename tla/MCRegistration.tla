---------------------------- MODULE MCRegistration ----------------------------
(* Two phones and one e-mail address, registered by two requests at a time. *)
EXTENDS Registration
===============================================================================
