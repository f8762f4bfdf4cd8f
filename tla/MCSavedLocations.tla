--------------------------- MODULE MCSavedLocations ---------------------------
(* Three locations at two places, and two requests at a time. *)
EXTENDS SavedLocations
===============================================================================
