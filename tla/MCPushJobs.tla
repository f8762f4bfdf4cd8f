------------------------------ MODULE MCPushJobs ------------------------------
(* Two devices that may change hands between two users, one of whom is       *)
(* notified; one request at a time beside the worker.                        *)
EXTENDS PushJobs
===============================================================================
