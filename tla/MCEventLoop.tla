----------------------------- MODULE MCEventLoop -----------------------------
(* Instances of EventLoop for TLC: one client pipelines two requests, the     *)
(* other sends one.                                                           *)
EXTENDS EventLoop, TLC

CONSTANTS c1, c2

RequestsOf == (c1 :> 2) @@ (c2 :> 1)
=============================================================================
