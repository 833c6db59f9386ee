--------------------------- MODULE MCGetImageHook ---------------------------
(* Instances of GetImageHook for TLC: X clients with one thread each, or one  *)
(* client with two threads.                                                   *)
EXTENDS GetImageHook

CONSTANTS t1, t2, xclient, w1

SingleThreaded == [t \in Thread |-> t]
OneClient      == [t \in Thread |-> xclient]

SplitCalls == [t \in Thread |-> IF t = t1 THEN {"XGetImage"} ELSE {"XShmGetImage", "pixmap"}]
GetImages  == [t \in Thread |-> {"XGetImage"}]
=============================================================================
