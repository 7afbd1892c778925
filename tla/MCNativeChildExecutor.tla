------------------------- MODULE MCNativeChildExecutor -------------------------
(* A nested planner in each of two roots, over two workers. *)
EXTENDS NativeChildExecutor, TLC

CONSTANTS ca, cb, ra, rb, p1, c1, c2, p2

BothNested == p1 :> ra @@ c1 :> p1 @@ p2 :> rb @@ c2 :> p2

================================================================================
