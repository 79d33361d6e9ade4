------------------------- MODULE MCGracefulShutdown -------------------------
(* Two apps closed by the goroutine while requests run, and one Close call *)
(* that the program may make itself.                                       *)
EXTENDS GracefulShutdown, TLC

CONSTANTS r1, r2, g0, g1, u1

MCRequests == {r1, r2}
MCNilRequests == {r2}
MCCalls == {g0, g1, u1}
MCShutdownCall == 0 :> g0 @@ 1 :> g1

=============================================================================
