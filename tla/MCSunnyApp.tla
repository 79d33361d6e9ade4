----------------------------- MODULE MCSunnyApp -----------------------------
(* SunnyApp on a small instance: two apps, of which app 0 cannot be        *)
(* removed, and two requests that race with two Close calls.               *)
EXTENDS SunnyApp, TLC

CONSTANTS r1, r2, c1, c2

MCRequests == {r1, r2}
MCNilRequests == {}
MCCalls == {c1, c2}

=============================================================================
