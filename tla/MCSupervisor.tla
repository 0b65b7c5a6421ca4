---------------------------- MODULE MCSupervisor ----------------------------
(* Model-checking instance of Supervisor; the constants are in the .cfg files. *)
EXTENDS Supervisor, Backoff

LongOutage == 12

\* However long an outage lasts and whatever jitter is drawn for an attempt, the
\* wait before it stays between nothing and the attempt's ceiling; that ceiling
\* never passes the cap and never falls from one attempt to the next, since
\* neither product overflows (reconnect.rs, Backoff::delay).  The jitter is drawn
\* anew each time, so a later wait may well be the shorter one.
WaitsAreSane ==
    pc = "sleep" => \A n \in attempt .. LongOutage :
        /\ Ceiling(n) <= Ceiling(n + 1) /\ Ceiling(n + 1) <= Cap
        /\ \A percent \in {-1, 0, 50, 100, 101} : Delay(n, percent) \in 0 .. Ceiling(n)
=============================================================================
