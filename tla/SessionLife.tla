----------------------------- MODULE SessionLife -----------------------------
(***************************************************************************)
(* What ADR-0019 promises of one supervised session, with no transports,   *)
(* commands or scheduling in sight: the session is live, or in an outage   *)
(* during which numbered attempts are made, or over for good.              *)
(***************************************************************************)
EXTENDS Naturals

CONSTANT Limit    \* attempts one outage may use

VARIABLES
    phase,   \* "live", "outage" or "over"
    tries    \* attempts announced in the current outage; 0 outside one

lifeVars == <<phase, tries>>

LifeInit == phase = "live" /\ tries = 0

Lose ==
    /\ phase = "live" /\ Limit > 0
    /\ phase' = "outage" /\ tries' = 1

Retry ==
    /\ phase = "outage" /\ tries < Limit
    /\ phase' = "outage" /\ tries' = tries + 1

Restore ==
    /\ phase = "outage"
    /\ phase' = "live" /\ tries' = 0

Finish ==
    /\ phase # "over"
    /\ phase' = "over" /\ tries' = 0

LifeNext == Lose \/ Retry \/ Restore \/ Finish

LifeSafe == LifeInit /\ [][LifeNext]_lifeVars

(* An outage is not a lasting state: it ends in a live or a finished session. *)
OutageEnds == phase = "outage" ~> phase # "outage"

LifeSpec == LifeSafe /\ OutageEnds
=============================================================================
