---------------------------- MODULE MCNewsFaults ----------------------------
(***************************************************************************)
(* The instance of NewsProcessor and AlertFkRace for TLC: a behaviour is   *)
(* about the pipeline, or about the race of one of its alerts with the row *)
(* of its item.  The fairness of the pipeline is asked of both, and a      *)
(* behaviour of the race does not have it: the liveness properties are     *)
(* about the pipeline.                                                     *)
(***************************************************************************)
EXTENDS MCNewsProcessor, AlertFkRace

\* In units of 150 ms the handler keeps trying for 2.25 s.
ASSUME RetryWindow = 15

VARIABLE part

MCInit == part \in {"pipeline", "race"} /\ Init /\ RaceInit

\* The race ends where its clock does.
RaceOver == now = MaxTime /\ UNCHANGED raceVars

MCNext ==
    /\ UNCHANGED part
    /\ \/ part = "pipeline" /\ Next /\ UNCHANGED raceVars
       \/ part = "race" /\ (RaceNext \/ RaceOver) /\ UNCHANGED vars

MCSpec == MCInit /\ [][MCNext]_<<vars, raceVars, part>> /\ Fairness
=============================================================================
