------------------------------ MODULE Detectors ------------------------------
(***************************************************************************)
(* The sensors of a check-in: readQrContext, readNfcContext and            *)
(* getCurrentGeoContext. A condition starts one reading at a time, and the *)
(* next only when the one before has ended; what the browser still owes to *)
(* a reading that has ended may come at any later moment.                  *)
(***************************************************************************)
EXTENDS Naturals, FiniteSets

CONSTANTS
  Sensors,     \* the sensors there are: "qr", "nfc", "gps"
  MaxReadings  \* bound: the readings of a session

Readings == 1..MaxReadings

VARIABLES
  sensor,     \* the sensor of each reading that was started, or "none"
  stage,      \* where the latest reading is
  race,       \* what settled the race the latest QR reading awaits, or "open"
  terminated, \* the termination promise of the latest QR reading has settled
  timer,      \* the timer and the abort listener of the latest reading are set
  device,     \* the camera or the tag scan of each reading
  stopsLate   \* the readings that wait for their camera in order to stop it

detectorVars == <<sensor, stage, race, terminated, timer, device, stopsLate>>

DetectorInit ==
  /\ sensor = [r \in Readings |-> "none"]
  /\ stage = "idle" /\ race = "open"
  /\ terminated = FALSE /\ timer = FALSE
  /\ device = [r \in Readings |-> "off"]
  /\ stopsLate = {}

Started == {r \in Readings : sensor[r] # "none"}

Latest == Cardinality(Started)

(* The reading's promise has settled.                                      *)
Ended(r) == r \in Started /\ (r < Latest \/ stage = "idle")

-----------------------------------------------------------------------------
(* A reading that is refused at once (no such sensor, a bad timeout, an    *)
(* aborted signal) touches nothing, and is not a step of this module.      *)

StartQr ==
  /\ stage' = "asking" /\ race' = "open"
  /\ terminated' = FALSE /\ timer' = TRUE
  /\ device' = [device EXCEPT ![Latest + 1] = "asked"]
  /\ UNCHANGED stopsLate

StartNfc ==
  /\ stage' = "reading" /\ timer' = TRUE
  /\ device' = [device EXCEPT ![Latest + 1] = "live"]
  /\ UNCHANGED <<race, terminated, stopsLate>>

StartGeo ==
  /\ stage' = "locating"
  /\ UNCHANGED <<race, terminated, timer, device, stopsLate>>

StartReading ==
  /\ stage = "idle" /\ Latest < MaxReadings
  /\ \E kind \in Sensors :
       /\ sensor' = [sensor EXCEPT ![Latest + 1] = kind]
       /\ \/ kind = "qr" /\ StartQr
          \/ kind = "nfc" /\ StartNfc
          \/ kind = "gps" /\ StartGeo

(* The device of a reading that ends: finally stops the stream it holds,   *)
(* and finish() aborts the tag scan.                                       *)
Stopped(r) == IF device[r] = "live" THEN [device EXCEPT ![r] = "stopped"] ELSE device

EndReading ==
  /\ stage' = "idle" /\ timer' = FALSE
  /\ UNCHANGED sensor

-----------------------------------------------------------------------------
(* A QR reading awaits, in turn, the camera, the element's play(), a       *)
(* detection and the pause before the next, each against the termination.  *)

Awaiting == stage \in {"asking", "playing", "detecting", "pausing"} /\ race = "open"

(* The timer fires or the signal is aborted.                               *)
Terminate ==
  /\ timer /\ ~terminated
  /\ stage \in {"asking", "playing", "detecting", "pausing"}
  /\ terminated' = TRUE
  /\ UNCHANGED <<sensor, stage, race, timer, device, stopsLate>>

TerminationWins ==
  /\ Awaiting /\ terminated
  /\ race' = "terminated"
  /\ UNCHANGED <<sensor, stage, terminated, timer, device, stopsLate>>

(* play() or detect() settles, or the pause is over. A pause is a timer of *)
(* its own, so a termination that has settled comes first.                 *)
OperationSettles ==
  /\ Awaiting /\ stage # "asking"
  /\ stage = "pausing" => ~terminated
  /\ race' \in IF stage = "pausing" THEN {"value"} ELSE {"value", "error"}
  /\ UNCHANGED <<sensor, stage, terminated, timer, device, stopsLate>>

(* The user, who may take any time, lets a reading have the camera or not. *)
CameraAnswers(r) ==
  /\ device[r] = "asked"
  /\ \E granted \in BOOLEAN :
       /\ device' = [device EXCEPT ![r] = IF granted THEN "live" ELSE "refused"]
       /\ race' = IF r = Latest /\ stage = "asking" /\ race = "open"
                    THEN IF granted THEN "value" ELSE "error"
                    ELSE race
  /\ UNCHANGED <<sensor, stage, terminated, timer, stopsLate>>

(* mediaPromise.then(stopStream) of a reading that did not wait for it.    *)
StopLate(r) ==
  /\ r \in stopsLate /\ device[r] \in {"live", "refused"}
  /\ device' = Stopped(r)
  /\ stopsLate' = stopsLate \ {r}
  /\ UNCHANGED <<sensor, stage, race, terminated, timer>>

MutantLeftLate == stopsLate

(* The camera that is not waited for any more is to be stopped when given. *)
LeftLate == stopsLate \union {Latest}

LoseCamera ==
  /\ stage = "asking" /\ race \in {"error", "terminated"}
  /\ EndReading
  /\ stopsLate' = LeftLate
  /\ UNCHANGED <<race, terminated, device>>

(* The video element takes the stream and is to play it.                   *)
ShowCamera ==
  /\ stage = "asking" /\ race = "value"
  /\ stage' = "playing" /\ race' = "open"
  /\ UNCHANGED <<sensor, terminated, timer, device, stopsLate>>

ContinueScan ==
  /\ race = "value"
  /\ \/ stage = "playing" /\ stage' = "detecting"
     \/ stage = "detecting" /\ stage' = "pausing"   \* no code in view
     \/ stage = "pausing" /\ stage' = "detecting"
  /\ race' = "open"
  /\ UNCHANGED <<sensor, terminated, timer, device, stopsLate>>

(* A code is found, or the step failed, or the reading was terminated, or  *)
(* what the step does next throws.                                         *)
FinishQr ==
  /\ \/ stage = "asking" /\ race = "value"
     \/ stage \in {"playing", "detecting", "pausing"} /\ race # "open"
  /\ EndReading
  /\ device' = Stopped(Latest)
  /\ UNCHANGED <<race, terminated, stopsLate>>

-----------------------------------------------------------------------------
(* A tag with a text or without one, a reading error, a scan that is       *)
(* rejected, the timer or the signal: the first one ends the reading.      *)
FinishNfc ==
  /\ stage = "reading"
  /\ EndReading
  /\ device' = Stopped(Latest)
  /\ UNCHANGED <<race, terminated, stopsLate>>

(* The browser calls back, unless the user never answers its question: a   *)
(* timeout, which the conditions do not give, starts only after that.      *)
FinishGeo ==
  /\ stage = "locating"
  /\ EndReading
  /\ UNCHANGED <<race, terminated, device, stopsLate>>

DetectorNext ==
  \/ StartReading
  \/ Terminate \/ TerminationWins \/ OperationSettles
  \/ \E r \in Readings : CameraAnswers(r) \/ StopLate(r)
  \/ LoseCamera \/ ShowCamera \/ ContinueScan \/ FinishQr
  \/ FinishNfc \/ FinishGeo

(* Timers fire and handlers run; the camera, the user and the signal owe   *)
(* nothing.                                                                *)
DetectorFairness ==
  /\ WF_detectorVars(Terminate) /\ WF_detectorVars(TerminationWins)
  /\ WF_detectorVars(LoseCamera \/ ShowCamera \/ ContinueScan \/ FinishQr)
  /\ WF_detectorVars(FinishNfc)
  /\ \A r \in Readings : WF_detectorVars(StopLate(r))

-----------------------------------------------------------------------------
(* Every QR or tag reading ends, whatever the user and the camera do, and  *)
(* whatever device a reading was given stops for good: also the camera     *)
(* that is granted after the reading timed out.                            *)
DetectionEnds ==
  \A r \in Readings :
    /\ (r \in Started /\ sensor[r] # "gps") ~> Ended(r)
    /\ (Ended(r) /\ device[r] = "live") ~> (device[r] = "stopped")
=============================================================================
