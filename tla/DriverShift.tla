----------------------------- MODULE DriverShift -----------------------------
(***************************************************************************)
(* The phone from sign-in to the last trip: the login screen is replaced   *)
(* by the driver's home, from which trips begin.  A passenger who is in    *)
(* does nothing here.  Once the driver is in nothing reads the codes or    *)
(* the login screen again, so they are put aside.                          *)
(***************************************************************************)
EXTENDS DriverTrip, OtpLogin

onShift == step = "over"

(* pushReplacementNamed('/driver/home').                                   *)
ReplaceLogin ==
    /\ step = "in" /\ role = "driver"
    /\ step' = "over"
    /\ pending' = [i \in Id |-> NoCode] /\ issued' = 0
    /\ uses' = [c \in Code |-> 0] /\ wrong' = [c \in Code |-> 0] /\ gone' = {}
    /\ granted' = {} /\ calls' = <<>> /\ reveals' = <<>>
    /\ field' = Empty /\ typed' = FALSE /\ banner' = Empty /\ edited' = FALSE
    /\ UNCHANGED <<role, account>>

ShiftInit == LoginInit /\ DriverTripInit

ShiftNext ==
    \/ ~onShift /\ LoginNext /\ UNCHANGED driverVars
    \/ ReplaceLogin /\ UNCHANGED driverVars
    \/ onShift /\ DriverTripNext /\ UNCHANGED loginVars

ShiftSpec == ShiftInit /\ [][ShiftNext]_<<driverVars, loginVars>>

(* Both types; no trip and no request for one before the driver is in.     *)
ShiftTypeOK ==
    /\ DriverTripTypeOK
    /\ onShift \/ LoginTypeOK
    /\ ~onShift => sent = 0 /\ trips = <<>>
=============================================================================
