------------------------------ MODULE OtpLogin ------------------------------
(***************************************************************************)
(* Signing in with a one-time code: auth.service.ts at the server,         *)
(* login_screen.dart (driver) and passenger_login_screen.dart on the       *)
(* phone.  Requests are slow, lost, or served after the phone has stopped  *)
(* waiting; "done" on the keyboard submits while another request is busy,  *)
(* so several may be out; another phone may ask for codes for the same id. *)
(* Codes are numbered as they are issued: six random digits are taken not  *)
(* to repeat.                                                              *)
(***************************************************************************)
EXTENDS Naturals, FiniteSets

CONSTANTS Id,           \* identifiers the server may be asked about
          MaxAttempts,
          MaxCode,      \* bound: codes issued
          MaxCall       \* bound: requests of the phone

ASSUME OtpAssumption == {MaxAttempts, MaxCode, MaxCall} \subseteq Nat

VARIABLES pending,  \* server: the code an id waits for, or NoCode
          issued,   \* how many codes were issued
          uses,     \* history: verifications granted to each code
          wrong,    \* history: wrong guesses served against each code
          gone,     \* history: codes that expired or were replaced or withdrawn
          granted,  \* history: ids a verification was granted for
          role,     \* which of the two screens it is
          step,     \* _step; "in" once the screen was replaced
          account,  \* the text of the id field
          field,    \* the text of the code field
          typed,    \* somebody typed it
          banner,   \* _demoCode
          reveals,  \* _revealDemoCode calls that wait: the code of each token
          calls,    \* requests in the order they are sent
          edited    \* history: the id was edited while a verification was out

serverVars == <<pending, issued, uses, wrong, gone, granted>>
screenVars == <<role, step, account, field, typed, banner, reveals, edited>>
loginVars == <<serverVars, screenVars, calls>>

Code == 1 .. MaxCode
NoCode == [code |-> 0, attempts |-> 0, expired |-> FALSE]
Pending == [code : Code, attempts : 0 .. MaxAttempts, expired : BOOLEAN]

Empty == 0              \* a code field without text
Guess == MaxCode + 1    \* digits that are no code
Short == MaxCode + 2    \* fewer digits than VerifyOtpDto allows
Text == 0 .. MaxCode + 2

(* awaited: the phone has not stopped waiting; code is what was typed, or  *)
(* the code issued.  A call both sides are done with is Over.              *)
Call == [kind : {"request", "verify"}, id : Id, code : Text,
         at : {"sent", "granted", "refused"}, awaited : BOOLEAN]
Over == [kind |-> "over", awaited |-> FALSE, at |-> "over"]
Out(k) == calls[k].awaited /\ step # "in"

ServerTypeOK ==
    /\ issued \in 0 .. MaxCode
    /\ pending \in [Id -> Pending \cup {NoCode}]
    /\ uses \in [Code -> Nat] /\ wrong \in [Code -> Nat]
    /\ gone \subseteq Code /\ granted \subseteq Id
ScreenTypeOK ==
    /\ role \in {"driver", "passenger"} /\ step \in {"id", "otp", "bus", "in", "over"}
    /\ account \in Id /\ field \in Text /\ banner \in Text
    /\ typed \in BOOLEAN /\ edited \in BOOLEAN
    /\ reveals \in [1 .. Cardinality(DOMAIN reveals) -> Text]
    /\ Cardinality(DOMAIN reveals) \in Nat
CallsTypeOK ==
    /\ calls \in [1 .. Cardinality(DOMAIN calls) -> Call \cup {Over}]
    /\ Cardinality(DOMAIN calls) \in 0 .. MaxCall
LoginTypeOK == ServerTypeOK /\ ScreenTypeOK /\ CallsTypeOK

LoginInit ==
    /\ pending = [i \in Id |-> NoCode] /\ issued = 0
    /\ uses = [c \in Code |-> 0] /\ wrong = [c \in Code |-> 0] /\ gone = {}
    /\ granted = {}
    /\ role \in {"driver", "passenger"} /\ step = "id" /\ account \in Id
    /\ field = Empty /\ typed = FALSE /\ banner = Empty
    /\ reveals = [t \in 1 .. 0 |-> Empty] /\ calls = [k \in 1 .. 0 |-> Over]
    /\ edited = FALSE

----------------------------------------------------------------------------
(* The server.                                                             *)

CodesOf(ids) == {pending[i].code : i \in ids} \ {0}

(* requestOtp: the new code replaces the old; sweep drops what expired.    *)
Issue(id) ==
    LET stale == {i \in Id : pending[i].expired}
    IN  /\ issued < MaxCode
        /\ issued' = issued + 1
        /\ pending' = [i \in Id |-> IF i = id THEN [code |-> issued + 1, attempts |-> 0, expired |-> FALSE]
                                    ELSE IF i \in stale THEN NoCode ELSE pending[i]]
        /\ gone' = gone \cup CodesOf(stale \cup {id})
        /\ UNCHANGED <<uses, wrong, granted>>

Withdraw(id) ==
    /\ pending' = [pending EXCEPT ![id] = NoCode]
    /\ gone' = gone \cup CodesOf({id})

(* verifyOtp, told whether it grants.                                      *)
Verify_Reusable(id, code, grants) ==
    LET entry == pending[id]
        live == entry # NoCode /\ ~entry.expired
        right == live /\ entry.attempts < MaxAttempts /\ entry.code = code
    IN  /\ grants = right
        /\ IF right THEN /\ uses' = [uses EXCEPT ![code] = @ + 1]
                         /\ UNCHANGED <<pending, gone, wrong>>
           ELSE /\ UNCHANGED uses
                /\ \/ /\ live /\ entry.attempts < MaxAttempts
                      /\ pending' = [pending EXCEPT ![id].attempts = @ + 1]
                      /\ wrong' = [wrong EXCEPT ![entry.code] = @ + 1]
                      /\ UNCHANGED gone
                   \/ /\ ~live \/ entry.attempts = MaxAttempts
                      /\ Withdraw(id) /\ UNCHANGED wrong
        /\ granted' = IF right THEN granted \cup {id} ELSE granted
        /\ UNCHANGED issued

Verify(id, code, grants) ==
    LET entry == pending[id]
        live == entry # NoCode /\ ~entry.expired
        right == live /\ entry.attempts < MaxAttempts /\ entry.code = code
    IN  /\ grants = right
        /\ \/ /\ right
              /\ pending' = [pending EXCEPT ![id] = NoCode]
              /\ uses' = [uses EXCEPT ![code] = @ + 1]
              /\ UNCHANGED <<gone, wrong>>
           \/ /\ ~right /\ live /\ entry.attempts < MaxAttempts
              /\ pending' = [pending EXCEPT ![id].attempts = @ + 1]
              /\ wrong' = [wrong EXCEPT ![entry.code] = @ + 1]
              /\ UNCHANGED <<gone, uses>>
           \/ /\ ~live \/ entry.attempts = MaxAttempts
              /\ Withdraw(id) /\ UNCHANGED <<uses, wrong>>
        /\ granted' = IF right THEN granted \cup {id} ELSE granted
        /\ UNCHANGED issued

ServeRequest(k) ==
    /\ calls[k].kind = "request" /\ calls[k].at = "sent"
    /\ Issue(calls[k].id)
    /\ calls' = [calls EXCEPT ![k] = IF @.awaited THEN [@ EXCEPT !.at = "granted", !.code = issued + 1]
                                     ELSE Over]
    /\ UNCHANGED screenVars

Answer(k, grants) ==
    calls' = [calls EXCEPT ![k] = IF ~@.awaited THEN Over
                                  ELSE [@ EXCEPT !.at = IF grants THEN "granted" ELSE "refused"]]

(* A text that is too short is refused before the service sees it.         *)
ServeVerify(k) ==
    /\ calls[k].kind = "verify" /\ calls[k].at = "sent"
    /\ \/ /\ calls[k].code = Short
          /\ Answer(k, FALSE) /\ UNCHANGED serverVars
       \/ /\ calls[k].code # Short
          /\ \E grants \in BOOLEAN :
                /\ Verify(calls[k].id, calls[k].code, grants)
                /\ Answer(k, grants)
    /\ UNCHANGED screenVars

(* Five minutes pass.                                                      *)
Expire(id) ==
    /\ pending[id] # NoCode /\ ~pending[id].expired
    /\ pending' = [pending EXCEPT ![id].expired = TRUE]
    /\ gone' = gone \cup CodesOf({id})
    /\ UNCHANGED <<issued, uses, wrong, granted, screenVars, calls>>

OtherPhone(id) == Issue(id) /\ UNCHANGED <<screenVars, calls>>

----------------------------------------------------------------------------
(* The screen.                                                             *)

OnlyLogin == UNCHANGED <<serverVars, role>>

EditId(id) ==
    /\ step = "id" /\ id # account
    /\ account' = id
    /\ edited' = (edited \/ \E k \in DOMAIN calls : calls[k].kind = "verify" /\ Out(k))
    /\ OnlyLogin /\ UNCHANGED <<step, field, typed, banner, reveals, calls>>

SendCall(kind, code) ==
    LET n == Cardinality(DOMAIN calls) + 1
    IN  /\ n <= MaxCall
        /\ calls' = [k \in 1 .. n |-> IF k < n THEN calls[k]
                        ELSE [kind |-> kind, id |-> account, code |-> code, at |-> "sent", awaited |-> TRUE]]

RequestOtp ==
    /\ step = "id" /\ SendCall("request", Empty)
    /\ UNCHANGED <<serverVars, screenVars>>

TypeCode(text) ==
    /\ step = "otp" /\ text \in {banner, Guess, Short}
    /\ field' = text /\ typed' = TRUE
    /\ OnlyLogin /\ UNCHANGED <<step, account, banner, reveals, edited, calls>>

VerifyOtp ==
    /\ step = "otp" /\ field # Empty /\ SendCall("verify", field)
    /\ UNCHANGED <<serverVars, screenVars>>

UseDifferentId ==
    /\ step = "otp" /\ step' = "id"
    /\ OnlyLogin /\ UNCHANGED <<account, field, typed, banner, reveals, edited, calls>>

Told(k) == calls' = [calls EXCEPT ![k] = IF @.at = "sent" THEN [@ EXCEPT !.awaited = FALSE] ELSE Over]

(* A code came: the driver's field is filled at once, the passenger's is   *)
(* emptied and filled a moment later.                                      *)
CodeArrives(k) ==
    /\ Out(k) /\ calls[k].kind = "request" /\ calls[k].at = "granted"
    /\ Told(k)
    /\ banner' = calls[k].code /\ typed' = FALSE /\ step' = "otp"
    /\ \/ role = "driver" /\ field' = calls[k].code /\ UNCHANGED reveals
       \/ /\ role = "passenger" /\ field' = Empty
          /\ LET token == Cardinality(DOMAIN reveals) + 1
             IN  reveals' = [t \in 1 .. token |-> IF t = token THEN calls[k].code ELSE reveals[t]]
    /\ OnlyLogin /\ UNCHANGED <<account, edited>>

(* 350 ms later, unless another code has come since.                       *)
Reveal_AnyToken(t) ==
    /\ step # "in" /\ reveals[t] # Empty
    /\ reveals' = [reveals EXCEPT ![t] = Empty]
    /\ field' = reveals[t] /\ typed' = FALSE
    /\ OnlyLogin /\ UNCHANGED <<step, account, banner, edited, calls>>

Reveal(t) ==
    /\ step # "in" /\ reveals[t] # Empty
    /\ reveals' = [reveals EXCEPT ![t] = Empty]
    /\ \/ t = Cardinality(DOMAIN reveals) /\ field' = reveals[t] /\ typed' = FALSE
       \/ t # Cardinality(DOMAIN reveals) /\ UNCHANGED <<field, typed>>
    /\ OnlyLogin /\ UNCHANGED <<step, account, banner, edited, calls>>

(* The driver goes on to the bus, the passenger home as the id it sent.    *)
VerifiedArrives_AsField(k) ==
    /\ Out(k) /\ calls[k].kind = "verify" /\ calls[k].at = "granted"
    /\ Told(k)
    /\ step' = IF role = "driver" THEN "bus" ELSE "in"
    /\ OnlyLogin /\ UNCHANGED <<account, field, typed, banner, reveals, edited>>

VerifiedArrives(k) ==
    /\ Out(k) /\ calls[k].kind = "verify" /\ calls[k].at = "granted"
    /\ Told(k)
    /\ \/ role = "driver" /\ step' = "bus" /\ UNCHANGED account
       \/ role = "passenger" /\ step' = "in" /\ account' = calls[k].id
    /\ OnlyLogin /\ UNCHANGED <<field, typed, banner, reveals, edited>>

(* Refused, or no answer within 12 s, served or not.                       *)
CallFails(k) ==
    /\ Out(k) /\ Told(k)
    /\ OnlyLogin /\ UNCHANGED <<step, account, field, typed, banner, reveals, edited>>

(* _continueToRoutes, with the id field as it is now.                      *)
ContinueToRoutes ==
    /\ step = "bus" /\ step' = "in"
    /\ OnlyLogin /\ UNCHANGED <<account, field, typed, banner, reveals, edited, calls>>

LoginNext ==
    \/ \E k \in DOMAIN calls : \/ ServeRequest(k) \/ ServeVerify(k)
                               \/ CodeArrives(k) \/ VerifiedArrives(k) \/ CallFails(k)
    \/ \E id \in Id : Expire(id) \/ OtherPhone(id) \/ EditId(id)
    \/ RequestOtp \/ VerifyOtp \/ UseDifferentId \/ ContinueToRoutes
    \/ \E text \in Text : TypeCode(text)
    \/ \E t \in DOMAIN reveals : Reveal(t)

LoginSpec == LoginInit /\ [][LoginNext]_loginVars

----------------------------------------------------------------------------
(* Properties                                                              *)

(* auth.service.ts 12-14: a code grants one verification at most, however  *)
(* often a phone that heard nothing tries again; none once it expired, was *)
(* replaced or withdrawn, and none after MaxAttempts wrong guesses.        *)
CodeGrantsOnce ==
    \A c \in Code : /\ uses[c] <= 1
                    /\ uses[c] = 1 => c \notin gone /\ wrong[c] < MaxAttempts

(* Whoever gets in does so as the id whose code was granted; the driver's  *)
(* screen, which reads the id again, keeps to that unless the id is edited *)
(* while the answer is awaited.                                            *)
SignedInWasVerified ==
    (step = "in" /\ ~(role = "driver" /\ edited)) => account \in granted

(* passenger_login_screen.dart 38-42: what the screen itself put into the  *)
(* code field is the code it shows, whatever reveals are still waiting.    *)
RevealIsLatest == (~typed /\ field # Empty) => field = banner
=============================================================================
