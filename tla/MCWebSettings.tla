--------------------------- MODULE MCWebSettings ---------------------------
(***************************************************************************)
(* The settings pages of the three front ends, against the options of the  *)
(* service.                                                                *)
(***************************************************************************)
EXTENDS DefaultSettings, AirSettings, BerrySettings

Init == DefaultInit \/ AirInit \/ BerryInit

Next ==
    \/ DefaultNext \/ AirNext \/ BerryNext
    \/ Serve \/ Elsewhere

Spec == Init /\ [][Next]_vars

UnderWay(k) == \E n \in DOMAIN net : net[n].req = "put" /\ net[n].arg.key = k

\* What the pages do not show, or ask for again: an empty field leaves it as it is.
Kept == Hidden \cup {"TurnstileSecretKey", "SMTPPort"}

\* A credential is never shown, so an empty field means the one that is kept: no
\* button overwrites a credential, or the mail port, with nothing (the guards of
\* the submit functions).  The message pusher of the air front end, which saves
\* every key as it is pressed, is left out.
SecretsAreNeverErased ==
    ~(At(AirSystem) /\ view.card = airPusherCard) =>
        \A k \in Kept \cap Keys(view.card) : server.options[k] # ""

\* A button saves the fields the reader used and no other, so that a setting another
\* administrator changed in the meantime keeps the value it was given.  Left out are
\* the fields a function always sends, and pages that saved something before the
\* options were there to compare with.
UntouchedSettingsAreKept ==
    ~view.early =>
        \A k \in Keys(view.card) \ view.touched :
            (\A step \in Steps(view.card) : step.key = k => step.unless # {})
                => server.options[k] = server.theirs[k]

\* Once the options are there and nobody else changes them, a checkbox that is not being
\* saved shows what the service has.  The forms that take no click while they are loading
\* need no more than that; the berry front end needs a reader who waits for each answer.
CheckboxesAreTrue ==
    /\ view.loaded /\ ~view.early /\ ~server.others /\ ~history.lost
    /\ view.at \in {BerrySystem, BerryOperation} => history.alone
    => \A k \in view.card.toggles : UnderWay(k) \/ view.inputs[k] = server.options[k]

\* Password login is disabled only by a reader who confirmed the warning, or by another
\* administrator.
PasswordLoginStaysUnlessConfirmed ==
    "PasswordLoginEnabled" \in Keys(view.card)
        => \/ server.options["PasswordLoginEnabled"] = "true"
           \/ server.theirs["PasswordLoginEnabled"] = "false"
           \/ view.confirmed

=============================================================================
