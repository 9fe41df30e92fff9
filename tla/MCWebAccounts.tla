---------------------------- MODULE MCWebAccounts ----------------------------
(***************************************************************************)
(* The account pages of the three front ends against one service: each     *)
(* behaviour opens one page of one of them.                                *)
(***************************************************************************)
EXTENDS DefaultAccounts, AirAccounts, BerryAccounts

Init == DefaultInit \/ AirInit \/ BerryInit
Next == DefaultNext \/ AirNext \/ BerryNext \/ Serve \/ Elsewhere
Spec == Init /\ [][Next]_vars

CountdownPages == {Reset, EmailCard, AirReset, AirEmailCard, BerryReset, BerryEmailCard}
WalletPages == {Wallet, AirWallet, BerryWallet}

\* One handler came after the other, and each came to its end.
Undisturbed == history.alone /\ ~history.lost /\ net = <<>>

(***************************************************************************)
(* Where the countdown disables the button, no mail is asked for before    *)
(* the time is over since the last one, whatever else is pressed meanwhile *)
(* and whether the answer was slow, a refusal or none at all.              *)
(***************************************************************************)
MailsAreSpaced ==
    view.at \in CountdownPages => ~view.rushed

(***************************************************************************)
(* With e-mail verification on, no address becomes that of an account to   *)
(* which no code was mailed, however the address in the form is changed    *)
(* between the mail and its use.                                           *)
(***************************************************************************)
GivenAddressesWereProved ==
    server.verifies => \A a \in server.given : \E m \in server.inbox : m.address = a

(***************************************************************************)
(* The new password a confirmation page shows is the one of the account,   *)
(* also after another press of its button.                                 *)
(***************************************************************************)
ShownPasswordWorks ==
    view.password # 0 => view.password = server.password

(***************************************************************************)
(* The access token the page shows is the one the service accepts, once    *)
(* all is answered.                                                        *)
(***************************************************************************)
ShownTokenWorks ==
    Undisturbed /\ view.token # 0 => view.token = server.token

(***************************************************************************)
(* A page that shows somebody signed in has a session of an account that   *)
(* exists, also after that account was deleted on this page.               *)
(***************************************************************************)
SignedInMeansSession ==
    Undisturbed /\ view.user = "me" => server.session /\ server.exists

(***************************************************************************)
(* A page on which a key is redeemed adds up what the service also adds,   *)
(* once, and nothing for a key that is refused.                            *)
(***************************************************************************)
QuotaShownIsTrue ==
    view.at \in WalletPages /\ Undisturbed /\ history.faults = 0 => view.quota = server.quota

(***************************************************************************)
(* An address shown as that of the account was given to it, whatever is    *)
(* typed while the answer is awaited.                                      *)
(***************************************************************************)
ShownAddressWasGiven == view.email \in server.given \cup {""}

(***************************************************************************)
(* What a page shows of the account is what the service holds.             *)
(***************************************************************************)
ShownIsHeld == ShownPasswordWorks /\ ShownTokenWorks /\ QuotaShownIsTrue /\ ShownAddressWasGiven
=============================================================================
