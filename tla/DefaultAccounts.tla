--------------------------- MODULE DefaultAccounts ---------------------------
(***************************************************************************)
(* The account pages of the default front end: LoginForm, RegisterForm,    *)
(* PasswordResetForm, PasswordResetConfirm, PersonalSetting, GitHubOAuth   *)
(* and LarkOAuth in src/web/default/src/components, pages/TopUp, and       *)
(* logout of Header.                                                       *)
(***************************************************************************)
EXTENDS AccountServer

Login == "default LoginForm"
SignUp == "default RegisterForm"
Reset == "default PasswordResetForm"
Confirm == "default PasswordResetConfirm"
Personal == "default PersonalSetting"
EmailCard == "default PersonalSetting, e-mail"
Wallet == "default TopUp"
GitHub == "default GitHubOAuth"
Lark == "default LarkOAuth"

(***************************************************************************)
(* LoginForm: nothing locks its buttons.                                   *)
(***************************************************************************)
LoginForm == On(Login) /\ view.dialog = ""
WeChatLogin == On(Login) /\ view.dialog = "wechat"

onWeChatLoginClicked == (LoginForm /\ Opening("wechat")) \/ (WeChatLogin /\ Closing)

loginHandleSubmit ==
    /\ LoginForm
    /\ \E secret \in Typed("secret") \ {""} : Sends(view, "loginHandleSubmit", "login", secret)
loginHandleSubmitReturns ==
    \E n \in Back(Login, "loginHandleSubmit") : Returns(n, SignedIn(view), view)

onSubmitWeChatVerificationCode ==
    /\ WeChatLogin
    /\ \E secret \in Typed("secret") : Sends(view, "onSubmitWeChatVerificationCode", "wechat", secret)
onSubmitWeChatVerificationCodeReturns ==
    \E n \in Back(Login, "onSubmitWeChatVerificationCode") :
        Returns(n, Hides(SignedIn(view), {"wechat"}), view)

(***************************************************************************)
(* RegisterForm: its countdown changes the label of the button, which only *)
(* loading disables.                                                       *)
(***************************************************************************)
signUpForm == On(SignUp)
signUpMailButton == signUpForm /\ server.verifies /\ ~view.loading

signUpCountdown == Ticks(SignUp)
signUpTurnstile == Verifies(SignUp)
signUpHandleChange ==
    /\ signUpForm
    /\ \E k \in DOMAIN view.fields : (k = "code" => server.verifies) /\ Types(k)

signUpHandleSubmit ==
    /\ signUpForm /\ view.fields["email"] # "" /\ view.turnstile # "waiting"
    /\ Registers([view EXCEPT !.loading = TRUE], "signUpHandleSubmit", view.fields["email"])
signUpHandleSubmitReturns ==
    \E n \in Back(SignUp, "signUpHandleSubmit") :
        LET v == [view EXCEPT !.loading = FALSE] IN Returns(n, [v EXCEPT !.left = TRUE], v)

signUpSendVerificationCode ==
    /\ signUpMailButton
    /\ view.fields["email"] # "" /\ view.turnstile # "waiting"
    /\ AsksForMail([view EXCEPT !.disabled = TRUE, !.loading = TRUE], "signUpSendVerificationCode", "verification")
signUpSendVerificationCodeReturns ==
    \E n \in Back(SignUp, "signUpSendVerificationCode") :
        LET v == [MailReturns(n) EXCEPT !.loading = FALSE] IN Returns(n, v, Enabled(v))

(***************************************************************************)
(* PasswordResetForm: the button is disabled before anything is checked.   *)
(***************************************************************************)
resetButton == On(Reset) /\ ~view.disabled

resetCountdown == Ticks(Reset)
resetTurnstile == Verifies(Reset)
resetHandleChange == On(Reset) /\ Types("email")

resetHandleSubmit ==
    /\ resetButton
    /\ LET v == [view EXCEPT !.disabled = TRUE]
       IN  IF view.fields["email"] = "" \/ view.turnstile = "waiting" THEN Shows(v)
           ELSE AsksForMail([v EXCEPT !.loading = TRUE], "resetHandleSubmit", "reset_password")
resetHandleSubmitReturns ==
    \E n \in Back(Reset, "resetHandleSubmit") :
        LET v == [MailReturns(n) EXCEPT !.loading = FALSE]
        IN  Returns(n, [v EXCEPT !.fields["email"] = ""], Enabled(v))

(***************************************************************************)
(* PasswordResetConfirm.                                                   *)
(***************************************************************************)
confirmButton == On(Confirm) /\ ~view.disabled

confirmCountdown == Ticks(Confirm)
confirmHandleSubmit ==
    /\ confirmButton
    /\ Sends([view EXCEPT !.disabled = TRUE, !.loading = TRUE], "confirmHandleSubmit", "user/reset", view.fields)
confirmHandleSubmitReturns ==
    \E n \in Back(Confirm, "confirmHandleSubmit") :
        LET v == [view EXCEPT !.loading = FALSE]
        IN  Returns(n, [v EXCEPT !.password = net[n].data], v)

(***************************************************************************)
(* PersonalSetting; a behaviour is about the e-mail dialog or about the    *)
(* rest of the page.                                                       *)
(***************************************************************************)
General == On(Personal) /\ view.dialog = ""
WeChatDialog == On(Personal) /\ view.dialog = "wechat"
DeleteDialog == On(Personal) /\ view.dialog = "delete"
EmailDialog == On(EmailCard) /\ view.dialog = "email"

personalCountdown == Ticks(EmailCard)
personalTurnstile == view.dialog = "email" /\ Verifies(EmailCard)
personalDialogs ==
    \/ General /\ \E dialog \in {"wechat", "delete"} : Opening(dialog)
    \/ On(EmailCard) /\ view.dialog = "" /\ Opening("email")
    \/ (On(Personal) \/ On(EmailCard)) /\ Closing
personalHandleInputChange == EmailDialog /\ \E k \in DOMAIN view.fields : Types(k)

generateAccessToken == General /\ Sends(view, "generateAccessToken", "token", "")
generateAccessTokenReturns ==
    \E n \in Back(Personal, "generateAccessToken") :
        Returns(n, [view EXCEPT !.token = net[n].data, !.link = FALSE], view)

getAffLink == General /\ Sends(view, "getAffLink", "read", "")
getAffLinkReturns ==
    \E n \in Back(Personal, "getAffLink") : Returns(n, [view EXCEPT !.link = TRUE, !.token = 0], view)

bindWeChat ==
    /\ WeChatDialog
    /\ \E secret \in Typed("secret") \ {""} : Sends(view, "bindWeChat", "wechat/bind", secret)
bindWeChatReturns ==
    \E n \in Back(Personal, "bindWeChat") : Returns(n, Hides(view, {"wechat"}), view)

personalSendVerificationCode ==
    /\ EmailDialog /\ ~view.disabled /\ ~view.loading
    /\ LET v == [view EXCEPT !.disabled = TRUE]
       IN  IF view.fields["email"] = "" \/ view.turnstile = "waiting" THEN Shows(v)
           ELSE AsksForMail([v EXCEPT !.loading = TRUE], "personalSendVerificationCode", "verification")
personalSendVerificationCodeReturns ==
    \E n \in Back(EmailCard, "personalSendVerificationCode") :
        LET v == [MailReturns(n) EXCEPT !.loading = FALSE] IN Returns(n, v, v)

\* The address is the one in the field now, whichever one the code was sent to.
bindEmail ==
    /\ EmailDialog /\ view.fields["code"] # 0
    /\ Sends([view EXCEPT !.loading = TRUE], "bindEmail", "email/bind",
             [email |-> view.fields["email"], code |-> view.fields["code"]])
bindEmailReturns ==
    \E n \in Back(EmailCard, "bindEmail") :
        LET v == [view EXCEPT !.loading = FALSE] IN Returns(n, Hides(v, {"email"}), v)

\* The account is deleted, then the session is ended, and only then the user forgotten.
deleteAccount ==
    /\ DeleteDialog
    /\ \E confirmation \in Typed("confirmation") :
        confirmation = "me" /\ Sends(view, "deleteAccount", "delete", "")

\* Faulty: the page does not sign out after the deletion.
deleteAccountReturnsOnly ==
    \E n \in Back(Personal, "deleteAccount") : Returns(n, [view EXCEPT !.left = TRUE], view)

deleteAccountReturns ==
    \E n \in Back(Personal, "deleteAccount") :
        /\ net[n].st # "failed"
        /\ IF net[n].st = "ok" THEN GoesOn(n, view, "logout", "logout", "", <<>>) ELSE Ends(n, view)

\* logout of Header, and the end of deleteAccount.
logout == General /\ Sends(view, "logout", "logout", "")
logoutReturns == \E n \in Back(Personal, "logout") : net[n].st # "failed" /\ Ends(n, SignedOut(view))

(***************************************************************************)
(* TopUp, GitHubOAuth and LarkOAuth.                                       *)
(***************************************************************************)
walletHandleChange == On(Wallet) /\ Types("key")
getUserQuotaReturns == \E n \in Back(Wallet, "getUserQuota") : QuotaReturns(n)
topUp == Redeems(Wallet, "topUp")
topUpReturns == \E n \in Back(Wallet, "topUp") : RedeemReturns(n)

gitHubSendCodeReturns == \E n \in Back(GitHub, "gitHubSendCode") : SendCodeReturns(n)
larkSendCodeReturns == \E n \in Back(Lark, "larkSendCode") : SendCodeReturns(n)

DefaultInit ==
    \/ PlainInit(FALSE) /\ OpensPage(Login, "none", <<>>, "off", <<>>)
    \/ SignUpInit /\ OpensPage(SignUp, "none", MailFields, Widget, <<>>)
    \/ MailInit(FALSE) /\ OpensPage(Reset, "none", [email |-> ""], Widget, <<>>)
    \/ ResetInit /\ OpensReset(Confirm)
    \/ PlainInit(TRUE) /\ OpensPage(Personal, "me", <<>>, "off", <<>>)
    \/ MailInit(TRUE) /\ OpensPage(EmailCard, "me", MailFields, Widget, <<>>)
    \/ PlainInit(TRUE) /\ OpensTopUp(Wallet, "getUserQuota")
    \/ \E signedIn \in BOOLEAN :
        OAuthInit(signedIn) /\ (OpensOAuth(GitHub, "gitHubSendCode", signedIn) \/ OpensOAuth(Lark, "larkSendCode", signedIn))

DefaultPages == {Login, SignUp, Reset, Confirm, Personal, EmailCard, Wallet, GitHub, Lark}

\* A 401 is a failure like others.
DefaultExpired ==
    /\ view.at \in DefaultPages
    /\ \E n \in DOMAIN net : net[n].st = "expired" /\ net' = [net EXCEPT ![n].st = "failed"]
    /\ UNCHANGED <<view, server, calls, history>>
DefaultRejected ==
    view.at \in DefaultPages /\ \E n \in DOMAIN net : net[n].fn # "topUp" /\ Rejected(n)

DefaultNext ==
    \/ onWeChatLoginClicked \/ loginHandleSubmit \/ loginHandleSubmitReturns
    \/ onSubmitWeChatVerificationCode \/ onSubmitWeChatVerificationCodeReturns
    \/ signUpCountdown \/ signUpTurnstile \/ signUpHandleChange \/ signUpHandleSubmit \/ signUpHandleSubmitReturns
    \/ signUpSendVerificationCode \/ signUpSendVerificationCodeReturns
    \/ resetCountdown \/ resetTurnstile \/ resetHandleChange \/ resetHandleSubmit \/ resetHandleSubmitReturns
    \/ confirmCountdown \/ confirmHandleSubmit \/ confirmHandleSubmitReturns
    \/ personalCountdown \/ personalTurnstile \/ personalDialogs \/ personalHandleInputChange
    \/ generateAccessToken \/ generateAccessTokenReturns \/ getAffLink \/ getAffLinkReturns
    \/ bindWeChat \/ bindWeChatReturns
    \/ personalSendVerificationCode \/ personalSendVerificationCodeReturns \/ bindEmail \/ bindEmailReturns
    \/ deleteAccount \/ deleteAccountReturns \/ logout \/ logoutReturns
    \/ walletHandleChange \/ getUserQuotaReturns \/ topUp \/ topUpReturns
    \/ gitHubSendCodeReturns \/ larkSendCodeReturns
    \/ DefaultExpired \/ DefaultRejected
=============================================================================
