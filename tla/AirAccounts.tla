----------------------------- MODULE AirAccounts -----------------------------
(***************************************************************************)
(* The account pages of the air front end: LoginForm, RegisterForm,        *)
(* PasswordResetForm, PasswordResetConfirm, PersonalSetting and            *)
(* GitHubOAuth in src/web/air/src/components, pages/TopUp, and logout of   *)
(* HeaderBar.  A request that fails resolves to undefined, which ends a    *)
(* handler only where it looks at the answer.                              *)
(***************************************************************************)
EXTENDS AccountServer

AirLogin == "air LoginForm"
AirSignUp == "air RegisterForm"
AirReset == "air PasswordResetForm"
AirConfirm == "air PasswordResetConfirm"
AirPersonal == "air PersonalSetting"
AirEmailCard == "air PersonalSetting, e-mail"
AirWallet == "air TopUp"
AirGitHub == "air GitHubOAuth"

(***************************************************************************)
(* LoginForm: it waits for Turnstile, which the service does not ask for.  *)
(***************************************************************************)
airLoginForm == On(AirLogin) /\ view.dialog = "" /\ view.turnstile # "waiting"
airWeChatLogin == On(AirLogin) /\ view.dialog = "wechat" /\ view.turnstile # "waiting"

airLoginTurnstile == Verifies(AirLogin)
airOnWeChatLoginClicked ==
    On(AirLogin) /\ ((view.dialog = "" /\ Opening("wechat")) \/ Closing)

airLoginHandleSubmit ==
    /\ airLoginForm
    /\ \E secret \in Typed("secret") \ {""} : Sends(view, "airLoginHandleSubmit", "login", secret)
airLoginHandleSubmitReturns ==
    \E n \in Back(AirLogin, "airLoginHandleSubmit") : Returns(n, SignedIn(view), view)

airOnSubmitWeChatVerificationCode ==
    /\ airWeChatLogin
    /\ \E secret \in Typed("secret") : Sends(view, "airOnSubmitWeChatVerificationCode", "wechat", secret)
airOnSubmitWeChatVerificationCodeReturns ==
    \E n \in Back(AirLogin, "airOnSubmitWeChatVerificationCode") :
        Returns(n, Hides(SignedIn(view), {"wechat"}), view)

(***************************************************************************)
(* RegisterForm: a user name of one's choice, no countdown, and an address *)
(* only when it is to be verified.                                         *)
(***************************************************************************)
airSignUpForm == On(AirSignUp)
airSignUpMailButton == airSignUpForm /\ server.verifies /\ ~view.loading

airSignUpTurnstile == Verifies(AirSignUp)
airSignUpHandleChange ==
    airSignUpForm /\ server.verifies /\ \E k \in DOMAIN view.fields : Types(k)

airSignUpHandleSubmit ==
    /\ airSignUpForm /\ view.turnstile # "waiting"
    /\ \E username \in UserNames :
        Registers([view EXCEPT !.loading = TRUE], "airSignUpHandleSubmit", username)
airSignUpHandleSubmitReturns ==
    \E n \in Back(AirSignUp, "airSignUpHandleSubmit") :
        LET v == [view EXCEPT !.loading = FALSE] IN Returns(n, [v EXCEPT !.left = TRUE], v)

airSignUpSendVerificationCode ==
    /\ airSignUpMailButton
    /\ view.fields["email"] # "" /\ view.turnstile # "waiting"
    /\ AsksForMail([view EXCEPT !.loading = TRUE], "airSignUpSendVerificationCode", "verification")
airSignUpSendVerificationCodeReturns ==
    \E n \in Back(AirSignUp, "airSignUpSendVerificationCode") :
        LET v == [MailReturns(n) EXCEPT !.loading = FALSE] IN Returns(n, v, v)

(***************************************************************************)
(* PasswordResetForm: nothing sets turnstileEnabled, so that with Turnstile *)
(* on the request goes out without a token.                                *)
(***************************************************************************)
airResetButton == On(AirReset) /\ ~view.disabled

airResetCountdown == Ticks(AirReset)
airResetHandleChange == On(AirReset) /\ Types("email")

airResetHandleSubmit ==
    /\ airResetButton
    /\ LET v == [view EXCEPT !.disabled = TRUE]
       IN  IF view.fields["email"] = "" THEN Shows(v)
           ELSE AsksForMail([v EXCEPT !.loading = TRUE], "airResetHandleSubmit", "reset_password")
airResetHandleSubmitReturns ==
    \E n \in Back(AirReset, "airResetHandleSubmit") :
        LET v == [MailReturns(n) EXCEPT !.loading = FALSE]
        IN  Returns(n, [v EXCEPT !.fields["email"] = ""], v)

(***************************************************************************)
(* PasswordResetConfirm.                                                   *)
(***************************************************************************)
airConfirmButton == On(AirConfirm) /\ ~view.disabled

airConfirmCountdown == Ticks(AirConfirm)
airConfirmHandleSubmit ==
    /\ airConfirmButton
    /\ Sends([view EXCEPT !.disabled = TRUE, !.loading = TRUE], "airConfirmHandleSubmit", "user/reset", view.fields)
airConfirmHandleSubmitReturns ==
    \E n \in Back(AirConfirm, "airConfirmHandleSubmit") :
        LET v == [view EXCEPT !.loading = FALSE]
        IN  Returns(n, [v EXCEPT !.password = net[n].data], v)

(***************************************************************************)
(* PersonalSetting; a behaviour is about the e-mail dialog or about the    *)
(* rest of the page, and about the user the page loads or what else it     *)
(* loads.                                                                  *)
(***************************************************************************)
airGeneral == On(AirPersonal) /\ view.dialog = ""
airWeChatDialog == On(AirPersonal) /\ view.dialog = "wechat"
airDeleteDialog == On(AirPersonal) /\ view.dialog = "delete"
airPasswordDialog == On(AirPersonal) /\ view.dialog = "password"
airEmailDialog == On(AirEmailCard) /\ view.dialog = "email"

airPersonalCountdown == Ticks(AirEmailCard)
airPersonalTurnstile == view.dialog = "email" /\ Verifies(AirEmailCard)
airPersonalDialogs ==
    \/ airGeneral /\ \E dialog \in {"wechat", "delete", "password"} : Opening(dialog)
    \/ On(AirEmailCard) /\ view.dialog = "" /\ Opening("email")
    \/ (On(AirPersonal) \/ On(AirEmailCard)) /\ Closing
airPersonalHandleInputChange == airEmailDialog /\ \E k \in DOMAIN view.fields : Types(k)

\* The user of the page is a new object from now on, and somebody is signed in.
airGetUserDataReturns ==
    \E n \in Back(AirPersonal, "airGetUserData") \cup Back(AirEmailCard, "airGetUserData") :
        Returns(n, [view EXCEPT !.user = "me", !.email = net[n].data.email, !.fetched = TRUE], view)
airLoadModelsReturns == \E n \in Back(AirPersonal, "airLoadModels") : Returns(n, view, view)
airGetAffLinkReturns ==
    \E n \in Back(AirPersonal, "airGetAffLink") : Returns(n, [view EXCEPT !.link = TRUE], view)

airGenerateAccessToken == airGeneral /\ Sends(view, "airGenerateAccessToken", "token", "")
airGenerateAccessTokenReturns ==
    \E n \in Back(AirPersonal, "airGenerateAccessToken") :
        Returns(n, [view EXCEPT !.token = net[n].data], view)

airBindWeChat ==
    /\ airWeChatDialog
    /\ \E secret \in Typed("secret") \ {""} : Sends(view, "airBindWeChat", "wechat/bind", secret)
airBindWeChatReturns ==
    \E n \in Back(AirPersonal, "airBindWeChat") : Returns(n, Hides(view, {"wechat"}), view)

\* Only that both fields agree is checked; no password at all is none to change.
airChangePassword ==
    /\ airPasswordDialog
    /\ \E password \in Typed("password") : Sends(view, "airChangePassword", "put", password)
airChangePasswordReturns ==
    \E n \in Back(AirPersonal, "airChangePassword") :
        Returns(n, Hides(view, {"password", "wechat"}), Hides(view, {"password"}))

airPersonalSendVerificationCode ==
    /\ airEmailDialog /\ ~view.disabled /\ ~view.loading /\ view.fields["email"] # ""
    /\ LET v == [view EXCEPT !.disabled = TRUE]
       IN  IF view.turnstile = "waiting" THEN Shows(v)
           ELSE AsksForMail([v EXCEPT !.loading = TRUE], "airPersonalSendVerificationCode", "verification")
airPersonalSendVerificationCodeReturns ==
    \E n \in Back(AirEmailCard, "airPersonalSendVerificationCode") :
        LET v == [MailReturns(n) EXCEPT !.loading = FALSE] IN Returns(n, v, v)

\* The closure keeps the address that was sent, and the user object of that moment.
airBindEmail ==
    /\ airEmailDialog /\ view.fields["code"] # 0
    /\ SendsWith([view EXCEPT !.loading = TRUE], "airBindEmail", "email/bind",
                 [email |-> view.fields["email"], code |-> view.fields["code"]], view.fetched)

airBindEmailReturns ==
    \E n \in Back(AirEmailCard, "airBindEmail") :
        LET v == [view EXCEPT !.loading = FALSE]
        IN  Returns(n, [Hides(v, {"email"}) EXCEPT
                            !.email = IF net[n].was = view.fetched THEN net[n].arg.email ELSE @], v)

airDeleteAccount ==
    /\ airDeleteDialog
    /\ \E confirmation \in Typed("confirmation") :
        confirmation = "me" /\ Sends(view, "airDeleteAccount", "delete", "")
airDeleteAccountReturns ==
    \E n \in Back(AirPersonal, "airDeleteAccount") :
        /\ net[n].st # "failed"
        /\ IF net[n].st = "ok" THEN GoesOn(n, view, "airLogout", "logout", "", <<>>) ELSE Ends(n, view)

\* logout of HeaderBar, and the end of deleteAccount: the answer is not looked at.
airLogout == airGeneral /\ Sends(view, "airLogout", "logout", "")
airLogoutReturns == \E n \in Back(AirPersonal, "airLogout") : Ends(n, SignedOut(view))

(***************************************************************************)
(* TopUp and GitHubOAuth.                                                  *)
(***************************************************************************)
airWalletHandleChange == On(AirWallet) /\ Types("key")
airGetUserQuotaReturns == \E n \in Back(AirWallet, "airGetUserQuota") : QuotaReturns(n)
airTopUp == Redeems(AirWallet, "airTopUp")
airTopUpReturns == \E n \in Back(AirWallet, "airTopUp") : RedeemReturns(n)

airSendCodeReturns == \E n \in Back(AirGitHub, "airSendCode") : SendCodeReturns(n)

airFirst ==
    {<<Request("airGetUserData", "self", "", <<>>)>>,
     <<Request("airLoadModels", "read", "", <<>>), Request("airGetAffLink", "read", "", <<>>)>>}

AirInit ==
    \/ /\ \E turnstile \in {"off", "on"} : AccountInit(FALSE, turnstile, FALSE, FALSE, <<>>)
       /\ OpensPage(AirLogin, "none", <<>>, Widget, <<>>)
    \/ SignUpInit /\ OpensPage(AirSignUp, "none", MailFields, Widget, <<>>)
    \/ MailInit(FALSE) /\ OpensPage(AirReset, "none", [email |-> ""], "off", <<>>)
    \/ ResetInit /\ OpensReset(AirConfirm)
    \/ PlainInit(TRUE) /\ \E first \in airFirst : OpensPage(AirPersonal, "me", <<>>, "off", first)
    \/ MailInit(TRUE) /\ OpensPage(AirEmailCard, "me", MailFields, Widget,
                                   <<Request("airGetUserData", "self", "", <<>>)>>)
    \/ PlainInit(TRUE) /\ OpensTopUp(AirWallet, "airGetUserQuota")
    \/ \E signedIn \in BOOLEAN : OAuthInit(signedIn) /\ OpensOAuth(AirGitHub, "airSendCode", signedIn)

AirPages ==
    {AirLogin, AirSignUp, AirReset, AirConfirm, AirPersonal, AirEmailCard, AirWallet, AirGitHub}

AirExpired == Reloads(AirPages, view)
AirRejected ==
    view.at \in AirPages /\ \E n \in DOMAIN net : net[n].fn \notin {"airTopUp", "airLogout"} /\ Rejected(n)

AirNext ==
    \/ airLoginTurnstile \/ airOnWeChatLoginClicked \/ airLoginHandleSubmit \/ airLoginHandleSubmitReturns
    \/ airOnSubmitWeChatVerificationCode \/ airOnSubmitWeChatVerificationCodeReturns
    \/ airSignUpTurnstile \/ airSignUpHandleChange \/ airSignUpHandleSubmit \/ airSignUpHandleSubmitReturns
    \/ airSignUpSendVerificationCode \/ airSignUpSendVerificationCodeReturns
    \/ airResetCountdown \/ airResetHandleChange \/ airResetHandleSubmit \/ airResetHandleSubmitReturns
    \/ airConfirmCountdown \/ airConfirmHandleSubmit \/ airConfirmHandleSubmitReturns
    \/ airPersonalCountdown \/ airPersonalTurnstile \/ airPersonalDialogs \/ airPersonalHandleInputChange
    \/ airGetUserDataReturns \/ airLoadModelsReturns \/ airGetAffLinkReturns
    \/ airGenerateAccessToken \/ airGenerateAccessTokenReturns \/ airBindWeChat \/ airBindWeChatReturns
    \/ airChangePassword \/ airChangePasswordReturns
    \/ airPersonalSendVerificationCode \/ airPersonalSendVerificationCodeReturns
    \/ airBindEmail \/ airBindEmailReturns
    \/ airDeleteAccount \/ airDeleteAccountReturns \/ airLogout \/ airLogoutReturns
    \/ airWalletHandleChange \/ airGetUserQuotaReturns \/ airTopUp \/ airTopUpReturns
    \/ airSendCodeReturns
    \/ AirExpired \/ AirRejected
=============================================================================
