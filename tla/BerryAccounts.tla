---------------------------- MODULE BerryAccounts ----------------------------
(***************************************************************************)
(* The account pages of the berry front end (src/web/berry/src): AuthLogin,*)
(* AuthRegister, ForgetPasswordForm and ResetPasswordForm in               *)
(* views/Authentication/AuthForms, with hooks/useLogin and                 *)
(* hooks/useRegister, the OAuth pages in views/Authentication/Auth,        *)
(* views/Profile with its EmailModal, and the TopupCard.  A request that   *)
(* fails resolves to undefined; the two hooks catch what comes of that.    *)
(***************************************************************************)
EXTENDS AccountServer

BerryLogin == "berry AuthLogin"
BerrySignUp == "berry AuthRegister"
BerryReset == "berry ForgetPasswordForm"
BerryConfirm == "berry ResetPasswordForm"
BerryProfile == "berry Profile"
BerryEmailCard == "berry EmailModal"
BerryWallet == "berry TopupCard"
BerryOAuths == {"berry GitHubOAuth", "berry LarkOAuth", "berry OidcOAuth"}

(***************************************************************************)
(* AuthLogin and WechatModal, which does not wait for wechatLogin: it      *)
(* takes the promise for a refusal and stays open.                         *)
(***************************************************************************)
berryLoginForm == On(BerryLogin) /\ view.dialog = ""
berryWechatDialog == On(BerryLogin) /\ view.dialog = "wechat"

berryWechatOpenClose ==
    (berryLoginForm /\ Opening("wechat")) \/ (berryWechatDialog /\ Closing)

berryLogin ==
    /\ berryLoginForm /\ ~view.submitting
    /\ \E secret \in Typed("secret") \ {""} :
        Sends([view EXCEPT !.submitting = TRUE], "berryLogin", "login", secret)
berryLoginReturns ==
    \E n \in Back(BerryLogin, "berryLogin") :
        LET v == [view EXCEPT !.submitting = FALSE]
        IN  Ends(n, IF net[n].st = "ok" THEN SignedIn(v) ELSE v)

berryWechatLogin ==
    /\ berryWechatDialog
    /\ \E secret \in Typed("secret") \ {""} : Sends(view, "berryWechatLogin", "wechat", secret)
berryWechatLoginReturns ==
    \E n \in Back(BerryLogin, "berryWechatLogin") :
        Ends(n, IF net[n].st = "ok" THEN SignedIn(view) ELSE view)

(***************************************************************************)
(* AuthRegister: Formik locks the button to register, and nothing the one  *)
(* that sends the code.                                                    *)
(***************************************************************************)
berrySignUpForm == On(BerrySignUp)

berrySignUpTurnstile == Verifies(BerrySignUp)
berrySignUpHandleChange ==
    berrySignUpForm /\ server.verifies /\ \E k \in DOMAIN view.fields : Types(k)

berryRegister ==
    /\ berrySignUpForm /\ ~view.submitting /\ view.turnstile # "waiting"
    /\ server.verifies => view.fields["email"] # "" /\ view.fields["code"] # 0
    /\ \E username \in UserNames :
        Registers([view EXCEPT !.submitting = TRUE], "berryRegister", username)
berryRegisterReturns ==
    \E n \in Back(BerrySignUp, "berryRegister") :
        LET v == [view EXCEPT !.submitting = FALSE]
        IN  Ends(n, IF net[n].st = "ok" THEN [v EXCEPT !.left = TRUE] ELSE v)

berrySignUpHandleSendCode ==
    /\ berrySignUpForm /\ server.verifies
    /\ view.fields["email"] # "" /\ view.turnstile # "waiting"
    /\ AsksForMail(view, "berrySignUpHandleSendCode", "verification")
berrySignUpHandleSendCodeReturns ==
    \E n \in Back(BerrySignUp, "berrySignUpHandleSendCode") : Ends(n, MailReturns(n))

(***************************************************************************)
(* ForgetPasswordForm: once a mail is sent, the form is gone.              *)
(***************************************************************************)
berryForm == On(BerryReset) /\ view.dialog # "sent"
berryResetCountdown == Ticks(BerryReset)
berryResetTurnstile == berryForm /\ Verifies(BerryReset)
berryResetHandleChange == berryForm /\ Types("email")

berryResetSubmit ==
    /\ berryForm /\ ~view.submitting /\ ~view.disabled /\ view.fields["email"] # ""
    /\ LET v == [view EXCEPT !.disabled = TRUE]
       IN  IF view.turnstile = "waiting" THEN Shows(v)
           ELSE AsksForMail([v EXCEPT !.submitting = TRUE], "berryResetSubmit", "reset_password")
berryResetSubmitReturns ==
    \E n \in Back(BerryReset, "berryResetSubmit") :
        LET v == [MailReturns(n) EXCEPT !.submitting = FALSE]
        IN  Returns(n, [v EXCEPT !.dialog = "sent"], Enabled(v))

\* Formik catches the rejection and unlocks the form; the countdown goes on.
berryResetSubmitRejected ==
    \E n \in Back(BerryReset, "berryResetSubmit") :
        net[n].st = "failed" /\ Ends(n, [view EXCEPT !.submitting = FALSE])

(***************************************************************************)
(* ResetPasswordForm: the button is there until a password is.             *)
(***************************************************************************)
berryConfirmButton == On(BerryConfirm) /\ view.password = 0
berryConfirmSubmit ==
    /\ berryConfirmButton
    /\ Sends(view, "berryConfirmSubmit", "user/reset", view.fields)
berryConfirmSubmitReturns ==
    \E n \in Back(BerryConfirm, "berryConfirmSubmit") :
        Returns(n, [view EXCEPT !.password = net[n].data], view)

(***************************************************************************)
(* Profile: the user that is loaded replaces all that was typed.           *)
(***************************************************************************)
berryGeneral == On(BerryProfile) /\ view.dialog = ""

berryProfileDialogs ==
    \/ berryGeneral /\ \E dialog \in {"wechat", "delete"} : Opening(dialog)
    \/ On(BerryProfile) /\ Closing
berryHandleInputChange == berryGeneral /\ \E k \in DOMAIN view.fields : Types(k)

berryLoadUserReturns ==
    \E n \in Back(BerryProfile, "berryLoadUser") :
        Returns(n, [view EXCEPT !.fields = [username |-> "me", password |-> ""],
                                !.email = net[n].data.email, !.token = 0], view)

berryBindWeChat ==
    /\ On(BerryProfile) /\ view.dialog = "wechat"
    /\ \E secret \in Typed("secret") \ {""} : Sends(view, "berryBindWeChat", "wechat/bind", secret)
berryBindWeChatReturns == \E n \in Back(BerryProfile, "berryBindWeChat") : Ends(n, view)

berryGenerateAccessToken == berryGeneral /\ Sends(view, "berryGenerateAccessToken", "token", "")
berryGenerateAccessTokenReturns ==
    \E n \in Back(BerryProfile, "berryGenerateAccessToken") :
        Returns(n, [view EXCEPT !.token = net[n].data], view)

\* A password is empty or has at least 8 characters, and there is a user name.
berryProfileSubmit ==
    /\ berryGeneral /\ view.fields["username"] # "" /\ view.fields["password"] # "short"
    /\ Sends(view, "berryProfileSubmit", "put", view.fields["password"])
berryProfileSubmitReturns == \E n \in Back(BerryProfile, "berryProfileSubmit") : Ends(n, view)

\* logout of useLogin, from the menu of the header: the answer is not looked at.
berryLogout == berryGeneral /\ Sends(view, "berryLogout", "logout", "")
berryLogoutReturns == \E n \in Back(BerryProfile, "berryLogout") : Ends(n, SignedOut(view))

(***************************************************************************)
(* EmailModal: without a Turnstile token it asks for no code, whether or   *)
(* not Turnstile is on.                                                    *)
(***************************************************************************)
berryEmailDialog == On(BerryEmailCard) /\ view.dialog = "email"

\* What is typed goes when the dialog is closed.
berryEmailOpenClose ==
    /\ On(BerryEmailCard)
    /\ IF view.dialog = "email" THEN Shows([view EXCEPT !.dialog = "", !.fields = MailFields])
       ELSE Opening("email")
berryEmailCountdown == Ticks(BerryEmailCard)
berryEmailTurnstile == Verifies(BerryEmailCard)
berryEmailHandleChange == berryEmailDialog /\ \E k \in DOMAIN view.fields : Types(k)

berryHandleSendCode ==
    /\ berryEmailDialog /\ ~view.disabled /\ ~view.loading
    /\ LET v == [view EXCEPT !.disabled = TRUE]
       IN  IF view.fields["email"] = "" \/ ~Human THEN Shows(v)
           ELSE AsksForMail([v EXCEPT !.loading = TRUE], "berryHandleSendCode", "verification")
berryHandleSendCodeReturns ==
    \E n \in Back(BerryEmailCard, "berryHandleSendCode") :
        Ends(n, [MailReturns(n) EXCEPT !.loading = FALSE])

berryEmailSubmit ==
    /\ berryEmailDialog /\ ~view.loading /\ view.fields["email"] # "" /\ view.fields["code"] # 0
    /\ Sends([view EXCEPT !.loading = TRUE], "berryEmailSubmit", "email/bind", view.fields)
berryEmailSubmitReturns ==
    \E n \in Back(BerryEmailCard, "berryEmailSubmit") :
        LET v == [view EXCEPT !.loading = FALSE]
        IN  Returns(n, [v EXCEPT !.dialog = "", !.fields = MailFields], v)

(***************************************************************************)
(* TopupCard, GitHubOAuth, LarkOAuth and OidcOAuth.                        *)
(***************************************************************************)
berryWalletHandleChange == On(BerryWallet) /\ Types("key")
berryGetUserQuotaReturns == \E n \in Back(BerryWallet, "berryGetUserQuota") : QuotaReturns(n)
berryTopUp == Redeems(BerryWallet, "berryTopUp")
berryTopUpReturns == \E n \in Back(BerryWallet, "berryTopUp") : RedeemReturns(n)

berrySendCodeReturns == \E page \in BerryOAuths : \E n \in Back(page, "berrySendCode") : SendCodeEnds(n)

BerryInit ==
    \/ PlainInit(FALSE) /\ OpensPage(BerryLogin, "none", <<>>, "off", <<>>)
    \/ SignUpInit /\ OpensPage(BerrySignUp, "none", MailFields, Widget, <<>>)
    \/ MailInit(FALSE) /\ OpensPage(BerryReset, "none", [email |-> ""], Widget, <<>>)
    \/ ResetInit /\ OpensReset(BerryConfirm)
    \/ PlainInit(TRUE) /\ OpensPage(BerryProfile, "me", [username |-> "", password |-> ""], "off",
                                    <<Request("berryLoadUser", "self", "", <<>>)>>)
    \/ MailInit(TRUE) /\ OpensPage(BerryEmailCard, "me", MailFields, Widget, <<>>)
    \/ PlainInit(TRUE) /\ OpensTopUp(BerryWallet, "berryGetUserQuota")
    \/ \E signedIn \in BOOLEAN, page \in BerryOAuths :
        OAuthInit(signedIn) /\ OpensOAuth(page, "berrySendCode", signedIn)

BerryPages ==
    {BerryLogin, BerrySignUp, BerryReset, BerryConfirm, BerryProfile, BerryEmailCard, BerryWallet} \cup BerryOAuths

\* The interceptor also forgets the user.
BerryExpired == Reloads(BerryPages, SignedOut(view))
BerryRejected ==
    /\ view.at \in BerryPages
    /\ \E n \in DOMAIN net :
        /\ net[n].fn \in {"berryConfirmSubmit", "berryLoadUser", "berryGenerateAccessToken",
                          "berryEmailSubmit", "berryGetUserQuota"}
        /\ Rejected(n)

BerryNext ==
    \/ berryWechatOpenClose \/ berryLogin \/ berryLoginReturns \/ berryWechatLogin \/ berryWechatLoginReturns
    \/ berrySignUpTurnstile \/ berrySignUpHandleChange \/ berryRegister \/ berryRegisterReturns
    \/ berrySignUpHandleSendCode \/ berrySignUpHandleSendCodeReturns
    \/ berryResetCountdown \/ berryResetTurnstile \/ berryResetHandleChange
    \/ berryResetSubmit \/ berryResetSubmitReturns \/ berryResetSubmitRejected
    \/ berryConfirmSubmit \/ berryConfirmSubmitReturns
    \/ berryProfileDialogs \/ berryHandleInputChange \/ berryLoadUserReturns
    \/ berryBindWeChat \/ berryBindWeChatReturns \/ berryGenerateAccessToken \/ berryGenerateAccessTokenReturns
    \/ berryProfileSubmit \/ berryProfileSubmitReturns \/ berryLogout \/ berryLogoutReturns
    \/ berryEmailOpenClose \/ berryEmailCountdown \/ berryEmailTurnstile \/ berryEmailHandleChange
    \/ berryHandleSendCode \/ berryHandleSendCodeReturns \/ berryEmailSubmit \/ berryEmailSubmitReturns
    \/ berryWalletHandleChange \/ berryGetUserQuotaReturns \/ berryTopUp \/ berryTopUpReturns
    \/ berrySendCodeReturns
    \/ BerryExpired \/ BerryRejected
=============================================================================
