------------------------ MODULE MCWebAccounts_proofs ------------------------
(***************************************************************************)
(* Proofs about the account pages of the three front ends, for any number  *)
(* of clicks, requests, mails and ticks of the countdown.                  *)
(*                                                                         *)
(* What a page shows is compared with what the service holds, and between  *)
(* them are requests at every stage.  The invariant IInv therefore says    *)
(* what each request under way has done to the account and has not told    *)
(* the page yet.  It is kept by each handler of the service (a step that   *)
(* changes the stage of one request), and by the handlers of the pages     *)
(* through lemmas for the few kinds there are: one that only changes the   *)
(* page, sends a request, ends with an answer, goes on to another request, *)
(* or is lost.                                                             *)
(***************************************************************************)
EXTENDS MCWebAccounts, FiniteSetTheorems, TLAPS

CodePages == {SignUp, EmailCard, AirSignUp, AirEmailCard, BerrySignUp, BerryEmailCard}
ConfirmPages == {Confirm, AirConfirm, BerryConfirm}
DeletePages == {Personal, AirPersonal}

\* What the link of a reset mail carries.
ResetLink == [email |-> "taken", code |-> 1]

\* The codes a reader can type: nothing, a wrong one, or one of a mail.
Codes == {0, -1} \cup {m.code : m \in server.inbox}
Addressed == server.given \cup {""}

(***************************************************************************)
(* The page v.  The countdown and the time since the last mail (gap) run   *)
(* together, and a button that is not disabled has run out both.           *)
(***************************************************************************)
PageOK(v) ==
    /\ DOMAIN v = {"at", "user", "fields", "turnstile", "disabled", "countdown", "loading", "submitting",
                   "dialog", "left", "link", "token", "password", "quota", "email", "fetched", "gap", "rushed"}
    /\ v.user \in {"me", "none"}
    /\ v.disabled \in BOOLEAN /\ v.rushed \in BOOLEAN
    /\ v.countdown \in 1 .. Countdown /\ v.gap \in 0 .. Countdown
    /\ v.token \in Nat /\ v.password \in Nat /\ v.quota \in Int
    /\ v.at \in CodePages => DOMAIN v.fields = {"email", "code"}
    /\ v.at \in ConfirmPages => v.fields = ResetLink
    /\ v.at \notin ConfirmPages => v.password = 0

ClockOK(v) ==
    v.at \in CountdownPages =>
        /\ ~v.rushed
        /\ v.gap + v.countdown >= Countdown
        /\ ~v.disabled => v.gap = Countdown /\ v.countdown = Countdown

FieldsOK(v, codes) == v.at \in CodePages => v.fields["code"] \in codes

(***************************************************************************)
(* A request r of the page at.                                             *)
(***************************************************************************)
SignsIn == {"login", "wechat", "oauth", "self"}

\* The handlers that wait for what matters below.
SentBy(fn, req) ==
    /\ req = "logout" <=> fn \in {"logout", "airLogout", "berryLogout"}
    /\ req = "delete" <=> fn \in {"deleteAccount", "airDeleteAccount"}
    /\ req = "token" <=> fn \in {"generateAccessToken", "airGenerateAccessToken", "berryGenerateAccessToken"}
    /\ req = "topup" <=> fn \in {"topUp", "airTopUp", "berryTopUp"}
    /\ req = "self" <=> fn \in {"getUserQuota", "airGetUserQuota", "berryGetUserQuota",
                                    "airGetUserData", "berryLoadUser"}
    /\ req = "email/bind" <=> fn \in {"bindEmail", "airBindEmail", "berryEmailSubmit"}
    /\ req = "user/reset" <=> fn \in {"confirmHandleSubmit", "airConfirmHandleSubmit", "berryConfirmSubmit"}
    /\ req \in {"login", "wechat", "oauth"} <=>
          fn \in {"loginHandleSubmit", "onSubmitWeChatVerificationCode", "gitHubSendCode", "larkSendCode",
                    "airLoginHandleSubmit", "airOnSubmitWeChatVerificationCode", "airSendCode",
                    "berryLogin", "berryWechatLogin", "berrySendCode"}

AskOK(at, r, codes) ==
    /\ DOMAIN r = {"fn", "req", "arg", "was", "st", "data"}
    /\ r.st \in {"sent", "ok", "refused", "failed", "expired"}
    /\ SentBy(r.fn, r.req)
    /\ r.req = "delete" => at \in DeletePages
    /\ r.req \in {"login", "wechat", "oauth"} => at \notin DeletePages
    /\ r.req = "user/reset" <=> at \in ConfirmPages
    /\ r.req = "user/reset" => r.arg = ResetLink
    /\ at \in WalletPages => r.req \in {"self", "topup"}
    /\ r.req \in {"register", "email/bind"} => r.arg.code \in codes

AnswerOK(r, addressed) ==
    r.st = "ok" =>
        /\ r.req = "self" => r.data.quota \in Int /\ r.data.email \in addressed
        /\ r.req = "token" => r.data \in Nat
        /\ r.req = "user/reset" => r.data \in Nat
        /\ r.req = "topup" => r.data = 1
        /\ r.req = "email/bind" => r.arg.email \in addressed

RequestsOK ==
    \A n \in DOMAIN net : n \in 1 .. calls /\ AskOK(view.at, net[n], Codes) /\ AnswerOK(net[n], Addressed)

(***************************************************************************)
(* The service.  A code that can be typed is only good for the address to  *)
(* which it was mailed, and the code of a reset link is used once.         *)
(***************************************************************************)
ServerOK ==
    /\ DOMAIN server = {"exists", "session", "turnstile", "verifies", "state", "exchanges", "codes", "issued",
                        "inbox", "given", "email", "password", "token", "quota", "key"}
    /\ server.exists \in BOOLEAN /\ server.session \in BOOLEAN /\ server.key \in BOOLEAN
    /\ server.issued \in Nat /\ server.password \in Nat /\ server.token \in Nat /\ server.quota \in Int
    /\ server.email \in Addressed
    /\ history \in [alone : BOOLEAN, lost : BOOLEAN, faults : Nat]
    /\ calls \in Nat

CodesOK ==
    /\ \A a \in DOMAIN server.codes : server.codes[a] \in 1 .. server.issued
    /\ \A m \in server.inbox : m.code \in 1 .. server.issued
    /\ \A a \in DOMAIN server.codes, m \in server.inbox : server.codes[a] = m.code => m.address = a

PasswordOK ==
    /\ view.password # 0 => view.password = server.password
    /\ view.at \in ConfirmPages =>
          /\ server.password = 0 \/ (server.password = 1 /\ "taken" \notin DOMAIN server.codes)
          /\ \A n \in DOMAIN net : net[n].st = "ok" => server.password = 1 /\ net[n].data = 1

(***************************************************************************)
(* What holds while a reader waits for each answer: what the service has   *)
(* changed, the one request under way still has to tell.                   *)
(***************************************************************************)
Patient == history.alone /\ ~history.lost

AloneOK ==
    history.alone =>
        \A n, m \in DOMAIN net : n = m \/ (net[n].req = "read" /\ net[m].req = "read")

Leaving(r) == r.req = "logout" \/ (r.req = "delete" /\ r.st \in {"ok", "failed"})

SessionOK ==
    /\ ~server.exists => view.at \in DeletePages
    /\ Patient =>
          /\ view.user = "me" => (server.session /\ server.exists) \/ \E n \in DOMAIN net : Leaving(net[n])
          /\ \A n \in DOMAIN net : net[n].req \in SignsIn /\ net[n].st = "ok" => server.session /\ server.exists

TokenOK ==
    Patient =>
        /\ view.token \in {0, server.token} \/ \E n \in DOMAIN net : net[n].req = "token" /\ net[n].st \in {"ok", "failed"}
        /\ \A n \in DOMAIN net : net[n].req = "token" /\ net[n].st = "ok" => net[n].data = server.token

QuotaOK ==
    view.at \in WalletPages /\ ~history.lost =>
        /\ view.user = "me"
        /\ history.alone /\ history.faults = 0 =>
              /\ DOMAIN net = {} => view.quota = server.quota
              /\ \A n \in DOMAIN net :
                    /\ net[n].st \in {"sent", "ok", "refused"}
                    /\ net[n].req = "self" =>
                          net[n].st # "refused" /\ (net[n].st = "ok" => net[n].data.quota = server.quota)
                    /\ net[n].req = "topup" =>
                          server.quota = view.quota + IF net[n].st = "ok" THEN 1 ELSE 0

IInv ==
    /\ PageOK(view) /\ ClockOK(view) /\ FieldsOK(view, Codes)
    /\ ServerOK /\ RequestsOK /\ CodesOK /\ GivenAddressesWereProved /\ PasswordOK
    /\ view.email \in Addressed
    /\ AloneOK /\ SessionOK /\ TokenOK /\ QuotaOK

----------------------------------------------------------------------------
(***************************************************************************)
(* The pages have different names.                                         *)
(***************************************************************************)
LEMMA PageNames ==
    /\ CodePages = {"default RegisterForm", "default PersonalSetting, e-mail", "air RegisterForm",
                    "air PersonalSetting, e-mail", "berry AuthRegister", "berry EmailModal"}
    /\ ConfirmPages = {"default PasswordResetConfirm", "air PasswordResetConfirm", "berry ResetPasswordForm"}
    /\ DeletePages = {"default PersonalSetting", "air PersonalSetting"}
    /\ CountdownPages = {"default PasswordResetForm", "default PersonalSetting, e-mail",
                         "air PasswordResetForm", "air PersonalSetting, e-mail",
                         "berry ForgetPasswordForm", "berry EmailModal"}
    /\ WalletPages = {"default TopUp", "air TopUp", "berry TopupCard"}
    /\ BerryOAuths = {"berry GitHubOAuth", "berry LarkOAuth", "berry OidcOAuth"}
  BY DEF CodePages, ConfirmPages, DeletePages, CountdownPages, WalletPages, BerryOAuths,
     SignUp, EmailCard, AirSignUp, AirEmailCard, BerrySignUp, BerryEmailCard, Confirm, AirConfirm,
     BerryConfirm, Personal, AirPersonal, Reset, AirReset, BerryReset, Wallet, AirWallet, BerryWallet

----------------------------------------------------------------------------
(***************************************************************************)
(* The page v becomes w.                                                   *)
(***************************************************************************)
\* The same user and the same account are shown.
Keeps(v, w) ==
    /\ DOMAIN w = DOMAIN v /\ w.at = v.at /\ w.user = v.user
    /\ w.token = v.token /\ w.password = v.password /\ w.quota = v.quota /\ w.email = v.email

\* Nothing changes that is spoken of here.
Like(v, w) ==
    /\ Keeps(v, w) /\ w.fields = v.fields
    /\ w.disabled = v.disabled /\ w.countdown = v.countdown /\ w.gap = v.gap /\ w.rushed = v.rushed

Fit(v) == v.at = view.at /\ PageOK(v) /\ ClockOK(v) /\ FieldsOK(v, Codes)

LEMMA Cosmetics ==
    ASSUME NEW v, PageOK(v), NEW x
    PROVE  /\ Like(v, v)
           /\ Like(v, [v EXCEPT !.loading = x])
           /\ Like(v, [v EXCEPT !.submitting = x])
           /\ Like(v, [v EXCEPT !.dialog = x])
           /\ Like(v, [v EXCEPT !.left = x])
           /\ Like(v, [v EXCEPT !.link = x])
           /\ Like(v, [v EXCEPT !.turnstile = x])
  BY DEF PageOK, Like, Keeps

LEMMA LikeFit ==
    ASSUME NEW v, Fit(v), NEW w, Like(v, w)
    PROVE  Fit(w) /\ Keeps(v, w)
  BY DEF Fit, Like, Keeps, PageOK, ClockOK, FieldsOK

LEMMA ViewFit == ASSUME IInv PROVE Fit(view) /\ Keeps(view, view)
  BY DEF IInv, Fit, Keeps

LEMMA KeepsOn ==
    ASSUME NEW u, NEW v, NEW w, Keeps(u, v), Keeps(v, w)
    PROVE  Keeps(u, w)
  BY DEF Keeps

LEMMA LikeOn ==
    ASSUME NEW u, NEW v, NEW w, Like(u, v), Like(v, w)
    PROVE  Like(u, w)
  BY DEF Like, Keeps

----------------------------------------------------------------------------
(***************************************************************************)
(* Steps of the page, which leave the service alone.                       *)
(***************************************************************************)
Histories == [alone : BOOLEAN, lost : BOOLEAN, faults : Nat]

LEMMA ServiceKept ==
    ASSUME IInv, UNCHANGED server, history' \in Histories, calls' \in Nat
    PROVE  /\ ServerOK' /\ CodesOK' /\ GivenAddressesWereProved'
           /\ Codes' = Codes /\ Addressed' = Addressed
<1>1. Codes' = Codes /\ Addressed' = Addressed
  BY DEF Codes, Addressed
<1>2. ServerOK'
  BY <1>1 DEF IInv, ServerOK, Histories
<1>3. CodesOK' /\ GivenAddressesWereProved'
  BY DEF IInv, CodesOK, GivenAddressesWereProved
<1>. QED
  BY <1>1, <1>2, <1>3

\* No handler starts before the others ended, and none is lost.
Calms == /\ history' \in Histories
         /\ history'.alone => history.alone
         /\ history'.lost = history.lost /\ history'.faults = history.faults

LEMMA PageKeeps ==
    ASSUME IInv, NEW v, Fit(v), Keeps(view, v), view' = v, UNCHANGED <<net, server, calls>>, Calms
    PROVE  IInv'
<1>1. /\ v.at = view.at /\ v.user = view.user /\ v.token = view.token /\ v.password = view.password
      /\ v.quota = view.quota /\ v.email = view.email
  BY DEF Keeps
<1>2. /\ ServerOK' /\ CodesOK' /\ GivenAddressesWereProved' /\ Codes' = Codes /\ Addressed' = Addressed
  BY ServiceKept DEF Calms, IInv, ServerOK
<1>3. PageOK(view)' /\ ClockOK(view)' /\ FieldsOK(view, Codes)'
  BY <1>2 DEF Fit
<1>4. RequestsOK'
  BY <1>1, <1>2 DEF IInv, RequestsOK
<1>5. PasswordOK' /\ (view.email \in Addressed)'
  BY <1>1, <1>2 DEF IInv, PasswordOK
<1>6. AloneOK'
  BY DEF IInv, AloneOK, Calms
<1>7. Patient' => Patient
  BY DEF Calms, Patient
<1>8. SessionOK'
  BY <1>1, <1>7 DEF IInv, SessionOK
<1>9. TokenOK'
  BY <1>1, <1>7 DEF IInv, TokenOK
<1>10. QuotaOK'
  BY <1>1 DEF IInv, QuotaOK, Calms
<1>. QED
  BY <1>2, <1>3, <1>4, <1>5, <1>6, <1>8, <1>9, <1>10 DEF IInv

LEMMA AloneCalms ==
    ASSUME IInv, Alone
    PROVE  Calms /\ (history'.alone => DOMAIN net = {})
<1>1. history \in Histories
  BY DEF IInv, ServerOK, Histories
<1>2. /\ history' \in Histories
      /\ history'.lost = history.lost /\ history'.faults = history.faults
      /\ history'.alone => history.alone /\ net = <<>>
  BY <1>1 DEF Alone, Histories
<1>3. net = <<>> => DOMAIN net = {}
  OBVIOUS
<1>. QED
  BY <1>2, <1>3 DEF Calms

\* A handler that only changes the page.
LEMMA ShowsKeep ==
    ASSUME IInv, NEW v, Fit(v), Keeps(view, v), Shows(v)
    PROVE  IInv'
<1>1. view' = v /\ UNCHANGED <<net, server, calls>> /\ Calms
  BY AloneCalms DEF Shows
<1>. QED
  BY <1>1, PageKeeps

LEMMA ShowsLike ==
    ASSUME IInv, NEW v, Like(view, v), Shows(v)
    PROVE  IInv'
  BY ViewFit, LikeFit, ShowsKeep

\* One tick of the countdown.
LEMMA TicksKeep == ASSUME IInv, NEW page, Ticks(page) PROVE IInv'
<1>. DEFINE v == [view EXCEPT !.gap = IF @ < Countdown THEN @ + 1 ELSE @]
            w == IF view.countdown = 1 THEN Enabled(v) ELSE [v EXCEPT !.countdown = @ - 1]
<1>1. view.disabled /\ view' = w /\ UNCHANGED <<net, server, calls, history>>
  BY DEF Ticks
<1>2. Countdown \in Nat \ {0} /\ PageOK(view) /\ ClockOK(view) /\ FieldsOK(view, Codes)
  BY AccountAssumption DEF IInv
<1>3. /\ view.gap \in 0 .. Countdown /\ view.countdown \in 1 .. Countdown
      /\ DOMAIN view = {"at", "user", "fields", "turnstile", "disabled", "countdown", "loading", "submitting",
                "dialog", "left", "link", "token", "password", "quota", "email", "fetched", "gap", "rushed"}
  BY <1>2 DEF PageOK
<1>4. Keeps(view, w) /\ w.fields = view.fields /\ w.rushed = view.rushed
  BY <1>3 DEF Keeps, Enabled
<1>5. /\ w.gap = IF view.gap < Countdown THEN view.gap + 1 ELSE view.gap
      /\ view.countdown = 1 => w.countdown = Countdown /\ ~w.disabled /\ w.disabled \in BOOLEAN
      /\ view.countdown # 1 => w.countdown = view.countdown - 1 /\ w.disabled = view.disabled
  BY <1>3 DEF Enabled
<1>. HIDE DEF w
<1>6. w.gap \in 0 .. Countdown /\ w.countdown \in 1 .. Countdown /\ w.disabled \in BOOLEAN
  BY <1>2, <1>3, <1>5 DEF PageOK
<1>7. PageOK(w)
  BY <1>2, <1>4, <1>6 DEF PageOK, Keeps
<1>8. ClockOK(w)
  <2>1. SUFFICES ASSUME view.at \in CountdownPages
                 PROVE  /\ ~view.rushed /\ w.gap + w.countdown >= Countdown
                        /\ ~w.disabled => w.gap = Countdown /\ w.countdown = Countdown
    BY <1>4 DEF ClockOK, Keeps
  <2>2. ~view.rushed /\ view.gap + view.countdown >= Countdown
    BY <1>2, <2>1 DEF ClockOK
  <2>3. CASE view.countdown = 1
    BY <1>2, <1>3, <1>5, <2>2, <2>3
  <2>4. CASE view.countdown # 1
    <3>1. w.disabled
      BY <1>1, <1>5, <2>4, Zenon
    <3>2. w.gap + w.countdown >= Countdown
      BY <1>2, <1>3, <1>5, <2>2, <2>4
    <3>. QED
      BY <2>2, <3>1, <3>2
  <2>. QED
    BY <2>3, <2>4
<1>9. Fit(w)
  BY <1>2, <1>4, <1>7, <1>8 DEF Fit, FieldsOK, Keeps
<1>10. Calms
  BY <1>1 DEF IInv, ServerOK, Calms, Histories
<1>. QED
  BY <1>1, <1>4, <1>9, <1>10, PageKeeps

----------------------------------------------------------------------------
(***************************************************************************)
(* A handler sends a request.                                              *)
(***************************************************************************)
LEMMA Fresh ==
    ASSUME NEW fn, NEW req, NEW arg, NEW was
    PROVE  LET r == Request(fn, req, arg, was)
           IN  /\ r.fn = fn /\ r.req = req /\ r.arg = arg /\ r.was = was /\ r.st = "sent"
               /\ DOMAIN r = {"fn", "req", "arg", "was", "st", "data"}
  BY DEF Request

LEMMA Sent ==
    ASSUME calls \in Nat, NEW other, \A n \in DOMAIN other : n \in 1 .. calls,
           NEW r, net' = Joined(other, calls + 1, r)
    PROVE  /\ DOMAIN net' = DOMAIN other \cup {calls + 1}
           /\ calls + 1 \notin DOMAIN other
           /\ net'[calls + 1] = r
           /\ \A n \in DOMAIN other : net'[n] = other[n]
  BY DEF Joined

\* A request the page may send.
MaySend(fn, req, arg, was) ==
    /\ AskOK(view.at, Request(fn, req, arg, was), Codes)
    /\ req # "self"

LEMMA SendsKeep ==
    ASSUME IInv, NEW v, Fit(v), Keeps(view, v), NEW fn, NEW req, NEW arg, NEW was,
           MaySend(fn, req, arg, was), SendsWith(v, fn, req, arg, was)
    PROVE  IInv'
<1>. DEFINE r == Request(fn, req, arg, was)
<1>1. /\ v.at = view.at /\ v.user = view.user /\ v.token = view.token /\ v.password = view.password
      /\ v.quota = view.quota /\ v.email = view.email
  BY DEF Keeps
<1>2. /\ calls' = calls + 1 /\ net' = Joined(net, calls + 1, r) /\ view' = v /\ Alone /\ UNCHANGED server
  BY DEF SendsWith
<1>3. calls \in Nat /\ \A n \in DOMAIN net : n \in 1 .. calls
  BY DEF IInv, ServerOK, RequestsOK
<1>4. /\ DOMAIN net' = DOMAIN net \cup {calls + 1} /\ calls + 1 \notin DOMAIN net
      /\ net'[calls + 1] = r /\ \A n \in DOMAIN net : net'[n] = net[n]
  BY <1>2, <1>3, Sent
<1>5. r.req = req /\ r.st = "sent"
  BY Fresh
<1>6. AskOK(view.at, r, Codes) /\ req # "self"
  BY DEF MaySend
<1>. HIDE DEF r
<1>7. /\ history' \in Histories
      /\ history'.alone => history.alone /\ DOMAIN net = {}
      /\ history'.lost = history.lost /\ history'.faults = history.faults
  BY <1>2, AloneCalms DEF Calms
<1>8. ServerOK' /\ CodesOK' /\ GivenAddressesWereProved' /\ Codes' = Codes /\ Addressed' = Addressed
  <2>1. calls' \in Nat
    BY <1>2, <1>3
  <2>. QED
    BY <1>2, <1>7, <2>1, ServiceKept
<1>9. PageOK(view)' /\ ClockOK(view)' /\ FieldsOK(view, Codes)'
  BY <1>2, <1>8 DEF Fit
<1>10. RequestsOK'
  <2>1. AnswerOK(r, Addressed)
    BY <1>5 DEF AnswerOK
  <2>2. calls + 1 \in 1 .. calls' /\ \A n \in DOMAIN net : n \in 1 .. calls'
    BY <1>2, <1>3
  <2>. QED
    BY <1>1, <1>2, <1>4, <1>6, <1>8, <2>1, <2>2 DEF IInv, RequestsOK
<1>11. PasswordOK' /\ (view.email \in Addressed)'
  BY <1>1, <1>2, <1>4, <1>5, <1>8 DEF IInv, PasswordOK
<1>12. AloneOK'
  BY <1>4, <1>7 DEF AloneOK
<1>13. Patient' => Patient /\ DOMAIN net = {}
  BY <1>7 DEF Patient
<1>14. SessionOK'
  BY <1>1, <1>2, <1>4, <1>5, <1>13 DEF IInv, SessionOK
<1>15. TokenOK'
  BY <1>1, <1>2, <1>4, <1>5, <1>13 DEF IInv, TokenOK
<1>16. QuotaOK'
  <2>1. ASSUME view.at \in WalletPages, ~history'.lost
        PROVE  view.user = "me" /\ req = "topup"
    BY <1>5, <1>6, <1>7, <2>1 DEF IInv, QuotaOK, AskOK
  <2>2. ASSUME view.at \in WalletPages, ~history'.lost, history'.alone, history'.faults = 0
        PROVE  view.quota = server.quota /\ DOMAIN net = {}
    BY <1>7, <2>2 DEF IInv, QuotaOK
  <2>3. ASSUME view.at \in WalletPages, ~history'.lost, history'.alone, history'.faults = 0
        PROVE  /\ DOMAIN net' # {} /\ server.quota = view.quota + 0
               /\ \A n \in DOMAIN net' : net'[n].st = "sent" /\ net'[n].req = "topup"
    <3>1. view.quota \in Int
      BY DEF IInv, PageOK
    <3>. QED
      BY <1>4, <1>5, <2>1, <2>2, <2>3, <3>1
  <2>. QED
    BY <1>1, <1>2, <2>1, <2>3 DEF QuotaOK
<1>. QED
  BY <1>8, <1>9, <1>10, <1>11, <1>12, <1>14, <1>15, <1>16 DEF IInv

LEMMA SendsLike ==
    ASSUME IInv, NEW v, Like(view, v), NEW fn, NEW req, NEW arg, NEW was,
           MaySend(fn, req, arg, was), SendsWith(v, fn, req, arg, was)
    PROVE  IInv'
  BY ViewFit, LikeFit, SendsKeep

----------------------------------------------------------------------------
(***************************************************************************)
(* A handler ends.                                                         *)
(***************************************************************************)
\* What the handler that waited for r may make of the page v.
Told(v, r, w) ==
    /\ DOMAIN w = DOMAIN v
    /\ \/ w.user = v.user
       \/ w.user = "none" /\ r.req = "logout"
       \/ w.user = "me" /\ r.st = "ok" /\ r.req \in SignsIn
    /\ r.req = "logout" => w.user = "none"
    /\ r.req = "delete" => r.st = "refused"
    /\ r.req = "token" => r.st # "failed"
    /\ IF r.req = "token" /\ r.st = "ok" THEN w.token = r.data ELSE w.token \in {v.token, 0}
    /\ w.password = v.password \/ (r.req = "user/reset" /\ r.st = "ok" /\ w.password = r.data)
    /\ v.at \in WalletPages =>
          w.quota = CASE r.st = "ok" /\ r.req = "self" -> r.data.quota
                      [] r.st = "ok" /\ r.req = "topup" -> v.quota + r.data
                      [] OTHER -> v.quota
    /\ \/ w.email = v.email
       \/ r.st = "ok" /\ r.req = "self" /\ w.email = r.data.email
       \/ r.st = "ok" /\ r.req = "email/bind" /\ w.email = r.arg.email

LEMMA EndsKeep ==
    ASSUME IInv, NEW n \in DOMAIN net, NEW v, Fit(v), Told(view, net[n], v),
           net[n].st \in {"ok", "refused", "failed"}, Ends(n, v)
    PROVE  IInv'
<1>1. /\ view' = v /\ UNCHANGED <<server, calls, history>> /\ v.at = view.at
      /\ DOMAIN net' = DOMAIN net \ {n} /\ \A m \in DOMAIN net' : net'[m] = net[m]
  BY DEF Ends, Without, Fit
<1>2. ServerOK' /\ CodesOK' /\ GivenAddressesWereProved' /\ Codes' = Codes /\ Addressed' = Addressed
  <2>1. history' \in Histories /\ calls' \in Nat
    BY <1>1 DEF IInv, ServerOK, Histories
  <2>. QED
    BY <1>1, <2>1, ServiceKept
<1>3. PageOK(view)' /\ ClockOK(view)' /\ FieldsOK(view, Codes)'
  BY <1>1, <1>2 DEF Fit
<1>4. RequestsOK'
  BY <1>1, <1>2 DEF IInv, RequestsOK
<1>5. AskOK(view.at, net[n], Codes) /\ AnswerOK(net[n], Addressed)
  BY DEF IInv, RequestsOK
<1>6. (view.email \in Addressed)'
  BY <1>1, <1>2, <1>5 DEF IInv, Told, AnswerOK
<1>7. PasswordOK'
  <2>1. CASE view.at \in ConfirmPages
    <3>1. net[n].st = "ok" => server.password = 1 /\ net[n].data = 1
      BY <2>1 DEF IInv, PasswordOK
    <3>. QED
      BY <1>1, <2>1, <3>1 DEF IInv, PasswordOK, Told
  <2>2. CASE view.at \notin ConfirmPages
    BY <1>1, <1>3, <2>2 DEF PasswordOK, PageOK
  <2>. QED
    BY <2>1, <2>2
<1>8. AloneOK'
  BY <1>1 DEF IInv, AloneOK
<1>9. Patient' => Patient
  BY <1>1 DEF Patient
<1>10. SessionOK'
  <2>1. ASSUME Patient, v.user = "me", ~(server.session /\ server.exists)
        PROVE  \E m \in DOMAIN net' : Leaving(net'[m])
    <3>1. net[n].req # "logout" /\ ~(net[n].st = "ok" /\ net[n].req \in SignsIn) /\ view.user = "me"
      BY <2>1 DEF IInv, SessionOK, Told
    <3>2. PICK m \in DOMAIN net : Leaving(net[m])
      BY <2>1, <3>1 DEF IInv, SessionOK
    <3>3. ~Leaving(net[n])
      BY <3>1 DEF Told, Leaving
    <3>. QED
      BY <1>1, <3>2, <3>3
  <2>2. ASSUME Patient
        PROVE  \A m \in DOMAIN net' : net'[m].req \in SignsIn /\ net'[m].st = "ok" => server.session /\ server.exists
    BY <1>1, <2>2 DEF IInv, SessionOK
  <2>. QED
    BY <1>1, <1>9, <2>1, <2>2 DEF IInv, SessionOK
<1>11. TokenOK'
  <2>. SUFFICES ASSUME Patient
                PROVE  /\ \/ v.token \in {0, server.token}
                          \/ \E m \in DOMAIN net' : net'[m].req = "token" /\ net'[m].st \in {"ok", "failed"}
                       /\ \A m \in DOMAIN net' : net'[m].req = "token" /\ net'[m].st = "ok" => net'[m].data = server.token
    BY <1>1, <1>9 DEF TokenOK
  <2>1. /\ \/ view.token \in {0, server.token}
           \/ \E m \in DOMAIN net : net[m].req = "token" /\ net[m].st \in {"ok", "failed"}
        /\ \A m \in DOMAIN net : net[m].req = "token" /\ net[m].st = "ok" => net[m].data = server.token
    BY DEF IInv, TokenOK
  <2>2. CASE net[n].req = "token" /\ net[n].st = "ok"
    BY <1>1, <2>1, <2>2 DEF Told
  <2>3. CASE ~(net[n].req = "token" /\ net[n].st = "ok")
    <3>1. v.token \in {view.token, 0} /\ ~(net[n].req = "token" /\ net[n].st \in {"ok", "failed"})
      BY <2>3 DEF Told
    <3>. QED
      BY <1>1, <2>1, <3>1
  <2>. QED
    BY <2>2, <2>3
<1>12. QuotaOK'
  <2>. SUFFICES ASSUME view.at \in WalletPages, ~history.lost
                PROVE  v.user = "me" /\ (history.alone /\ history.faults = 0 => DOMAIN net' = {} /\ v.quota = server.quota)
    BY <1>1 DEF QuotaOK
  <2>1. net[n].req \in {"self", "topup"} /\ view.user = "me"
    BY <1>5 DEF AskOK, IInv, QuotaOK
  <2>2. v.user = "me"
    BY <2>1 DEF Told
  <2>3. ASSUME history.alone, history.faults = 0
        PROVE  DOMAIN net' = {} /\ v.quota = server.quota
    <3>1. \A m \in DOMAIN net : n = m
      BY <2>1, <2>3 DEF IInv, AloneOK
    <3>2. CASE net[n].req = "self"
      <4>1. net[n].st = "ok" /\ net[n].data.quota = server.quota
        BY <2>3, <3>2 DEF IInv, QuotaOK
      <4>2. v.quota = net[n].data.quota
        BY <3>2, <4>1 DEF Told
      <4>. QED
        BY <1>1, <3>1, <4>1, <4>2
    <3>3. CASE net[n].req = "topup"
      <4>1. /\ net[n].st \in {"ok", "refused"}
            /\ server.quota = view.quota + IF net[n].st = "ok" THEN 1 ELSE 0
        BY <2>3, <3>3 DEF IInv, QuotaOK
      <4>2. net[n].st = "ok" => net[n].data = 1
        BY <1>5, <3>3 DEF AnswerOK
      <4>3. /\ net[n].st = "ok" => v.quota = view.quota + net[n].data
            /\ net[n].st # "ok" => v.quota = view.quota
        BY <3>3 DEF Told
      <4>4. view.quota \in Int
        BY DEF IInv, PageOK
      <4>. QED
        BY <1>1, <3>1, <4>1, <4>2, <4>3, <4>4
    <3>. QED
      BY <2>1, <3>2, <3>3
  <2>. QED
    BY <2>2, <2>3
<1>. QED
  BY <1>2, <1>3, <1>4, <1>6, <1>7, <1>8, <1>10, <1>11, <1>12 DEF IInv

----------------------------------------------------------------------------
(***************************************************************************)
(* A handler goes on to another request: after the deletion of the account *)
(* to the end of the session, and after an attempt to sign in with OAuth   *)
(* to the next.                                                            *)
(***************************************************************************)
LEMMA GoesOnKeep ==
    ASSUME IInv, NEW n \in DOMAIN net, NEW fn, NEW req, NEW arg, NEW was,
           MaySend(fn, req, arg, was), GoesOn(n, view, fn, req, arg, was),
           \/ net[n].req = "delete" /\ net[n].st = "ok" /\ req = "logout"
           \/ net[n].req \in {"login", "wechat", "oauth"} /\ req = "oauth"
    PROVE  IInv'
<1>. DEFINE r == Request(fn, req, arg, was)
            rest == Without(n)
<1>1. /\ calls' = calls + 1 /\ net' = Joined(rest, calls + 1, r) /\ UNCHANGED <<view, server, history>>
  BY DEF GoesOn
<1>2. DOMAIN rest = DOMAIN net \ {n} /\ \A m \in DOMAIN rest : rest[m] = net[m]
  BY DEF Without
<1>3. calls \in Nat /\ \A m \in DOMAIN net : m \in 1 .. calls
  BY DEF IInv, ServerOK, RequestsOK
<1>. HIDE DEF rest
<1>4. \A m \in DOMAIN rest : m \in 1 .. calls
  BY <1>2, <1>3
<1>5. /\ DOMAIN net' = (DOMAIN net \ {n}) \cup {calls + 1} /\ calls + 1 \notin DOMAIN net
      /\ net'[calls + 1] = r /\ \A m \in DOMAIN net \ {n} : net'[m] = net[m]
  <2>1. /\ DOMAIN net' = DOMAIN rest \cup {calls + 1} /\ net'[calls + 1] = r
        /\ \A m \in DOMAIN rest : net'[m] = net[m]
    BY <1>1, <1>2, <1>3, <1>4, Sent
  <2>2. calls + 1 \notin DOMAIN net
    BY <1>3
  <2>. QED
    BY <1>2, <2>1, <2>2
<1>6. r.req = req /\ r.st = "sent"
  BY Fresh
<1>7. AskOK(view.at, r, Codes) /\ AskOK(view.at, net[n], Codes)
  BY DEF MaySend, IInv, RequestsOK
<1>. HIDE DEF r
<1>8. ServerOK' /\ CodesOK' /\ GivenAddressesWereProved' /\ Codes' = Codes /\ Addressed' = Addressed
  <2>1. history' \in Histories /\ calls' \in Nat
    BY <1>1, <1>3 DEF IInv, ServerOK, Histories
  <2>. QED
    BY <1>1, <2>1, ServiceKept
<1>9. PageOK(view)' /\ ClockOK(view)' /\ FieldsOK(view, Codes)' /\ (view.email \in Addressed)'
  BY <1>1, <1>8 DEF IInv
<1>10. RequestsOK'
  <2>1. AnswerOK(r, Addressed)
    BY <1>6 DEF AnswerOK
  <2>2. calls + 1 \in 1 .. calls' /\ \A m \in DOMAIN net : m \in 1 .. calls'
    BY <1>1, <1>3
  <2>. QED
    BY <1>1, <1>5, <1>7, <1>8, <2>1, <2>2 DEF IInv, RequestsOK
<1>11. PasswordOK'
  BY <1>1, <1>5, <1>6 DEF IInv, PasswordOK
<1>12. AloneOK'
  BY <1>1, <1>5 DEF IInv, AloneOK
<1>13. SessionOK'
  <2>1. \A m \in DOMAIN net : Leaving(net[m]) => \E k \in DOMAIN net' : Leaving(net'[k])
    <3>1. CASE net[n].req = "delete"
      BY <1>5, <1>6, <3>1 DEF Leaving
    <3>2. CASE net[n].req # "delete"
      BY <1>5, <3>2 DEF Leaving
    <3>. QED
      BY <3>1, <3>2
  <2>. QED
    BY <1>1, <1>5, <1>6, <2>1 DEF IInv, SessionOK, Patient
<1>14. TokenOK'
  BY <1>1, <1>5, <1>6 DEF IInv, TokenOK, Patient
<1>15. QuotaOK'
  BY <1>1, <1>7 DEF AskOK, QuotaOK
<1>. QED
  BY <1>8, <1>9, <1>10, <1>11, <1>12, <1>13, <1>14, <1>15 DEF IInv

----------------------------------------------------------------------------
(***************************************************************************)
(* A handler is lost, and with it what it would have told.                 *)
(***************************************************************************)
LEMMA LostKeep ==
    ASSUME IInv, UNCHANGED <<server, calls>>, history' = [history EXCEPT !.lost = TRUE],
           DOMAIN net' \subseteq DOMAIN net, \A m \in DOMAIN net' : net'[m] = net[m],
           Fit(view'), view'.password = view.password, view'.email = view.email
    PROVE  IInv'
<1>1. /\ history' \in Histories /\ history'.lost /\ history'.alone = history.alone
      /\ calls' \in Nat /\ view'.at = view.at
  BY DEF IInv, ServerOK, Histories, Fit
<1>2. ServerOK' /\ CodesOK' /\ GivenAddressesWereProved' /\ Codes' = Codes /\ Addressed' = Addressed
  BY <1>1, ServiceKept
<1>3. PageOK(view)' /\ ClockOK(view)' /\ FieldsOK(view, Codes)'
  BY <1>2 DEF Fit
<1>4. RequestsOK'
  BY <1>1, <1>2 DEF IInv, RequestsOK
<1>5. PasswordOK' /\ (view.email \in Addressed)'
  BY <1>1, <1>2 DEF IInv, PasswordOK
<1>6. AloneOK'
  BY <1>1 DEF IInv, AloneOK
<1>7. SessionOK' /\ TokenOK' /\ QuotaOK'
  BY <1>1 DEF IInv, SessionOK, TokenOK, QuotaOK, Patient
<1>. QED
  BY <1>2, <1>3, <1>4, <1>5, <1>6, <1>7 DEF IInv

LEMMA RejectedKeep == ASSUME IInv, NEW n \in DOMAIN net, Rejected(n) PROVE IInv'
<1>1. /\ UNCHANGED <<view, server, calls>> /\ history' = [history EXCEPT !.lost = TRUE]
      /\ DOMAIN net' \subseteq DOMAIN net /\ \A m \in DOMAIN net' : net'[m] = net[m]
  BY DEF Rejected, Without
<1>2. Fit(view')
  BY <1>1, ViewFit
<1>. QED
  BY <1>1, <1>2, LostKeep

LEMMA ReloadsKeep ==
    ASSUME IInv, NEW pages, NEW v, Reloads(pages, v), v \in {view, SignedOut(view)}
    PROVE  IInv'
<1>1. /\ view' = [v EXCEPT !.left = TRUE] /\ net' = <<>> /\ history' = [history EXCEPT !.lost = TRUE]
      /\ UNCHANGED <<server, calls>>
  BY DEF Reloads
<1>2. DOMAIN net' = {}
  BY <1>1
<1>3. Fit(view') /\ view'.password = view.password /\ view'.email = view.email
  <2>1. Fit(view) /\ PageOK(view)
    BY ViewFit DEF IInv
  <2>2. CASE v = view
    <3>1. Like(view, view')
      BY <1>1, <2>1, <2>2, Cosmetics
    <3>. QED
      BY <2>1, <3>1, LikeFit DEF Keeps
  <2>3. CASE v = SignedOut(view)
    <3>. DEFINE u == [view EXCEPT !.user = "none"]
    <3>1. Fit(u) /\ u.password = view.password /\ u.email = view.email /\ DOMAIN u = DOMAIN view
      BY <2>1 DEF Fit, PageOK, ClockOK, FieldsOK
    <3>2. view' = [u EXCEPT !.left = TRUE]
      BY <1>1, <2>3 DEF SignedOut
    <3>. HIDE DEF u
    <3>3. Like(u, view')
      BY <3>1, <3>2, Cosmetics DEF Fit
    <3>. QED
      BY <3>1, <3>3, LikeFit DEF Keeps
  <2>. QED
    BY <2>2, <2>3
<1>. QED
  BY <1>1, <1>2, <1>3, LostKeep

----------------------------------------------------------------------------
(***************************************************************************)
(* Steps of the service, which leave the page alone.                       *)
(***************************************************************************)
\* Request n is now st.
Replied(n, st) ==
    /\ n \in DOMAIN net /\ DOMAIN net' = DOMAIN net
    /\ \A m \in DOMAIN net : m # n => net'[m] = net[m]
    /\ DOMAIN net'[n] = DOMAIN net[n] /\ net'[n].fn = net[n].fn
    /\ net'[n].req = net[n].req /\ net'[n].arg = net[n].arg /\ net'[n].st = st
    /\ UNCHANGED <<view, calls>>
    /\ history' \in Histories /\ history'.alone = history.alone /\ history'.lost = history.lost

LEMMA Becomes ==
    ASSUME IInv, NEW n \in DOMAIN net, NEW st, NEW data, UNCHANGED <<view, calls>>,
           \/ net' = [net EXCEPT ![n].st = st]
           \/ net' = [net EXCEPT ![n].st = st, ![n].data = data]
    PROVE  /\ UNCHANGED history => Replied(n, st)
           /\ history' = [history EXCEPT !.faults = @ + 1] => Replied(n, st) /\ history'.faults # 0
           /\ net' = [net EXCEPT ![n].st = st, ![n].data = data] => net'[n].data = data
<1>1. DOMAIN net[n] = {"fn", "req", "arg", "was", "st", "data"} /\ history \in Histories
  BY DEF IInv, RequestsOK, AskOK, ServerOK, Histories
<1>2. /\ DOMAIN net' = DOMAIN net /\ \A m \in DOMAIN net : m # n => net'[m] = net[m]
      /\ DOMAIN net'[n] = DOMAIN net[n] /\ net'[n].fn = net[n].fn
      /\ net'[n].req = net[n].req /\ net'[n].arg = net[n].arg /\ net'[n].st = st
  <2>1. CASE net' = [net EXCEPT ![n].st = st]
    BY <1>1, <2>1
  <2>2. CASE net' = [net EXCEPT ![n].st = st, ![n].data = data]
    BY <1>1, <2>2
  <2>. QED
    BY <2>1, <2>2
<1>3. net' = [net EXCEPT ![n].st = st, ![n].data = data] => net'[n].data = data
  BY <1>1
<1>4. history' = [history EXCEPT !.faults = @ + 1] =>
        /\ history' \in Histories /\ history'.alone = history.alone /\ history'.lost = history.lost
        /\ history'.faults # 0
  BY <1>1 DEF Histories
<1>. QED
  BY <1>1, <1>2, <1>3, <1>4 DEF Replied

\* What the service gave and mailed stays so.
Recorded == server.given \subseteq server'.given /\ server.inbox \subseteq server'.inbox

\* It answers the wallets at once and truly.
WalletTold(n, st) ==
    view.at \in WalletPages /\ Patient /\ history'.faults = 0 =>
        /\ st \in {"ok", "refused"}
        /\ net[n].req = "self" => st = "ok" /\ net'[n].data.quota = server'.quota /\ server'.quota = server.quota
        /\ net[n].req = "topup" => server'.quota = server.quota + IF st = "ok" THEN 1 ELSE 0

\* What it does to the session is told by the answer.
SessionTold(n, st) ==
    /\ server'.exists = server.exists \/ view.at \in DeletePages
    /\ Patient /\ server.session /\ server.exists /\ ~Leaving(net'[n]) => server'.session /\ server'.exists
    /\ Patient /\ st = "ok" /\ net[n].req \in SignsIn => server'.session /\ server'.exists

TokenTold(n, st) ==
    IF net[n].req = "token" /\ st = "ok" THEN net'[n].data = server'.token ELSE server'.token = server.token

LEMMA RepliesKeep ==
    ASSUME IInv, NEW n, NEW st \in {"ok", "refused", "expired"}, Replied(n, st), net[n].st = "sent",
           ServerOK', CodesOK', GivenAddressesWereProved', Recorded,
           AnswerOK(net[n], Addressed)', view.at \in ConfirmPages => PasswordOK',
           history'.faults = 0 => history.faults = 0,
           SessionTold(n, st), TokenTold(n, st), WalletTold(n, st)
    PROVE  IInv'
<1>1. /\ n \in DOMAIN net /\ DOMAIN net' = DOMAIN net
      /\ \A m \in DOMAIN net : m # n => net'[m] = net[m]
      /\ DOMAIN net'[n] = DOMAIN net[n] /\ net'[n].fn = net[n].fn
      /\ net'[n].req = net[n].req /\ net'[n].arg = net[n].arg /\ net'[n].st = st
      /\ UNCHANGED <<view, calls>>
      /\ history' \in Histories /\ history'.alone = history.alone /\ history'.lost = history.lost
  BY DEF Replied
<1>2. \A m \in DOMAIN net : AskOK(view.at, net[m], Codes) /\ AnswerOK(net[m], Addressed) /\ m \in 1 .. calls
  BY DEF IInv, RequestsOK
<1>3. Codes \subseteq Codes' /\ Addressed \subseteq Addressed'
  BY DEF Recorded, Codes, Addressed
<1>4. PageOK(view)' /\ ClockOK(view)' /\ FieldsOK(view, Codes)' /\ (view.email \in Addressed)'
  BY <1>1, <1>3 DEF IInv, FieldsOK
<1>5. RequestsOK'
  <2>1. \A m \in DOMAIN net : AskOK(view.at, net[m], Codes')
    BY <1>2, <1>3 DEF AskOK
  <2>2. AskOK(view.at, net'[n], Codes')
    BY <1>1, <2>1 DEF AskOK, SentBy
  <2>3. \A m \in DOMAIN net : AnswerOK(net[m], Addressed')
    BY <1>2, <1>3 DEF AnswerOK
  <2>. QED
    BY <1>1, <1>2, <2>1, <2>2, <2>3 DEF RequestsOK
<1>6. PasswordOK'
  BY <1>1, <1>4 DEF PasswordOK, PageOK
<1>7. AloneOK'
  BY <1>1 DEF IInv, AloneOK
<1>8. Patient' => Patient
  BY <1>1 DEF Patient
<1>9. Patient => \A m \in DOMAIN net : m # n => net[m].req = "read"
  BY <1>1 DEF IInv, AloneOK, Patient
<1>10. SessionOK'
  <2>1. ~server'.exists => view'.at \in DeletePages
    BY <1>1 DEF SessionTold, IInv, SessionOK
  <2>2. ASSUME Patient, view.user = "me", ~(server'.session /\ server'.exists)
        PROVE  \E m \in DOMAIN net' : Leaving(net'[m])
    <3>1. CASE server.session /\ server.exists
      BY <1>1, <2>2, <3>1 DEF SessionTold
    <3>2. CASE ~(server.session /\ server.exists)
      <4>1. PICK m \in DOMAIN net : Leaving(net[m])
        BY <2>2, <3>2 DEF IInv, SessionOK
      <4>2. m = n => Leaving(net'[m])
        BY <1>1, <4>1 DEF Leaving
      <4>. QED
        BY <1>1, <4>1, <4>2
    <3>. QED
      BY <3>1, <3>2
  <2>3. ASSUME Patient
        PROVE  \A m \in DOMAIN net' : net'[m].req \in SignsIn /\ net'[m].st = "ok" => server'.session /\ server'.exists
    BY <1>1, <1>9, <2>3 DEF SessionTold, SignsIn
  <2>. QED
    BY <1>1, <1>8, <2>1, <2>2, <2>3 DEF SessionOK
<1>11. TokenOK'
  <2>. SUFFICES ASSUME Patient
                PROVE  /\ \/ view.token \in {0, server'.token}
                          \/ \E m \in DOMAIN net' : net'[m].req = "token" /\ net'[m].st \in {"ok", "failed"}
                       /\ \A m \in DOMAIN net' : net'[m].req = "token" /\ net'[m].st = "ok" => net'[m].data = server'.token
    BY <1>1, <1>8 DEF TokenOK
  <2>1. \/ view.token \in {0, server.token}
        \/ \E m \in DOMAIN net : net[m].req = "token" /\ net[m].st \in {"ok", "failed"}
    BY DEF IInv, TokenOK
  <2>2. CASE net[n].req = "token" /\ st = "ok"
    BY <1>1, <1>9, <2>2 DEF TokenTold
  <2>3. CASE ~(net[n].req = "token" /\ st = "ok")
    BY <1>1, <1>9, <2>1, <2>3 DEF TokenTold
  <2>. QED
    BY <2>2, <2>3
<1>12. QuotaOK'
  <2>. SUFFICES ASSUME view.at \in WalletPages, ~history.lost
                PROVE  /\ view.user = "me"
                       /\ history.alone /\ history'.faults = 0 =>
                            /\ DOMAIN net # {}
                            /\ \A m \in DOMAIN net' :
                                  /\ net'[m].st \in {"sent", "ok", "refused"}
                                  /\ net'[m].req = "self" =>
                                        net'[m].st # "refused" /\ (net'[m].st = "ok" => net'[m].data.quota = server'.quota)
                                  /\ net'[m].req = "topup" =>
                                        server'.quota = view.quota + IF net'[m].st = "ok" THEN 1 ELSE 0
    BY <1>1 DEF QuotaOK
  <2>1. view.user = "me"
    BY DEF IInv, QuotaOK
  <2>2. ASSUME history.alone, history'.faults = 0
        PROVE  /\ DOMAIN net = {n} /\ st \in {"ok", "refused"} /\ net[n].req \in {"self", "topup"}
               /\ net[n].req = "self" => st = "ok" /\ net'[n].data.quota = server'.quota
               /\ net[n].req = "topup" => server'.quota = view.quota + IF st = "ok" THEN 1 ELSE 0
    <3>1. Patient
      BY <2>2 DEF Patient
    <3>2. net[n].req \in {"self", "topup"} /\ \A m \in DOMAIN net : net[m].req # "read"
      BY <1>1, <1>2 DEF AskOK
    <3>3. DOMAIN net = {n}
      BY <1>1, <1>9, <3>1, <3>2
    <3>4. net[n].req = "topup" => server.quota = view.quota + 0
      BY <1>1, <2>2 DEF IInv, QuotaOK
    <3>5. view.quota \in Int /\ server.quota \in Int
      BY DEF IInv, PageOK, ServerOK
    <3>6. /\ st \in {"ok", "refused"}
          /\ net[n].req = "self" => st = "ok" /\ net'[n].data.quota = server'.quota
          /\ net[n].req = "topup" => server'.quota = server.quota + IF st = "ok" THEN 1 ELSE 0
      BY <2>2, <3>1 DEF WalletTold
    <3>. QED
      BY <3>2, <3>3, <3>4, <3>5, <3>6
  <2>. QED
    BY <1>1, <2>1, <2>2
<1>. QED
  BY <1>4, <1>5, <1>6, <1>7, <1>10, <1>11, <1>12 DEF IInv

\* A request fails, before it was handled or after, or because there was no session.
LEMMA FailsKeep ==
    ASSUME IInv, NEW n, Replied(n, "failed"), net[n].st \in {"sent", "ok", "expired"}, UNCHANGED server,
           \/ history'.faults # 0 \/ view.at \notin WalletPages
           \/ net[n].st = "expired" /\ UNCHANGED history
    PROVE  IInv'
<1>1. /\ n \in DOMAIN net /\ DOMAIN net' = DOMAIN net
      /\ \A m \in DOMAIN net : m # n => net'[m] = net[m]
      /\ DOMAIN net'[n] = DOMAIN net[n] /\ net'[n].fn = net[n].fn
      /\ net'[n].req = net[n].req /\ net'[n].arg = net[n].arg /\ net'[n].st = "failed"
      /\ UNCHANGED <<view, calls>>
      /\ history' \in Histories /\ history'.alone = history.alone /\ history'.lost = history.lost
  BY DEF Replied
<1>2. ServerOK' /\ CodesOK' /\ GivenAddressesWereProved' /\ Codes' = Codes /\ Addressed' = Addressed
  BY <1>1, ServiceKept DEF IInv, ServerOK
<1>3. PageOK(view)' /\ ClockOK(view)' /\ FieldsOK(view, Codes)' /\ (view.email \in Addressed)'
  BY <1>1, <1>2 DEF IInv
<1>4. RequestsOK'
  <2>1. \A m \in DOMAIN net : AskOK(view.at, net[m], Codes) /\ AnswerOK(net[m], Addressed) /\ m \in 1 .. calls
    BY DEF IInv, RequestsOK
  <2>2. AskOK(view.at, net'[n], Codes)
    BY <1>1, <2>1 DEF AskOK, SentBy
  <2>3. AnswerOK(net'[n], Addressed)
    BY <1>1 DEF AnswerOK
  <2>. QED
    BY <1>1, <1>2, <2>1, <2>2, <2>3 DEF RequestsOK
<1>5. PasswordOK'
  BY <1>1 DEF IInv, PasswordOK
<1>6. AloneOK'
  BY <1>1 DEF IInv, AloneOK
<1>7. Patient' => Patient
  BY <1>1 DEF Patient
<1>8. SessionOK'
  <2>1. \A m \in DOMAIN net : Leaving(net[m]) => Leaving(net'[m])
    BY <1>1 DEF Leaving
  <2>. QED
    BY <1>1, <1>7, <2>1 DEF IInv, SessionOK
<1>9. TokenOK'
  <2>1. \A m \in DOMAIN net : net[m].req = "token" /\ net[m].st \in {"ok", "failed"} =>
            net'[m].req = "token" /\ net'[m].st \in {"ok", "failed"}
    BY <1>1
  <2>. QED
    BY <1>1, <1>7, <2>1 DEF IInv, TokenOK
<1>10. QuotaOK'
  BY <1>1 DEF IInv, QuotaOK
<1>. QED
  BY <1>2, <1>3, <1>4, <1>5, <1>6, <1>8, <1>9, <1>10 DEF IInv

----------------------------------------------------------------------------
(***************************************************************************)
(* The handlers of the service.                                            *)
(***************************************************************************)
\* Nothing is given, mailed or withdrawn.
LEMMA RecordsKept ==
    ASSUME IInv, server'.codes = server.codes, server'.issued = server.issued, server'.inbox = server.inbox,
           server'.given = server.given, server'.verifies = server.verifies
    PROVE  /\ CodesOK' /\ GivenAddressesWereProved' /\ Recorded
           /\ Codes' = Codes /\ Addressed' = Addressed
<1>1. CodesOK' /\ GivenAddressesWereProved'
  BY DEF IInv, CodesOK, GivenAddressesWereProved
<1>2. Recorded /\ Codes' = Codes /\ Addressed' = Addressed
  BY DEF Recorded, Codes, Addressed
<1>. QED
  BY <1>1, <1>2

\* Only what a request for a new password does concerns a confirmation page.
LEMMA Elsewhere_ ==
    ASSUME IInv, NEW n \in DOMAIN net
    PROVE  /\ net[n].req # "user/reset" => view.at \notin ConfirmPages
           /\ view.at \in WalletPages => net[n].req \in {"self", "topup"}
  BY DEF IInv, RequestsOK, AskOK

\* Nobody is signed out on a wallet page while its reader waits.
LEMMA WalletSession ==
    ASSUME IInv, view.at \in WalletPages, Patient
    PROVE  server.session /\ server.exists
<1>1. view.user = "me" /\ \A n \in DOMAIN net : net[n].req \in {"self", "topup"}
  BY Elsewhere_ DEF IInv, QuotaOK, Patient
<1>. QED
  BY <1>1 DEF IInv, SessionOK, Leaving

\* The service does not change and refuses, or finds no session.
LEMMA RefusesKeep ==
    ASSUME IInv, NEW n \in DOMAIN net, NEW st \in {"refused", "expired"}, net[n].st = "sent",
           net' = [net EXCEPT ![n].st = st], UNCHANGED <<view, server, calls, history>>,
           view.at \in WalletPages /\ Patient => st = "refused" /\ net[n].req = "topup"
    PROVE  IInv'
<1>1. Replied(n, st)
  BY Becomes
<1>2. /\ ServerOK' /\ CodesOK' /\ GivenAddressesWereProved' /\ Codes' = Codes /\ Addressed' = Addressed
  BY ServiceKept DEF IInv, ServerOK, Histories
<1>3. Recorded
  BY DEF Recorded
<1>4. AnswerOK(net[n], Addressed)'
  BY <1>1 DEF Replied, AnswerOK
<1>5. view.at \in ConfirmPages => PasswordOK'
  BY <1>1 DEF IInv, PasswordOK, Replied
<1>6. SessionTold(n, st) /\ TokenTold(n, st)
  BY DEF SessionTold, TokenTold
<1>7. WalletTold(n, st)
  BY DEF WalletTold, IInv, ServerOK
<1>. QED
  BY <1>1, <1>2, <1>3, <1>4, <1>5, <1>6, <1>7, RepliesKeep

LEMMA RefusedKeep ==
    ASSUME IInv, NEW n \in DOMAIN net, net[n].st = "sent", net[n].req # "self", Refuses(n)
    PROVE  IInv'
<1>1. net' = [net EXCEPT ![n].st = "refused"] /\ UNCHANGED <<view, server, calls, history>>
  BY DEF Refuses, Refused
<1>2. view.at \in WalletPages => net[n].req = "topup"
  BY Elsewhere_
<1>. QED
  BY <1>1, <1>2, RefusesKeep

\* Without a session, or with that of an account that is no more.
LEMMA UnauthorisedKeep ==
    ASSUME IInv, NEW n \in DOMAIN net, net[n].st = "sent", net[n].req # "user/reset",
           \/ ~server.session /\ Unauthorised(n)
           \/ server.session /\ ~server.exists /\ Banned(n)
    PROVE  IInv'
<1>1. CASE ~server.session /\ Unauthorised(n)
  <2>1. net' = [net EXCEPT ![n].st = "expired"] /\ UNCHANGED <<view, server, calls, history>>
    BY <1>1 DEF Unauthorised
  <2>2. ~(view.at \in WalletPages /\ Patient)
    BY <1>1, WalletSession
  <2>. QED
    BY <2>1, <2>2, RefusesKeep
<1>2. CASE server.session /\ ~server.exists /\ Banned(n)
  <2>1. /\ net' = [net EXCEPT ![n].st = "refused"] /\ UNCHANGED <<view, calls, history>>
        /\ server' = [server EXCEPT !.session = FALSE]
    BY <1>2 DEF Banned
  <2>2. Replied(n, "refused")
    BY <2>1, Becomes
  <2>3. ServerOK
    BY DEF IInv
  <2>4. /\ DOMAIN server' = DOMAIN server /\ server'.session = FALSE /\ server'.exists = server.exists
        /\ server'.key = server.key /\ server'.issued = server.issued /\ server'.password = server.password
        /\ server'.token = server.token /\ server'.quota = server.quota /\ server'.email = server.email
        /\ server'.codes = server.codes /\ server'.inbox = server.inbox
        /\ server'.given = server.given /\ server'.verifies = server.verifies
    BY <2>1, <2>3 DEF ServerOK
  <2>5. CodesOK' /\ GivenAddressesWereProved' /\ Recorded /\ Addressed' = Addressed
    BY <2>4, RecordsKept
  <2>6. ServerOK'
    BY <2>1, <2>3, <2>4, <2>5 DEF ServerOK
  <2>7. AnswerOK(net[n], Addressed)'
    BY <2>2 DEF Replied, AnswerOK
  <2>8. SessionTold(n, "refused") /\ TokenTold(n, "refused")
    BY <1>2, <2>4 DEF SessionTold, TokenTold
  <2>9. WalletTold(n, "refused")
    BY <1>2, WalletSession DEF WalletTold
  <2>10. view.at \notin ConfirmPages
    BY Elsewhere_
  <2>. QED
    BY <2>1, <2>2, <2>5, <2>6, <2>7, <2>8, <2>9, <2>10, RepliesKeep
<1>. QED
  BY <1>1, <1>2

\* The service has nothing else but what is in changed.
Others(changed) ==
    /\ DOMAIN server' = DOMAIN server
    /\ \A f \in DOMAIN server \ changed : server'[f] = server[f]

\* A handler answers without giving, mailing or withdrawing anything.
LEMMA AnswersKeep ==
    ASSUME IInv, NEW n \in DOMAIN net, NEW data, net[n].st = "sent", Answered(n, data), ServerOK',
           NEW changed \in SUBSET {"exists", "session", "exchanges", "password", "token", "quota", "key"},
           Others(changed),
           net[n].req \notin {"user/reset", "email/bind"},
           net[n].req = "self" => data.quota = server.quota /\ data.email = server.email,
           net[n].req = "token" => data = server'.token,
           net[n].req # "token" => "token" \notin changed,
           net[n].req = "topup" => data = 1 /\ server'.quota = server.quota + 1,
           net[n].req # "topup" => "quota" \notin changed,
           SessionTold(n, "ok")
    PROVE  IInv'
<1>1. Replied(n, "ok") /\ net'[n].data = data /\ net'[n].req = net[n].req /\ UNCHANGED history
  BY Becomes DEF Answered, Replied
<1>2. /\ DOMAIN server = {"exists", "session", "turnstile", "verifies", "state", "exchanges", "codes", "issued",
                        "inbox", "given", "email", "password", "token", "quota", "key"}
      /\ server.email \in Addressed /\ server.quota \in Int
  BY DEF IInv, ServerOK
<1>3. /\ server'.codes = server.codes /\ server'.issued = server.issued /\ server'.inbox = server.inbox
      /\ server'.given = server.given /\ server'.verifies = server.verifies
      /\ "token" \notin changed => server'.token = server.token
      /\ "quota" \notin changed => server'.quota = server.quota
  BY <1>2 DEF Others
<1>4. CodesOK' /\ GivenAddressesWereProved' /\ Recorded /\ Addressed' = Addressed
  BY <1>3, RecordsKept
<1>5. AnswerOK(net[n], Addressed)'
  <2>1. server'.token \in Nat
    BY DEF ServerOK
  <2>. QED
    BY <1>1, <1>2, <1>4, <2>1 DEF AnswerOK
<1>6. TokenTold(n, "ok")
  BY <1>1, <1>3 DEF TokenTold
<1>7. WalletTold(n, "ok")
  BY <1>1, <1>3 DEF WalletTold
<1>8. view.at \notin ConfirmPages
  BY Elsewhere_
<1>. QED
  BY <1>1, <1>4, <1>5, <1>6, <1>7, <1>8, RepliesKeep

LEMMA Fields ==
    ASSUME IInv
    PROVE  /\ DOMAIN server = {"exists", "session", "turnstile", "verifies", "state", "exchanges", "codes", "issued",
                        "inbox", "given", "email", "password", "token", "quota", "key"}
           /\ server.exists \in BOOLEAN /\ server.session \in BOOLEAN /\ server.key \in BOOLEAN
           /\ server.issued \in Nat /\ server.password \in Nat /\ server.token \in Nat /\ server.quota \in Int
           /\ server.email \in Addressed
  BY DEF IInv, ServerOK

\* Where nobody signs out for good, the account exists.
LEMMA Exists == ASSUME IInv, view.at \notin DeletePages PROVE server.exists
  BY DEF IInv, SessionOK

LEMMA LoginKeeps == ASSUME IInv, NEW n \in DOMAIN net, SetupLogin(n) PROVE IInv'
<1>1. net[n].st = "sent" /\ net[n].req \in {"login", "wechat"}
  BY DEF SetupLogin, Is
<1>2. CASE net[n].arg = "right"
  <2>1. Answered(n, <<>>) /\ server' = [server EXCEPT !.session = TRUE] /\ UNCHANGED <<calls, history>>
    BY <1>2 DEF SetupLogin, Answers, Answered
  <2>2. Others({"session"}) /\ server'.session = TRUE /\ server'.exists = server.exists
    BY <2>1, Fields DEF Others
  <2>3. ServerOK'
    BY <2>1, <2>2 DEF IInv, ServerOK, Addressed
  <2>4. server.exists
    BY <1>1, Exists DEF IInv, RequestsOK, AskOK
  <2>5. SessionTold(n, "ok")
    BY <2>2, <2>4 DEF SessionTold
  <2>. QED
    BY <1>1, <2>1, <2>2, <2>3, <2>5, AnswersKeep
<1>3. CASE net[n].arg # "right"
  BY <1>1, <1>3, RefusedKeep DEF SetupLogin
<1>. QED
  BY <1>2, <1>3

\* A handler that only looks.
LEMMA LooksKeep ==
    ASSUME IInv, NEW n \in DOMAIN net, NEW data, net[n].st = "sent", Answered(n, data), UNCHANGED server,
           server.session, server.exists,
           net[n].req \notin {"user/reset", "email/bind", "token", "topup"},
           net[n].req = "self" => data.quota = server.quota /\ data.email = server.email
    PROVE  IInv'
<1>1. Others({}) /\ UNCHANGED <<calls, history>>
  BY DEF Others, Answered
<1>2. ServerOK'
  BY <1>1 DEF IInv, ServerOK, Addressed
<1>3. SessionTold(n, "ok")
  BY DEF SessionTold
<1>. QED
  BY <1>1, <1>2, <1>3, AnswersKeep

LEMMA WeChatBindKeeps == ASSUME IInv, NEW n \in DOMAIN net, WeChatBind(n) PROVE IInv'
<1>1. net[n].st = "sent" /\ net[n].req = "wechat/bind"
  BY DEF WeChatBind, Is
<1>2. CASE server.session /\ server.exists /\ net[n].arg = "right"
  BY <1>1, <1>2, LooksKeep DEF WeChatBind, Authorised, Answers
<1>3. CASE server.session /\ server.exists /\ net[n].arg # "right"
  BY <1>1, <1>3, RefusedKeep DEF WeChatBind, Authorised
<1>. QED
  BY <1>1, <1>2, <1>3, UnauthorisedKeep DEF WeChatBind, Authorised

LEMMA ReadKeeps == ASSUME IInv, NEW n \in DOMAIN net, Read(n) PROVE IInv'
<1>1. net[n].st = "sent" /\ net[n].req = "read"
  BY DEF Read, Is
<1>2. CASE server.session /\ server.exists
  BY <1>1, <1>2, LooksKeep DEF Read, Authorised, Answers
<1>. QED
  BY <1>1, <1>2, UnauthorisedKeep DEF Read, Authorised

LEMMA GetSelfKeeps == ASSUME IInv, NEW n \in DOMAIN net, GetSelf(n) PROVE IInv'
<1>. DEFINE data == [quota |-> server.quota, email |-> server.email]
<1>1. net[n].st = "sent" /\ net[n].req = "self"
  BY DEF GetSelf, Is
<1>2. CASE server.session /\ server.exists
  <2>1. Answered(n, data) /\ UNCHANGED server
    BY <1>2 DEF GetSelf, Authorised, Answers
  <2>2. data.quota = server.quota /\ data.email = server.email
    OBVIOUS
  <2>. HIDE DEF data
  <2>. QED
    BY <1>1, <1>2, <2>1, <2>2, LooksKeep
<1>. QED
  BY <1>1, <1>2, UnauthorisedKeep DEF GetSelf, Authorised

LEMMA LogoutKeeps == ASSUME IInv, NEW n \in DOMAIN net, Logout(n) PROVE IInv'
<1>1. /\ net[n].st = "sent" /\ net[n].req = "logout"
      /\ Answered(n, <<>>) /\ server' = [server EXCEPT !.session = FALSE] /\ UNCHANGED <<calls, history>>
  BY DEF Logout, Is, Answers, Answered
<1>2. Others({"session"}) /\ server'.session = FALSE /\ server'.exists = server.exists
  BY <1>1, Fields DEF Others
<1>3. ServerOK'
  BY <1>1, <1>2 DEF IInv, ServerOK, Addressed
<1>4. Leaving(net'[n])
  <2>1. Replied(n, "ok")
    BY <1>1, Becomes DEF Answered
  <2>. QED
    BY <1>1, <2>1 DEF Replied, Leaving
<1>5. SessionTold(n, "ok")
  BY <1>1, <1>2, <1>4 DEF SessionTold, SignsIn
<1>. QED
  BY <1>1, <1>2, <1>3, <1>5, AnswersKeep

LEMMA DeleteKeeps == ASSUME IInv, NEW n \in DOMAIN net, DeleteSelf(n) PROVE IInv'
<1>1. net[n].st = "sent" /\ net[n].req = "delete"
  BY DEF DeleteSelf, Is
<1>2. CASE server.session /\ server.exists
  <2>1. Answered(n, <<>>) /\ server' = [server EXCEPT !.exists = FALSE] /\ UNCHANGED <<calls, history>>
    BY <1>2 DEF DeleteSelf, Authorised, Answers, Answered
  <2>2. Others({"exists"}) /\ server'.exists = FALSE
    BY <2>1, Fields DEF Others
  <2>3. ServerOK'
    BY <2>1, <2>2 DEF IInv, ServerOK, Addressed
  <2>4. Leaving(net'[n])
    <3>1. Replied(n, "ok")
      BY <2>1, Becomes DEF Answered
    <3>. QED
      BY <1>1, <3>1 DEF Replied, Leaving
  <2>5. view.at \in DeletePages
    BY <1>1 DEF IInv, RequestsOK, AskOK
  <2>6. SessionTold(n, "ok")
    BY <1>1, <2>4, <2>5 DEF SessionTold, SignsIn
  <2>. QED
    BY <1>1, <2>1, <2>2, <2>3, <2>6, AnswersKeep
<1>. QED
  BY <1>1, <1>2, UnauthorisedKeep DEF DeleteSelf, Authorised

LEMMA UpdateSelfKeeps == ASSUME IInv, NEW n \in DOMAIN net, UpdateSelf(n) PROVE IInv'
<1>1. net[n].st = "sent" /\ net[n].req = "put"
  BY DEF UpdateSelf, Is
<1>2. CASE server.session /\ server.exists /\ net[n].arg = ""
  <2>1. Answered(n, <<>>) /\ UNCHANGED server
    BY <1>2 DEF UpdateSelf, Authorised, Answers
  <2>. QED
    BY <1>1, <1>2, <2>1, LooksKeep
<1>3. CASE server.session /\ server.exists /\ net[n].arg = "fit"
  <2>1. Answered(n, <<>>) /\ server' = [server EXCEPT !.password = @ + 1] /\ UNCHANGED <<calls, history>>
    BY <1>3 DEF UpdateSelf, Authorised, Answers, Answered
  <2>2. /\ Others({"password"}) /\ server'.exists = server.exists /\ server'.session = server.session
        /\ server'.password \in Nat
    BY <2>1, Fields DEF Others
  <2>3. ServerOK'
    BY <2>1, <2>2 DEF IInv, ServerOK, Addressed
  <2>4. SessionTold(n, "ok")
    BY <1>3, <2>2 DEF SessionTold
  <2>. QED
    BY <1>1, <2>1, <2>2, <2>3, <2>4, AnswersKeep
<1>4. CASE server.session /\ server.exists /\ net[n].arg \notin {"", "fit"}
  BY <1>1, <1>4, RefusedKeep DEF UpdateSelf, Authorised
<1>. QED
  BY <1>1, <1>2, <1>3, <1>4, UnauthorisedKeep DEF UpdateSelf, Authorised

LEMMA TokenKeeps == ASSUME IInv, NEW n \in DOMAIN net, GenerateAccessToken(n) PROVE IInv'
<1>1. net[n].st = "sent" /\ net[n].req = "token"
  BY DEF GenerateAccessToken, Is
<1>2. CASE server.session /\ server.exists
  <2>1. /\ Answered(n, server.token + 1) /\ server' = [server EXCEPT !.token = @ + 1]
        /\ UNCHANGED <<calls, history>>
    BY <1>2 DEF GenerateAccessToken, Authorised, Answers, Answered
  <2>2. /\ Others({"token"}) /\ server'.exists = server.exists /\ server'.session = server.session
        /\ server'.token = server.token + 1 /\ server'.token \in Nat
    BY <2>1, Fields DEF Others
  <2>3. ServerOK'
    BY <2>1, <2>2 DEF IInv, ServerOK, Addressed
  <2>4. SessionTold(n, "ok")
    BY <1>2, <2>2 DEF SessionTold
  <2>. QED
    BY <1>1, <2>1, <2>2, <2>3, <2>4, AnswersKeep
<1>. QED
  BY <1>1, <1>2, UnauthorisedKeep DEF GenerateAccessToken, Authorised

LEMMA TopUpKeeps == ASSUME IInv, NEW n \in DOMAIN net, TopUp(n) PROVE IInv'
<1>1. net[n].st = "sent" /\ net[n].req = "topup"
  BY DEF TopUp, Is
<1>2. CASE server.session /\ server.exists /\ net[n].arg = "key" /\ server.key
  <2>1. /\ Answered(n, 1) /\ server' = [server EXCEPT !.key = FALSE, !.quota = @ + 1]
        /\ UNCHANGED <<calls, history>>
    BY <1>2 DEF TopUp, Authorised, Answers, Answered
  <2>2. /\ Others({"key", "quota"}) /\ server'.exists = server.exists /\ server'.session = server.session
        /\ server'.quota = server.quota + 1 /\ server'.quota \in Int /\ server'.key = FALSE
    <3>1. Others({"key", "quota"})
      BY <2>1, Fields DEF Others
    <3>2. server'.exists = server.exists /\ server'.session = server.session /\ server'.key = FALSE
      BY <2>1, Fields
    <3>3. server'.quota = server.quota + 1
      BY <2>1, Fields
    <3>. QED
      BY <3>1, <3>2, <3>3, Fields
  <2>3. ServerOK'
    BY <2>1, <2>2 DEF IInv, ServerOK, Addressed
  <2>4. SessionTold(n, "ok")
    BY <1>2, <2>2 DEF SessionTold
  <2>. QED
    BY <1>1, <2>1, <2>2, <2>3, <2>4, AnswersKeep
<1>3. CASE server.session /\ server.exists /\ ~(net[n].arg = "key" /\ server.key)
  BY <1>1, <1>3, RefusedKeep DEF TopUp, Authorised
<1>. QED
  BY <1>1, <1>2, <1>3, UnauthorisedKeep DEF TopUp, Authorised

\* The new code replaces the one before, and may be lost on its way.
LEMMA MailsKeep ==
    ASSUME IInv, NEW n \in DOMAIN net, net[n].st = "sent", net[n].req \in {"verification", "reset_password"},
           NEW address, Mails(n, address)
    PROVE  IInv'
<1>. DEFINE code == server.issued + 1
            mail == [address |-> address, code |-> code]
            s == [server EXCEPT !.issued = code, !.codes = Joined(@, address, code)]
<1>1. mail.address = address /\ mail.code = code
  OBVIOUS
<1>2. server.issued \in Nat /\ code \in Nat /\ code > server.issued
  BY Fields
<1>3. /\ Others({"issued", "codes", "inbox"}) /\ server'.issued = code
      /\ server'.codes = Joined(server.codes, address, code)
      /\ UNCHANGED <<view, calls, history>>
      /\ \/ server'.inbox = server.inbox \cup {mail} /\ Answered(n, <<>>)
         \/ server'.inbox = server.inbox /\ net' = [net EXCEPT ![n].st = "refused"]
  <2>1. /\ UNCHANGED <<view, calls, history>>
        /\ \/ server' = [s EXCEPT !.inbox = @ \cup {mail}] /\ Answered(n, <<>>)
           \/ server' = s /\ net' = [net EXCEPT ![n].st = "refused"]
    BY DEF Mails, Answers, Answered
  <2>2. CASE server' = [s EXCEPT !.inbox = @ \cup {mail}] /\ Answered(n, <<>>)
    BY <2>1, <2>2, Fields DEF Others
  <2>3. CASE server' = s /\ net' = [net EXCEPT ![n].st = "refused"]
    BY <2>1, <2>3, Fields DEF Others
  <2>. QED
    BY <2>1, <2>2, <2>3
<1>. HIDE DEF mail, s, code
<1>4. /\ server'.exists = server.exists /\ server'.session = server.session /\ server'.key = server.key
      /\ server'.password = server.password /\ server'.token = server.token /\ server'.quota = server.quota
      /\ server'.email = server.email /\ server'.given = server.given /\ server'.verifies = server.verifies
      /\ DOMAIN server' = DOMAIN server
  BY <1>3, Fields DEF Others
<1>5. /\ DOMAIN server'.codes = DOMAIN server.codes \cup {address}
      /\ server'.codes[address] = code
      /\ \A a \in DOMAIN server.codes \ {address} : server'.codes[a] = server.codes[a]
      /\ server.inbox \subseteq server'.inbox /\ server'.inbox \subseteq server.inbox \cup {mail}
  BY <1>3 DEF Joined
<1>6. CodesOK'
  <2>1. /\ \A a \in DOMAIN server.codes : server.codes[a] \in 1 .. server.issued
        /\ \A m \in server.inbox : m.code \in 1 .. server.issued
        /\ \A a \in DOMAIN server.codes, m \in server.inbox : server.codes[a] = m.code => m.address = a
    BY DEF IInv, CodesOK
  <2>2. \A a \in DOMAIN server'.codes : server'.codes[a] \in 1 .. code
    BY <1>2, <1>5, <2>1
  <2>3. \A m \in server'.inbox : m.code \in 1 .. code
    BY <1>1, <1>2, <1>5, <2>1
  <2>4. ASSUME NEW a \in DOMAIN server'.codes, NEW m \in server'.inbox, server'.codes[a] = m.code
        PROVE  m.address = a
    <3>1. CASE a = address
      <4>1. m \notin server.inbox
        BY <1>2, <1>5, <2>1, <2>4, <3>1
      <4>. QED
        BY <1>1, <1>5, <3>1, <4>1
    <3>2. CASE a # address
      <4>1. a \in DOMAIN server.codes /\ server'.codes[a] = server.codes[a] /\ server.codes[a] \in 1 .. server.issued
        BY <1>5, <2>1, <3>2
      <4>2. m.code # code
        BY <1>2, <2>4, <4>1
      <4>3. m \in server.inbox
        BY <1>1, <1>5, <4>2
      <4>. QED
        BY <2>1, <2>4, <4>1, <4>3
    <3>. QED
      BY <3>1, <3>2
  <2>. QED
    BY <1>3, <2>2, <2>3, <2>4 DEF CodesOK
<1>7. GivenAddressesWereProved' /\ Recorded /\ Addressed' = Addressed
  BY <1>4, <1>5 DEF IInv, GivenAddressesWereProved, Recorded, Addressed
<1>8. ServerOK'
  BY <1>2, <1>3, <1>4, <1>7 DEF IInv, ServerOK
<1>9. \E st \in {"ok", "refused"} : Replied(n, st)
  BY <1>3, Becomes DEF Answered
<1>10. PICK st \in {"ok", "refused"} : Replied(n, st)
  BY <1>9
<1>11. AnswerOK(net[n], Addressed)'
  BY <1>10 DEF Replied, AnswerOK
<1>12. SessionTold(n, st) /\ TokenTold(n, st)
  BY <1>4 DEF SessionTold, TokenTold, SignsIn
<1>13. view.at \notin ConfirmPages /\ view.at \notin WalletPages
  BY Elsewhere_
<1>14. WalletTold(n, st)
  BY <1>13 DEF WalletTold
<1>. QED
  BY <1>3, <1>6, <1>7, <1>8, <1>10, <1>11, <1>12, <1>13, <1>14, RepliesKeep

LEMMA VerificationKeeps == ASSUME IInv, NEW n \in DOMAIN net, SendEmailVerification(n) PROVE IInv'
<1>1. net[n].st = "sent" /\ net[n].req = "verification"
  BY DEF SendEmailVerification, Is
<1>. QED
  BY <1>1, MailsKeep, RefusedKeep DEF SendEmailVerification

LEMMA ResetMailKeeps == ASSUME IInv, NEW n \in DOMAIN net, SendPasswordResetEmail(n) PROVE IInv'
<1>1. net[n].st = "sent" /\ net[n].req = "reset_password"
  BY DEF SendPasswordResetEmail, Is
<1>. QED
  BY <1>1, MailsKeep, RefusedKeep DEF SendPasswordResetEmail

\* A code that could be typed and is good for an address was mailed to it.
LEMMA Proved ==
    ASSUME IInv, NEW address, NEW code \in Codes, VerifyCodeWithKey(address, code)
    PROVE  \E m \in server.inbox : m.address = address
<1>1. address \in DOMAIN server.codes /\ server.codes[address] = code /\ code \in 1 .. server.issued
  BY DEF VerifyCodeWithKey, IInv, CodesOK
<1>2. PICK m \in server.inbox : m.code = code
  BY <1>1, Fields DEF Codes
<1>. QED
  BY <1>1, <1>2 DEF IInv, CodesOK

\* An address is given away after a code was mailed to it.
LEMMA GivesKeep ==
    ASSUME IInv, NEW n \in DOMAIN net, net[n].st = "sent", net[n].req \in {"register", "email/bind"},
           NEW address, Answered(n, <<>>), Others({"given", "email"}),
           server'.given = server.given \cup {address},
           server'.email = server.email \/ server'.email = address,
           net[n].req = "email/bind" => net[n].arg.email = address,
           server.verifies => VerifyCodeWithKey(address, net[n].arg.code)
    PROVE  IInv'
<1>1. Replied(n, "ok") /\ UNCHANGED <<calls, history>>
  BY Becomes DEF Answered
<1>2. /\ server'.exists = server.exists /\ server'.session = server.session /\ server'.key = server.key
      /\ server'.password = server.password /\ server'.token = server.token /\ server'.quota = server.quota
      /\ server'.codes = server.codes /\ server'.issued = server.issued /\ server'.inbox = server.inbox
      /\ server'.verifies = server.verifies /\ DOMAIN server' = DOMAIN server
  BY Fields DEF Others
<1>3. CodesOK' /\ Recorded /\ Addressed' = Addressed \cup {address}
  <2>1. CodesOK'
    BY <1>2 DEF IInv, CodesOK
  <2>2. Recorded
    BY <1>2 DEF Recorded
  <2>3. Addressed' = Addressed \cup {address}
    BY DEF Addressed
  <2>. QED
    BY <2>1, <2>2, <2>3
<1>4. ServerOK'
  BY <1>1, <1>2, <1>3 DEF IInv, ServerOK
<1>5. GivenAddressesWereProved'
  <2>1. net[n].arg.code \in Codes
    BY DEF IInv, RequestsOK, AskOK
  <2>2. server.verifies => \E m \in server.inbox : m.address = address
    BY <2>1, Proved
  <2>. QED
    BY <1>2, <2>2 DEF IInv, GivenAddressesWereProved
<1>6. AnswerOK(net[n], Addressed)'
  BY <1>1, <1>3 DEF Replied, AnswerOK
<1>7. SessionTold(n, "ok") /\ TokenTold(n, "ok")
  BY <1>2 DEF SessionTold, TokenTold, SignsIn
<1>8. view.at \notin ConfirmPages /\ view.at \notin WalletPages
  BY Elsewhere_
<1>9. WalletTold(n, "ok")
  BY <1>8 DEF WalletTold
<1>. QED
  BY <1>1, <1>3, <1>4, <1>5, <1>6, <1>7, <1>8, <1>9, RepliesKeep

LEMMA RegisterKeeps == ASSUME IInv, NEW n \in DOMAIN net, Register(n) PROVE IInv'
<1>. DEFINE arg == net[n].arg
            address == IF arg.email = "" THEN arg.username ELSE arg.email
            taken == ~(/\ Passes(n) /\ address \notin server.given \cup {"taken"}
                       /\ server.verifies => VerifyCodeWithKey(address, arg.code))
<1>1. net[n].st = "sent" /\ net[n].req = "register"
  BY DEF Register, Is
<1>2. CASE taken
  BY <1>1, <1>2, RefusedKeep DEF Register
<1>3. CASE ~taken
  <2>1. /\ Answered(n, <<>>) /\ server' = [server EXCEPT !.given = @ \cup {address}]
        /\ server.verifies => VerifyCodeWithKey(address, arg.code)
    BY <1>3 DEF Register, Answers
  <2>. HIDE DEF address
  <2>2. Others({"given", "email"}) /\ server'.given = server.given \cup {address} /\ server'.email = server.email
    BY <2>1, Fields DEF Others
  <2>. QED
    BY <1>1, <2>1, <2>2, GivesKeep
<1>. QED
  BY <1>2, <1>3

LEMMA EmailBindKeeps == ASSUME IInv, NEW n \in DOMAIN net, EmailBind(n) PROVE IInv'
<1>. DEFINE arg == net[n].arg
<1>1. net[n].st = "sent" /\ net[n].req = "email/bind"
  BY DEF EmailBind, Is
<1>2. CASE server.session /\ server.exists /\ VerifyCodeWithKey(arg.email, arg.code)
  <2>1. /\ Answered(n, <<>>)
        /\ server' = [server EXCEPT !.email = arg.email, !.given = @ \cup {arg.email}]
    BY <1>2 DEF EmailBind, Authorised, Answers
  <2>2. Others({"given", "email"}) /\ server'.given = server.given \cup {arg.email} /\ server'.email = arg.email
    BY <2>1, Fields DEF Others
  <2>. QED
    BY <1>1, <1>2, <2>1, <2>2, GivesKeep
<1>3. CASE server.session /\ server.exists /\ ~VerifyCodeWithKey(arg.email, arg.code)
  BY <1>1, <1>3, RefusedKeep DEF EmailBind, Authorised
<1>. QED
  BY <1>1, <1>2, <1>3, UnauthorisedKeep DEF EmailBind, Authorised

\* The code of the link is used once: the password is the one that was answered.
LEMMA ResetKeeps == ASSUME IInv, NEW n \in DOMAIN net, ResetPassword(n) PROVE IInv'
<1>. DEFINE arg == net[n].arg
<1>1. net[n].st = "sent" /\ net[n].req = "user/reset"
  BY DEF ResetPassword, Is
<1>2. view.at \in ConfirmPages /\ arg.email = "taken" /\ view.at \notin WalletPages
  <2>1. AskOK(view.at, net[n], Codes)
    BY DEF IInv, RequestsOK
  <2>. QED
    BY <1>1, <2>1 DEF AskOK, ResetLink
<1>3. CASE ~VerifyCodeWithKey(arg.email, arg.code)
  BY <1>1, <1>3, RefusedKeep DEF ResetPassword
<1>4. CASE VerifyCodeWithKey(arg.email, arg.code)
  <2>1. /\ Answered(n, server.password + 1)
        /\ server' = [server EXCEPT !.password = @ + 1, !.codes = DeleteKey("taken")]
    BY <1>2, <1>4 DEF ResetPassword, Answers
  <2>2. Replied(n, "ok") /\ net'[n].data = server.password + 1 /\ UNCHANGED <<view, calls, history>>
    BY <2>1, Becomes DEF Answered
  <2>3. /\ Others({"password", "codes"}) /\ server'.codes = DeleteKey("taken")
        /\ server'.password = server.password + 1
    <3>1. Others({"password", "codes"})
      BY <2>1, Fields DEF Others
    <3>2. server'.codes = DeleteKey("taken")
      BY <2>1, Fields
    <3>3. server'.password = server.password + 1
      BY <2>1, Fields
    <3>. QED
      BY <3>1, <3>2, <3>3
  <2>4. /\ server'.exists = server.exists /\ server'.session = server.session /\ server'.key = server.key
        /\ server'.token = server.token /\ server'.quota = server.quota /\ server'.email = server.email
        /\ server'.issued = server.issued /\ server'.inbox = server.inbox /\ server'.given = server.given
        /\ server'.verifies = server.verifies /\ DOMAIN server' = DOMAIN server
    BY <2>3, Fields DEF Others
  <2>5. /\ DOMAIN server'.codes = DOMAIN server.codes \ {"taken"}
        /\ \A a \in DOMAIN server'.codes : server'.codes[a] = server.codes[a]
    BY <2>3 DEF DeleteKey
  <2>6. server.password = 0 /\ server'.password = 1 /\ net'[n].data = 1
    <3>1. server.password = 0
      BY <1>2, <1>4 DEF VerifyCodeWithKey, IInv, PasswordOK
    <3>. QED
      BY <2>2, <2>3, <3>1
  <2>7. CodesOK' /\ GivenAddressesWereProved' /\ Recorded /\ Addressed' = Addressed
    <3>1. CodesOK'
      BY <2>4, <2>5 DEF IInv, CodesOK
    <3>. QED
      BY <2>4, <3>1 DEF IInv, GivenAddressesWereProved, Recorded, Addressed
  <2>8. ServerOK'
    BY <2>2, <2>4, <2>6, <2>7 DEF IInv, ServerOK
  <2>9. AnswerOK(net[n], Addressed)'
    BY <1>1, <2>2, <2>6 DEF Replied, AnswerOK
  <2>10. PasswordOK'
    <3>1. view'.password = 0 /\ "taken" \notin DOMAIN server'.codes
      BY <2>2, <2>5, <2>6 DEF IInv, PasswordOK
    <3>2. \A m \in DOMAIN net : net[m].st # "ok"
      BY <1>2, <2>6 DEF IInv, PasswordOK
    <3>3. \A m \in DOMAIN net' : net'[m].st = "ok" => net'[m].data = 1
      BY <2>2, <2>6, <3>2 DEF Replied
    <3>. QED
      BY <2>6, <3>1, <3>3 DEF PasswordOK
  <2>11. SessionTold(n, "ok") /\ TokenTold(n, "ok")
    BY <1>1, <2>4 DEF SessionTold, TokenTold, SignsIn
  <2>12. WalletTold(n, "ok")
    BY <1>2 DEF WalletTold
  <2>. QED
    BY <1>1, <2>2, <2>7, <2>8, <2>9, <2>10, <2>11, <2>12, RepliesKeep
<1>. QED
  BY <1>3, <1>4

----------------------------------------------------------------------------
\* A request is refused, and at most an OAuth code was spent.
LEMMA DeniedKeep ==
    ASSUME IInv, NEW n \in DOMAIN net, net[n].st = "sent", Replied(n, "refused"), Others({"exchanges"}),
           history'.faults # 0 \/ (view.at \notin WalletPages /\ UNCHANGED history)
    PROVE  IInv'
<1>1. /\ server'.exists = server.exists /\ server'.session = server.session /\ server'.key = server.key
      /\ server'.password = server.password /\ server'.token = server.token /\ server'.quota = server.quota
      /\ server'.email = server.email /\ DOMAIN server' = DOMAIN server
      /\ server'.codes = server.codes /\ server'.issued = server.issued /\ server'.inbox = server.inbox
      /\ server'.given = server.given /\ server'.verifies = server.verifies
  BY Fields DEF Others
<1>2. CodesOK' /\ GivenAddressesWereProved' /\ Recorded /\ Addressed' = Addressed
  BY <1>1, RecordsKept
<1>3. ServerOK'
  BY <1>1, <1>2 DEF IInv, ServerOK, Replied, Histories
<1>4. AnswerOK(net[n], Addressed)'
  BY DEF Replied, AnswerOK
<1>5. view.at \in ConfirmPages => PasswordOK'
  BY <1>1 DEF IInv, PasswordOK, Replied
<1>6. SessionTold(n, "refused") /\ TokenTold(n, "refused")
  BY <1>1 DEF SessionTold, TokenTold
<1>7. WalletTold(n, "refused")
  BY DEF WalletTold
<1>. QED
  BY <1>2, <1>3, <1>4, <1>5, <1>6, <1>7, RepliesKeep

LEMMA OAuthKeeps == ASSUME IInv, NEW n \in DOMAIN net, OAuth(n) PROVE IInv'
<1>1. net[n].st = "sent" /\ net[n].req = "oauth"
  BY DEF OAuth, Is
<1>2. view.at \notin DeletePages /\ view.at \notin ConfirmPages /\ view.at \notin WalletPages
  BY <1>1 DEF IInv, RequestsOK, AskOK
<1>3. CASE ~server.state
  <2>1. net' = [net EXCEPT ![n].st = "failed"] /\ UNCHANGED <<view, server, calls, history>>
    BY <1>3 DEF OAuth
  <2>2. Replied(n, "failed")
    BY <2>1, Becomes
  <2>. QED
    BY <1>1, <1>2, <2>1, <2>2, FailsKeep
<1>4. CASE server.state /\ server.exchanges = 0
  <2>1. PICK data : Answered(n, data) /\ server' = [[server EXCEPT !.exchanges = @ + 1] EXCEPT !.session = TRUE]
    BY <1>4 DEF OAuth, Answers
  <2>2. Others({"exchanges", "session"}) /\ server'.session = TRUE /\ server'.exists = server.exists
    BY <2>1, Fields DEF Others
  <2>3. UNCHANGED <<calls, history>>
    BY <2>1 DEF Answered
  <2>4. ServerOK'
    <3>1. /\ server'.key = server.key /\ server'.issued = server.issued
          /\ server'.password = server.password /\ server'.token = server.token /\ server'.quota = server.quota
          /\ server'.email = server.email /\ server'.given = server.given /\ DOMAIN server' = DOMAIN server
      BY <2>2, Fields DEF Others
    <3>. QED
      BY <2>2, <2>3, <3>1 DEF IInv, ServerOK, Addressed
  <2>5. SessionTold(n, "ok")
    BY <1>2, <2>2, Exists DEF SessionTold
  <2>. QED
    BY <1>1, <2>1, <2>2, <2>4, <2>5, AnswersKeep
<1>5. CASE server.state /\ server.exchanges # 0
  <2>1. /\ net' = [net EXCEPT ![n].st = "refused"] /\ server' = [server EXCEPT !.exchanges = @ + 1]
        /\ UNCHANGED <<view, calls, history>>
    BY <1>5 DEF OAuth
  <2>2. Replied(n, "refused") /\ Others({"exchanges"})
    BY <2>1, Becomes DEF Others
  <2>. QED
    BY <1>1, <1>2, <2>1, <2>2, DeniedKeep
<1>. QED
  BY <1>3, <1>4, <1>5

LEMMA DeniesKeep == ASSUME IInv, NEW n \in DOMAIN net, Denies(n) PROVE IInv'
<1>1. /\ net[n].st = "sent" /\ history' = [history EXCEPT !.faults = @ + 1]
      /\ net' = [net EXCEPT ![n].st = "refused"] /\ UNCHANGED <<view, calls>>
      /\ server' = [server EXCEPT !.exchanges = @ + 1] \/ server' = server
  BY DEF Denies
<1>2. Replied(n, "refused") /\ history'.faults # 0
  BY <1>1, Becomes
<1>3. Others({"exchanges"})
  BY <1>1 DEF Others
<1>. QED
  BY <1>1, <1>2, <1>3, DeniedKeep

LEMMA BreaksKeep == ASSUME IInv, NEW n \in DOMAIN net, Breaks(n) PROVE IInv'
<1>1. /\ net[n].st \in {"sent", "ok"} /\ history' = [history EXCEPT !.faults = @ + 1]
      /\ net' = [net EXCEPT ![n].st = "failed"] /\ UNCHANGED <<view, server, calls>>
  BY DEF Breaks, Failed
<1>2. Replied(n, "failed") /\ history'.faults # 0
  BY <1>1, Becomes
<1>. QED
  BY <1>1, <1>2, FailsKeep

LEMMA ServeKeeps == ASSUME IInv, Serve PROVE IInv'
  BY VerificationKeeps, ResetMailKeeps, RegisterKeeps, EmailBindKeeps, ResetKeeps, LoginKeeps, WeChatBindKeeps,
     LogoutKeeps, GetSelfKeeps, DeleteKeeps, UpdateSelfKeeps, TokenKeeps, ReadKeeps, TopUpKeeps, OAuthKeeps,
     DeniesKeep, BreaksKeep DEF Serve

----------------------------------------------------------------------------
(***************************************************************************)
(* The account is used elsewhere, or a code expires.                       *)
(***************************************************************************)
LEMMA ElsewhereKeeps == ASSUME IInv, Elsewhere PROVE IInv'
<1>1. /\ history' \in Histories /\ ~history'.alone /\ history'.lost = history.lost /\ UNCHANGED <<view, net, calls>>
  <2>1. history' = [history EXCEPT !.alone = FALSE, !.faults = @ + 1] /\ UNCHANGED <<view, net, calls>>
    BY DEF Elsewhere, Disturbed
  <2>2. history \in Histories
    BY DEF IInv, ServerOK, Histories
  <2>3. history'.alone = FALSE /\ history'.lost = history.lost
    BY <2>1, <2>2 DEF Histories
  <2>4. history.faults + 1 \in Nat
    BY <2>2 DEF Histories
  <2>5. history' = [alone |-> FALSE, lost |-> history.lost, faults |-> history.faults + 1]
    BY <2>1, <2>2 DEF Histories
  <2>6. history' \in Histories
    BY <2>2, <2>4, <2>5 DEF Histories
  <2>. QED
    BY <2>1, <2>3, <2>6
<1>2. /\ Others({"quota", "session", "codes"})
      /\ server'.quota \in Int /\ server'.session \in BOOLEAN
      /\ DOMAIN server'.codes \subseteq DOMAIN server.codes
      /\ \A a \in DOMAIN server'.codes : server'.codes[a] = server.codes[a]
  <2>1. CASE server' = [server EXCEPT !.quota = @ - 1]
    <3>1. Others({"quota", "session", "codes"}) /\ server'.session = server.session /\ server'.codes = server.codes
      BY <2>1, Fields DEF Others
    <3>2. server'.quota = server.quota - 1
      BY <2>1, Fields
    <3>. QED
      BY <3>1, <3>2, Fields
  <2>2. CASE server' = [server EXCEPT !.session = FALSE]
    BY <2>2, Fields DEF Others
  <2>3. CASE \E a \in DOMAIN server.codes : server' = [server EXCEPT !.codes = DeleteKey(a)]
    <3>1. PICK a \in DOMAIN server.codes : server' = [server EXCEPT !.codes = DeleteKey(a)]
      BY <2>3
    <3>2. /\ Others({"quota", "session", "codes"}) /\ server'.session = server.session
          /\ server'.quota = server.quota /\ server'.codes = DeleteKey(a)
      BY <3>1, Fields DEF Others
    <3>. QED
      BY <3>2, Fields DEF DeleteKey
  <2>. QED
    BY <2>1, <2>2, <2>3 DEF Elsewhere
<1>3. /\ server'.exists = server.exists /\ server'.key = server.key
      /\ server'.password = server.password /\ server'.token = server.token
      /\ server'.email = server.email /\ DOMAIN server' = DOMAIN server
      /\ server'.issued = server.issued /\ server'.inbox = server.inbox
      /\ server'.given = server.given /\ server'.verifies = server.verifies
  BY <1>2, Fields DEF Others
<1>4. Codes' = Codes /\ Addressed' = Addressed
  BY <1>3 DEF Codes, Addressed
<1>5. ServerOK'
  BY <1>1, <1>2, <1>3, <1>4 DEF IInv, ServerOK, Histories
<1>6. CodesOK' /\ GivenAddressesWereProved'
  BY <1>2, <1>3 DEF IInv, CodesOK, GivenAddressesWereProved
<1>7. PageOK(view)' /\ ClockOK(view)' /\ FieldsOK(view, Codes)' /\ (view.email \in Addressed)' /\ RequestsOK'
  BY <1>1, <1>4 DEF IInv, RequestsOK
<1>8. PasswordOK'
  BY <1>1, <1>2, <1>3 DEF IInv, PasswordOK
<1>9. AloneOK' /\ SessionOK' /\ TokenOK' /\ QuotaOK'
  BY <1>1, <1>3 DEF IInv, AloneOK, SessionOK, TokenOK, QuotaOK, Patient
<1>. QED
  BY <1>5, <1>6, <1>7, <1>8, <1>9 DEF IInv

----------------------------------------------------------------------------
(***************************************************************************)
(* What the handlers of the pages have in common.                          *)
(***************************************************************************)
LEMMA FitPage == ASSUME IInv PROVE PageOK(view)
  BY DEF IInv

LEMMA VerifiesKeep == ASSUME IInv, NEW page, Verifies(page) PROVE IInv'
<1>1. Shows([view EXCEPT !.turnstile = "token"])
  BY DEF Verifies
<1>. QED
  BY <1>1, FitPage, Cosmetics, ShowsLike

LEMMA OpeningKeeps == ASSUME IInv, NEW dialog, Opening(dialog) PROVE IInv'
  BY FitPage, Cosmetics, ShowsLike DEF Opening

LEMMA ClosingKeeps == ASSUME IInv, Closing PROVE IInv'
  BY FitPage, Cosmetics, ShowsLike DEF Closing

LEMMA HidesLike == ASSUME NEW v, PageOK(v), NEW dialogs PROVE Like(v, Hides(v, dialogs))
  BY Cosmetics DEF Hides

\* What is typed is no code but one of a mail.
LEMMA TypesKeep ==
    ASSUME IInv, view.at \notin ConfirmPages, NEW k, view.at \in CodePages => k \in DOMAIN view.fields, Types(k)
    PROVE  IInv'
<1>1. PICK value \in Typed(k) : Shows([view EXCEPT !.fields[k] = value])
  BY DEF Types
<1>. DEFINE fields == [view.fields EXCEPT ![k] = value]
            v == [view EXCEPT !.fields = fields]
<1>2. Shows(v)
  BY <1>1
<1>3. DOMAIN fields = DOMAIN view.fields
  OBVIOUS
<1>4. view.at \in CodePages => fields["code"] \in Codes
  <2>. SUFFICES ASSUME view.at \in CodePages PROVE fields["code"] \in Codes
    OBVIOUS
  <2>1. DOMAIN view.fields = {"email", "code"} /\ view.fields["code"] \in Codes
    BY DEF IInv, PageOK, FieldsOK
  <2>2. CASE k = "code"
    <3>1. fields["code"] = value
      BY <2>1, <2>2
    <3>. QED
      BY <2>2, <3>1 DEF Typed, Codes
  <2>3. CASE k # "code"
    BY <2>1, <2>3
  <2>. QED
    BY <2>2, <2>3
<1>. HIDE DEF fields
<1>5. PageOK(view) /\ ClockOK(view)
  BY DEF IInv
<1>6. Keeps(view, v) /\ v.fields = fields /\ v.disabled = view.disabled /\ v.countdown = view.countdown
      /\ v.gap = view.gap /\ v.rushed = view.rushed
  BY <1>5 DEF Keeps, PageOK
<1>. HIDE DEF v
<1>7. Fit(v)
  BY <1>3, <1>4, <1>5, <1>6 DEF Fit, Keeps, PageOK, ClockOK, FieldsOK
<1>. QED
  BY <1>2, <1>6, <1>7, ShowsKeep

----------------------------------------------------------------------------
\* The requests that handlers send.
LEMMA MayAsk ==
    ASSUME NEW fn, NEW req, NEW arg, NEW was,
           SentBy(fn, req), req # "self",
           req = "delete" => view.at \in DeletePages,
           req \in {"login", "wechat", "oauth"} => view.at \notin DeletePages,
           req = "user/reset" <=> view.at \in ConfirmPages,
           req = "user/reset" => arg = ResetLink,
           view.at \in WalletPages => req = "topup",
           req \in {"register", "email/bind"} => arg.code \in Codes
    PROVE  MaySend(fn, req, arg, was)
  BY Fresh DEF MaySend, AskOK

\* The mail buttons.  Where the countdown disables them, it was over.
LEMMA MailsAsked ==
    ASSUME IInv, NEW v, Keeps(view, v), v.fields = view.fields, v.countdown = view.countdown, v.gap = view.gap,
           v.rushed = view.rushed, v.disabled \in BOOLEAN, view.at \in CountdownPages => ~view.disabled /\ v.disabled,
           view.at \notin ConfirmPages \cup WalletPages,
           NEW fn, NEW req \in {"verification", "reset_password"}, SentBy(fn, req), AsksForMail(v, fn, req)
    PROVE  IInv'
<1>. DEFINE w == [v EXCEPT !.gap = 0, !.rushed = @ \/ v.gap < Countdown]
            arg == [email |-> v.fields["email"], human |-> Human]
<1>1. SendsWith(w, fn, req, arg, <<>>)
  BY DEF AsksForMail, Sends
<1>2. MaySend(fn, req, arg, <<>>)
  BY MayAsk
<1>3. PageOK(view) /\ ClockOK(view) /\ FieldsOK(view, Codes) /\ Countdown \in Nat \ {0}
  BY AccountAssumption DEF IInv
<1>4. /\ DOMAIN v = {"at", "user", "fields", "turnstile", "disabled", "countdown", "loading", "submitting",
                "dialog", "left", "link", "token", "password", "quota", "email", "fetched", "gap", "rushed"}
      /\ view.countdown \in 1 .. Countdown /\ view.gap \in 0 .. Countdown
  BY <1>3 DEF PageOK, Keeps
<1>5. /\ Keeps(view, w) /\ w.fields = view.fields /\ w.countdown = view.countdown /\ w.disabled = v.disabled
      /\ w.gap = 0 /\ w.rushed = (view.rushed \/ view.gap < Countdown) /\ w.rushed \in BOOLEAN
  BY <1>4 DEF Keeps
<1>. HIDE DEF w, arg
<1>6. PageOK(w)
  BY <1>3, <1>5 DEF PageOK, Keeps
<1>7. ClockOK(w)
  <2>. SUFFICES ASSUME view.at \in CountdownPages
                PROVE  ~w.rushed /\ w.gap + w.countdown >= Countdown /\ w.disabled
    BY <1>5 DEF ClockOK, Keeps
  <2>1. ~view.rushed /\ view.gap = Countdown /\ view.countdown = Countdown
    BY <1>3 DEF ClockOK
  <2>2. ~(view.gap < Countdown)
    BY <1>3, <2>1
  <2>3. ~w.rushed
    BY <1>5, <2>1, <2>2, Zenon
  <2>4. w.disabled
    BY <1>5, Zenon
  <2>5. w.gap + w.countdown >= Countdown
    BY <1>3, <1>5, <2>1
  <2>. QED
    BY <2>3, <2>4, <2>5
<1>8. Fit(w)
  BY <1>3, <1>5, <1>6, <1>7 DEF Fit, FieldsOK, Keeps
<1>. QED
  BY <1>1, <1>2, <1>5, <1>8, SendsKeep

----------------------------------------------------------------------------
\* The request a handler goes on from.
LEMMA BackFrom ==
    ASSUME IInv, NEW at, NEW fn, NEW n \in Back(at, fn)
    PROVE  /\ n \in DOMAIN net /\ view.at = at /\ net[n].fn = fn /\ net[n].st \in {"ok", "refused", "failed"}
           /\ SentBy(fn, net[n].req) /\ AskOK(at, net[n], Codes) /\ AnswerOK(net[n], Addressed)
  BY DEF Back, IInv, RequestsOK, AskOK

\* The page shows the same account.
LEMMA SilentEnds ==
    ASSUME IInv, NEW n \in DOMAIN net, net[n].st \in {"ok", "refused", "failed"},
           NEW v, Fit(v), Keeps(view, v), Ends(n, v),
           net[n].req # "logout", net[n].req = "delete" => net[n].st = "refused",
           net[n].req = "token" => net[n].st = "refused",
           view.at \in WalletPages => net[n].st # "ok"
    PROVE  IInv'
<1>1. Told(view, net[n], v)
  BY DEF Told, Keeps
<1>. QED
  BY <1>1, EndsKeep

LEMMA SilentLike ==
    ASSUME IInv, NEW n \in DOMAIN net, net[n].st \in {"ok", "refused", "failed"},
           NEW v, Like(view, v), Ends(n, v),
           net[n].req # "logout", net[n].req = "delete" => net[n].st = "refused",
           net[n].req = "token" => net[n].st = "refused",
           view.at \in WalletPages => net[n].st # "ok"
    PROVE  IInv'
  BY ViewFit, LikeFit, SilentEnds

\* After a mail the page is as it was, or the button is enabled because no mail was sent.
LEMMA MailLike ==
    ASSUME IInv, NEW n
    PROVE  /\ Fit(MailReturns(n)) /\ Keeps(view, MailReturns(n))
           /\ net[n].st = "refused" => Fit(Enabled(MailReturns(n))) /\ Keeps(view, Enabled(MailReturns(n)))
<1>. DEFINE v == MailReturns(n)
            w == Enabled(v)
<1>1. PageOK(view) /\ ClockOK(view) /\ FieldsOK(view, Codes) /\ Countdown \in Nat \ {0}
  BY AccountAssumption DEF IInv
<1>2. /\ Keeps(view, v) /\ v.fields = view.fields /\ v.countdown = view.countdown /\ v.disabled = view.disabled
      /\ v.rushed = view.rushed /\ v.gap \in {view.gap, Countdown} /\ (net[n].st = "refused" => v.gap = Countdown)
  BY <1>1 DEF MailReturns, Keeps, PageOK
<1>. HIDE DEF v
<1>3. PageOK(v)
  BY <1>1, <1>2 DEF PageOK, Keeps
<1>4. ClockOK(v)
  <2>1. view.gap \in 0 .. Countdown /\ view.countdown \in 1 .. Countdown
    BY <1>1 DEF PageOK
  <2>2. CASE v.gap = view.gap
    BY <1>1, <1>2, <2>2 DEF ClockOK, Keeps
  <2>3. CASE v.gap = Countdown
    BY <1>1, <1>2, <2>1, <2>3 DEF ClockOK, Keeps
  <2>. QED
    BY <1>2, <2>2, <2>3
<1>5. Fit(v)
  BY <1>1, <1>2, <1>3, <1>4 DEF Fit, FieldsOK, Keeps
<1>6. ASSUME net[n].st = "refused" PROVE Fit(w) /\ Keeps(view, w)
  <2>1. /\ Keeps(v, w) /\ w.fields = v.fields /\ w.countdown = Countdown /\ ~w.disabled /\ w.disabled \in BOOLEAN
        /\ w.rushed = v.rushed /\ w.gap = v.gap
    BY <1>3 DEF Enabled, Keeps, PageOK
  <2>. HIDE DEF w
  <2>2. w.gap = Countdown
    BY <1>2, <1>6, <2>1
  <2>3. Keeps(view, w)
    BY <1>2, <2>1, KeepsOn
  <2>4. PageOK(w)
    BY <1>1, <1>3, <2>1, <2>2 DEF PageOK, Keeps
  <2>5. ClockOK(w)
    BY <1>1, <1>4, <2>1, <2>2 DEF ClockOK, Keeps
  <2>. QED
    BY <1>1, <1>2, <2>1, <2>3, <2>4, <2>5 DEF Fit, FieldsOK, Keeps
<1>. QED
  BY <1>2, <1>5, <1>6 DEF v

\* The end of a request for mail; loading and submitting are nothing to us.
LEMMA MailEnds ==
    ASSUME IInv, NEW n \in DOMAIN net, net[n].st \in {"ok", "refused", "failed"},
           NEW v, Ends(n, v),
           net[n].req \notin {"logout", "delete", "token"}, view.at \notin WalletPages,
           Like(MailReturns(n), v) \/ (net[n].st = "refused" /\ Like(Enabled(MailReturns(n)), v))
    PROVE  IInv'
<1>1. CASE Like(MailReturns(n), v)
  BY <1>1, MailLike, LikeFit, KeepsOn, SilentEnds
<1>2. CASE net[n].st = "refused" /\ Like(Enabled(MailReturns(n)), v)
  BY <1>2, MailLike, LikeFit, KeepsOn, SilentEnds
<1>. QED
  BY <1>1, <1>2

----------------------------------------------------------------------------
\* Somebody signs in.
LEMMA SignedInFit ==
    ASSUME NEW u, Fit(u)
    PROVE  Fit(SignedIn(u)) /\ DOMAIN SignedIn(u) = DOMAIN u /\ SignedIn(u).user = "me"
           /\ SignedIn(u).token = u.token /\ SignedIn(u).password = u.password /\ SignedIn(u).quota = u.quota
           /\ SignedIn(u).email = u.email
  BY DEF Fit, PageOK, ClockOK, FieldsOK, SignedIn

LEMMA SignsInKeep ==
    ASSUME IInv, NEW n \in DOMAIN net, net[n].st = "ok", net[n].req \in {"login", "wechat", "oauth"},
           NEW u, Like(view, u), NEW v, Like(SignedIn(u), v), Ends(n, v)
    PROVE  IInv'
<1>1. Fit(u) /\ Keeps(view, u)
  BY ViewFit, LikeFit
<1>2. Fit(v) /\ Keeps(SignedIn(u), v)
  BY <1>1, SignedInFit, LikeFit
<1>3. view.at \notin WalletPages
  BY Elsewhere_
<1>4. Told(view, net[n], v)
  BY <1>1, <1>2, <1>3, SignedInFit DEF Told, Keeps, SignsIn
<1>. QED
  BY <1>2, <1>4, EndsKeep

\* Somebody signs out.
LEMMA SignsOutKeep ==
    ASSUME IInv, NEW n \in DOMAIN net, net[n].st \in {"ok", "refused", "failed"}, net[n].req = "logout",
           Ends(n, SignedOut(view))
    PROVE  IInv'
<1>. DEFINE v == SignedOut(view)
<1>1. /\ DOMAIN v = DOMAIN view /\ v.user = "none" /\ v.token = view.token /\ v.password = view.password
      /\ v.quota = view.quota /\ v.email = view.email /\ Fit(v)
  BY ViewFit DEF Fit, PageOK, ClockOK, FieldsOK, SignedOut
<1>. HIDE DEF v
<1>2. view.at \notin WalletPages
  BY Elsewhere_
<1>3. Told(view, net[n], v)
  BY <1>1, <1>2 DEF Told
<1>. QED
  BY <1>1, <1>3, EndsKeep DEF v

\* The OAuth pages.
LEMMA SendCodeKeeps ==
    ASSUME IInv, NEW at, NEW fn \in {"gitHubSendCode", "larkSendCode", "airSendCode", "berrySendCode"},
           NEW n \in Back(at, fn), SendCodeEnds(n)
    PROVE  IInv'
<1>1. /\ n \in DOMAIN net /\ net[n].st \in {"ok", "refused", "failed"} /\ net[n].fn = fn
      /\ net[n].req \in {"login", "wechat", "oauth"}
  BY BackFrom DEF SentBy
<1>2. view.at \notin WalletPages /\ view.at \notin DeletePages /\ view.at \notin ConfirmPages
  BY <1>1 DEF IInv, RequestsOK, AskOK
<1>3. CASE net[n].st = "ok"
  <2>1. Ends(n, SignedIn(view))
    BY <1>3 DEF SendCodeEnds
  <2>2. Like(view, view) /\ Like(SignedIn(view), SignedIn(view))
    BY ViewFit, SignedInFit, Cosmetics DEF Fit
  <2>. QED
    BY <1>1, <1>3, <2>1, <2>2, SignsInKeep
<1>4. CASE net[n].st # "ok" /\ net[n].arg = 0
  BY <1>1, <1>2, <1>4, FitPage, Cosmetics, SilentLike DEF SendCodeEnds
<1>5. CASE net[n].st # "ok" /\ net[n].arg # 0
  <2>1. GoesOn(n, view, fn, "oauth", net[n].arg + 1, <<>>)
    BY <1>1, <1>5 DEF SendCodeEnds
  <2>2. SentBy(fn, "oauth")
    BY DEF SentBy
  <2>3. MaySend(fn, "oauth", net[n].arg + 1, <<>>)
    BY <1>2, <2>2, MayAsk
  <2>. QED
    BY <1>1, <2>1, <2>3, GoesOnKeep
<1>. QED
  BY <1>3, <1>4, <1>5

----------------------------------------------------------------------------
\* The pages on which a key is redeemed.
LEMMA RedeemsKeep ==
    ASSUME IInv, NEW page \in WalletPages, NEW fn \in {"topUp", "airTopUp", "berryTopUp"}, Redeems(page, fn)
    PROVE  IInv'
<1>1. /\ SendsWith([view EXCEPT !.submitting = TRUE], fn, "topup", view.fields["key"], <<>>)
      /\ view.at \in WalletPages
  BY DEF Redeems, Sends, On, At
<1>2. view.at \notin ConfirmPages
  BY <1>1, PageNames
<1>3. SentBy(fn, "topup")
  BY DEF SentBy
<1>4. MaySend(fn, "topup", view.fields["key"], <<>>)
  BY <1>2, <1>3, MayAsk
<1>. QED
  BY <1>1, <1>4, FitPage, Cosmetics, SendsLike

LEMMA RedeemedKeep ==
    ASSUME IInv, NEW page \in WalletPages, NEW fn \in {"topUp", "airTopUp", "berryTopUp"},
           NEW n \in Back(page, fn), RedeemReturns(n)
    PROVE  IInv'
<1>. DEFINE v == [view EXCEPT !.submitting = FALSE]
            w == [v EXCEPT !.quota = @ + net[n].data, !.fields["key"] = ""]
<1>1. /\ n \in DOMAIN net /\ net[n].st \in {"ok", "refused", "failed"} /\ view.at \in WalletPages
      /\ net[n].req = "topup" /\ AnswerOK(net[n], Addressed)
  BY BackFrom DEF SentBy
<1>2. Like(view, v)
  BY FitPage, Cosmetics
<1>3. Fit(v) /\ Keeps(view, v)
  BY <1>2, ViewFit, LikeFit
<1>4. CASE net[n].st # "ok"
  BY <1>1, <1>2, <1>4, SilentLike DEF RedeemReturns
<1>5. CASE net[n].st = "ok"
  <2>1. Ends(n, w)
    BY <1>5 DEF RedeemReturns
  <2>2. net[n].data = 1
    BY <1>1, <1>5 DEF AnswerOK
  <2>. HIDE DEF v
  <2>3. PageOK(v) /\ v.at = view.at /\ view.at \in WalletPages
    BY <1>1, <1>3 DEF Fit
  <2>4. /\ DOMAIN w = DOMAIN v /\ w.at = v.at /\ w.user = v.user /\ w.token = v.token /\ w.password = v.password
        /\ w.email = v.email /\ w.disabled = v.disabled /\ w.countdown = v.countdown
        /\ w.gap = v.gap /\ w.rushed = v.rushed
    BY <2>3 DEF PageOK
  <2>5. w.quota = v.quota + net[n].data
    BY <2>3 DEF PageOK
  <2>. HIDE DEF w
  <2>6. v.quota \in Int /\ w.quota \in Int
    BY <2>2, <2>3, <2>5 DEF PageOK
  <2>7. view.at \notin CodePages /\ view.at \notin ConfirmPages /\ view.at \notin CountdownPages
    BY <1>1, PageNames
  <2>8. Fit(w)
    BY <2>3, <2>4, <2>6, <2>7 DEF Fit, PageOK, ClockOK, FieldsOK
  <2>9. Told(view, net[n], w)
    BY <1>1, <1>3, <1>5, <2>4, <2>5 DEF Told, Keeps
  <2>. QED
    BY <1>1, <2>1, <2>8, <2>9, EndsKeep
<1>. QED
  BY <1>4, <1>5

LEMMA QuotaKeeps ==
    ASSUME IInv, NEW page \in WalletPages, NEW fn \in {"getUserQuota", "airGetUserQuota", "berryGetUserQuota"},
           NEW n \in Back(page, fn), QuotaReturns(n)
    PROVE  IInv'
<1>. DEFINE w == [view EXCEPT !.quota = net[n].data.quota]
<1>1. /\ n \in DOMAIN net /\ net[n].st \in {"ok", "refused", "failed"} /\ view.at \in WalletPages
      /\ net[n].req = "self" /\ AnswerOK(net[n], Addressed)
  BY BackFrom DEF SentBy
<1>2. Fit(view) /\ Like(view, view)
  BY ViewFit, FitPage, Cosmetics
<1>3. CASE net[n].st # "ok"
  BY <1>1, <1>2, <1>3, SilentLike DEF QuotaReturns, Returns
<1>4. CASE net[n].st = "ok"
  <2>1. Ends(n, w)
    BY <1>4 DEF QuotaReturns, Returns
  <2>2. net[n].data.quota \in Int
    BY <1>1, <1>4 DEF AnswerOK
  <2>3. /\ DOMAIN w = DOMAIN view /\ w.at = view.at /\ w.user = view.user /\ w.token = view.token
        /\ w.password = view.password /\ w.fields = view.fields
        /\ w.email = view.email /\ w.disabled = view.disabled /\ w.countdown = view.countdown
        /\ w.gap = view.gap /\ w.rushed = view.rushed /\ w.quota = net[n].data.quota
    BY FitPage DEF PageOK
  <2>. HIDE DEF w
  <2>4. Fit(w)
    BY <1>2, <2>2, <2>3 DEF Fit, PageOK, ClockOK, FieldsOK
  <2>5. Told(view, net[n], w)
    BY <1>1, <1>4, <2>3 DEF Told
  <2>. QED
    BY <1>1, <2>1, <2>4, <2>5, EndsKeep
<1>. QED
  BY <1>3, <1>4

----------------------------------------------------------------------------
\* An access token is shown, or a page is told why not.
LEMMA TokenShown ==
    ASSUME IInv, NEW n \in DOMAIN net, net[n].req = "token", net[n].st = "ok",
           NEW v, Like([view EXCEPT !.token = net[n].data], v), Ends(n, v)
    PROVE  IInv'
<1>. DEFINE w == [view EXCEPT !.token = net[n].data]
<1>1. AnswerOK(net[n], Addressed) /\ view.at \notin WalletPages
  BY Elsewhere_ DEF IInv, RequestsOK
<1>2. /\ DOMAIN w = DOMAIN view /\ w.at = view.at /\ w.user = view.user /\ w.token = net[n].data
      /\ w.password = view.password /\ w.fields = view.fields /\ w.quota = view.quota
      /\ w.email = view.email /\ w.disabled = view.disabled /\ w.countdown = view.countdown
      /\ w.gap = view.gap /\ w.rushed = view.rushed
  BY FitPage DEF PageOK
<1>. HIDE DEF w
<1>3. w.token \in Nat
  BY <1>1, <1>2 DEF AnswerOK
<1>4. Fit(w)
  BY <1>2, <1>3, ViewFit DEF Fit, PageOK, ClockOK, FieldsOK
<1>5. Fit(v) /\ Keeps(w, v)
  BY <1>4, LikeFit DEF w
<1>6. Told(view, net[n], v)
  BY <1>1, <1>2, <1>5 DEF Told, Keeps
<1>. QED
  BY <1>1, <1>5, <1>6, EndsKeep

----------------------------------------------------------------------------
(***************************************************************************)
(* The kinds of handlers.                                                  *)
(***************************************************************************)
\* One that waits, with nothing else to see on the page.
LEMMA AsksLike ==
    ASSUME IInv, NEW v, Like(view, v), NEW fn, NEW req, NEW arg, NEW was, SendsWith(v, fn, req, arg, was),
           SentBy(fn, req), view.at \notin ConfirmPages \cup WalletPages, req \notin {"self", "user/reset"},
           req = "delete" => view.at \in DeletePages,
           req \in {"login", "wechat", "oauth"} => view.at \notin DeletePages,
           req \in {"register", "email/bind"} => arg.code \in Codes
    PROVE  IInv'
<1>1. MaySend(fn, req, arg, was)
  BY MayAsk
<1>. QED
  BY <1>1, SendsLike

LEMMA CodeTyped == ASSUME IInv, view.at \in CodePages PROVE view.fields["code"] \in Codes
  BY DEF IInv, FieldsOK

LEMMA RegistersKeep ==
    ASSUME IInv, NEW v, Like(view, v), view.at \in CodePages, view.at \notin ConfirmPages \cup WalletPages,
           NEW fn, SentBy(fn, "register"), NEW username, Registers(v, fn, username)
    PROVE  IInv'
<1>. DEFINE arg == [username |-> username, email |-> v.fields["email"], code |-> v.fields["code"], human |-> Human]
<1>1. SendsWith(v, fn, "register", arg, <<>>)
  BY DEF Registers, Sends
<1>2. arg.code \in Codes
  BY CodeTyped DEF Like
<1>. HIDE DEF arg
<1>. QED
  BY <1>1, <1>2, AsksLike

\* One that goes on with nothing to tell of the account.
Tells == {"logout", "airLogout", "berryLogout", "deleteAccount", "airDeleteAccount",
          "generateAccessToken", "airGenerateAccessToken", "berryGenerateAccessToken"}

LEMMA PlainBack ==
    ASSUME IInv, NEW at, at \notin WalletPages, NEW fn, fn \notin Tells, NEW n \in Back(at, fn),
           NEW v, (Fit(v) /\ Keeps(view, v)) \/ Like(view, v), Ends(n, v)
    PROVE  IInv'
<1>1. /\ n \in DOMAIN net /\ net[n].st \in {"ok", "refused", "failed"} /\ view.at = at
      /\ net[n].req \notin {"logout", "delete", "token"}
  BY BackFrom DEF SentBy, Tells
<1>2. Fit(v) /\ Keeps(view, v)
  BY ViewFit, LikeFit
<1>. QED
  BY <1>1, <1>2, SilentEnds

LEMMA PlainReturns ==
    ASSUME IInv, NEW at, at \notin WalletPages, NEW fn, fn \notin Tells, NEW n \in Back(at, fn),
           NEW ok, Like(view, ok), NEW otherwise, Like(view, otherwise), Returns(n, ok, otherwise)
    PROVE  IInv'
<1>1. \E v \in {ok, otherwise} : Ends(n, v)
  BY DEF Returns
<1>2. PICK v \in {ok, otherwise} : Ends(n, v)
  BY <1>1
<1>. QED
  BY <1>2, PlainBack

\* One that signs somebody in.
Logins == {"loginHandleSubmit", "onSubmitWeChatVerificationCode", "airLoginHandleSubmit",
           "airOnSubmitWeChatVerificationCode", "berryLogin", "berryWechatLogin"}

LEMMA LoginBack ==
    ASSUME IInv, NEW at, NEW fn \in Logins, NEW n \in Back(at, fn), NEW u, Like(view, u), NEW v, Ends(n, v),
           net[n].st = "ok" => Like(SignedIn(u), v), net[n].st # "ok" => Like(view, v)
    PROVE  IInv'
<1>1. /\ n \in DOMAIN net /\ net[n].st \in {"ok", "refused", "failed"}
      /\ net[n].req \in {"login", "wechat", "oauth"}
  BY BackFrom DEF SentBy, Logins
<1>2. view.at \notin WalletPages
  BY <1>1, Elsewhere_
<1>. QED
  BY <1>1, <1>2, SignsInKeep, SilentLike

\* One that shows an access token.
LEMMA TokenBack ==
    ASSUME IInv, NEW at, NEW fn \in {"generateAccessToken", "airGenerateAccessToken", "berryGenerateAccessToken"},
           NEW n \in Back(at, fn), NEW v, Like([view EXCEPT !.token = net[n].data], v), Returns(n, v, view)
    PROVE  IInv'
<1>1. n \in DOMAIN net /\ net[n].st \in {"ok", "refused", "failed"} /\ net[n].req = "token"
  BY BackFrom DEF SentBy
<1>2. view.at \notin WalletPages
  BY <1>1, Elsewhere_
<1>3. CASE net[n].st = "ok"
  BY <1>1, <1>3, TokenShown DEF Returns
<1>4. CASE net[n].st = "refused"
  BY <1>1, <1>2, <1>4, FitPage, Cosmetics, SilentLike DEF Returns
<1>. QED
  BY <1>1, <1>3, <1>4 DEF Returns

\* One that deletes the account: first the account, then the session.
LEMMA DeletedBack ==
    ASSUME IInv, NEW at, NEW fn \in {"deleteAccount", "airDeleteAccount"}, NEW n \in Back(at, fn),
           NEW out \in {"logout", "airLogout"}, net[n].st # "failed",
           IF net[n].st = "ok" THEN GoesOn(n, view, out, "logout", "", <<>>) ELSE Ends(n, view)
    PROVE  IInv'
<1>1. n \in DOMAIN net /\ net[n].st \in {"ok", "refused"} /\ net[n].req = "delete"
  <2>1. n \in DOMAIN net /\ net[n].st \in {"ok", "refused", "failed"} /\ SentBy(fn, net[n].req)
    BY BackFrom
  <2>2. net[n].req = "delete"
    BY <2>1 DEF SentBy
  <2>. QED
    BY <2>1, <2>2
<1>2. view.at \notin WalletPages /\ view.at \notin ConfirmPages
  BY <1>1, Elsewhere_
<1>3. CASE net[n].st = "ok"
  <2>1. SentBy(out, "logout")
    BY DEF SentBy
  <2>2. MaySend(out, "logout", "", <<>>)
    BY <1>2, <2>1, MayAsk
  <2>. QED
    BY <1>1, <1>3, <2>2, GoesOnKeep
<1>4. CASE net[n].st = "refused"
  BY <1>1, <1>2, <1>4, FitPage, Cosmetics, SilentLike
<1>. QED
  BY <1>1, <1>3, <1>4

LEMMA LogoutBack ==
    ASSUME IInv, NEW at, NEW fn \in {"logout", "airLogout", "berryLogout"}, NEW n \in Back(at, fn),
           Ends(n, SignedOut(view))
    PROVE  IInv'
  BY BackFrom, SignsOutKeep DEF SentBy

\* The buttons that are disabled while they wait.
Pressed(v) ==
    /\ Keeps(view, v) /\ v.fields = view.fields /\ v.countdown = view.countdown /\ v.gap = view.gap
    /\ v.rushed = view.rushed /\ v.disabled \in BOOLEAN

Disabling(v) == Pressed(v) /\ v.disabled

LEMMA Buttons ==
    ASSUME IInv
    PROVE  /\ Pressed(view) /\ Pressed([view EXCEPT !.loading = TRUE])
           /\ Disabling([view EXCEPT !.disabled = TRUE])
           /\ Disabling([view EXCEPT !.disabled = TRUE, !.loading = TRUE])
           /\ Disabling([[view EXCEPT !.disabled = TRUE] EXCEPT !.loading = TRUE])
           /\ Disabling([[view EXCEPT !.disabled = TRUE] EXCEPT !.submitting = TRUE])
<1>1. /\ view.disabled \in BOOLEAN
      /\ DOMAIN view = {"at", "user", "fields", "turnstile", "disabled", "countdown", "loading", "submitting",
                "dialog", "left", "link", "token", "password", "quota", "email", "fetched", "gap", "rushed"}
  BY DEF IInv, PageOK
<1>2. Pressed(view) /\ Pressed([view EXCEPT !.loading = TRUE])
  BY <1>1 DEF Pressed, Keeps
<1>3. /\ Disabling([view EXCEPT !.disabled = TRUE])
      /\ Disabling([view EXCEPT !.disabled = TRUE, !.loading = TRUE])
  BY <1>1 DEF Disabling, Pressed, Keeps
<1>4. /\ Disabling([[view EXCEPT !.disabled = TRUE] EXCEPT !.loading = TRUE])
      /\ Disabling([[view EXCEPT !.disabled = TRUE] EXCEPT !.submitting = TRUE])
  BY <1>1 DEF Disabling, Pressed, Keeps
<1>. QED
  BY <1>2, <1>3, <1>4

LEMMA DisablingFit == ASSUME IInv, NEW v, Disabling(v) PROVE Fit(v) /\ Keeps(view, v)
<1>1. /\ Keeps(view, v) /\ v.fields = view.fields /\ v.countdown = view.countdown /\ v.gap = view.gap
      /\ v.rushed = view.rushed /\ v.disabled \in BOOLEAN /\ v.disabled
  BY DEF Disabling, Pressed
<1>2. PageOK(v)
  BY <1>1 DEF IInv, PageOK, Keeps
<1>3. ClockOK(v) /\ FieldsOK(v, Codes)
  BY <1>1 DEF IInv, ClockOK, FieldsOK, Keeps
<1>. QED
  BY <1>1, <1>2, <1>3 DEF Fit, Keeps

LEMMA DisablesKeep == ASSUME IInv, Shows([view EXCEPT !.disabled = TRUE]) PROVE IInv'
  BY Buttons, DisablingFit, ShowsKeep

LEMMA MailButton ==
    ASSUME IInv, NEW v, Pressed(v), view.at \in CountdownPages => ~view.disabled /\ v.disabled,
           view.at \notin ConfirmPages \cup WalletPages,
           NEW fn, NEW req \in {"verification", "reset_password"}, SentBy(fn, req), AsksForMail(v, fn, req)
    PROVE  IInv'
  BY MailsAsked DEF Pressed

\* The answer to a request for mail; some forms are emptied then.
LEMMA EnabledLike == ASSUME NEW v, PageOK(v), NEW w, Like(v, w) PROVE Like(Enabled(v), Enabled(w))
  BY DEF Like, Keeps, Enabled, PageOK

LEMMA MailFits ==
    ASSUME IInv, NEW n, NEW x
    PROVE  /\ Like(MailReturns(n), MailReturns(n))
           /\ Like(MailReturns(n), [MailReturns(n) EXCEPT !.loading = x])
           /\ Like(MailReturns(n), [MailReturns(n) EXCEPT !.submitting = x])
           /\ Like(Enabled(MailReturns(n)), Enabled([MailReturns(n) EXCEPT !.loading = x]))
           /\ Like(Enabled(MailReturns(n)), Enabled([MailReturns(n) EXCEPT !.submitting = x]))
<1>1. PageOK(MailReturns(n))
  BY MailLike DEF Fit
<1>. QED
  BY <1>1, Cosmetics, EnabledLike

LEMMA MailBack ==
    ASSUME IInv, NEW at, at \notin WalletPages, NEW fn, fn \notin Tells, NEW n \in Back(at, fn), NEW v, Ends(n, v),
           Like(MailReturns(n), v) \/ (net[n].st = "refused" /\ Like(Enabled(MailReturns(n)), v))
    PROVE  IInv'
<1>1. /\ n \in DOMAIN net /\ net[n].st \in {"ok", "refused", "failed"} /\ view.at = at
      /\ net[n].req \notin {"logout", "delete", "token"}
  BY BackFrom DEF SentBy, Tells
<1>. QED
  BY <1>1, MailEnds

\* The forms whose fields are only an address.
LEMMA FieldsFree ==
    ASSUME NEW v, Fit(v), view.at \notin CodePages \cup ConfirmPages, NEW w, DOMAIN w = DOMAIN v, Keeps(v, w),
           w.disabled = v.disabled, w.countdown = v.countdown, w.gap = v.gap, w.rushed = v.rushed
    PROVE  Fit(w)
  BY DEF Fit, Keeps, PageOK, ClockOK, FieldsOK

LEMMA Emptied ==
    ASSUME NEW v, Fit(v), view.at \notin CodePages \cup ConfirmPages
    PROVE  Fit([v EXCEPT !.fields["email"] = ""]) /\ Keeps(v, [v EXCEPT !.fields["email"] = ""])
<1>. DEFINE w == [v EXCEPT !.fields["email"] = ""]
<1>1. /\ DOMAIN w = DOMAIN v /\ Keeps(v, w)
      /\ w.disabled = v.disabled /\ w.countdown = v.countdown /\ w.gap = v.gap /\ w.rushed = v.rushed
  BY DEF Keeps, Fit, PageOK
<1>. HIDE DEF w
<1>2. Fit(w)
  BY <1>1, FieldsFree
<1>. QED
  BY <1>1, <1>2 DEF w

\* The confirmation pages.
LEMMA ConfirmAsks ==
    ASSUME IInv, view.at \in ConfirmPages, NEW v, Fit(v), Keeps(view, v),
           NEW fn \in {"confirmHandleSubmit", "airConfirmHandleSubmit", "berryConfirmSubmit"},
           Sends(v, fn, "user/reset", view.fields)
    PROVE  IInv'
<1>1. SendsWith(v, fn, "user/reset", view.fields, <<>>)
  BY DEF Sends
<1>2. view.fields = ResetLink
  BY DEF IInv, PageOK
<1>3. SentBy(fn, "user/reset")
  BY DEF SentBy
<1>4. view.at \notin WalletPages /\ view.at \notin DeletePages
  BY PageNames
<1>5. MaySend(fn, "user/reset", view.fields, <<>>)
  BY <1>2, <1>3, <1>4, MayAsk
<1>. QED
  BY <1>1, <1>5, SendsKeep

LEMMA PasswordShown ==
    ASSUME IInv, NEW at \in ConfirmPages,
           NEW fn \in {"confirmHandleSubmit", "airConfirmHandleSubmit", "berryConfirmSubmit"}, NEW n \in Back(at, fn),
           NEW u, Like(view, u), Returns(n, [u EXCEPT !.password = net[n].data], u)
    PROVE  IInv'
<1>. DEFINE w == [u EXCEPT !.password = net[n].data]
<1>1. /\ n \in DOMAIN net /\ net[n].st \in {"ok", "refused", "failed"} /\ view.at = at
      /\ net[n].req = "user/reset" /\ AnswerOK(net[n], Addressed)
  BY BackFrom DEF SentBy
<1>2. at \notin WalletPages /\ at \notin CountdownPages /\ at \notin CodePages
  BY PageNames
<1>3. CASE net[n].st # "ok"
  BY <1>1, <1>2, <1>3, SilentLike DEF Returns
<1>4. CASE net[n].st = "ok"
  <2>1. Ends(n, w)
    BY <1>4 DEF Returns
  <2>2. Fit(u) /\ Keeps(view, u)
    BY ViewFit, LikeFit
  <2>3. /\ DOMAIN w = DOMAIN u /\ w.at = u.at /\ w.user = u.user /\ w.token = u.token
        /\ w.fields = u.fields /\ w.quota = u.quota /\ w.password = net[n].data
        /\ w.email = u.email /\ w.disabled = u.disabled /\ w.countdown = u.countdown
        /\ w.gap = u.gap /\ w.rushed = u.rushed
    BY <2>2 DEF Fit, PageOK
  <2>. HIDE DEF w
  <2>4. w.password \in Nat
    BY <1>1, <1>4, <2>3 DEF AnswerOK
  <2>5. Fit(w)
    BY <1>1, <1>2, <2>2, <2>3, <2>4 DEF Fit, PageOK, ClockOK, FieldsOK
  <2>6. Told(view, net[n], w)
    BY <1>1, <1>2, <1>4, <2>2, <2>3 DEF Told, Keeps
  <2>. QED
    BY <1>1, <2>1, <2>5, <2>6, EndsKeep
<1>. QED
  BY <1>3, <1>4

\* What the pages do to themselves that matters to nobody.
LEMMA Likes ==
    ASSUME IInv
    PROVE  /\ Like(view, view)
           /\ \A x : /\ Like(view, [view EXCEPT !.loading = x]) /\ Like(view, [view EXCEPT !.submitting = x])
                     /\ Like(view, [view EXCEPT !.link = x])
           /\ \A x : /\ Like(view, [[view EXCEPT !.loading = x] EXCEPT !.left = TRUE])
                     /\ Like(view, [[view EXCEPT !.submitting = x] EXCEPT !.left = TRUE])
           /\ \A d : Like(view, Hides(view, d))
           /\ \A x, d : Like(view, Hides([view EXCEPT !.loading = x], d))
<1>1. PageOK(view)
  BY FitPage
<1>2. /\ Like(view, view)
      /\ \A x : /\ Like(view, [view EXCEPT !.loading = x]) /\ Like(view, [view EXCEPT !.submitting = x])
                /\ Like(view, [view EXCEPT !.link = x])
  BY <1>1, Cosmetics
<1>3. ASSUME NEW v, Like(view, v)
      PROVE  Like(view, [v EXCEPT !.left = TRUE]) /\ \A d : Like(view, Hides(v, d))
  <2>1. PageOK(v)
    BY <1>3, ViewFit, LikeFit DEF Fit
  <2>. QED
    BY <1>3, <2>1, Cosmetics, HidesLike, LikeOn
<1>4. \A x : /\ Like(view, [[view EXCEPT !.loading = x] EXCEPT !.left = TRUE])
             /\ Like(view, [[view EXCEPT !.submitting = x] EXCEPT !.left = TRUE])
  BY <1>2, <1>3
<1>5. (\A d : Like(view, Hides(view, d))) /\ \A x, d : Like(view, Hides([view EXCEPT !.loading = x], d))
  BY <1>2, <1>3
<1>. QED
  BY <1>2, <1>4, <1>5

\* A button that is disabled when it is pressed asks for a mail.
LEMMA MailPressed ==
    ASSUME IInv, ~view.disabled, view.at \notin ConfirmPages \cup WalletPages,
           NEW fn, NEW req \in {"verification", "reset_password"}, SentBy(fn, req),
           NEW v, Disabling(v), AsksForMail(v, fn, req)
    PROVE  IInv'
  BY MailButton DEF Disabling

LEMMA MailReturned ==
    ASSUME IInv, NEW at, at \notin WalletPages, NEW fn, fn \notin Tells, NEW n \in Back(at, fn),
           NEW v, Like(MailReturns(n), v),
           NEW w, Like(MailReturns(n), w) \/ Like(Enabled(MailReturns(n)), w), Returns(n, v, w)
    PROVE  IInv'
<1>1. net[n].st \in {"ok", "refused", "failed"}
  BY BackFrom
<1>2. CASE net[n].st = "ok"
  BY <1>2, MailBack DEF Returns
<1>3. CASE net[n].st = "refused"
  BY <1>3, MailBack DEF Returns
<1>. QED
  BY <1>1, <1>2, <1>3 DEF Returns

\* The forms that are emptied once the mail is sent.
LEMMA EmptiedReturned ==
    ASSUME IInv, NEW at, at \notin WalletPages \cup CodePages \cup ConfirmPages, NEW fn, fn \notin Tells,
           NEW n \in Back(at, fn), NEW v, Like(MailReturns(n), v),
           NEW w, Like(MailReturns(n), w) \/ Like(Enabled(MailReturns(n)), w),
           Returns(n, [v EXCEPT !.fields["email"] = ""], w)
    PROVE  IInv'
<1>1. net[n].st \in {"ok", "refused", "failed"} /\ view.at = at
  BY BackFrom
<1>. DEFINE u == [v EXCEPT !.fields["email"] = ""]
<1>2. CASE net[n].st = "ok"
  <2>1. Ends(n, u)
    BY <1>2 DEF Returns
  <2>2. Fit(v) /\ Keeps(view, v)
    BY MailLike, LikeFit, KeepsOn
  <2>3. Fit(u) /\ Keeps(view, u)
    BY <1>1, <2>2, Emptied, KeepsOn
  <2>. HIDE DEF u
  <2>. QED
    BY <2>1, <2>3, PlainBack
<1>3. CASE net[n].st = "refused"
  BY <1>3, MailBack DEF Returns
<1>. QED
  BY <1>1, <1>2, <1>3 DEF Returns

\* The invitation link takes the place of the access token.
LEMMA TokenHidden ==
    ASSUME IInv, NEW at, at \notin WalletPages, NEW n \in Back(at, "getAffLink"),
           Returns(n, [view EXCEPT !.link = TRUE, !.token = 0], view)
    PROVE  IInv'
<1>. DEFINE w == [view EXCEPT !.link = TRUE, !.token = 0]
<1>1. /\ n \in DOMAIN net /\ net[n].st \in {"ok", "refused", "failed"} /\ view.at = at
      /\ net[n].req \notin {"logout", "delete", "token"}
  BY BackFrom DEF SentBy
<1>2. CASE net[n].st = "ok"
  <2>1. Ends(n, w)
    BY <1>2 DEF Returns
  <2>2. /\ DOMAIN w = DOMAIN view /\ w.at = view.at /\ w.user = view.user /\ w.token = 0
        /\ w.fields = view.fields /\ w.quota = view.quota /\ w.password = view.password
        /\ w.email = view.email /\ w.disabled = view.disabled /\ w.countdown = view.countdown
        /\ w.gap = view.gap /\ w.rushed = view.rushed
    BY FitPage DEF PageOK
  <2>. HIDE DEF w
  <2>3. Fit(w)
    BY ViewFit, <2>2 DEF Fit, PageOK, ClockOK, FieldsOK
  <2>4. Told(view, net[n], w)
    BY <1>1, <2>2 DEF Told
  <2>. QED
    BY <1>1, <2>1, <2>3, <2>4, EndsKeep
<1>3. CASE net[n].st = "refused"
  BY <1>1, <1>3, Likes, SilentLike DEF Returns
<1>. QED
  BY <1>1, <1>2, <1>3 DEF Returns

\* An empty form of an address and its code.
LEMMA Cleared ==
    ASSUME NEW v, Fit(v), v.at \notin ConfirmPages, NEW w, DOMAIN w = DOMAIN v, w.at = v.at,
           w.user \in {v.user, "me"}, w.token \in {v.token, 0}, w.password = v.password, w.quota = v.quota,
           w.disabled = v.disabled, w.countdown = v.countdown, w.gap = v.gap, w.rushed = v.rushed,
           w.fields = v.fields \/ v.at \notin CodePages \/ w.fields = MailFields
    PROVE  Fit(w)
<1>1. DOMAIN MailFields = {"email", "code"} /\ MailFields["code"] \in Codes
  BY DEF MailFields, Codes
<1>2. PageOK(w)
  BY <1>1 DEF Fit, PageOK
<1>3. ClockOK(w) /\ FieldsOK(w, Codes)
  BY <1>1 DEF Fit, ClockOK, FieldsOK
<1>. QED
  BY <1>2, <1>3 DEF Fit

\* An address is shown as that of the account.
LEMMA AddressShown ==
    ASSUME IInv, NEW n \in DOMAIN net, net[n].st = "ok", view.at \notin WalletPages \cup ConfirmPages,
           NEW w, Ends(n, w), DOMAIN w = DOMAIN view, w.at = view.at,
           w.token \in {view.token, 0}, w.password = view.password, w.quota = view.quota,
           w.disabled = view.disabled, w.countdown = view.countdown, w.gap = view.gap, w.rushed = view.rushed,
           w.fields = view.fields \/ view.at \notin CodePages \/ w.fields = MailFields,
           \/ net[n].req = "self" /\ w.user = "me" /\ w.email = net[n].data.email
           \/ net[n].req = "self" /\ w.user = view.user /\ w.email = net[n].data.email
           \/ net[n].req = "email/bind" /\ w.user = view.user /\ w.email \in {view.email, net[n].arg.email}
    PROVE  IInv'
<1>1. Fit(w)
  BY ViewFit, Cleared
<1>2. Told(view, net[n], w)
  BY DEF Told, SignsIn
<1>. QED
  BY <1>1, <1>2, EndsKeep


----------------------------------------------------------------------------
(***************************************************************************)
(* The handlers of the three front ends.                                   *)
(***************************************************************************)
LEMMA DefaultKeeps == ASSUME IInv, DefaultNext PROVE IInv'
<1>1. CASE onWeChatLoginClicked
  BY <1>1, OpeningKeeps, ClosingKeeps DEF onWeChatLoginClicked
<1>2. CASE loginHandleSubmit
  <2>1. PICK secret \in Typed("secret") \ {""} : SendsWith(view, "loginHandleSubmit", "login", secret, <<>>)
    BY <1>2 DEF loginHandleSubmit, Sends
  <2>2. view.at \notin ConfirmPages \cup WalletPages \cup DeletePages
    BY <1>2, PageNames DEF loginHandleSubmit, LoginForm, On, At, Login
  <2>3. SentBy("loginHandleSubmit", "login")
    BY DEF SentBy
  <2>. QED
    BY <2>1, <2>2, <2>3, Likes, AsksLike
<1>3. CASE loginHandleSubmitReturns
  <2>1. PICK n \in Back(Login, "loginHandleSubmit") : Returns(n, SignedIn(view), view)
    BY <1>3 DEF loginHandleSubmitReturns
  <2>2. Like(SignedIn(view), SignedIn(view))
    BY ViewFit, SignedInFit, Cosmetics, HidesLike DEF Fit
  <2>. QED
    BY <2>1, <2>2, Likes, LoginBack DEF Returns, Logins
<1>4. CASE onSubmitWeChatVerificationCode
  <2>1. PICK secret \in Typed("secret") :
        SendsWith(view, "onSubmitWeChatVerificationCode", "wechat", secret, <<>>)
    BY <1>4 DEF onSubmitWeChatVerificationCode, Sends
  <2>2. view.at \notin ConfirmPages \cup WalletPages \cup DeletePages
    BY <1>4, PageNames DEF onSubmitWeChatVerificationCode, WeChatLogin, On, At, Login
  <2>3. SentBy("onSubmitWeChatVerificationCode", "wechat")
    BY DEF SentBy
  <2>. QED
    BY <2>1, <2>2, <2>3, Likes, AsksLike
<1>5. CASE onSubmitWeChatVerificationCodeReturns
  <2>1. PICK n \in Back(Login, "onSubmitWeChatVerificationCode") :
        Returns(n, Hides(SignedIn(view), {"wechat"}), view)
    BY <1>5 DEF onSubmitWeChatVerificationCodeReturns
  <2>2. Like(SignedIn(view), Hides(SignedIn(view), {"wechat"}))
    BY ViewFit, SignedInFit, Cosmetics, HidesLike DEF Fit
  <2>. QED
    BY <2>1, <2>2, Likes, LoginBack DEF Returns, Logins
<1>6. CASE signUpCountdown
  BY <1>6, TicksKeep DEF signUpCountdown
<1>7. CASE signUpTurnstile
  BY <1>7, VerifiesKeep DEF signUpTurnstile
<1>8. CASE signUpHandleChange
  <2>1. PICK k \in DOMAIN view.fields : Types(k)
    BY <1>8 DEF signUpHandleChange
  <2>2. view.at \notin ConfirmPages
    BY <1>8, PageNames DEF signUpHandleChange, signUpForm, On, At, SignUp
  <2>. QED
    BY <2>1, <2>2, TypesKeep
<1>9. CASE signUpHandleSubmit
  <2>1. Registers([view EXCEPT !.loading = TRUE], "signUpHandleSubmit", view.fields["email"])
    BY <1>9 DEF signUpHandleSubmit
  <2>2. view.at \in CodePages /\ view.at \notin ConfirmPages \cup WalletPages
    BY <1>9, PageNames DEF signUpHandleSubmit, signUpForm, On, At, SignUp
  <2>3. SentBy("signUpHandleSubmit", "register")
    BY DEF SentBy
  <2>. QED
    BY <2>1, <2>2, <2>3, Likes, RegistersKeep
<1>10. CASE signUpHandleSubmitReturns
  <2>1. PICK n \in Back(SignUp, "signUpHandleSubmit") :
        Returns(n, [[view EXCEPT !.loading = FALSE] EXCEPT !.left = TRUE], [view EXCEPT !.loading = FALSE])
    BY <1>10 DEF signUpHandleSubmitReturns
  <2>. QED
    BY <2>1, Likes, PlainReturns, PageNames DEF Tells, SignUp
<1>11. CASE signUpSendVerificationCode
  <2>1. AsksForMail([view EXCEPT !.disabled = TRUE, !.loading = TRUE],
                  "signUpSendVerificationCode", "verification")
    BY <1>11 DEF signUpSendVerificationCode
  <2>2. view.at \notin ConfirmPages \cup WalletPages /\ view.at \notin CountdownPages
    BY <1>11, PageNames DEF signUpSendVerificationCode, signUpMailButton, signUpForm, On, At, SignUp
  <2>3. SentBy("signUpSendVerificationCode", "verification")
    BY DEF SentBy
  <2>. QED
    BY <2>1, <2>2, <2>3, Buttons, MailButton DEF Disabling
<1>12. CASE signUpSendVerificationCodeReturns
  <2>1. PICK n \in Back(SignUp, "signUpSendVerificationCode") :
        Returns(n, [MailReturns(n) EXCEPT !.loading = FALSE],
                   Enabled([MailReturns(n) EXCEPT !.loading = FALSE]))
    BY <1>12 DEF signUpSendVerificationCodeReturns
  <2>. QED
    BY <2>1, MailFits, MailReturned, PageNames DEF Tells, SignUp
<1>13. CASE resetCountdown
  BY <1>13, TicksKeep DEF resetCountdown
<1>14. CASE resetTurnstile
  BY <1>14, VerifiesKeep DEF resetTurnstile
<1>15. CASE resetHandleChange
  <2>1. Types("email")
    BY <1>15 DEF resetHandleChange
  <2>2. view.at \notin ConfirmPages \cup CodePages
    BY <1>15, PageNames DEF resetHandleChange, On, At, Reset
  <2>. QED
    BY <2>1, <2>2, TypesKeep
<1>16. CASE resetHandleSubmit
  <2>1. ~view.disabled
    BY <1>16, Zenon DEF resetHandleSubmit, resetButton
  <2>2. \/ Shows([view EXCEPT !.disabled = TRUE])
        \/ AsksForMail([[view EXCEPT !.disabled = TRUE] EXCEPT !.loading = TRUE],
                        "resetHandleSubmit", "reset_password")
    BY <1>16 DEF resetHandleSubmit
  <2>3. view.at \notin ConfirmPages \cup WalletPages
    BY <1>16, PageNames DEF resetHandleSubmit, resetButton, On, At, Reset
  <2>4. SentBy("resetHandleSubmit", "reset_password")
    BY DEF SentBy
  <2>. QED
    BY <2>1, <2>2, <2>3, <2>4, Buttons, DisablesKeep, MailPressed
<1>17. CASE resetHandleSubmitReturns
  <2>1. PICK n \in Back(Reset, "resetHandleSubmit") :
        Returns(n, [[MailReturns(n) EXCEPT !.loading = FALSE] EXCEPT !.fields["email"] = ""],
                   Enabled([MailReturns(n) EXCEPT !.loading = FALSE]))
    BY <1>17 DEF resetHandleSubmitReturns
  <2>. QED
    BY <2>1, MailFits, EmptiedReturned, PageNames DEF Tells, Reset
<1>18. CASE confirmCountdown
  BY <1>18, TicksKeep DEF confirmCountdown
<1>19. CASE confirmHandleSubmit
  <2>1. Sends([view EXCEPT !.disabled = TRUE, !.loading = TRUE],
                  "confirmHandleSubmit", "user/reset", view.fields)
    BY <1>19 DEF confirmHandleSubmit
  <2>2. view.at \in ConfirmPages
    BY <1>19, PageNames DEF confirmHandleSubmit, confirmButton, On, At, Confirm
  <2>. QED
    BY <2>1, <2>2, Buttons, DisablingFit, ConfirmAsks
<1>20. CASE confirmHandleSubmitReturns
  <2>1. PICK n \in Back(Confirm, "confirmHandleSubmit") :
        Returns(n, [[view EXCEPT !.loading = FALSE] EXCEPT !.password = net[n].data],
                   [view EXCEPT !.loading = FALSE])
    BY <1>20 DEF confirmHandleSubmitReturns
  <2>2. Confirm \in ConfirmPages
    BY DEF ConfirmPages
  <2>. QED
    BY <2>1, <2>2, Likes, PasswordShown
<1>21. CASE personalCountdown
  BY <1>21, TicksKeep DEF personalCountdown
<1>22. CASE personalTurnstile
  BY <1>22, VerifiesKeep DEF personalTurnstile
<1>23. CASE personalDialogs
  BY <1>23, OpeningKeeps, ClosingKeeps DEF personalDialogs
<1>24. CASE personalHandleInputChange
  <2>1. PICK k \in DOMAIN view.fields : Types(k)
    BY <1>24 DEF personalHandleInputChange
  <2>2. view.at \notin ConfirmPages
    BY <1>24, PageNames DEF personalHandleInputChange, EmailDialog, On, At, EmailCard
  <2>. QED
    BY <2>1, <2>2, TypesKeep
<1>25. CASE generateAccessToken
  <2>1. SendsWith(view, "generateAccessToken", "token", "", <<>>)
    BY <1>25 DEF generateAccessToken, Sends
  <2>2. view.at \notin ConfirmPages \cup WalletPages
    BY <1>25, PageNames DEF generateAccessToken, General, On, At, Personal
  <2>3. SentBy("generateAccessToken", "token")
    BY DEF SentBy
  <2>. QED
    BY <2>1, <2>2, <2>3, Likes, AsksLike
<1>26. CASE generateAccessTokenReturns
  <2>1. PICK n \in Back(Personal, "generateAccessToken") :
        Returns(n, [view EXCEPT !.token = net[n].data, !.link = FALSE], view)
    BY <1>26 DEF generateAccessTokenReturns
  <2>2. Like([view EXCEPT !.token = net[n].data], [view EXCEPT !.token = net[n].data, !.link = FALSE])
    BY FitPage DEF PageOK, Like, Keeps
  <2>. QED
    BY <2>1, <2>2, TokenBack
<1>27. CASE getAffLink
  <2>1. SendsWith(view, "getAffLink", "read", "", <<>>)
    BY <1>27 DEF getAffLink, Sends
  <2>2. view.at \notin ConfirmPages \cup WalletPages
    BY <1>27, PageNames DEF getAffLink, General, On, At, Personal
  <2>3. SentBy("getAffLink", "read")
    BY DEF SentBy
  <2>. QED
    BY <2>1, <2>2, <2>3, Likes, AsksLike
<1>28. CASE getAffLinkReturns
  BY <1>28, TokenHidden, PageNames DEF getAffLinkReturns, Personal
<1>29. CASE bindWeChat
  <2>1. PICK secret \in Typed("secret") \ {""} : SendsWith(view, "bindWeChat", "wechat/bind", secret, <<>>)
    BY <1>29 DEF bindWeChat, Sends
  <2>2. view.at \notin ConfirmPages \cup WalletPages
    BY <1>29, PageNames DEF bindWeChat, WeChatDialog, On, At, Personal
  <2>3. SentBy("bindWeChat", "wechat/bind")
    BY DEF SentBy
  <2>. QED
    BY <2>1, <2>2, <2>3, Likes, AsksLike
<1>30. CASE bindWeChatReturns
  <2>1. PICK n \in Back(Personal, "bindWeChat") : Returns(n, Hides(view, {"wechat"}), view)
    BY <1>30 DEF bindWeChatReturns
  <2>. QED
    BY <2>1, Likes, PlainReturns, PageNames DEF Tells, Personal
<1>31. CASE personalSendVerificationCode
  <2>1. ~view.disabled
    BY <1>31, Zenon DEF personalSendVerificationCode, EmailDialog
  <2>2. \/ Shows([view EXCEPT !.disabled = TRUE])
        \/ AsksForMail([[view EXCEPT !.disabled = TRUE] EXCEPT !.loading = TRUE],
                        "personalSendVerificationCode", "verification")
    BY <1>31 DEF personalSendVerificationCode
  <2>3. view.at \notin ConfirmPages \cup WalletPages
    BY <1>31, PageNames DEF personalSendVerificationCode, EmailDialog, On, At, EmailCard
  <2>4. SentBy("personalSendVerificationCode", "verification")
    BY DEF SentBy
  <2>. QED
    BY <2>1, <2>2, <2>3, <2>4, Buttons, DisablesKeep, MailPressed
<1>32. CASE personalSendVerificationCodeReturns
  <2>1. PICK n \in Back(EmailCard, "personalSendVerificationCode") :
        Returns(n, [MailReturns(n) EXCEPT !.loading = FALSE], [MailReturns(n) EXCEPT !.loading = FALSE])
    BY <1>32 DEF personalSendVerificationCodeReturns
  <2>. QED
    BY <2>1, MailFits, MailReturned, PageNames DEF Tells, EmailCard
<1>33. CASE bindEmail
  <2>. DEFINE arg == [email |-> view.fields["email"], code |-> view.fields["code"]]
  <2>1. SendsWith([view EXCEPT !.loading = TRUE], "bindEmail", "email/bind", arg, <<>>)
    BY <1>33 DEF bindEmail, Sends
  <2>2. view.at \notin ConfirmPages \cup WalletPages /\ view.at \in CodePages
    BY <1>33, PageNames DEF bindEmail, EmailDialog, On, At, EmailCard
  <2>3. SentBy("bindEmail", "email/bind")
    BY DEF SentBy
  <2>4. arg.code \in Codes
    BY <2>2, CodeTyped
  <2>5. Like(view, [view EXCEPT !.loading = TRUE])
    BY Likes
  <2>. HIDE DEF arg
  <2>. QED
    BY <2>1, <2>2, <2>3, <2>4, <2>5, AsksLike
<1>34. CASE bindEmailReturns
  <2>1. PICK n \in Back(EmailCard, "bindEmail") :
        Returns(n, Hides([view EXCEPT !.loading = FALSE], {"email"}), [view EXCEPT !.loading = FALSE])
    BY <1>34 DEF bindEmailReturns
  <2>. QED
    BY <2>1, Likes, PlainReturns, PageNames DEF Tells, EmailCard
<1>35. CASE deleteAccount
  <2>1. SendsWith(view, "deleteAccount", "delete", "", <<>>)
    BY <1>35 DEF deleteAccount, Sends
  <2>2. view.at \notin ConfirmPages \cup WalletPages /\ view.at \in DeletePages
    BY <1>35, PageNames DEF deleteAccount, DeleteDialog, On, At, Personal
  <2>3. SentBy("deleteAccount", "delete")
    BY DEF SentBy
  <2>. QED
    BY <2>1, <2>2, <2>3, Likes, AsksLike
<1>36. CASE deleteAccountReturns
  BY <1>36, DeletedBack DEF deleteAccountReturns
<1>37. CASE logout
  <2>1. SendsWith(view, "logout", "logout", "", <<>>)
    BY <1>37 DEF logout, Sends
  <2>2. view.at \notin ConfirmPages \cup WalletPages
    BY <1>37, PageNames DEF logout, General, On, At, Personal
  <2>3. SentBy("logout", "logout")
    BY DEF SentBy
  <2>. QED
    BY <2>1, <2>2, <2>3, Likes, AsksLike
<1>38. CASE logoutReturns
  BY <1>38, LogoutBack DEF logoutReturns
<1>39. CASE walletHandleChange
  <2>1. Types("key")
    BY <1>39 DEF walletHandleChange
  <2>2. view.at \notin ConfirmPages \cup CodePages
    BY <1>39, PageNames DEF walletHandleChange, On, At, Wallet
  <2>. QED
    BY <2>1, <2>2, TypesKeep
<1>40. CASE getUserQuotaReturns
  BY <1>40, QuotaKeeps DEF getUserQuotaReturns, WalletPages
<1>41. CASE topUp
  BY <1>41, RedeemsKeep DEF topUp, WalletPages
<1>42. CASE topUpReturns
  BY <1>42, RedeemedKeep DEF topUpReturns, WalletPages
<1>43. CASE gitHubSendCodeReturns
  BY <1>43, SendCodeKeeps DEF gitHubSendCodeReturns, SendCodeReturns
<1>44. CASE larkSendCodeReturns
  BY <1>44, SendCodeKeeps DEF larkSendCodeReturns, SendCodeReturns
<1>45. CASE DefaultExpired
  <2>1. PICK n \in DOMAIN net : net[n].st = "expired" /\ net' = [net EXCEPT ![n].st = "failed"]
    BY <1>45 DEF DefaultExpired
  <2>2. UNCHANGED <<view, server, calls, history>>
    BY <1>45 DEF DefaultExpired
  <2>3. Replied(n, "failed")
    BY <2>1, <2>2, Becomes
  <2>. QED
    BY <2>1, <2>2, <2>3, FailsKeep
<1>46. CASE DefaultRejected
  BY <1>46, RejectedKeep DEF DefaultRejected
<1>. QED
  BY <1>1, <1>2, <1>3, <1>4, <1>5, <1>6, <1>7, <1>8, <1>9, <1>10, <1>11, <1>12, <1>13, <1>14, <1>15, <1>16,
     <1>17, <1>18, <1>19, <1>20, <1>21, <1>22, <1>23, <1>24, <1>25, <1>26, <1>27, <1>28, <1>29, <1>30,
     <1>31, <1>32, <1>33, <1>34, <1>35, <1>36, <1>37, <1>38, <1>39, <1>40, <1>41, <1>42, <1>43, <1>44,
     <1>45, <1>46 DEF DefaultNext

LEMMA AirKeeps == ASSUME IInv, AirNext PROVE IInv'
<1>1. CASE airLoginTurnstile
  BY <1>1, VerifiesKeep DEF airLoginTurnstile
<1>2. CASE airOnWeChatLoginClicked
  BY <1>2, OpeningKeeps, ClosingKeeps DEF airOnWeChatLoginClicked
<1>3. CASE airLoginHandleSubmit
  <2>1. PICK secret \in Typed("secret") \ {""} :
        SendsWith(view, "airLoginHandleSubmit", "login", secret, <<>>)
    BY <1>3 DEF airLoginHandleSubmit, Sends
  <2>2. view.at \notin ConfirmPages \cup WalletPages \cup DeletePages
    BY <1>3, PageNames DEF airLoginHandleSubmit, airLoginForm, On, At, AirLogin
  <2>3. SentBy("airLoginHandleSubmit", "login")
    BY DEF SentBy
  <2>. QED
    BY <2>1, <2>2, <2>3, Likes, AsksLike
<1>4. CASE airLoginHandleSubmitReturns
  <2>1. PICK n \in Back(AirLogin, "airLoginHandleSubmit") : Returns(n, SignedIn(view), view)
    BY <1>4 DEF airLoginHandleSubmitReturns
  <2>2. Like(SignedIn(view), SignedIn(view))
    BY ViewFit, SignedInFit, Cosmetics, HidesLike DEF Fit
  <2>. QED
    BY <2>1, <2>2, Likes, LoginBack DEF Returns, Logins
<1>5. CASE airOnSubmitWeChatVerificationCode
  <2>1. PICK secret \in Typed("secret") :
        SendsWith(view, "airOnSubmitWeChatVerificationCode", "wechat", secret, <<>>)
    BY <1>5 DEF airOnSubmitWeChatVerificationCode, Sends
  <2>2. view.at \notin ConfirmPages \cup WalletPages \cup DeletePages
    BY <1>5, PageNames DEF airOnSubmitWeChatVerificationCode, airWeChatLogin, On, At, AirLogin
  <2>3. SentBy("airOnSubmitWeChatVerificationCode", "wechat")
    BY DEF SentBy
  <2>. QED
    BY <2>1, <2>2, <2>3, Likes, AsksLike
<1>6. CASE airOnSubmitWeChatVerificationCodeReturns
  <2>1. PICK n \in Back(AirLogin, "airOnSubmitWeChatVerificationCode") :
        Returns(n, Hides(SignedIn(view), {"wechat"}), view)
    BY <1>6 DEF airOnSubmitWeChatVerificationCodeReturns
  <2>2. Like(SignedIn(view), Hides(SignedIn(view), {"wechat"}))
    BY ViewFit, SignedInFit, Cosmetics, HidesLike DEF Fit
  <2>. QED
    BY <2>1, <2>2, Likes, LoginBack DEF Returns, Logins
<1>7. CASE airSignUpTurnstile
  BY <1>7, VerifiesKeep DEF airSignUpTurnstile
<1>8. CASE airSignUpHandleChange
  <2>1. PICK k \in DOMAIN view.fields : Types(k)
    BY <1>8 DEF airSignUpHandleChange
  <2>2. view.at \notin ConfirmPages
    BY <1>8, PageNames DEF airSignUpHandleChange, airSignUpForm, On, At, AirSignUp
  <2>. QED
    BY <2>1, <2>2, TypesKeep
<1>9. CASE airSignUpHandleSubmit
  <2>1. PICK username \in UserNames :
        Registers([view EXCEPT !.loading = TRUE], "airSignUpHandleSubmit", username)
    BY <1>9 DEF airSignUpHandleSubmit
  <2>2. view.at \in CodePages /\ view.at \notin ConfirmPages \cup WalletPages
    BY <1>9, PageNames DEF airSignUpHandleSubmit, airSignUpForm, On, At, AirSignUp
  <2>3. SentBy("airSignUpHandleSubmit", "register")
    BY DEF SentBy
  <2>. QED
    BY <2>1, <2>2, <2>3, Likes, RegistersKeep
<1>10. CASE airSignUpHandleSubmitReturns
  <2>1. PICK n \in Back(AirSignUp, "airSignUpHandleSubmit") :
        Returns(n, [[view EXCEPT !.loading = FALSE] EXCEPT !.left = TRUE], [view EXCEPT !.loading = FALSE])
    BY <1>10 DEF airSignUpHandleSubmitReturns
  <2>. QED
    BY <2>1, Likes, PlainReturns, PageNames DEF Tells, AirSignUp
<1>11. CASE airSignUpSendVerificationCode
  <2>1. AsksForMail([view EXCEPT !.loading = TRUE], "airSignUpSendVerificationCode", "verification")
    BY <1>11 DEF airSignUpSendVerificationCode
  <2>2. view.at \notin ConfirmPages \cup WalletPages /\ view.at \notin CountdownPages
    BY <1>11, PageNames
       DEF airSignUpSendVerificationCode, airSignUpMailButton, airSignUpForm, On, At, AirSignUp
  <2>3. SentBy("airSignUpSendVerificationCode", "verification")
    BY DEF SentBy
  <2>. QED
    BY <2>1, <2>2, <2>3, Buttons, MailButton
<1>12. CASE airSignUpSendVerificationCodeReturns
  <2>1. PICK n \in Back(AirSignUp, "airSignUpSendVerificationCode") :
        Returns(n, [MailReturns(n) EXCEPT !.loading = FALSE], [MailReturns(n) EXCEPT !.loading = FALSE])
    BY <1>12 DEF airSignUpSendVerificationCodeReturns
  <2>. QED
    BY <2>1, MailFits, MailReturned, PageNames DEF Tells, AirSignUp
<1>13. CASE airResetCountdown
  BY <1>13, TicksKeep DEF airResetCountdown
<1>14. CASE airResetHandleChange
  <2>1. Types("email")
    BY <1>14 DEF airResetHandleChange
  <2>2. view.at \notin ConfirmPages \cup CodePages
    BY <1>14, PageNames DEF airResetHandleChange, On, At, AirReset
  <2>. QED
    BY <2>1, <2>2, TypesKeep
<1>15. CASE airResetHandleSubmit
  <2>1. ~view.disabled
    BY <1>15, Zenon DEF airResetHandleSubmit, airResetButton
  <2>2. \/ Shows([view EXCEPT !.disabled = TRUE])
        \/ AsksForMail([[view EXCEPT !.disabled = TRUE] EXCEPT !.loading = TRUE],
                        "airResetHandleSubmit", "reset_password")
    BY <1>15 DEF airResetHandleSubmit
  <2>3. view.at \notin ConfirmPages \cup WalletPages
    BY <1>15, PageNames DEF airResetHandleSubmit, airResetButton, On, At, AirReset
  <2>4. SentBy("airResetHandleSubmit", "reset_password")
    BY DEF SentBy
  <2>. QED
    BY <2>1, <2>2, <2>3, <2>4, Buttons, DisablesKeep, MailPressed
<1>16. CASE airResetHandleSubmitReturns
  <2>1. PICK n \in Back(AirReset, "airResetHandleSubmit") :
        Returns(n, [[MailReturns(n) EXCEPT !.loading = FALSE] EXCEPT !.fields["email"] = ""],
                   [MailReturns(n) EXCEPT !.loading = FALSE])
    BY <1>16 DEF airResetHandleSubmitReturns
  <2>. QED
    BY <2>1, MailFits, EmptiedReturned, PageNames DEF Tells, AirReset
<1>17. CASE airConfirmCountdown
  BY <1>17, TicksKeep DEF airConfirmCountdown
<1>18. CASE airConfirmHandleSubmit
  <2>1. Sends([view EXCEPT !.disabled = TRUE, !.loading = TRUE],
                  "airConfirmHandleSubmit", "user/reset", view.fields)
    BY <1>18 DEF airConfirmHandleSubmit
  <2>2. view.at \in ConfirmPages
    BY <1>18, PageNames DEF airConfirmHandleSubmit, airConfirmButton, On, At, AirConfirm
  <2>. QED
    BY <2>1, <2>2, Buttons, DisablingFit, ConfirmAsks
<1>19. CASE airConfirmHandleSubmitReturns
  <2>1. PICK n \in Back(AirConfirm, "airConfirmHandleSubmit") :
        Returns(n, [[view EXCEPT !.loading = FALSE] EXCEPT !.password = net[n].data],
                   [view EXCEPT !.loading = FALSE])
    BY <1>19 DEF airConfirmHandleSubmitReturns
  <2>2. AirConfirm \in ConfirmPages
    BY DEF ConfirmPages
  <2>. QED
    BY <2>1, <2>2, Likes, PasswordShown
<1>20. CASE airPersonalCountdown
  BY <1>20, TicksKeep DEF airPersonalCountdown
<1>21. CASE airPersonalTurnstile
  BY <1>21, VerifiesKeep DEF airPersonalTurnstile
<1>22. CASE airPersonalDialogs
  BY <1>22, OpeningKeeps, ClosingKeeps DEF airPersonalDialogs
<1>23. CASE airPersonalHandleInputChange
  <2>1. PICK k \in DOMAIN view.fields : Types(k)
    BY <1>23 DEF airPersonalHandleInputChange
  <2>2. view.at \notin ConfirmPages
    BY <1>23, PageNames DEF airPersonalHandleInputChange, airEmailDialog, On, At, AirEmailCard
  <2>. QED
    BY <2>1, <2>2, TypesKeep
<1>24. CASE airGetUserDataReturns
  <2>1. PICK n \in Back(AirPersonal, "airGetUserData") \cup Back(AirEmailCard, "airGetUserData") :
            Returns(n, [view EXCEPT !.user = "me", !.email = net[n].data.email, !.fetched = TRUE], view)
    BY <1>24 DEF airGetUserDataReturns
  <2>. DEFINE w == [view EXCEPT !.user = "me", !.email = net[n].data.email, !.fetched = TRUE]
  <2>2. /\ n \in DOMAIN net /\ net[n].st \in {"ok", "refused", "failed"} /\ net[n].req = "self"
        /\ view.at \in {AirPersonal, AirEmailCard}
    BY BackFrom DEF SentBy
  <2>3. view.at \notin WalletPages \cup ConfirmPages
    BY <2>2, PageNames DEF AirPersonal, AirEmailCard
  <2>4. CASE net[n].st = "ok"
    <3>1. Ends(n, w)
      BY <2>1, <2>4 DEF Returns
    <3>2. /\ DOMAIN w = DOMAIN view /\ w.at = view.at /\ w.user = "me" /\ w.token = view.token
          /\ w.fields = view.fields /\ w.quota = view.quota /\ w.password = view.password
          /\ w.email = net[n].data.email /\ w.countdown = view.countdown
          /\ w.gap = view.gap /\ w.rushed = view.rushed /\ w.disabled = view.disabled
      BY FitPage DEF PageOK
    <3>. HIDE DEF w
    <3>. QED
      BY <2>2, <2>3, <2>4, <3>1, <3>2, AddressShown
  <2>5. CASE net[n].st = "refused"
    BY <2>1, <2>2, <2>3, <2>5, Likes, SilentLike DEF Returns
  <2>. QED
    BY <2>1, <2>2, <2>4, <2>5 DEF Returns
<1>25. CASE airLoadModelsReturns
  <2>1. PICK n \in Back(AirPersonal, "airLoadModels") : Returns(n, view, view)
    BY <1>25 DEF airLoadModelsReturns
  <2>. QED
    BY <2>1, Likes, PlainReturns, PageNames DEF Tells, AirPersonal
<1>26. CASE airGetAffLinkReturns
  <2>1. PICK n \in Back(AirPersonal, "airGetAffLink") : Returns(n, [view EXCEPT !.link = TRUE], view)
    BY <1>26 DEF airGetAffLinkReturns
  <2>. QED
    BY <2>1, Likes, PlainReturns, PageNames DEF Tells, AirPersonal
<1>27. CASE airGenerateAccessToken
  <2>1. SendsWith(view, "airGenerateAccessToken", "token", "", <<>>)
    BY <1>27 DEF airGenerateAccessToken, Sends
  <2>2. view.at \notin ConfirmPages \cup WalletPages
    BY <1>27, PageNames DEF airGenerateAccessToken, airGeneral, On, At, AirPersonal
  <2>3. SentBy("airGenerateAccessToken", "token")
    BY DEF SentBy
  <2>. QED
    BY <2>1, <2>2, <2>3, Likes, AsksLike
<1>28. CASE airGenerateAccessTokenReturns
  <2>1. PICK n \in Back(AirPersonal, "airGenerateAccessToken") :
        Returns(n, [view EXCEPT !.token = net[n].data], view)
    BY <1>28 DEF airGenerateAccessTokenReturns
  <2>2. Like([view EXCEPT !.token = net[n].data], [view EXCEPT !.token = net[n].data])
    BY DEF Like, Keeps
  <2>. QED
    BY <2>1, <2>2, TokenBack
<1>29. CASE airBindWeChat
  <2>1. PICK secret \in Typed("secret") \ {""} :
        SendsWith(view, "airBindWeChat", "wechat/bind", secret, <<>>)
    BY <1>29 DEF airBindWeChat, Sends
  <2>2. view.at \notin ConfirmPages \cup WalletPages
    BY <1>29, PageNames DEF airBindWeChat, airWeChatDialog, On, At, AirPersonal
  <2>3. SentBy("airBindWeChat", "wechat/bind")
    BY DEF SentBy
  <2>. QED
    BY <2>1, <2>2, <2>3, Likes, AsksLike
<1>30. CASE airBindWeChatReturns
  <2>1. PICK n \in Back(AirPersonal, "airBindWeChat") : Returns(n, Hides(view, {"wechat"}), view)
    BY <1>30 DEF airBindWeChatReturns
  <2>. QED
    BY <2>1, Likes, PlainReturns, PageNames DEF Tells, AirPersonal
<1>31. CASE airChangePassword
  <2>1. PICK password \in Typed("password") : SendsWith(view, "airChangePassword", "put", password, <<>>)
    BY <1>31 DEF airChangePassword, Sends
  <2>2. view.at \notin ConfirmPages \cup WalletPages
    BY <1>31, PageNames DEF airChangePassword, airPasswordDialog, On, At, AirPersonal
  <2>3. SentBy("airChangePassword", "put")
    BY DEF SentBy
  <2>. QED
    BY <2>1, <2>2, <2>3, Likes, AsksLike
<1>32. CASE airChangePasswordReturns
  <2>1. PICK n \in Back(AirPersonal, "airChangePassword") :
        Returns(n, Hides(view, {"password", "wechat"}), Hides(view, {"password"}))
    BY <1>32 DEF airChangePasswordReturns
  <2>. QED
    BY <2>1, Likes, PlainReturns, PageNames DEF Tells, AirPersonal
<1>33. CASE airPersonalSendVerificationCode
  <2>1. ~view.disabled
    BY <1>33, Zenon DEF airPersonalSendVerificationCode, airEmailDialog
  <2>2. \/ Shows([view EXCEPT !.disabled = TRUE])
        \/ AsksForMail([[view EXCEPT !.disabled = TRUE] EXCEPT !.loading = TRUE],
                        "airPersonalSendVerificationCode", "verification")
    BY <1>33 DEF airPersonalSendVerificationCode
  <2>3. view.at \notin ConfirmPages \cup WalletPages
    BY <1>33, PageNames DEF airPersonalSendVerificationCode, airEmailDialog, On, At, AirEmailCard
  <2>4. SentBy("airPersonalSendVerificationCode", "verification")
    BY DEF SentBy
  <2>. QED
    BY <2>1, <2>2, <2>3, <2>4, Buttons, DisablesKeep, MailPressed
<1>34. CASE airPersonalSendVerificationCodeReturns
  <2>1. PICK n \in Back(AirEmailCard, "airPersonalSendVerificationCode") :
        Returns(n, [MailReturns(n) EXCEPT !.loading = FALSE], [MailReturns(n) EXCEPT !.loading = FALSE])
    BY <1>34 DEF airPersonalSendVerificationCodeReturns
  <2>. QED
    BY <2>1, MailFits, MailReturned, PageNames DEF Tells, AirEmailCard
<1>35. CASE airBindEmail
  <2>. DEFINE arg == [email |-> view.fields["email"], code |-> view.fields["code"]]
  <2>1. SendsWith([view EXCEPT !.loading = TRUE], "airBindEmail", "email/bind", arg, view.fetched)
    BY <1>35 DEF airBindEmail
  <2>2. view.at \notin ConfirmPages \cup WalletPages /\ view.at \in CodePages
    BY <1>35, PageNames DEF airBindEmail, airEmailDialog, On, At, AirEmailCard
  <2>3. SentBy("airBindEmail", "email/bind")
    BY DEF SentBy
  <2>4. arg.code \in Codes
    BY <2>2, CodeTyped
  <2>5. Like(view, [view EXCEPT !.loading = TRUE])
    BY Likes
  <2>. HIDE DEF arg
  <2>. QED
    BY <2>1, <2>2, <2>3, <2>4, <2>5, AsksLike
<1>36. CASE airBindEmailReturns
  <2>. DEFINE u == Hides([view EXCEPT !.loading = FALSE], {"email"})
              shown(n) == IF net[n].was = view.fetched THEN net[n].arg.email ELSE u.email
  <2>1. PICK n \in Back(AirEmailCard, "airBindEmail") :
            Returns(n, [u EXCEPT !.email = shown(n)], [view EXCEPT !.loading = FALSE])
    BY <1>36 DEF airBindEmailReturns
  <2>. DEFINE w == [u EXCEPT !.email = shown(n)]
  <2>2. /\ n \in DOMAIN net /\ net[n].st \in {"ok", "refused", "failed"} /\ net[n].req = "email/bind"
        /\ view.at = AirEmailCard
    BY BackFrom DEF SentBy
  <2>3. view.at \notin WalletPages \cup ConfirmPages
    BY <2>2, PageNames DEF AirEmailCard
  <2>4. CASE net[n].st = "ok"
    <3>1. Ends(n, w)
      BY <2>1, <2>4 DEF Returns
    <3>2. Like(view, u) /\ PageOK(u)
      BY Likes, ViewFit, LikeFit DEF Fit
    <3>. HIDE DEF u
    <3>3. w.email \in {u.email, net[n].arg.email}
      BY <3>2 DEF PageOK
    <3>4. /\ DOMAIN w = DOMAIN u /\ w.at = u.at /\ w.user = u.user /\ w.token = u.token
          /\ w.fields = u.fields /\ w.quota = u.quota /\ w.password = u.password
          /\ w.countdown = u.countdown /\ w.gap = u.gap /\ w.rushed = u.rushed /\ w.disabled = u.disabled
      BY <3>2 DEF PageOK
    <3>. HIDE DEF w
    <3>. QED
      BY <2>2, <2>3, <2>4, <3>1, <3>2, <3>3, <3>4, AddressShown DEF Like, Keeps
  <2>5. CASE net[n].st = "refused"
    BY <2>1, <2>2, <2>3, <2>5, Likes, SilentLike DEF Returns
  <2>. QED
    BY <2>1, <2>2, <2>4, <2>5 DEF Returns
<1>37. CASE airDeleteAccount
  <2>1. SendsWith(view, "airDeleteAccount", "delete", "", <<>>)
    BY <1>37 DEF airDeleteAccount, Sends
  <2>2. view.at \notin ConfirmPages \cup WalletPages /\ view.at \in DeletePages
    BY <1>37, PageNames DEF airDeleteAccount, airDeleteDialog, On, At, AirPersonal
  <2>3. SentBy("airDeleteAccount", "delete")
    BY DEF SentBy
  <2>. QED
    BY <2>1, <2>2, <2>3, Likes, AsksLike
<1>38. CASE airDeleteAccountReturns
  BY <1>38, DeletedBack DEF airDeleteAccountReturns
<1>39. CASE airLogout
  <2>1. SendsWith(view, "airLogout", "logout", "", <<>>)
    BY <1>39 DEF airLogout, Sends
  <2>2. view.at \notin ConfirmPages \cup WalletPages
    BY <1>39, PageNames DEF airLogout, airGeneral, On, At, AirPersonal
  <2>3. SentBy("airLogout", "logout")
    BY DEF SentBy
  <2>. QED
    BY <2>1, <2>2, <2>3, Likes, AsksLike
<1>40. CASE airLogoutReturns
  BY <1>40, LogoutBack DEF airLogoutReturns
<1>41. CASE airWalletHandleChange
  <2>1. Types("key")
    BY <1>41 DEF airWalletHandleChange
  <2>2. view.at \notin ConfirmPages \cup CodePages
    BY <1>41, PageNames DEF airWalletHandleChange, On, At, AirWallet
  <2>. QED
    BY <2>1, <2>2, TypesKeep
<1>42. CASE airGetUserQuotaReturns
  BY <1>42, QuotaKeeps DEF airGetUserQuotaReturns, WalletPages
<1>43. CASE airTopUp
  BY <1>43, RedeemsKeep DEF airTopUp, WalletPages
<1>44. CASE airTopUpReturns
  BY <1>44, RedeemedKeep DEF airTopUpReturns, WalletPages
<1>45. CASE airSendCodeReturns
  BY <1>45, SendCodeKeeps DEF airSendCodeReturns, SendCodeReturns
<1>46. CASE AirExpired
  BY <1>46, ReloadsKeep DEF AirExpired
<1>47. CASE AirRejected
  BY <1>47, RejectedKeep DEF AirRejected
<1>. QED
  BY <1>1, <1>2, <1>3, <1>4, <1>5, <1>6, <1>7, <1>8, <1>9, <1>10, <1>11, <1>12, <1>13, <1>14, <1>15, <1>16,
     <1>17, <1>18, <1>19, <1>20, <1>21, <1>22, <1>23, <1>24, <1>25, <1>26, <1>27, <1>28, <1>29, <1>30,
     <1>31, <1>32, <1>33, <1>34, <1>35, <1>36, <1>37, <1>38, <1>39, <1>40, <1>41, <1>42, <1>43, <1>44,
     <1>45, <1>46, <1>47 DEF AirNext

LEMMA BerryKeeps == ASSUME IInv, BerryNext PROVE IInv'
<1>1. CASE berryWechatOpenClose
  BY <1>1, OpeningKeeps, ClosingKeeps DEF berryWechatOpenClose
<1>2. CASE berryLogin
  <2>1. PICK secret \in Typed("secret") \ {""} :
        SendsWith([view EXCEPT !.submitting = TRUE], "berryLogin", "login", secret, <<>>)
    BY <1>2 DEF berryLogin, Sends
  <2>2. view.at \notin ConfirmPages \cup WalletPages \cup DeletePages
    BY <1>2, PageNames DEF berryLogin, berryLoginForm, On, At, BerryLogin
  <2>3. SentBy("berryLogin", "login")
    BY DEF SentBy
  <2>. QED
    BY <2>1, <2>2, <2>3, Likes, AsksLike
<1>3. CASE berryLoginReturns
  <2>. DEFINE u == [view EXCEPT !.submitting = FALSE]
  <2>1. PICK n \in Back(BerryLogin, "berryLogin") : Ends(n, IF net[n].st = "ok" THEN SignedIn(u) ELSE u)
    BY <1>3 DEF berryLoginReturns
  <2>2. Like(view, u)
    BY Likes
  <2>. HIDE DEF u
  <2>3. Like(SignedIn(u), SignedIn(u))
    BY <2>2, ViewFit, LikeFit, SignedInFit, Cosmetics DEF Fit
  <2>4. "berryLogin" \in Logins
    BY DEF Logins
  <2>5. CASE net[n].st = "ok"
    BY <2>1, <2>2, <2>3, <2>4, <2>5, LoginBack
  <2>6. CASE net[n].st # "ok"
    BY <2>1, <2>2, <2>4, <2>6, LoginBack
  <2>. QED
    BY <2>5, <2>6
<1>4. CASE berryWechatLogin
  <2>1. PICK secret \in Typed("secret") \ {""} : SendsWith(view, "berryWechatLogin", "wechat", secret, <<>>)
    BY <1>4 DEF berryWechatLogin, Sends
  <2>2. view.at \notin ConfirmPages \cup WalletPages \cup DeletePages
    BY <1>4, PageNames DEF berryWechatLogin, berryWechatDialog, On, At, BerryLogin
  <2>3. SentBy("berryWechatLogin", "wechat")
    BY DEF SentBy
  <2>. QED
    BY <2>1, <2>2, <2>3, Likes, AsksLike
<1>5. CASE berryWechatLoginReturns
  <2>1. PICK n \in Back(BerryLogin, "berryWechatLogin") :
        Ends(n, IF net[n].st = "ok" THEN SignedIn(view) ELSE view)
    BY <1>5 DEF berryWechatLoginReturns
  <2>2. Like(view, view) /\ Like(SignedIn(view), SignedIn(view))
    BY Likes, ViewFit, SignedInFit, Cosmetics DEF Fit
  <2>3. "berryWechatLogin" \in Logins
    BY DEF Logins
  <2>4. CASE net[n].st = "ok"
    BY <2>1, <2>2, <2>3, <2>4, LoginBack
  <2>5. CASE net[n].st # "ok"
    BY <2>1, <2>2, <2>3, <2>5, LoginBack
  <2>. QED
    BY <2>4, <2>5
<1>6. CASE berrySignUpTurnstile
  BY <1>6, VerifiesKeep DEF berrySignUpTurnstile
<1>7. CASE berrySignUpHandleChange
  <2>1. PICK k \in DOMAIN view.fields : Types(k)
    BY <1>7 DEF berrySignUpHandleChange
  <2>2. view.at \notin ConfirmPages
    BY <1>7, PageNames DEF berrySignUpHandleChange, berrySignUpForm, On, At, BerrySignUp
  <2>. QED
    BY <2>1, <2>2, TypesKeep
<1>8. CASE berryRegister
  <2>1. PICK username \in UserNames :
        Registers([view EXCEPT !.submitting = TRUE], "berryRegister", username)
    BY <1>8 DEF berryRegister
  <2>2. view.at \in CodePages /\ view.at \notin ConfirmPages \cup WalletPages
    BY <1>8, PageNames DEF berryRegister, berrySignUpForm, On, At, BerrySignUp
  <2>3. SentBy("berryRegister", "register")
    BY DEF SentBy
  <2>. QED
    BY <2>1, <2>2, <2>3, Likes, RegistersKeep
<1>9. CASE berryRegisterReturns
  <2>1. PICK n \in Back(BerrySignUp, "berryRegister") :
            Ends(n, IF net[n].st = "ok" THEN [[view EXCEPT !.submitting = FALSE] EXCEPT !.left = TRUE]
                    ELSE [view EXCEPT !.submitting = FALSE])
    BY <1>9 DEF berryRegisterReturns
  <2>. QED
    BY <2>1, Likes, PlainBack, PageNames DEF Tells, BerrySignUp
<1>10. CASE berrySignUpHandleSendCode
  <2>1. AsksForMail(view, "berrySignUpHandleSendCode", "verification")
    BY <1>10 DEF berrySignUpHandleSendCode
  <2>2. view.at \notin ConfirmPages \cup WalletPages /\ view.at \notin CountdownPages
    BY <1>10, PageNames DEF berrySignUpHandleSendCode, berrySignUpForm, On, At, BerrySignUp
  <2>3. SentBy("berrySignUpHandleSendCode", "verification")
    BY DEF SentBy
  <2>. QED
    BY <2>1, <2>2, <2>3, Buttons, MailButton
<1>11. CASE berrySignUpHandleSendCodeReturns
  <2>1. PICK n \in Back(BerrySignUp, "berrySignUpHandleSendCode") : Ends(n, MailReturns(n))
    BY <1>11 DEF berrySignUpHandleSendCodeReturns
  <2>. QED
    BY <2>1, MailFits, MailBack, PageNames DEF Tells, BerrySignUp
<1>12. CASE berryResetCountdown
  BY <1>12, TicksKeep DEF berryResetCountdown
<1>13. CASE berryResetTurnstile
  BY <1>13, VerifiesKeep DEF berryResetTurnstile
<1>14. CASE berryResetHandleChange
  <2>1. Types("email")
    BY <1>14 DEF berryResetHandleChange
  <2>2. view.at \notin ConfirmPages \cup CodePages
    BY <1>14, PageNames DEF berryResetHandleChange, berryForm, On, At, BerryReset
  <2>. QED
    BY <2>1, <2>2, TypesKeep
<1>15. CASE berryResetSubmit
  <2>1. ~view.disabled
    BY <1>15, Zenon DEF berryResetSubmit, berryForm
  <2>2. \/ Shows([view EXCEPT !.disabled = TRUE])
        \/ AsksForMail([[view EXCEPT !.disabled = TRUE] EXCEPT !.submitting = TRUE],
                        "berryResetSubmit", "reset_password")
    BY <1>15 DEF berryResetSubmit
  <2>3. view.at \notin ConfirmPages \cup WalletPages
    BY <1>15, PageNames DEF berryResetSubmit, berryForm, On, At, BerryReset
  <2>4. SentBy("berryResetSubmit", "reset_password")
    BY DEF SentBy
  <2>. QED
    BY <2>1, <2>2, <2>3, <2>4, Buttons, DisablesKeep, MailPressed
<1>16. CASE berryResetSubmitReturns
  <2>1. PICK n \in Back(BerryReset, "berryResetSubmit") :
            Returns(n, [[MailReturns(n) EXCEPT !.submitting = FALSE] EXCEPT !.dialog = "sent"],
                    Enabled([MailReturns(n) EXCEPT !.submitting = FALSE]))
    BY <1>16 DEF berryResetSubmitReturns
  <2>2. Like(MailReturns(n), [[MailReturns(n) EXCEPT !.submitting = FALSE] EXCEPT !.dialog = "sent"])
    <3>. DEFINE u == [MailReturns(n) EXCEPT !.submitting = FALSE]
    <3>1. Like(MailReturns(n), u)
      BY MailFits
    <3>. HIDE DEF u
    <3>2. Like(u, [u EXCEPT !.dialog = "sent"])
      BY <3>1, MailLike, LikeFit, Cosmetics DEF Fit
    <3>3. Like(MailReturns(n), [u EXCEPT !.dialog = "sent"])
      BY <3>1, <3>2, LikeOn
    <3>. QED
      BY <3>3 DEF u
  <2>3. Like(Enabled(MailReturns(n)), Enabled([MailReturns(n) EXCEPT !.submitting = FALSE]))
    BY MailFits
  <2>. QED
    BY <2>1, <2>2, <2>3, MailReturned, PageNames DEF Tells, BerryReset
<1>17. CASE berryResetSubmitRejected
  <2>1. PICK n \in Back(BerryReset, "berryResetSubmit") : Ends(n, [view EXCEPT !.submitting = FALSE])
    BY <1>17 DEF berryResetSubmitRejected
  <2>. QED
    BY <2>1, Likes, PlainBack, PageNames DEF Tells, BerryReset
<1>18. CASE berryConfirmSubmit
  <2>1. Sends(view, "berryConfirmSubmit", "user/reset", view.fields)
    BY <1>18 DEF berryConfirmSubmit
  <2>2. view.at \in ConfirmPages
    BY <1>18, PageNames DEF berryConfirmSubmit, berryConfirmButton, On, At, BerryConfirm
  <2>. QED
    BY <2>1, <2>2, ViewFit, ConfirmAsks
<1>19. CASE berryConfirmSubmitReturns
  <2>1. PICK n \in Back(BerryConfirm, "berryConfirmSubmit") :
        Returns(n, [view EXCEPT !.password = net[n].data], view)
    BY <1>19 DEF berryConfirmSubmitReturns
  <2>2. BerryConfirm \in ConfirmPages
    BY DEF ConfirmPages
  <2>. QED
    BY <2>1, <2>2, Likes, PasswordShown
<1>20. CASE berryProfileDialogs
  BY <1>20, OpeningKeeps, ClosingKeeps DEF berryProfileDialogs
<1>21. CASE berryHandleInputChange
  <2>1. PICK k \in DOMAIN view.fields : Types(k)
    BY <1>21 DEF berryHandleInputChange
  <2>2. view.at \notin ConfirmPages
    BY <1>21, PageNames DEF berryHandleInputChange, berryGeneral, On, At, BerryProfile
  <2>. QED
    BY <2>1, <2>2, TypesKeep
<1>22. CASE berryLoadUserReturns
  <2>. DEFINE form == [username |-> "me", password |-> ""]
              loaded(n) == [view EXCEPT !.fields = form, !.email = net[n].data.email, !.token = 0]
  <2>1. PICK n \in Back(BerryProfile, "berryLoadUser") : Returns(n, loaded(n), view)
    BY <1>22 DEF berryLoadUserReturns
  <2>. DEFINE w == loaded(n)
  <2>2. /\ n \in DOMAIN net /\ net[n].st \in {"ok", "refused", "failed"} /\ net[n].req = "self"
        /\ view.at = BerryProfile
    BY BackFrom DEF SentBy
  <2>3. view.at \notin WalletPages \cup ConfirmPages /\ view.at \notin CodePages
    BY <2>2, PageNames DEF BerryProfile
  <2>4. CASE net[n].st = "ok"
    <3>1. Ends(n, w)
      BY <2>1, <2>4 DEF Returns
    <3>2. /\ DOMAIN w = DOMAIN view /\ w.at = view.at /\ w.user = view.user /\ w.token = 0
          /\ w.quota = view.quota /\ w.password = view.password
          /\ w.email = net[n].data.email /\ w.countdown = view.countdown
          /\ w.gap = view.gap /\ w.rushed = view.rushed /\ w.disabled = view.disabled
      BY FitPage DEF PageOK
    <3>. HIDE DEF w
    <3>. QED
      BY <2>2, <2>3, <2>4, <3>1, <3>2, AddressShown
  <2>5. CASE net[n].st = "refused"
    BY <2>1, <2>2, <2>3, <2>5, Likes, SilentLike DEF Returns
  <2>. QED
    BY <2>1, <2>2, <2>4, <2>5 DEF Returns
<1>23. CASE berryBindWeChat
  <2>1. PICK secret \in Typed("secret") \ {""} :
        SendsWith(view, "berryBindWeChat", "wechat/bind", secret, <<>>)
    BY <1>23 DEF berryBindWeChat, Sends
  <2>2. view.at \notin ConfirmPages \cup WalletPages
    BY <1>23, PageNames DEF berryBindWeChat, berryGeneral, On, At, BerryProfile
  <2>3. SentBy("berryBindWeChat", "wechat/bind")
    BY DEF SentBy
  <2>. QED
    BY <2>1, <2>2, <2>3, Likes, AsksLike
<1>24. CASE berryBindWeChatReturns
  <2>1. PICK n \in Back(BerryProfile, "berryBindWeChat") : Ends(n, view)
    BY <1>24 DEF berryBindWeChatReturns
  <2>. QED
    BY <2>1, Likes, PlainBack, PageNames DEF Tells, BerryProfile
<1>25. CASE berryGenerateAccessToken
  <2>1. SendsWith(view, "berryGenerateAccessToken", "token", "", <<>>)
    BY <1>25 DEF berryGenerateAccessToken, Sends
  <2>2. view.at \notin ConfirmPages \cup WalletPages
    BY <1>25, PageNames DEF berryGenerateAccessToken, berryGeneral, On, At, BerryProfile
  <2>3. SentBy("berryGenerateAccessToken", "token")
    BY DEF SentBy
  <2>. QED
    BY <2>1, <2>2, <2>3, Likes, AsksLike
<1>26. CASE berryGenerateAccessTokenReturns
  <2>1. PICK n \in Back(BerryProfile, "berryGenerateAccessToken") :
        Returns(n, [view EXCEPT !.token = net[n].data], view)
    BY <1>26 DEF berryGenerateAccessTokenReturns
  <2>2. Like([view EXCEPT !.token = net[n].data], [view EXCEPT !.token = net[n].data])
    BY DEF Like, Keeps
  <2>. QED
    BY <2>1, <2>2, TokenBack
<1>27. CASE berryProfileSubmit
  <2>1. SendsWith(view, "berryProfileSubmit", "put", view.fields["password"], <<>>)
    BY <1>27 DEF berryProfileSubmit, Sends
  <2>2. view.at \notin ConfirmPages \cup WalletPages
    BY <1>27, PageNames DEF berryProfileSubmit, berryGeneral, On, At, BerryProfile
  <2>3. SentBy("berryProfileSubmit", "put")
    BY DEF SentBy
  <2>. QED
    BY <2>1, <2>2, <2>3, Likes, AsksLike
<1>28. CASE berryProfileSubmitReturns
  <2>1. PICK n \in Back(BerryProfile, "berryProfileSubmit") : Ends(n, view)
    BY <1>28 DEF berryProfileSubmitReturns
  <2>. QED
    BY <2>1, Likes, PlainBack, PageNames DEF Tells, BerryProfile
<1>29. CASE berryLogout
  <2>1. SendsWith(view, "berryLogout", "logout", "", <<>>)
    BY <1>29 DEF berryLogout, Sends
  <2>2. view.at \notin ConfirmPages \cup WalletPages
    BY <1>29, PageNames DEF berryLogout, berryGeneral, On, At, BerryProfile
  <2>3. SentBy("berryLogout", "logout")
    BY DEF SentBy
  <2>. QED
    BY <2>1, <2>2, <2>3, Likes, AsksLike
<1>30. CASE berryLogoutReturns
  BY <1>30, LogoutBack DEF berryLogoutReturns
<1>31. CASE berryEmailOpenClose
  <2>. DEFINE w == [view EXCEPT !.dialog = "", !.fields = MailFields]
  <2>1. view.at = BerryEmailCard /\ (Shows(w) \/ Opening("email"))
    BY <1>31 DEF berryEmailOpenClose, On, At
  <2>2. /\ Keeps(view, w) /\ w.fields = MailFields /\ w.disabled = view.disabled
        /\ w.countdown = view.countdown /\ w.gap = view.gap /\ w.rushed = view.rushed
    BY FitPage DEF PageOK, Keeps
  <2>3. view.at \notin ConfirmPages
    BY <2>1, PageNames DEF BerryEmailCard
  <2>. HIDE DEF w
  <2>4. Fit(w)
    BY <2>2, <2>3, ViewFit, Cleared DEF Keeps
  <2>. QED
    BY <2>1, <2>2, <2>4, ShowsKeep, OpeningKeeps
<1>32. CASE berryEmailCountdown
  BY <1>32, TicksKeep DEF berryEmailCountdown
<1>33. CASE berryEmailTurnstile
  BY <1>33, VerifiesKeep DEF berryEmailTurnstile
<1>34. CASE berryEmailHandleChange
  <2>1. PICK k \in DOMAIN view.fields : Types(k)
    BY <1>34 DEF berryEmailHandleChange
  <2>2. view.at \notin ConfirmPages
    BY <1>34, PageNames DEF berryEmailHandleChange, berryEmailDialog, On, At, BerryEmailCard
  <2>. QED
    BY <2>1, <2>2, TypesKeep
<1>35. CASE berryHandleSendCode
  <2>1. ~view.disabled
    BY <1>35, Zenon DEF berryHandleSendCode, berryEmailDialog
  <2>2. \/ Shows([view EXCEPT !.disabled = TRUE])
        \/ AsksForMail([[view EXCEPT !.disabled = TRUE] EXCEPT !.loading = TRUE],
                        "berryHandleSendCode", "verification")
    BY <1>35 DEF berryHandleSendCode
  <2>3. view.at \notin ConfirmPages \cup WalletPages
    BY <1>35, PageNames DEF berryHandleSendCode, berryEmailDialog, On, At, BerryEmailCard
  <2>4. SentBy("berryHandleSendCode", "verification")
    BY DEF SentBy
  <2>. QED
    BY <2>1, <2>2, <2>3, <2>4, Buttons, DisablesKeep, MailPressed
<1>36. CASE berryHandleSendCodeReturns
  <2>1. PICK n \in Back(BerryEmailCard, "berryHandleSendCode") :
        Ends(n, [MailReturns(n) EXCEPT !.loading = FALSE])
    BY <1>36 DEF berryHandleSendCodeReturns
  <2>. QED
    BY <2>1, MailFits, MailBack, PageNames DEF Tells, BerryEmailCard
<1>37. CASE berryEmailSubmit
  <2>. DEFINE arg == view.fields
  <2>1. SendsWith([view EXCEPT !.loading = TRUE], "berryEmailSubmit", "email/bind", arg, <<>>)
    BY <1>37 DEF berryEmailSubmit, Sends
  <2>2. view.at \notin ConfirmPages \cup WalletPages /\ view.at \in CodePages
    BY <1>37, PageNames DEF berryEmailSubmit, berryEmailDialog, On, At, BerryEmailCard
  <2>3. SentBy("berryEmailSubmit", "email/bind")
    BY DEF SentBy
  <2>4. arg.code \in Codes
    BY <2>2, CodeTyped
  <2>5. Like(view, [view EXCEPT !.loading = TRUE])
    BY Likes
  <2>. HIDE DEF arg
  <2>. QED
    BY <2>1, <2>2, <2>3, <2>4, <2>5, AsksLike
<1>38. CASE berryEmailSubmitReturns
  <2>. DEFINE w == [[view EXCEPT !.loading = FALSE] EXCEPT !.dialog = "", !.fields = MailFields]
  <2>1. PICK n \in Back(BerryEmailCard, "berryEmailSubmit") :
            Returns(n, w, [view EXCEPT !.loading = FALSE])
    BY <1>38 DEF berryEmailSubmitReturns
  <2>2. /\ n \in DOMAIN net /\ net[n].st \in {"ok", "refused", "failed"} /\ net[n].req = "email/bind"
        /\ view.at = BerryEmailCard
    BY BackFrom DEF SentBy
  <2>3. view.at \notin WalletPages \cup ConfirmPages
    BY <2>2, PageNames DEF BerryEmailCard
  <2>4. CASE net[n].st = "ok"
    <3>1. Ends(n, w)
      BY <2>1, <2>4 DEF Returns
    <3>2. /\ DOMAIN w = DOMAIN view /\ w.at = view.at /\ w.user = view.user /\ w.token = view.token
          /\ w.fields = MailFields /\ w.quota = view.quota /\ w.password = view.password
          /\ w.email = view.email /\ w.countdown = view.countdown
          /\ w.gap = view.gap /\ w.rushed = view.rushed /\ w.disabled = view.disabled
      BY FitPage DEF PageOK
    <3>. HIDE DEF w
    <3>. QED
      BY <2>2, <2>3, <2>4, <3>1, <3>2, AddressShown
  <2>5. CASE net[n].st = "refused"
    BY <2>1, <2>2, <2>3, <2>5, Likes, SilentLike DEF Returns
  <2>. QED
    BY <2>1, <2>2, <2>4, <2>5 DEF Returns
<1>39. CASE berryWalletHandleChange
  <2>1. Types("key")
    BY <1>39 DEF berryWalletHandleChange
  <2>2. view.at \notin ConfirmPages \cup CodePages
    BY <1>39, PageNames DEF berryWalletHandleChange, On, At, BerryWallet
  <2>. QED
    BY <2>1, <2>2, TypesKeep
<1>40. CASE berryGetUserQuotaReturns
  BY <1>40, QuotaKeeps DEF berryGetUserQuotaReturns, WalletPages
<1>41. CASE berryTopUp
  BY <1>41, RedeemsKeep DEF berryTopUp, WalletPages
<1>42. CASE berryTopUpReturns
  BY <1>42, RedeemedKeep DEF berryTopUpReturns, WalletPages
<1>43. CASE berrySendCodeReturns
  BY <1>43, SendCodeKeeps DEF berrySendCodeReturns
<1>44. CASE BerryExpired
  BY <1>44, ReloadsKeep DEF BerryExpired
<1>45. CASE BerryRejected
  BY <1>45, RejectedKeep DEF BerryRejected
<1>. QED
  BY <1>1, <1>2, <1>3, <1>4, <1>5, <1>6, <1>7, <1>8, <1>9, <1>10, <1>11, <1>12, <1>13, <1>14, <1>15, <1>16,
     <1>17, <1>18, <1>19, <1>20, <1>21, <1>22, <1>23, <1>24, <1>25, <1>26, <1>27, <1>28, <1>29, <1>30,
     <1>31, <1>32, <1>33, <1>34, <1>35, <1>36, <1>37, <1>38, <1>39, <1>40, <1>41, <1>42, <1>43, <1>44, <1>45
     DEF BerryNext

----------------------------------------------------------------------------
(***************************************************************************)
(* A page opens.                                                           *)
(***************************************************************************)
\* The requests its effects send.
FirstOK(page, first) ==
    /\ Len(first) \in Nat /\ DOMAIN first = 1 .. Len(first)
    /\ \A n \in DOMAIN first :
          first[n].st = "sent" /\ first[n].req \in {"self", "read", "oauth"} /\ AskOK(page, first[n], {})
    /\ \A n, m \in DOMAIN first : n = m \/ (first[n].req = "read" /\ first[m].req = "read")
    /\ page \in WalletPages => DOMAIN first # {} /\ \A n \in DOMAIN first : first[n].req = "self"

LEMMA NoneFirst == ASSUME NEW page, page \notin WalletPages PROVE FirstOK(page, <<>>)
  BY DEF FirstOK

LEMMA Asks ==
    ASSUME NEW page, page \notin ConfirmPages, NEW fn, NEW req \in {"self", "read", "oauth"}, SentBy(fn, req), NEW arg,
           page \in WalletPages => req = "self", page \in DeletePages => req # "oauth"
    PROVE  LET r == Request(fn, req, arg, <<>>)
           IN  r.st = "sent" /\ r.req = req /\ AskOK(page, r, {})
<1>. DEFINE r == Request(fn, req, arg, <<>>)
<1>1. /\ r.fn = fn /\ r.req = req /\ r.arg = arg /\ r.st = "sent"
      /\ DOMAIN r = {"fn", "req", "arg", "was", "st", "data"}
  BY Fresh
<1>. HIDE DEF r
<1>2. AskOK(page, r, {})
  BY <1>1 DEF AskOK
<1>. QED
  BY <1>1, <1>2 DEF r

LEMMA OneFirst ==
    ASSUME NEW page, page \notin ConfirmPages, NEW fn, NEW req \in {"self", "read", "oauth"}, SentBy(fn, req), NEW arg,
           page \in WalletPages => req = "self", page \in DeletePages => req # "oauth"
    PROVE  FirstOK(page, <<Request(fn, req, arg, <<>>)>>)
<1>. DEFINE r == Request(fn, req, arg, <<>>)
<1>1. r.st = "sent" /\ r.req = req /\ AskOK(page, r, {})
  BY Asks
<1>. HIDE DEF r
<1>2. FirstOK(page, <<r>>)
  BY <1>1 DEF FirstOK
<1>. QED
  BY <1>2 DEF r

LEMMA BothFirst ==
    ASSUME NEW page, page \notin ConfirmPages \cup WalletPages, NEW fn, SentBy(fn, "read"), NEW other, SentBy(other, "read"),
           NEW arg
    PROVE  FirstOK(page, <<Request(fn, "read", arg, <<>>), Request(other, "read", arg, <<>>)>>)
<1>. DEFINE r == Request(fn, "read", arg, <<>>)
            s == Request(other, "read", arg, <<>>)
<1>1. /\ r.st = "sent" /\ r.req = "read" /\ AskOK(page, r, {})
      /\ s.st = "sent" /\ s.req = "read" /\ AskOK(page, s, {})
  BY Asks
<1>. HIDE DEF r, s
<1>2. FirstOK(page, <<r, s>>)
  BY <1>1 DEF FirstOK
<1>. QED
  BY <1>2 DEF r, s

\* The account before anybody uses it; a reset code may have been mailed.
NothingMailed == <<>>
ResetMailed == [a \in {"taken"} |-> 1]

LEMMA Accounts ==
    ASSUME NEW session \in BOOLEAN, NEW turnstile, NEW verifies, NEW state,
           NEW issued \in {NothingMailed, ResetMailed}, AccountInit(session, turnstile, verifies, state, issued)
    PROVE  /\ ServerOK <=> history \in [alone : BOOLEAN, lost : BOOLEAN, faults : Nat] /\ calls \in Nat
           /\ CodesOK /\ server.given = {}
           /\ server.exists /\ (session => server.session)
           /\ server.password = 0 /\ server.token = 0
<1>1. /\ server.exists = TRUE /\ server.session = session /\ server.key = TRUE
      /\ DOMAIN server = {"exists", "session", "turnstile", "verifies", "state", "exchanges", "codes", "issued",
                        "inbox", "given", "email", "password", "token", "quota", "key"}
  BY DEF AccountInit
<1>2. /\ server.password = 0 /\ server.token = 0 /\ server.quota = 1 /\ server.given = {} /\ server.email = ""
  BY DEF AccountInit
<1>12. server.codes = issued /\ server.issued = Cardinality(DOMAIN issued)
  BY DEF AccountInit
<1>3. server.inbox = {[address |-> a, code |-> issued[a]] : a \in DOMAIN issued}
  BY DEF AccountInit
<1>4. \A m \in server.inbox : \E a \in DOMAIN issued : m.address = a /\ m.code = issued[a]
  BY <1>3
<1>5. Cardinality({}) = 0 /\ Cardinality({"taken"}) = 1
  BY FS_EmptySet, FS_Singleton
<1>6. DOMAIN issued = {} \/ (DOMAIN issued = {"taken"} /\ issued["taken"] = 1)
  BY DEF NothingMailed, ResetMailed
<1>7. server.issued \in Nat /\ CodesOK
  <2>1. CASE DOMAIN issued = {}
    BY <1>12, <1>4, <1>5, <2>1 DEF CodesOK
  <2>2. CASE DOMAIN issued = {"taken"} /\ issued["taken"] = 1
    <3>1. server.issued = 1
      BY <1>12, <1>5, <2>2
    <3>2. \A a \in DOMAIN server.codes : server.codes[a] \in 1 .. server.issued /\ a = "taken"
      BY <1>12, <2>2, <3>1
    <3>3. \A m \in server.inbox : m.code \in 1 .. server.issued /\ m.address = "taken"
      BY <1>4, <2>2, <3>1
    <3>. QED
      BY <3>1, <3>2, <3>3 DEF CodesOK
  <2>. QED
    BY <1>6, <2>1, <2>2
<1>8. server.exists /\ (session => server.session)
  BY <1>1
<1>9. server.exists \in BOOLEAN /\ server.session \in BOOLEAN /\ server.key \in BOOLEAN
  BY <1>1
<1>10. server.email \in Addressed
  BY <1>2 DEF Addressed
<1>13. server.password \in Nat /\ server.token \in Nat /\ server.quota \in Int
  <2>1. 0 \in Nat /\ 1 \in Int
    OBVIOUS
  <2>. QED
    BY <1>2, <2>1, Zenon
<1>11. ServerOK <=> history \in [alone : BOOLEAN, lost : BOOLEAN, faults : Nat] /\ calls \in Nat
  BY <1>1, <1>7, <1>9, <1>10, <1>13, Zenon DEF ServerOK
<1>. QED
  BY <1>2, <1>7, <1>8, <1>11

LEMMA OpensWell ==
    ASSUME NEW session \in BOOLEAN, NEW turnstile, NEW verifies, NEW state,
           NEW issued \in {NothingMailed, ResetMailed}, AccountInit(session, turnstile, verifies, state, issued),
           NEW page, NEW user, user = "me" \/ user = "none", NEW fields, NEW widget, NEW first,
           OpensPage(page, user, fields, widget, first),
           FirstOK(page, first), user = "me" => session, page \in WalletPages => user = "me",
           page \in CodePages => fields = MailFields, page \in ConfirmPages => fields = ResetLink
    PROVE  IInv
<1>1. /\ view.at = page /\ view.user = user /\ view.fields = fields
      /\ view.countdown = Countdown /\ view.token = 0 /\ view.password = 0 /\ view.quota = 0
      /\ view.email = "" /\ view.gap = Countdown
      /\ DOMAIN view = {"at", "user", "fields", "turnstile", "disabled", "countdown", "loading", "submitting",
                "dialog", "left", "link", "token", "password", "quota", "email", "fetched", "gap", "rushed"}
  BY DEF OpensPage, Opens
<1>2. view.disabled \in BOOLEAN /\ view.rushed \in BOOLEAN /\ ~view.rushed
  BY DEF OpensPage, Opens
<1>3. net = first /\ calls = Len(first) /\ Len(first) \in Nat
  BY DEF OpensPage, Opens, FirstOK
<1>4. history \in [alone : BOOLEAN, lost : BOOLEAN, faults : Nat]
  BY DEF OpensPage, Opens
<1>5. /\ ServerOK <=> history \in [alone : BOOLEAN, lost : BOOLEAN, faults : Nat] /\ calls \in Nat
      /\ CodesOK /\ server.given = {}
      /\ server.exists /\ (session => server.session)
      /\ server.password = 0 /\ server.token = 0
  BY Accounts
<1>6. Countdown \in Nat /\ Countdown >= 1
  BY AccountAssumption
<1>7. DOMAIN MailFields = {"email", "code"} /\ MailFields["code"] \in Codes
  BY DEF MailFields, Codes
<1>8. PageOK(view)
  <2>0. Countdown \in 1 .. Countdown /\ Countdown \in 0 .. Countdown /\ 0 \in Nat /\ 0 \in Int
    BY <1>6
  <2>1. view.countdown \in 1 .. Countdown /\ view.gap \in 0 .. Countdown
    BY <1>1, <2>0, Zenon
  <2>2. view.token \in Nat /\ view.password \in Nat /\ view.quota \in Int
    BY <1>1, <2>0, Zenon
  <2>3. view.user \in {"me", "none"}
    BY <1>1
  <2>4. view.at \in CodePages => DOMAIN view.fields = {"email", "code"}
    BY <1>1, <1>7
  <2>. QED
    BY <1>1, <1>2, <2>1, <2>2, <2>3, <2>4, Zenon DEF PageOK
<1>9. ClockOK(view)
  <2>0. Countdown + Countdown >= Countdown
    BY <1>6
  <2>1. view.gap + view.countdown >= Countdown
    BY <1>1, <2>0, Zenon
  <2>. QED
    BY <1>1, <1>2, <2>1, Zenon DEF ClockOK
<1>10. FieldsOK(view, Codes)
  BY <1>1, <1>7 DEF FieldsOK
<1>11. ServerOK
  BY <1>3, <1>4, <1>5
<1>12. view.email \in Addressed /\ GivenAddressesWereProved
  BY <1>1, <1>5 DEF Addressed, GivenAddressesWereProved
<1>13. RequestsOK
  <2>1. ASSUME NEW n \in DOMAIN first PROVE AskOK(page, first[n], Codes) /\ AnswerOK(first[n], Addressed)
    BY DEF FirstOK, AskOK, AnswerOK
  <2>. QED
    BY <1>1, <1>3, <2>1 DEF RequestsOK, FirstOK
<1>14. PasswordOK
  BY <1>1, <1>3, <1>5 DEF PasswordOK, FirstOK
<1>15. AloneOK
  <2>1. \A n, m \in DOMAIN first : n = m \/ (first[n].req = "read" /\ first[m].req = "read")
    BY DEF FirstOK
  <2>. QED
    BY <1>3, <2>1 DEF AloneOK
<1>16. SessionOK
  BY <1>1, <1>3, <1>5 DEF SessionOK, FirstOK
<1>17. TokenOK
  BY <1>1, <1>3, <1>5 DEF TokenOK, FirstOK
<1>18. QuotaOK
  BY <1>1, <1>3 DEF QuotaOK, FirstOK
<1>. QED
  BY <1>5, <1>8, <1>9, <1>10, <1>11, <1>12, <1>13, <1>14, <1>15, <1>16, <1>17, <1>18 DEF IInv

\* A page that sends nothing at first, or one request for an account with a session.
LEMMA PlainOpens ==
    ASSUME NEW session \in BOOLEAN, NEW account, account = NothingMailed,
           \E turnstile, verifies, state : AccountInit(session, turnstile, verifies, state, account),
           NEW page, page \notin ConfirmPages \cup WalletPages, NEW fields, page \in CodePages => fields = MailFields,
           NEW widget, NEW first, FirstOK(page, first), NEW user, user = "none" \/ (user = "me" /\ session),
           OpensPage(page, user, fields, widget, first)
    PROVE  IInv
<1>1. PICK turnstile, verifies, state : AccountInit(session, turnstile, verifies, state, account)
  OBVIOUS
<1>. QED
  BY <1>1, OpensWell

LEMMA Inits ==
    /\ \A session : \/ PlainInit(session) \/ MailInit(session) \/ OAuthInit(session)
                    => \E turnstile, verifies, state : AccountInit(session, turnstile, verifies, state, NothingMailed)
    /\ SignUpInit => \E turnstile, verifies, state : AccountInit(FALSE, turnstile, verifies, state, NothingMailed)
    /\ ResetInit => AccountInit(FALSE, "off", FALSE, FALSE, ResetMailed)
<1>1. ASSUME NEW session, PlainInit(session) \/ MailInit(session) \/ OAuthInit(session)
      PROVE  \E turnstile, verifies, state : AccountInit(session, turnstile, verifies, state, NothingMailed)
  BY <1>1, Zenon DEF PlainInit, MailInit, OAuthInit, NothingMailed
<1>2. SignUpInit => \E turnstile, verifies, state : AccountInit(FALSE, turnstile, verifies, state, NothingMailed)
  BY <1>1, Zenon DEF SignUpInit, NothingMailed
<1>3. ResetInit => AccountInit(FALSE, "off", FALSE, FALSE, ResetMailed)
  BY Zenon DEF ResetInit, ResetMailed
<1>. QED
  BY <1>1, <1>2, <1>3

LEMMA ResetOpens ==
    ASSUME NEW page \in ConfirmPages, ResetInit, OpensReset(page)
    PROVE  IInv
<1>1. page \notin CodePages /\ page \notin WalletPages
  BY PageNames
<1>2. OpensPage(page, "none", ResetLink, "off", <<>>)
  BY DEF OpensReset, ResetLink
<1>3. FirstOK(page, <<>>)
  BY <1>1, NoneFirst
<1>4. AccountInit(FALSE, "off", FALSE, FALSE, ResetMailed)
  BY Inits
<1>. DEFINE user == "none"
<1>5. OpensPage(page, user, ResetLink, "off", <<>>) /\ user = "none" /\ user # "me"
  BY <1>2
<1>. HIDE DEF user
<1>. QED
  BY <1>1, <1>3, <1>4, <1>5, OpensWell

LEMMA WalletOpens ==
    ASSUME NEW page \in WalletPages, NEW fn \in {"getUserQuota", "airGetUserQuota", "berryGetUserQuota"},
           PlainInit(TRUE), OpensTopUp(page, fn)
    PROVE  IInv
<1>1. page \notin CodePages /\ page \notin ConfirmPages /\ page \notin DeletePages
  BY PageNames
<1>. DEFINE first == <<Request(fn, "self", "", <<>>)>>
<1>2. OpensPage(page, "me", [key |-> ""], "off", first)
  BY DEF OpensTopUp
<1>3. SentBy(fn, "self")
  BY DEF SentBy
<1>4. FirstOK(page, first)
  BY <1>1, <1>3, OneFirst
<1>. HIDE DEF first
<1>5. PICK turnstile, verifies, state : AccountInit(TRUE, turnstile, verifies, state, NothingMailed)
  BY Inits
<1>. QED
  BY <1>1, <1>2, <1>4, <1>5, OpensWell

LEMMA OAuthOpens ==
    ASSUME NEW page, page \notin CodePages \cup ConfirmPages, page \notin WalletPages \cup DeletePages,
           NEW fn \in {"gitHubSendCode", "larkSendCode", "airSendCode", "berrySendCode"}, NEW signedIn \in BOOLEAN,
           OAuthInit(signedIn), OpensOAuth(page, fn, signedIn)
    PROVE  IInv
<1>. DEFINE first == <<Request(fn, "oauth", 0, <<>>)>>
            user == IF signedIn THEN "me" ELSE "none"
<1>1. OpensPage(page, user, <<>>, "off", first)
  BY DEF OpensOAuth
<1>2. SentBy(fn, "oauth")
  BY DEF SentBy
<1>3. FirstOK(page, first)
  BY <1>2, OneFirst
<1>4. user = "none" \/ (user = "me" /\ signedIn)
  OBVIOUS
<1>. HIDE DEF first, user
<1>. QED
  BY <1>1, <1>3, <1>4, Inits, PlainOpens

LEMMA DefaultOpens == ASSUME DefaultInit PROVE IInv
<1>1. CASE PlainInit(FALSE) /\ OpensPage(Login, "none", <<>>, "off", <<>>)
  <2>1. Login \notin ConfirmPages \cup WalletPages /\ Login \notin CodePages
    BY PageNames DEF Login
  <2>. QED
    BY <1>1, <2>1, Inits, NoneFirst, PlainOpens
<1>2. CASE SignUpInit /\ OpensPage(SignUp, "none", MailFields, Widget, <<>>)
  <2>1. SignUp \notin ConfirmPages \cup WalletPages
    BY PageNames DEF SignUp
  <2>. QED
    BY <1>2, <2>1, Inits, NoneFirst, PlainOpens
<1>3. CASE MailInit(FALSE) /\ OpensPage(Reset, "none", [email |-> ""], Widget, <<>>)
  <2>1. Reset \notin ConfirmPages \cup WalletPages /\ Reset \notin CodePages
    BY PageNames DEF Reset
  <2>. QED
    BY <1>3, <2>1, Inits, NoneFirst, PlainOpens
<1>4. CASE ResetInit /\ OpensReset(Confirm)
  BY <1>4, ResetOpens DEF ConfirmPages
<1>5. CASE PlainInit(TRUE) /\ OpensPage(Personal, "me", <<>>, "off", <<>>)
  <2>1. Personal \notin ConfirmPages \cup WalletPages /\ Personal \notin CodePages
    BY PageNames DEF Personal
  <2>. QED
    BY <1>5, <2>1, Inits, NoneFirst, PlainOpens
<1>6. CASE MailInit(TRUE) /\ OpensPage(EmailCard, "me", MailFields, Widget, <<>>)
  <2>1. EmailCard \notin ConfirmPages \cup WalletPages
    BY PageNames DEF EmailCard
  <2>. QED
    BY <1>6, <2>1, Inits, NoneFirst, PlainOpens
<1>7. CASE PlainInit(TRUE) /\ OpensTopUp(Wallet, "getUserQuota")
  BY <1>7, WalletOpens DEF WalletPages
<1>8. ASSUME NEW signedIn \in BOOLEAN, OAuthInit(signedIn),
             OpensOAuth(GitHub, "gitHubSendCode", signedIn) \/ OpensOAuth(Lark, "larkSendCode", signedIn)
      PROVE  IInv
  <2>1. /\ GitHub \notin CodePages \cup ConfirmPages /\ GitHub \notin WalletPages \cup DeletePages
        /\ Lark \notin CodePages \cup ConfirmPages /\ Lark \notin WalletPages \cup DeletePages
    BY PageNames DEF GitHub, Lark
  <2>. QED
    BY <1>8, <2>1, OAuthOpens
<1>. QED
  BY <1>1, <1>2, <1>3, <1>4, <1>5, <1>6, <1>7, <1>8 DEF DefaultInit

LEMMA AirOpens == ASSUME AirInit PROVE IInv
<1>1. CASE /\ \E turnstile \in {"off", "on"} : AccountInit(FALSE, turnstile, FALSE, FALSE, <<>>)
           /\ OpensPage(AirLogin, "none", <<>>, Widget, <<>>)
  <2>1. AirLogin \notin ConfirmPages \cup WalletPages /\ AirLogin \notin CodePages
    BY PageNames DEF AirLogin
  <2>2. \E turnstile, verifies, state : AccountInit(FALSE, turnstile, verifies, state, NothingMailed)
    BY <1>1, Zenon DEF NothingMailed
  <2>. QED
    BY <1>1, <2>1, <2>2, NoneFirst, PlainOpens
<1>2. CASE SignUpInit /\ OpensPage(AirSignUp, "none", MailFields, Widget, <<>>)
  <2>1. AirSignUp \notin ConfirmPages \cup WalletPages
    BY PageNames DEF AirSignUp
  <2>. QED
    BY <1>2, <2>1, Inits, NoneFirst, PlainOpens
<1>3. CASE MailInit(FALSE) /\ OpensPage(AirReset, "none", [email |-> ""], "off", <<>>)
  <2>1. AirReset \notin ConfirmPages \cup WalletPages /\ AirReset \notin CodePages
    BY PageNames DEF AirReset
  <2>. QED
    BY <1>3, <2>1, Inits, NoneFirst, PlainOpens
<1>4. CASE ResetInit /\ OpensReset(AirConfirm)
  BY <1>4, ResetOpens DEF ConfirmPages
<1>5. ASSUME PlainInit(TRUE), NEW first \in airFirst, OpensPage(AirPersonal, "me", <<>>, "off", first)
      PROVE  IInv
  <2>1. AirPersonal \notin ConfirmPages \cup WalletPages /\ AirPersonal \notin CodePages
    BY PageNames DEF AirPersonal
  <2>2. SentBy("airGetUserData", "self") /\ SentBy("airLoadModels", "read") /\ SentBy("airGetAffLink", "read")
    BY DEF SentBy
  <2>3. FirstOK(AirPersonal, first)
    BY <2>1, <2>2, OneFirst, BothFirst DEF airFirst
  <2>. QED
    BY <1>5, <2>1, <2>3, Inits, PlainOpens
<1>6. CASE /\ MailInit(TRUE)
           /\ OpensPage(AirEmailCard, "me", MailFields, Widget, <<Request("airGetUserData", "self", "", <<>>)>>)
  <2>1. AirEmailCard \notin ConfirmPages \cup WalletPages
    BY PageNames DEF AirEmailCard
  <2>2. SentBy("airGetUserData", "self")
    BY DEF SentBy
  <2>. DEFINE first == <<Request("airGetUserData", "self", "", <<>>)>>
  <2>3. FirstOK(AirEmailCard, first)
    BY <2>1, <2>2, OneFirst
  <2>4. OpensPage(AirEmailCard, "me", MailFields, Widget, first)
    BY <1>6
  <2>. HIDE DEF first
  <2>. QED
    BY <1>6, <2>1, <2>3, <2>4, Inits, PlainOpens
<1>7. CASE PlainInit(TRUE) /\ OpensTopUp(AirWallet, "airGetUserQuota")
  BY <1>7, WalletOpens DEF WalletPages
<1>8. ASSUME NEW signedIn \in BOOLEAN, OAuthInit(signedIn), OpensOAuth(AirGitHub, "airSendCode", signedIn)
      PROVE  IInv
  <2>1. AirGitHub \notin CodePages \cup ConfirmPages /\ AirGitHub \notin WalletPages \cup DeletePages
    BY PageNames DEF AirGitHub
  <2>. QED
    BY <1>8, <2>1, OAuthOpens
<1>. QED
  BY <1>1, <1>2, <1>3, <1>4, <1>5, <1>6, <1>7, <1>8 DEF AirInit

LEMMA BerryOpens == ASSUME BerryInit PROVE IInv
<1>1. CASE PlainInit(FALSE) /\ OpensPage(BerryLogin, "none", <<>>, "off", <<>>)
  <2>1. BerryLogin \notin ConfirmPages \cup WalletPages /\ BerryLogin \notin CodePages
    BY PageNames DEF BerryLogin
  <2>. QED
    BY <1>1, <2>1, Inits, NoneFirst, PlainOpens
<1>2. CASE SignUpInit /\ OpensPage(BerrySignUp, "none", MailFields, Widget, <<>>)
  <2>1. BerrySignUp \notin ConfirmPages \cup WalletPages
    BY PageNames DEF BerrySignUp
  <2>. QED
    BY <1>2, <2>1, Inits, NoneFirst, PlainOpens
<1>3. CASE MailInit(FALSE) /\ OpensPage(BerryReset, "none", [email |-> ""], Widget, <<>>)
  <2>1. BerryReset \notin ConfirmPages \cup WalletPages /\ BerryReset \notin CodePages
    BY PageNames DEF BerryReset
  <2>. QED
    BY <1>3, <2>1, Inits, NoneFirst, PlainOpens
<1>4. CASE ResetInit /\ OpensReset(BerryConfirm)
  BY <1>4, ResetOpens DEF ConfirmPages
<1>5. CASE /\ PlainInit(TRUE)
           /\ OpensPage(BerryProfile, "me", [username |-> "", password |-> ""], "off",
                        <<Request("berryLoadUser", "self", "", <<>>)>>)
  <2>1. BerryProfile \notin ConfirmPages \cup WalletPages /\ BerryProfile \notin CodePages
    BY PageNames DEF BerryProfile
  <2>2. SentBy("berryLoadUser", "self")
    BY DEF SentBy
  <2>. DEFINE first == <<Request("berryLoadUser", "self", "", <<>>)>>
              form == [username |-> "", password |-> ""]
  <2>3. FirstOK(BerryProfile, first)
    BY <2>1, <2>2, OneFirst
  <2>4. OpensPage(BerryProfile, "me", form, "off", first)
    BY <1>5
  <2>. HIDE DEF first, form
  <2>. QED
    BY <1>5, <2>1, <2>3, <2>4, Inits, PlainOpens
<1>6. CASE MailInit(TRUE) /\ OpensPage(BerryEmailCard, "me", MailFields, Widget, <<>>)
  <2>1. BerryEmailCard \notin ConfirmPages \cup WalletPages
    BY PageNames DEF BerryEmailCard
  <2>. QED
    BY <1>6, <2>1, Inits, NoneFirst, PlainOpens
<1>7. CASE PlainInit(TRUE) /\ OpensTopUp(BerryWallet, "berryGetUserQuota")
  BY <1>7, WalletOpens DEF WalletPages
<1>8. ASSUME NEW signedIn \in BOOLEAN, NEW page \in BerryOAuths,
             OAuthInit(signedIn), OpensOAuth(page, "berrySendCode", signedIn)
      PROVE  IInv
  <2>1. page \notin CodePages \cup ConfirmPages /\ page \notin WalletPages \cup DeletePages
    BY PageNames
  <2>. QED
    BY <1>8, <2>1, OAuthOpens
<1>. QED
  BY <1>1, <1>2, <1>3, <1>4, <1>5, <1>6, <1>7, <1>8 DEF BerryInit

----------------------------------------------------------------------------
(***************************************************************************)
(* Every behaviour.                                                        *)
(***************************************************************************)
LEMMA InitIInv == ASSUME Init PROVE IInv
  BY DefaultOpens, AirOpens, BerryOpens DEF Init

LEMMA StutterKeeps == ASSUME IInv, UNCHANGED vars PROVE IInv'
<1>1. UNCHANGED <<view, net, server, calls, history>>
  BY DEF vars
<1>2. Calms
  BY <1>1 DEF IInv, ServerOK, Calms, Histories
<1>. QED
  BY <1>1, <1>2, ViewFit, PageKeeps

LEMMA NextIInv == ASSUME IInv, [Next]_vars PROVE IInv'
  BY DefaultKeeps, AirKeeps, BerryKeeps, ServeKeeps, ElsewhereKeeps, StutterKeeps DEF Next

LEMMA SpecIInv == Spec => []IInv
  BY InitIInv, NextIInv, PTL DEF Spec

(***************************************************************************)
(* On every page that shows a countdown no mail is asked for before the    *)
(* time is over, whether the answer to the one before was slow, a refusal  *)
(* or none at all (disableButton and countdown of the six forms).          *)
(***************************************************************************)
THEOREM Mails_are_spaced == Spec => []MailsAreSpaced
<1>1. IInv => MailsAreSpaced
  BY DEF IInv, ClockOK, MailsAreSpaced
<1>. QED
  BY <1>1, SpecIInv, PTL

(***************************************************************************)
(* With e-mail verification on, an account gets an address only if a code  *)
(* was mailed to it, by a registration (Register) and by a change of the   *)
(* address (EmailBind), however the form was changed after the mail.       *)
(***************************************************************************)
THEOREM Given_addresses_were_proved == Spec => []GivenAddressesWereProved
<1>1. IInv => GivenAddressesWereProved
  BY DEF IInv
<1>. QED
  BY <1>1, SpecIInv, PTL

(***************************************************************************)
(* What a page shows of the account is what the service holds: the new     *)
(* password of a reset and the address at any time, the access token and   *)
(* the quota once all is answered.                                         *)
(***************************************************************************)
THEOREM Shown_is_held == Spec => []ShownIsHeld
<1>1. Undisturbed => Patient /\ history.alone /\ ~history.lost /\ DOMAIN net = {}
  BY DEF Undisturbed, Patient
<1>2. ASSUME IInv PROVE ShownIsHeld
  <2>1. ShownPasswordWorks
    BY <1>2 DEF IInv, PasswordOK, ShownPasswordWorks
  <2>2. ShownTokenWorks
    BY <1>1, <1>2 DEF IInv, TokenOK, ShownTokenWorks
  <2>3. QuotaShownIsTrue
    BY <1>1, <1>2 DEF IInv, QuotaOK, QuotaShownIsTrue
  <2>4. ShownAddressWasGiven
    BY <1>2 DEF IInv, Addressed, ShownAddressWasGiven
  <2>. QED
    BY <2>1, <2>2, <2>3, <2>4 DEF ShownIsHeld
<1>. QED
  BY <1>2, SpecIInv, PTL

(***************************************************************************)
(* A page that shows somebody signed in, once all is answered, has a       *)
(* session of an account that exists (setLogin, logout and deleteAccount). *)
(***************************************************************************)
THEOREM Signed_in_means_session == Spec => []SignedInMeansSession
<1>1. Undisturbed => Patient /\ DOMAIN net = {}
  BY DEF Undisturbed, Patient
<1>2. ASSUME IInv PROVE SignedInMeansSession
  BY <1>1, <1>2 DEF IInv, SessionOK, SignedInMeansSession
<1>. QED
  BY <1>2, SpecIInv, PTL
=============================================================================
