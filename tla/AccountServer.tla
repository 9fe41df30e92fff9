---------------------------- MODULE AccountServer ----------------------------
(***************************************************************************)
(* One account of the service and the mailbox of its owner, as the pages   *)
(* see them on which somebody signs in, registers, recovers a password,    *)
(* redeems a code or changes the account (controller/user.go,              *)
(* controller/misc.go, common/verification.go), and what the handlers of   *)
(* these pages have in common.                                             *)
(*                                                                         *)
(* A handler of the service is one step here.                              *)
(***************************************************************************)
EXTENDS Browser

CONSTANTS
    Countdown       \* ticks a button waits after it asked for a mail (30 in the code)

ASSUME AccountAssumption == Countdown \in Nat \ {0}

Addresses == {"mine", "taken"}      \* "taken" belongs to another account

(***************************************************************************)
(* The service.                                                            *)
(***************************************************************************)
AccountInit(session, turnstile, verifies, state, issued) ==
    server = [exists |-> TRUE, session |-> session, turnstile |-> turnstile,
              verifies |-> verifies,        \* EmailVerificationEnabled
              state |-> state,              \* the state of the OAuth link is that of the session
              exchanges |-> 0,              \* how often the OAuth code was sent
              codes |-> issued, issued |-> Cardinality(DOMAIN issued),
              inbox |-> {[address |-> a, code |-> issued[a]] : a \in DOMAIN issued},
              given |-> {}, email |-> "", password |-> 0, token |-> 0,
              quota |-> 1, key |-> TRUE]

\* What a page needs of the account: an address to prove, to sign up, or none of this.
MailInit(session) ==
    \E turnstile \in {"off", "on"} : AccountInit(session, turnstile, TRUE, FALSE, <<>>)
SignUpInit ==
    MailInit(FALSE) \/ \E turnstile \in {"off", "on"} : AccountInit(FALSE, turnstile, FALSE, FALSE, <<>>)
PlainInit(session) == AccountInit(session, "off", FALSE, FALSE, <<>>)
ResetInit == AccountInit(FALSE, "off", FALSE, FALSE, [a \in {"taken"} |-> 1])
OAuthInit(session) == \E state \in BOOLEAN : AccountInit(session, "off", FALSE, state, <<>>)

Is(n, req) == net[n].st = "sent" /\ net[n].req = req
Answers(n, data, s) == Answered(n, data) /\ server' = s
Refuses(n) == Refused(n)

\* TurnstileCheck: with Turnstile on a request carries a token of the widget.  That the
\* session is not asked twice makes no difference: a page that had a token sends it always.
Passes(n) == server.turnstile = "on" => net[n].arg.human

\* UserAuth: without a session the status is 401 (the request is "expired"); a deleted
\* account also loses the session.
Banned(n) ==
    /\ net' = [net EXCEPT ![n].st = "refused"]
    /\ server' = [server EXCEPT !.session = FALSE]
    /\ UNCHANGED <<view, calls, history>>
Unauthorised(n) ==
    net' = [net EXCEPT ![n].st = "expired"] /\ UNCHANGED <<view, server, calls, history>>
Authorised(n, handler) ==
    IF ~server.session THEN Unauthorised(n) ELSE IF ~server.exists THEN Banned(n) ELSE handler

\* Faulty: a code is good for every address.
VerifyCodeOfAnyAddress(address, code) == \E a \in DOMAIN server.codes : server.codes[a] = code

VerifyCodeWithKey(address, code) == address \in DOMAIN server.codes /\ server.codes[address] = code

\* Faulty: the code is left in place.
CodesKept(address) == server.codes

DeleteKey(address) == [a \in DOMAIN server.codes \ {address} |-> server.codes[a]]

\* The new code replaces the one before also when the mail cannot be sent.
Mails(n, address) ==
    LET code == server.issued + 1
        s == [server EXCEPT !.issued = code, !.codes = Joined(@, address, code)]
    IN  \/ Answers(n, <<>>, [s EXCEPT !.inbox = @ \cup {[address |-> address, code |-> code]}])
        \/ /\ net' = [net EXCEPT ![n].st = "refused"]
           /\ server' = s
           /\ UNCHANGED <<view, calls, history>>

SendEmailVerification(n) ==
    /\ Is(n, "verification")
    /\ IF Passes(n) /\ net[n].arg.email = "mine" THEN Mails(n, "mine") ELSE Refuses(n)

\* It answers only for an address that is registered.
SendPasswordResetEmail(n) ==
    /\ Is(n, "reset_password")
    /\ IF Passes(n) /\ net[n].arg.email = "taken" THEN Mails(n, "taken") ELSE Refuses(n)

\* A user name stands for a missing address; both are taken once.
Register(n) ==
    LET arg == net[n].arg
        address == IF arg.email = "" THEN arg.username ELSE arg.email
    IN
    /\ Is(n, "register")
    /\ IF /\ Passes(n) /\ address \notin server.given \cup {"taken"}
          /\ server.verifies => VerifyCodeWithKey(address, arg.code)
       THEN Answers(n, <<>>, [server EXCEPT !.given = @ \cup {address}])
       ELSE Refuses(n)

EmailBind(n) ==
    LET arg == net[n].arg IN
    /\ Is(n, "email/bind")
    /\ Authorised(n, IF VerifyCodeWithKey(arg.email, arg.code)
                     THEN Answers(n, <<>>, [server EXCEPT !.email = arg.email, !.given = @ \cup {arg.email}])
                     ELSE Refuses(n))

ResetPassword(n) ==
    LET arg == net[n].arg IN
    /\ Is(n, "user/reset")
    /\ IF VerifyCodeWithKey(arg.email, arg.code)
       THEN Answers(n, server.password + 1,
                    [server EXCEPT !.password = @ + 1, !.codes = DeleteKey(arg.email)])
       ELSE Refuses(n)

\* Login, WeChatAuth: what they are given is right or wrong.
SetupLogin(n) ==
    /\ net[n].req \in {"login", "wechat"} /\ Is(n, net[n].req)
    /\ IF net[n].arg = "right" THEN Answers(n, <<>>, [server EXCEPT !.session = TRUE]) ELSE Refuses(n)

WeChatBind(n) ==
    /\ Is(n, "wechat/bind")
    /\ Authorised(n, IF net[n].arg = "right" THEN Answers(n, <<>>, server) ELSE Refuses(n))

\* Logout needs no session.
Logout(n) == Is(n, "logout") /\ Answers(n, <<>>, [server EXCEPT !.session = FALSE])

GetSelf(n) ==
    /\ Is(n, "self")
    /\ Authorised(n, Answers(n, [quota |-> server.quota, email |-> server.email], server))

DeleteSelf(n) == Is(n, "delete") /\ Authorised(n, Answers(n, <<>>, [server EXCEPT !.exists = FALSE]))

\* UpdateSelf: an empty password is not written, and a password must have a fitting length.
UpdateSelf(n) ==
    /\ Is(n, "put")
    /\ Authorised(n, CASE net[n].arg = "" -> Answers(n, <<>>, server)
                       [] net[n].arg = "fit" -> Answers(n, <<>>, [server EXCEPT !.password = @ + 1])
                       [] OTHER -> Refuses(n))

GenerateAccessToken(n) ==
    Is(n, "token") /\ Authorised(n, Answers(n, server.token + 1, [server EXCEPT !.token = @ + 1]))

\* GetAffCode and GetUserAvailableModels read what does not change.
Read(n) == Is(n, "read") /\ Authorised(n, Answers(n, <<>>, server))

\* TopUp: the key adds 1 to the quota, once.
TopUp(n) ==
    /\ Is(n, "topup")
    /\ Authorised(n, IF net[n].arg = "key" /\ server.key
                     THEN Answers(n, 1, [server EXCEPT !.key = FALSE, !.quota = @ + 1])
                     ELSE Refuses(n))

\* GitHubOAuth, LarkOAuth, OidcAuth: a state that is not the session's is forbidden; the
\* provider exchanges the code once, and the session signs in or gets one more binding.
OAuth(n) ==
    /\ Is(n, "oauth")
    /\ IF ~server.state THEN net' = [net EXCEPT ![n].st = "failed"] /\ UNCHANGED <<view, server, calls, history>>
       ELSE LET s == [server EXCEPT !.exchanges = @ + 1]
            IN  IF server.exchanges = 0
                THEN Answers(n, IF server.session THEN "bind" ELSE "login", [s EXCEPT !.session = TRUE])
                ELSE net' = [net EXCEPT ![n].st = "refused"] /\ server' = s /\ UNCHANGED <<view, calls, history>>

\* What was sent does not pass a check that is left out, or a database or the provider
\* fails; the connection fails before the request was handled or after.
Denies(n) ==
    /\ net[n].st = "sent" /\ calls + history.faults < MaxEvents
    /\ history' = [history EXCEPT !.faults = @ + 1]
    /\ net' = [net EXCEPT ![n].st = "refused"]
    /\ server' = IF net[n].req = "oauth" THEN [server EXCEPT !.exchanges = @ + 1] ELSE server
    /\ UNCHANGED <<view, calls>>
Breaks(n) == net[n].st \in {"sent", "ok"} /\ Failed(n) /\ UNCHANGED server

Serve ==
    \E n \in DOMAIN net :
        \/ SendEmailVerification(n) \/ SendPasswordResetEmail(n) \/ Register(n) \/ EmailBind(n)
        \/ ResetPassword(n) \/ SetupLogin(n) \/ WeChatBind(n) \/ Logout(n) \/ GetSelf(n)
        \/ DeleteSelf(n) \/ UpdateSelf(n) \/ GenerateAccessToken(n) \/ Read(n) \/ TopUp(n) \/ OAuth(n)
        \/ Denies(n) \/ Breaks(n)

\* The account is used elsewhere, or signed out there; a code expires.
Elsewhere ==
    /\ Disturbed
    /\ \/ server.quota > 0 /\ server' = [server EXCEPT !.quota = @ - 1]
       \/ server.session /\ server' = [server EXCEPT !.session = FALSE]
       \/ \E a \in DOMAIN server.codes : server' = [server EXCEPT !.codes = DeleteKey(a)]

(***************************************************************************)
(* The page.  fields are its inputs; turnstile is "off", or the widget is  *)
(* "waiting", or it gave a "token"; dialog is the one that is open; left   *)
(* says that the page navigated away, which leaves its handlers running.   *)
(* Of the page's requests for mail the properties need to know how many    *)
(* ticks ago the last was (gap) and whether one came too soon (rushed).    *)
(***************************************************************************)
OpensPage(page, user, fields, turnstile, first) ==
    Opens([at |-> page, user |-> user, fields |-> fields, turnstile |-> turnstile,
           disabled |-> FALSE, countdown |-> Countdown, loading |-> FALSE, submitting |-> FALSE,
           dialog |-> "", left |-> FALSE, link |-> FALSE, token |-> 0, password |-> 0,
           quota |-> 0, email |-> "", fetched |-> FALSE, gap |-> Countdown, rushed |-> FALSE], first)

MailFields == [email |-> "", code |-> 0]

Widget == IF server.turnstile = "off" THEN "off" ELSE "waiting"
Human == view.turnstile = "token"

On(page) == At(page) /\ ~view.left

\* The widget finds the reader to be human.
Verifies(page) == On(page) /\ view.turnstile = "waiting" /\ Shows([view EXCEPT !.turnstile = "token"])

\* What the reader may put in a field.  A field that only one handler reads is chosen
\* when that handler is called: "" is empty, and a password is "long" or does not "fit".
Typed(k) ==
    CASE k = "email" -> {""} \cup Addresses
      [] k = "code" -> {0, -1} \cup {m.code : m \in server.inbox}
      [] k = "key" -> {"", "key", "bad"}
      [] k = "confirmation" -> {"", "me", "other"}
      [] k = "secret" -> {"", "right", "wrong"}
      [] k = "username" -> {"", "me"}
      [] k = "password" -> {"", "short", "long", "fit"}

Types(k) ==
    \E value \in Typed(k) :
        value # view.fields[k] /\ Shows([view EXCEPT !.fields[k] = value])

Opening(dialog) == Shows([view EXCEPT !.dialog = dialog])
Hides(v, dialogs) == IF v.dialog \in dialogs THEN [v EXCEPT !.dialog = ""] ELSE v
Closing == view.dialog # "" /\ Shows([view EXCEPT !.dialog = ""])

\* The button is as it was before the countdown.
Enabled(v) == [v EXCEPT !.disabled = FALSE, !.countdown = Countdown]

\* Faulty: the countdown ends one tick early.
TicksShort(page) ==
    /\ At(page) /\ view.disabled
    /\ LET v == [view EXCEPT !.gap = IF @ < Countdown THEN @ + 1 ELSE @]
       IN  view' = IF view.countdown <= 2 THEN Enabled(v) ELSE [v EXCEPT !.countdown = @ - 1]
    /\ UNCHANGED <<net, server, calls, history>>

\* The effect of disableButton and countdown: an interval counts down, and at 0 the
\* button is enabled again.
Ticks(page) ==
    /\ At(page) /\ view.disabled
    /\ LET v == [view EXCEPT !.gap = IF @ < Countdown THEN @ + 1 ELSE @]
       IN  view' = IF view.countdown = 1 THEN Enabled(v) ELSE [v EXCEPT !.countdown = @ - 1]
    /\ UNCHANGED <<net, server, calls, history>>

\* A mail is asked for; a request that is refused sent none.
AsksForMail(v, fn, req) ==
    Sends([v EXCEPT !.gap = 0, !.rushed = @ \/ v.gap < Countdown], fn, req,
          [email |-> v.fields["email"], human |-> Human])
MailReturns(n) == IF net[n].st = "refused" THEN [view EXCEPT !.gap = Countdown] ELSE view

\* A user name that could be an address; one beside an address makes no difference.
UserNames == IF view.fields["email"] = "" THEN Addresses ELSE {"mine"}

\* A registration; its password may be one the service Denies.
Registers(v, fn, username) ==
    Sends(v, fn, "register", [username |-> username, email |-> v.fields["email"],
                              code |-> v.fields["code"], human |-> Human])

\* What the page does with an answer: ok is what a success changes.
Returns(n, ok, otherwise) ==
    net[n].st # "failed" /\ Ends(n, IF net[n].st = "ok" THEN ok ELSE otherwise)

SignedIn(v) == [v EXCEPT !.user = "me", !.left = TRUE]
SignedOut(v) == [v EXCEPT !.user = "none", !.left = TRUE]

\* Where the interceptor of the responses answers a 401 by loading the page to sign in,
\* whatever the page was doing is over.
Reloads(pages, v) ==
    /\ view.at \in pages /\ \E n \in DOMAIN net : net[n].st = "expired"
    /\ view' = [v EXCEPT !.left = TRUE]
    /\ net' = <<>>
    /\ history' = [history EXCEPT !.lost = TRUE]
    /\ UNCHANGED <<server, calls>>

\* The OAuth page sends its code as it opens.
OpensOAuth(page, fn, signedIn) ==
    OpensPage(page, IF signedIn THEN "me" ELSE "none", <<>>, "off", <<Request(fn, "oauth", 0, <<>>)>>)

\* sendCode: arg counts the attempts, but the page gives up at 0, which is the first.
SendCodeEnds(n) ==
    \/ net[n].st = "ok" /\ Ends(n, SignedIn(view))
    \/ net[n].st # "ok" /\ net[n].arg = 0 /\ Ends(n, [view EXCEPT !.left = TRUE])
    \/ net[n].st # "ok" /\ net[n].arg # 0 /\ GoesOn(n, view, net[n].fn, "oauth", net[n].arg + 1, <<>>)

SendCodeReturns(n) == net[n].st # "failed" /\ SendCodeEnds(n)

(***************************************************************************)
(* The page on which a key is redeemed: its button is locked meanwhile,    *)
(* and the try block unlocks it whatever comes.                            *)
(***************************************************************************)
Redeems(page, fn) ==
    /\ On(page) /\ ~view.submitting /\ view.fields["key"] # ""
    /\ Sends([view EXCEPT !.submitting = TRUE], fn, "topup", view.fields["key"])

RedeemReturns(n) ==
    LET v == [view EXCEPT !.submitting = FALSE]
    IN  Ends(n, IF net[n].st = "ok" THEN [v EXCEPT !.quota = @ + net[n].data, !.fields["key"] = ""] ELSE v)

QuotaReturns(n) == Returns(n, [view EXCEPT !.quota = net[n].data.quota], view)

OpensTopUp(page, fn) ==
    OpensPage(page, "me", [key |-> ""], "off", <<Request(fn, "self", "", <<>>)>>)

\* The link of a reset mail carries the address and the code.
OpensReset(page) == OpensPage(page, "none", [email |-> "taken", code |-> 1], "off", <<>>)
=============================================================================
