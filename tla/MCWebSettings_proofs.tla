----------------------- MODULE MCWebSettings_proofs -----------------------
(***************************************************************************)
(* Proofs about the settings pages of the three front ends, for any set of *)
(* pages to look at and any number of requests and edits.                  *)
(*                                                                         *)
(* The pages differ in their cards and in what keeps a handler from being  *)
(* started.  What the cards have in common is CardOK, which is proved card *)
(* by card; the handlers are those of OptionServer, so a step of Next is   *)
(* of one of a few kinds (Edits, Starts, AsksFor, Stops, Continues,        *)
(* Arrives, PutReturns, Serve, Elsewhere), and the invariant IInv is       *)
(* proved kind by kind before the pages are taken apart.                   *)
(*                                                                         *)
(* That a checkbox is true needs most of IInv: no two requests to save are *)
(* under way (OneAtATime), a checkbox is saved alone and not in a walk     *)
(* (TogglesEnd), and until its answer is handled the page still shows the  *)
(* old value and the service has the new one (BoxesOK).  The other three   *)
(* need only what may be under way: EntriesOK says it of every option that *)
(* a request saves or will save later in its walk, ClosuresOK of the       *)
(* fields a handler holds.                                                 *)
(***************************************************************************)
EXTENDS MCWebSettings, FiniteSetTheorems, WellFoundedInduction, TLAPS

OtherPages == {DefaultOther, AirOther, BerryOther}
BerryPages == {BerrySystem, BerryOperation}
SystemPages == {DefaultSystem, AirSystem, BerrySystem}
AllPages == OtherPages \cup BerryPages \cup {DefaultSystem, AirSystem, DefaultOperation, AirOperation}

Values ==
    {"", "{}", "undefined", "zero", "bad", "new/", "new", "old", "other", "true", "false"}

\* Credentials and the mail port are only sent when they are filled in.
StepOK(page, card, step) ==
    /\ DOMAIN step = {"key", "unless", "as"}
    /\ step.key \in card.fields
    /\ step.unless # {} => "same" \in step.unless
    /\ step.key \in Kept => {"same", "empty"} \subseteq step.unless /\ step.as # "json"
    /\ page \in OtherPages => step.unless = {}

ButtonOK(page, card, steps) ==
    \E len \in Nat : DOMAIN steps = 1 .. len /\ \A i \in 1 .. len : StepOK(page, card, steps[i])

CardOK(page, card) ==
    /\ \A k \in card.toggles :
          k \notin Kept \cup Endpoints \cup airPusherCard.fields \cup {Whitelist} \cup card.fields
    /\ "PasswordLoginEnabled" \in Keys(card) => "PasswordLoginEnabled" \in card.toggles /\ page \in SystemPages
    /\ page \in OtherPages => card.toggles = {} /\ \A k \in Keys(card) : k \notin Kept
    /\ page = AirSystem => \A k \in Keys(card) : k \in airPusherCard.fields => card = airPusherCard
    /\ \A steps \in card.buttons : ButtonOK(page, card, steps)

Pusher(v) == v.at = AirSystem /\ v.card = airPusherCard

\* What a button compares before it saves.
Eligible(card, k) == \A step \in Steps(card) : step.key = k => step.unless # {}

----------------------------------------------------------------------------
(***************************************************************************)
(* The types of the page v, of the service and of a request r.             *)
(***************************************************************************)
PageOK(v) ==
    /\ DOMAIN v = {"at", "card", "inputs", "origin", "loaded", "loading", "domains", "domain",
                   "dialog", "edits", "touched", "early", "confirmed", "held"}
    /\ v.at \in AllPages /\ CardOK(v.at, v.card)
    /\ v.inputs \in [Keys(v.card) -> Values] /\ v.origin \in [Keys(v.card) -> Values]
    /\ v.domain \in {"", "new"} /\ v.edits \subseteq Keys(v.card)
    /\ v.loaded \in BOOLEAN /\ v.loading \in BOOLEAN /\ v.dialog \in BOOLEAN
    /\ v.early \in BOOLEAN /\ v.confirmed \in BOOLEAN
    /\ v.dialog => v.at \in OtherPages \/ "PasswordLoginEnabled" \in Keys(v.card)

ServerOK ==
    /\ server \in [options : [Keys(view.card) -> Values], theirs : [Keys(view.card) -> Values], others : BOOLEAN]
    /\ history \in [alone : BOOLEAN, lost : BOOLEAN, faults : Nat]
    /\ calls \in Nat /\ calls >= 1

Entries(card) == [key : Keys(card), value : Values]

RequestOK(card, r) ==
    /\ DOMAIN r = {"fn", "req", "arg", "was", "st", "data"}
    /\ r.st \in {"sent", "ok", "refused", "failed"}
    /\ r.req \in {"options", "put", "tell"}
    /\ r.fn = "getOptions" <=> r.req = "options"
    /\ r.fn = "updateOption" <=> r.req = "put"
    /\ r.req = "put" =>
          /\ DOMAIN r.arg = {"key", "value", "todo"}
          /\ r.arg.key \in Keys(card) /\ r.arg.value \in Values /\ r.arg.todo \in Seq(Entries(card))
    /\ r.fn = "submitOidc" =>
          /\ r.arg \in [inputs : [Keys(card) -> Values], origin : [Keys(card) -> Values]]
          /\ card = berryOidcCard
          /\ r.st = "ok" => r.data \in {"new", "undefined"}
    /\ r.req = "options" /\ r.st = "ok" => r.data \in [Keys(card) \ Hidden -> Values]

RequestsOK == \A n \in DOMAIN net : n \in 1 .. calls /\ RequestOK(view.card, net[n])

----------------------------------------------------------------------------
(***************************************************************************)
(* What a request saves, now or later in its walk.                         *)
(***************************************************************************)
Owed(arg) == {[key |-> arg.key, value |-> arg.value]} \cup Range(arg.todo)

\* The entry q may be saved on the page v.
EntryOK(v, q) ==
    /\ q.key = "PasswordLoginEnabled" => q.value = "true" \/ v.confirmed
    /\ q.key \in Kept /\ ~Pusher(v) => q.value \notin {"", "undefined"}
    /\ q.key \in v.card.toggles => q.value \in {"true", "false"}
    /\ ~v.early /\ Eligible(v.card, q.key) => q.key \in v.touched

EntriesOK ==
    \A n \in DOMAIN net : net[n].req = "put" => \A q \in Owed(net[n].arg) : EntryOK(view, q)

\* The fields c.inputs, and c.origin with which a button compares them: a missing credential
\* looks unchanged, and so does a field that was not used.
ClosureOK(v, c) ==
    \A k \in Keys(v.card) :
        /\ k \in Kept /\ ~Pusher(v) /\ c.inputs[k] = "undefined" => c.origin[k] = "undefined"
        /\ ~v.early /\ Eligible(v.card, k) /\ k \notin v.touched /\ v.loaded /\ v.at \notin OtherPages
              => c.inputs[k] = c.origin[k]

ClosuresOK ==
    /\ ClosureOK(view, view)
    /\ \A n \in DOMAIN net : net[n].fn = "submitOidc" => ClosureOK(view, net[n].arg)

\* Before the options are there, only a page that is early has more under way.
FirstOK ==
    /\ \A n \in DOMAIN net : net[n].req = "options" => n = 1 /\ ~view.loaded
    /\ ~view.loaded /\ ~view.early =>
          \A n \in DOMAIN net : net[n].req # "put" /\ net[n].fn # "submitOidc"
    /\ ~view.early /\ ~server.others => \A n \in DOMAIN net : \A k \in view.card.toggles :
          net[n].req = "options" /\ net[n].st = "ok" => net[n].data[k] = server.options[k]

----------------------------------------------------------------------------
(***************************************************************************)
(* The checkboxes: no two requests to save are under way where the page or *)
(* its reader sees to that, and until the only one is answered the page    *)
(* still shows what the service has.                                       *)
(***************************************************************************)
Locks(v) == v.card.toggles # {} /\ v.at \notin BerryPages

OneAtATime ==
    /\ Locks(view) =>
          /\ \A n \in DOMAIN net : net[n].req = "put" => view.loading /\ ~view.dialog
          /\ \A n, m \in DOMAIN net : net[n].req = "put" /\ net[m].req = "put" => n = m
    /\ history.alone => \A n, m \in DOMAIN net : n = m

TogglesEnd ==
    \A n \in DOMAIN net : net[n].req = "put" =>
        /\ net[n].arg.key \in view.card.toggles => net[n].arg.todo = <<>>
        /\ \A i \in DOMAIN net[n].arg.todo : net[n].arg.todo[i].key \notin view.card.toggles

Calm ==
    /\ view.loaded /\ ~view.early /\ ~server.others /\ ~history.lost
    /\ view.at \in BerryPages => history.alone

BoxesOK ==
    /\ \A k \in view.card.toggles : server.options[k] \in {"true", "false"}
    /\ Calm => \A k \in view.card.toggles :
          /\ UnderWay(k) \/ view.inputs[k] = server.options[k]
          /\ \A n \in DOMAIN net : net[n].req = "put" /\ net[n].arg.key = k =>
                /\ net[n].st \in {"sent", "refused"} => view.inputs[k] = server.options[k]
                /\ net[n].st = "ok" => server.options[k] = net[n].arg.value

IInv ==
    /\ PageOK(view) /\ ServerOK /\ RequestsOK /\ EntriesOK /\ ClosuresOK /\ FirstOK
    /\ OneAtATime /\ TogglesEnd /\ BoxesOK
    /\ PasswordLoginStaysUnlessConfirmed /\ SecretsAreNeverErased /\ UntouchedSettingsAreKept

----------------------------------------------------------------------------
(***************************************************************************)
(* The names of the options and of the pages are different.                *)
(***************************************************************************)
LEMMA Names ==
    /\ Kept = {"SMTPToken", "WeChatServerToken", "MessagePusherToken", "GitHubClientSecret",
               "LarkClientSecret", "OidcClientSecret", "TurnstileSecretKey", "SMTPPort"}
    /\ Whitelist = "EmailDomainWhitelist"
    /\ Endpoints = {"OidcAuthorizationEndpoint", "OidcTokenEndpoint", "OidcUserinfoEndpoint"}
    /\ airPusherCard.fields = {"MessagePusherAddress", "MessagePusherToken"}
    /\ airPusherCard.toggles = {} /\ airPusherCard.reads = {}
    /\ airPusherCard.buttons = {airSubmitMessagePusher}
  BY DEF Kept, Hidden, Whitelist, Endpoints, airPusherCard, Card

LEMMA PageNames ==
    /\ SystemPages = {"default SystemSetting", "air SystemSetting", "berry SystemSetting"}
    /\ OtherPages = {"default OtherSetting", "air OtherSetting", "berry OtherSetting"}
    /\ AirSystem = "air SystemSetting"
  BY DEF SystemPages, OtherPages, DefaultSystem, AirSystem, BerrySystem, DefaultOther, AirOther, BerryOther

\* What a function of a button sends is fit for its card.
LEMMA StepsOK ==
    ASSUME NEW page, page \notin OtherPages, NEW card, NEW key \in card.fields
    PROVE  /\ StepOK(page, card, ChangedAndFilled(key))
           /\ key \notin Kept => StepOK(page, card, Changed(key))
           /\ key \notin Kept => StepOK(page, card, Always(key))
           /\ key \notin Kept => StepOK(page, card, Save(key, {"same", "credential"}))
           /\ key \notin Kept => StepOK(page, card, WithoutSlash(Changed(key)))
           /\ key \notin Kept => StepOK(page, card, WithoutSlash(Always(key)))
           /\ key \notin Kept => StepOK(page, card, AsJSON(Changed(key)))
  BY DEF StepOK, ChangedAndFilled, Changed, Always, Save, WithoutSlash, AsJSON

LEMMA Button1 ==
    ASSUME NEW page, NEW card, NEW a, StepOK(page, card, a)
    PROVE  ButtonOK(page, card, <<a>>)
  <1>1. DOMAIN <<a>> = 1 .. 1
    OBVIOUS
  <1> QED BY <1>1 DEF ButtonOK

LEMMA Button2 ==
    ASSUME NEW page, NEW card, NEW a, NEW b, StepOK(page, card, a), StepOK(page, card, b)
    PROVE  ButtonOK(page, card, <<a, b>>)
  <1>1. DOMAIN <<a, b>> = 1 .. 2
    OBVIOUS
  <1> QED BY <1>1 DEF ButtonOK

LEMMA Button3 ==
    ASSUME NEW page, NEW card, NEW a, NEW b, NEW c,
           StepOK(page, card, a), StepOK(page, card, b), StepOK(page, card, c)
    PROVE  ButtonOK(page, card, <<a, b, c>>)
  <1>1. DOMAIN <<a, b, c>> = 1 .. 3
    OBVIOUS
  <1> QED BY <1>1 DEF ButtonOK

LEMMA Button4 ==
    ASSUME NEW page, NEW card, NEW a, NEW b, NEW c, NEW d, StepOK(page, card, a),
           StepOK(page, card, b), StepOK(page, card, c), StepOK(page, card, d)
    PROVE  ButtonOK(page, card, <<a, b, c, d>>)
  <1>1. DOMAIN <<a, b, c, d>> = 1 .. 4
    OBVIOUS
  <1> QED BY <1>1 DEF ButtonOK

LEMMA Button5 ==
    ASSUME NEW page, NEW card, NEW a, NEW b, NEW c, NEW d, NEW e, StepOK(page, card, a),
           StepOK(page, card, b), StepOK(page, card, c), StepOK(page, card, d), StepOK(page, card, e)
    PROVE  ButtonOK(page, card, <<a, b, c, d, e>>)
  <1>1. DOMAIN <<a, b, c, d, e>> = 1 .. 5
    OBVIOUS
  <1> QED BY <1>1 DEF ButtonOK

LEMMA Button6 ==
    ASSUME NEW page, NEW card, NEW a, NEW b, NEW c, NEW d, NEW e, NEW f, StepOK(page, card, a),
           StepOK(page, card, b), StepOK(page, card, c), StepOK(page, card, d),
           StepOK(page, card, e), StepOK(page, card, f)
    PROVE  ButtonOK(page, card, <<a, b, c, d, e, f>>)
  <1>1. DOMAIN <<a, b, c, d, e, f>> = 1 .. 6
    OBVIOUS
  <1> QED BY <1>1 DEF ButtonOK

----------------------------------------------------------------------------
\* The cards, page by page.
LEMMA DefaultSystemCardsOK == \A card \in SystemCards : CardOK(DefaultSystem, card)
  <1>1. CardOK(DefaultSystem, GeneralCard)
    <2>1. GeneralCard.fields = {"ServerAddress"}
      BY DEF GeneralCard, Card
    <2>2. ButtonOK(DefaultSystem, GeneralCard, submitServerAddress)
      BY <2>1, Button1, StepsOK, Names, PageNames DEF submitServerAddress, DefaultSystem
    <2> QED
      BY <2>1, <2>2, Names, PageNames DEF CardOK, Keys, GeneralCard, Card, DefaultSystem
  <1>2. CardOK(DefaultSystem, LoginCard)
    BY Names, PageNames DEF CardOK, Keys, LoginCard, Card, DefaultSystem
  <1>3. CardOK(DefaultSystem, EmailCard)
    <2>1. EmailCard.fields = {Whitelist}
      BY DEF EmailCard, Card
    <2>2. ButtonOK(DefaultSystem, EmailCard, submitEmailDomainWhitelist)
      BY <2>1, Button1, StepsOK, Names, PageNames DEF submitEmailDomainWhitelist, DefaultSystem
    <2> QED
      BY <2>1, <2>2, Names, PageNames DEF CardOK, Keys, EmailCard, Card, DefaultSystem
  <1>4. CardOK(DefaultSystem, SMTPCard)
    <2>1. SMTPCard.fields = {"SMTPServer", "SMTPPort", "SMTPAccount", "SMTPFrom", "SMTPToken"}
      BY DEF SMTPCard, Card
    <2>2. ButtonOK(DefaultSystem, SMTPCard, submitSMTP)
      BY <2>1, Button5, StepsOK, Names, PageNames DEF submitSMTP, DefaultSystem
    <2> QED
      BY <2>1, <2>2, Names, PageNames DEF CardOK, Keys, SMTPCard, Card, DefaultSystem
  <1>5. CardOK(DefaultSystem, GitHubCard)
    <2>1. GitHubCard.fields = {"GitHubClientId", "GitHubClientSecret"}
      BY DEF GitHubCard, Card
    <2>2. ButtonOK(DefaultSystem, GitHubCard, submitGitHubOAuth)
      BY <2>1, Button2, StepsOK, Names, PageNames DEF submitGitHubOAuth, DefaultSystem
    <2> QED
      BY <2>1, <2>2, Names, PageNames DEF CardOK, Keys, GitHubCard, Card, DefaultSystem
  <1>6. CardOK(DefaultSystem, LarkCard)
    <2>1. LarkCard.fields = {"LarkClientId", "LarkClientSecret"}
      BY DEF LarkCard, Card
    <2>2. ButtonOK(DefaultSystem, LarkCard, submitLarkOAuth)
      BY <2>1, Button2, StepsOK, Names, PageNames DEF submitLarkOAuth, DefaultSystem
    <2> QED
      BY <2>1, <2>2, Names, PageNames DEF CardOK, Keys, LarkCard, Card, DefaultSystem
  <1>7. CardOK(DefaultSystem, WeChatCard)
    <2>1. WeChatCard.fields = {"WeChatServerAddress", "WeChatServerToken", "WeChatAccountQRCodeImageURL"}
      BY DEF WeChatCard, Card
    <2>2. ButtonOK(DefaultSystem, WeChatCard, submitWeChat)
      BY <2>1, Button3, StepsOK, Names, PageNames DEF submitWeChat, DefaultSystem
    <2> QED
      BY <2>1, <2>2, Names, PageNames DEF CardOK, Keys, WeChatCard, Card, DefaultSystem
  <1>8. CardOK(DefaultSystem, TurnstileCard)
    <2>1. TurnstileCard.fields = {"TurnstileSiteKey", "TurnstileSecretKey"}
      BY DEF TurnstileCard, Card
    <2>2. ButtonOK(DefaultSystem, TurnstileCard, submitTurnstile)
      BY <2>1, Button2, StepsOK, Names, PageNames DEF submitTurnstile, DefaultSystem
    <2> QED
      BY <2>1, <2>2, Names, PageNames DEF CardOK, Keys, TurnstileCard, Card, DefaultSystem
  <1> QED
    BY <1>1, <1>2, <1>3, <1>4, <1>5, <1>6, <1>7, <1>8 DEF SystemCards

LEMMA DefaultOperationCardsOK == \A card \in OperationCards : CardOK(DefaultOperation, card)
  <1>1. CardOK(DefaultOperation, QuotaCard)
    <2>1. QuotaCard.fields = {"QuotaForNewUser", "PreConsumedQuota", "QuotaForInviter", "QuotaForInvitee"}
      BY DEF QuotaCard, Card
    <2>2. ButtonOK(DefaultOperation, QuotaCard, quota)
      BY <2>1, Button4, StepsOK, Names, PageNames DEF quota, DefaultOperation
    <2> QED
      BY <2>1, <2>2, Names, PageNames DEF CardOK, Keys, QuotaCard, Card, DefaultOperation
  <1>2. CardOK(DefaultOperation, LogCard)
    BY Names, PageNames DEF CardOK, Keys, LogCard, Card, DefaultOperation
  <1>3. CardOK(DefaultOperation, MonitorCard)
    <2>1. MonitorCard.fields = {"ChannelDisableThreshold", "QuotaRemindThreshold"}
      BY DEF MonitorCard, Card
    <2>2. ButtonOK(DefaultOperation, MonitorCard, monitor)
      BY <2>1, Button2, StepsOK, Names, PageNames DEF monitor, DefaultOperation
    <2> QED
      BY <2>1, <2>2, Names, PageNames DEF CardOK, Keys, MonitorCard, Card, DefaultOperation
  <1>4. CardOK(DefaultOperation, OperationGeneralCard)
    <2>1. OperationGeneralCard.fields = {"ChatLink", "RetryTimes"}
      BY DEF OperationGeneralCard, Card
    <2>2. ButtonOK(DefaultOperation, OperationGeneralCard, general)
      BY <2>1, Button2, StepsOK, Names, PageNames DEF general, DefaultOperation
    <2> QED
      BY <2>1, <2>2, Names, PageNames DEF CardOK, Keys, OperationGeneralCard, Card, DefaultOperation
  <1> QED
    BY <1>1, <1>2, <1>3, <1>4 DEF OperationCards

LEMMA DefaultOtherCardOK == CardOK(DefaultOther, OtherCard)
  <1>1. \A k \in OtherCard.fields : ButtonOK(DefaultOther, OtherCard, <<Always(k)>>)
    <2> SUFFICES ASSUME NEW k \in OtherCard.fields PROVE StepOK(DefaultOther, OtherCard, Always(k))
      BY Button1
    <2> QED
      BY Names DEF StepOK, Always, Save, OtherCard, Card, otherSubmits
  <1>2. \A steps \in OtherCard.buttons : ButtonOK(DefaultOther, OtherCard, steps)
    BY <1>1 DEF OtherCard, Card, otherSubmits
  <1> QED
    BY <1>2, Names, PageNames DEF CardOK, Keys, DefaultOther, OtherCard, Card

LEMMA AirSystemCardsOK == \A card \in airSystemCards : CardOK(AirSystem, card)
  <1>1. CardOK(AirSystem, airGeneralCard)
    <2>1. airGeneralCard.fields = {"ServerAddress"}
      BY DEF airGeneralCard, Card
    <2>2. ButtonOK(AirSystem, airGeneralCard, airSubmitServerAddress)
      BY <2>1, Button1, StepsOK, Names, PageNames DEF airSubmitServerAddress, AirSystem
    <2> QED
      BY <2>1, <2>2, Names, PageNames DEF CardOK, Keys, airGeneralCard, Card, AirSystem
  <1>2. CardOK(AirSystem, airLoginCard)
    BY Names, PageNames DEF CardOK, Keys, airLoginCard, Card, AirSystem
  <1>3. CardOK(AirSystem, airEmailCard)
    <2>1. airEmailCard.fields = {Whitelist}
      BY DEF airEmailCard, Card
    <2>2. ButtonOK(AirSystem, airEmailCard, airSubmitEmailDomainWhitelist)
      BY <2>1, Button1, StepsOK, Names, PageNames DEF airSubmitEmailDomainWhitelist, AirSystem
    <2> QED
      BY <2>1, <2>2, Names, PageNames DEF CardOK, Keys, airEmailCard, Card, AirSystem
  <1>4. CardOK(AirSystem, airSMTPCard)
    <2>1. airSMTPCard.fields = {"SMTPServer", "SMTPPort", "SMTPAccount", "SMTPFrom", "SMTPToken"}
      BY DEF airSMTPCard, Card
    <2>2. ButtonOK(AirSystem, airSMTPCard, airSubmitSMTP)
      BY <2>1, Button5, StepsOK, Names, PageNames DEF airSubmitSMTP, AirSystem
    <2> QED
      BY <2>1, <2>2, Names, PageNames DEF CardOK, Keys, airSMTPCard, Card, AirSystem
  <1>5. CardOK(AirSystem, airGitHubCard)
    <2>1. airGitHubCard.fields = {"GitHubClientId", "GitHubClientSecret"}
      BY DEF airGitHubCard, Card
    <2>2. ButtonOK(AirSystem, airGitHubCard, airSubmitGitHubOAuth)
      BY <2>1, Button2, StepsOK, Names, PageNames DEF airSubmitGitHubOAuth, AirSystem
    <2> QED
      BY <2>1, <2>2, Names, PageNames DEF CardOK, Keys, airGitHubCard, Card, AirSystem
  <1>6. CardOK(AirSystem, airWeChatCard)
    <2>1. airWeChatCard.fields = {"WeChatServerAddress", "WeChatServerToken", "WeChatAccountQRCodeImageURL"}
      BY DEF airWeChatCard, Card
    <2>2. ButtonOK(AirSystem, airWeChatCard, airSubmitWeChat)
      BY <2>1, Button3, StepsOK, Names, PageNames DEF airSubmitWeChat, AirSystem
    <2> QED
      BY <2>1, <2>2, Names, PageNames DEF CardOK, Keys, airWeChatCard, Card, AirSystem
  <1>7. CardOK(AirSystem, airPusherCard)
    <2>1. airPusherCard.fields = {"MessagePusherAddress", "MessagePusherToken"}
      BY DEF airPusherCard, Card
    <2>2. ButtonOK(AirSystem, airPusherCard, airSubmitMessagePusher)
      BY <2>1, Button2, StepsOK, Names, PageNames DEF airSubmitMessagePusher, AirSystem
    <2> QED
      BY <2>1, <2>2, Names, PageNames DEF CardOK, Keys, airPusherCard, Card, AirSystem
  <1>8. CardOK(AirSystem, airTurnstileCard)
    <2>1. airTurnstileCard.fields = {"TurnstileSiteKey", "TurnstileSecretKey"}
      BY DEF airTurnstileCard, Card
    <2>2. ButtonOK(AirSystem, airTurnstileCard, airSubmitTurnstile)
      BY <2>1, Button2, StepsOK, Names, PageNames DEF airSubmitTurnstile, AirSystem
    <2> QED
      BY <2>1, <2>2, Names, PageNames DEF CardOK, Keys, airTurnstileCard, Card, AirSystem
  <1> QED
    BY <1>1, <1>2, <1>3, <1>4, <1>5, <1>6, <1>7, <1>8 DEF airSystemCards

LEMMA AirOperationCardsOK == \A card \in airOperationCards : CardOK(AirOperation, card)
  <1>1. CardOK(AirOperation, airOperationGeneralCard)
    <2>1. airOperationGeneralCard.fields = {"TopUpLink", "ChatLink", "QuotaPerUnit", "RetryTimes"}
      BY DEF airOperationGeneralCard, Card
    <2>2. ButtonOK(AirOperation, airOperationGeneralCard, airGeneral)
      BY <2>1, Button4, StepsOK, Names, PageNames DEF airGeneral, AirOperation
    <2> QED
      BY <2>1, <2>2, Names, PageNames DEF CardOK, Keys, airOperationGeneralCard, Card, AirOperation
  <1>2. CardOK(AirOperation, airLogCard)
    BY Names, PageNames DEF CardOK, Keys, airLogCard, Card, AirOperation
  <1>3. CardOK(AirOperation, airMonitorCard)
    <2>1. airMonitorCard.fields = {"ChannelDisableThreshold", "QuotaRemindThreshold"}
      BY DEF airMonitorCard, Card
    <2>2. ButtonOK(AirOperation, airMonitorCard, airMonitor)
      BY <2>1, Button2, StepsOK, Names, PageNames DEF airMonitor, AirOperation
    <2> QED
      BY <2>1, <2>2, Names, PageNames DEF CardOK, Keys, airMonitorCard, Card, AirOperation
  <1>4. CardOK(AirOperation, airQuotaCard)
    <2>1. airQuotaCard.fields = {"QuotaForNewUser", "PreConsumedQuota", "QuotaForInviter", "QuotaForInvitee"}
      BY DEF airQuotaCard, Card
    <2>2. ButtonOK(AirOperation, airQuotaCard, airQuota)
      BY <2>1, Button4, StepsOK, Names, PageNames DEF airQuota, AirOperation
    <2> QED
      BY <2>1, <2>2, Names, PageNames DEF CardOK, Keys, airQuotaCard, Card, AirOperation
  <1>5. CardOK(AirOperation, airRatioCard)
    <2>1. airRatioCard.fields = airRatios
      BY DEF airRatioCard, Card
    <2>2. ButtonOK(AirOperation, airRatioCard, airRatio)
      BY <2>1, Button3, StepsOK, Names, PageNames DEF airRatio, AirOperation, airRatios
    <2> QED
      BY <2>1, <2>2, Names, PageNames DEF CardOK, Keys, airRatioCard, Card, AirOperation, airRatios
  <1> QED
    BY <1>1, <1>2, <1>3, <1>4, <1>5 DEF airOperationCards

LEMMA AirOtherCardOK == CardOK(AirOther, airOtherCard)
  <1>1. \A k \in airOtherCard.fields : ButtonOK(AirOther, airOtherCard, <<Always(k)>>)
    <2> SUFFICES ASSUME NEW k \in airOtherCard.fields PROVE StepOK(AirOther, airOtherCard, Always(k))
      BY Button1
    <2> QED
      BY Names DEF StepOK, Always, Save, airOtherCard, Card, airOtherSubmits, airOtherFields
  <1>2. \A steps \in airOtherCard.buttons : ButtonOK(AirOther, airOtherCard, steps)
    BY <1>1 DEF airOtherCard, Card, airOtherSubmits, airOtherFields
  <1> QED
    BY <1>2, Names, PageNames DEF CardOK, Keys, AirOther, airOtherCard, Card, airOtherFields

LEMMA BerrySystemCardsOK == \A card \in berrySystemCards : CardOK(BerrySystem, card)
  <1>1. CardOK(BerrySystem, berryGeneralCard)
    <2>1. berryGeneralCard.fields = {"ServerAddress"}
      BY DEF berryGeneralCard, Card
    <2>2. ButtonOK(BerrySystem, berryGeneralCard, berrySubmitServerAddress)
      BY <2>1, Button1, StepsOK, Names, PageNames DEF berrySubmitServerAddress, BerrySystem
    <2> QED
      BY <2>1, <2>2, Names, PageNames DEF CardOK, Keys, berryGeneralCard, Card, BerrySystem
  <1>2. CardOK(BerrySystem, berryLoginCard)
    BY Names, PageNames DEF CardOK, Keys, berryLoginCard, Card, BerrySystem
  <1>3. CardOK(BerrySystem, berryEmailCard)
    <2>1. berryEmailCard.fields = {Whitelist}
      BY DEF berryEmailCard, Card
    <2>2. ButtonOK(BerrySystem, berryEmailCard, berrySubmitEmailDomainWhitelist)
      BY <2>1, Button1, StepsOK, Names, PageNames DEF berrySubmitEmailDomainWhitelist, BerrySystem
    <2> QED
      BY <2>1, <2>2, Names, PageNames DEF CardOK, Keys, berryEmailCard, Card, BerrySystem
  <1>4. CardOK(BerrySystem, berrySMTPCard)
    <2>1. berrySMTPCard.fields = {"SMTPServer", "SMTPPort", "SMTPAccount", "SMTPFrom", "SMTPToken"}
      BY DEF berrySMTPCard, Card
    <2>2. ButtonOK(BerrySystem, berrySMTPCard, berrySubmitSMTP)
      BY <2>1, Button5, StepsOK, Names, PageNames DEF berrySubmitSMTP, BerrySystem
    <2> QED
      BY <2>1, <2>2, Names, PageNames DEF CardOK, Keys, berrySMTPCard, Card, BerrySystem
  <1>5. CardOK(BerrySystem, berryGitHubCard)
    <2>1. berryGitHubCard.fields = {"GitHubClientId", "GitHubClientSecret"}
      BY DEF berryGitHubCard, Card
    <2>2. ButtonOK(BerrySystem, berryGitHubCard, berrySubmitGitHubOAuth)
      BY <2>1, Button2, StepsOK, Names, PageNames DEF berrySubmitGitHubOAuth, BerrySystem
    <2> QED
      BY <2>1, <2>2, Names, PageNames DEF CardOK, Keys, berryGitHubCard, Card, BerrySystem
  <1>6. CardOK(BerrySystem, berryLarkCard)
    <2>1. berryLarkCard.fields = {"LarkClientId", "LarkClientSecret"}
      BY DEF berryLarkCard, Card
    <2>2. ButtonOK(BerrySystem, berryLarkCard, berrySubmitLarkOAuth)
      BY <2>1, Button2, StepsOK, Names, PageNames DEF berrySubmitLarkOAuth, BerrySystem
    <2> QED
      BY <2>1, <2>2, Names, PageNames DEF CardOK, Keys, berryLarkCard, Card, BerrySystem
  <1>7. CardOK(BerrySystem, berryWeChatCard)
    <2>1. berryWeChatCard.fields = {"WeChatServerAddress", "WeChatServerToken", "WeChatAccountQRCodeImageURL"}
      BY DEF berryWeChatCard, Card
    <2>2. ButtonOK(BerrySystem, berryWeChatCard, berrySubmitWeChat)
      BY <2>1, Button3, StepsOK, Names, PageNames DEF berrySubmitWeChat, BerrySystem
    <2> QED
      BY <2>1, <2>2, Names, PageNames DEF CardOK, Keys, berryWeChatCard, Card, BerrySystem
  <1>8. CardOK(BerrySystem, berryOidcCard)
    <2>1. berryOidcCard.fields = {"OidcClientId", "OidcClientSecret", "OidcWellKnown"} \cup Endpoints
      BY DEF berryOidcCard, Card
    <2>2. ButtonOK(BerrySystem, berryOidcCard, berryOidcSteps)
      BY <2>1, Button6, StepsOK, Names, PageNames DEF berryOidcSteps, BerrySystem
    <2> QED
      BY <2>1, <2>2, Names, PageNames DEF CardOK, Keys, berryOidcCard, Card, BerrySystem
  <1>9. CardOK(BerrySystem, berryPusherCard)
    <2>1. berryPusherCard.fields = {"MessagePusherAddress", "MessagePusherToken"}
      BY DEF berryPusherCard, Card
    <2>2. ButtonOK(BerrySystem, berryPusherCard, berrySubmitMessagePusher)
      BY <2>1, Button2, StepsOK, Names, PageNames DEF berrySubmitMessagePusher, BerrySystem
    <2> QED
      BY <2>1, <2>2, Names, PageNames DEF CardOK, Keys, berryPusherCard, Card, BerrySystem
  <1>10. CardOK(BerrySystem, berryTurnstileCard)
    <2>1. berryTurnstileCard.fields = {"TurnstileSiteKey", "TurnstileSecretKey"}
      BY DEF berryTurnstileCard, Card
    <2>2. ButtonOK(BerrySystem, berryTurnstileCard, berrySubmitTurnstile)
      BY <2>1, Button2, StepsOK, Names, PageNames DEF berrySubmitTurnstile, BerrySystem
    <2> QED
      BY <2>1, <2>2, Names, PageNames DEF CardOK, Keys, berryTurnstileCard, Card, BerrySystem
  <1> QED
    BY <1>1, <1>2, <1>3, <1>4, <1>5, <1>6, <1>7, <1>8, <1>9, <1>10 DEF berrySystemCards

LEMMA BerryOperationCardsOK == \A card \in berryOperationCards : CardOK(BerryOperation, card)
  <1>1. CardOK(BerryOperation, berryOperationGeneralCard)
    <2>1. berryOperationGeneralCard.fields = {"TopUpLink", "ChatLink", "QuotaPerUnit", "RetryTimes"}
      BY DEF berryOperationGeneralCard, Card
    <2>2. ButtonOK(BerryOperation, berryOperationGeneralCard, berryGeneral)
      BY <2>1, Button4, StepsOK, Names, PageNames DEF berryGeneral, BerryOperation
    <2> QED
      BY <2>1, <2>2, Names, PageNames DEF CardOK, Keys, berryOperationGeneralCard, Card, BerryOperation
  <1>2. CardOK(BerryOperation, berryLogCard)
    BY Names, PageNames DEF CardOK, Keys, berryLogCard, Card, BerryOperation
  <1>3. CardOK(BerryOperation, berryMonitorCard)
    <2>1. berryMonitorCard.fields = {"ChannelDisableThreshold", "QuotaRemindThreshold"}
      BY DEF berryMonitorCard, Card
    <2>2. ButtonOK(BerryOperation, berryMonitorCard, berryMonitor)
      BY <2>1, Button2, StepsOK, Names, PageNames DEF berryMonitor, BerryOperation
    <2> QED
      BY <2>1, <2>2, Names, PageNames DEF CardOK, Keys, berryMonitorCard, Card, BerryOperation
  <1>4. CardOK(BerryOperation, berryQuotaCard)
    <2>1. berryQuotaCard.fields = {"QuotaForNewUser", "PreConsumedQuota", "QuotaForInviter", "QuotaForInvitee"}
      BY DEF berryQuotaCard, Card
    <2>2. ButtonOK(BerryOperation, berryQuotaCard, berryQuota)
      BY <2>1, Button4, StepsOK, Names, PageNames DEF berryQuota, BerryOperation
    <2> QED
      BY <2>1, <2>2, Names, PageNames DEF CardOK, Keys, berryQuotaCard, Card, BerryOperation
  <1>5. CardOK(BerryOperation, berryRatioCard)
    <2>1. berryRatioCard.fields = berryRatios
      BY DEF berryRatioCard, Card
    <2>2. ButtonOK(BerryOperation, berryRatioCard, berryRatio)
      BY <2>1, Button3, StepsOK, Names, PageNames DEF berryRatio, BerryOperation, berryRatios
    <2> QED
      BY <2>1, <2>2, Names, PageNames DEF CardOK, Keys, berryRatioCard, Card, BerryOperation, berryRatios
  <1> QED
    BY <1>1, <1>2, <1>3, <1>4, <1>5 DEF berryOperationCards

LEMMA BerryOtherCardOK == CardOK(BerryOther, berryOtherCard)
  <1>1. \A k \in berryOtherCard.fields : ButtonOK(BerryOther, berryOtherCard, <<Always(k)>>)
    <2> SUFFICES ASSUME NEW k \in berryOtherCard.fields PROVE StepOK(BerryOther, berryOtherCard, Always(k))
      BY Button1
    <2> QED
      BY Names DEF StepOK, Always, Save, berryOtherCard, Card, berryOtherSubmits, berryOtherFields, berryOtherDisabled
  <1>2. \A steps \in berryOtherCard.buttons : ButtonOK(BerryOther, berryOtherCard, steps)
    BY <1>1 DEF berryOtherCard, Card, berryOtherSubmits, berryOtherFields, berryOtherDisabled
  <1> QED
    BY <1>2, Names, PageNames DEF CardOK, Keys, BerryOther, berryOtherCard, Card, berryOtherFields, berryOtherDisabled

----------------------------------------------------------------------------
\* The m-th of a set of indices, as Walk names it, is there.
LEMMA Ranked ==
    ASSUME NEW len \in Nat, NEW S \in SUBSET (1 .. len), NEW m \in 1 .. Cardinality(S)
    PROVE  \E i \in S : Cardinality({j \in S : j <= i}) = m
<1>. DEFINE Below(i) == {j \in S : j <= i}
            rank == [i \in S |-> Cardinality(Below(i))]
            T == 1 .. Cardinality(S)
<1>0. IsFiniteSet(1 .. len)
  BY FS_Interval
<1>1. IsFiniteSet(S) /\ Cardinality(S) \in Nat
  BY <1>0, FS_Subset, FS_CardinalityType
<1>2. \A i \in S : IsFiniteSet(Below(i)) /\ Cardinality(Below(i)) \in T
  <2>. SUFFICES ASSUME NEW i \in S PROVE IsFiniteSet(Below(i)) /\ Cardinality(Below(i)) \in T
    OBVIOUS
  <2>1. IsFiniteSet(Below(i)) /\ Cardinality(Below(i)) <= Cardinality(S)
    BY <1>1, FS_Subset
  <2>2. Cardinality(Below(i)) \in Nat /\ Cardinality(Below(i)) # 0
    BY <2>1, FS_CardinalityType, FS_EmptySet
  <2>. QED
    BY <1>1, <2>1, <2>2
<1>3. \A i, j \in S : i < j => rank[i] # rank[j]
  <2>. SUFFICES ASSUME NEW i \in S, NEW j \in S, i < j PROVE rank[i] # rank[j]
    OBVIOUS
  <2>1. Below(i) \in SUBSET Below(j) /\ Below(i) # Below(j)
    <3>1. i \in Int /\ j \in Int /\ \A x \in S : x \in Int
      OBVIOUS
    <3>2. j \in Below(j) /\ j \notin Below(i)
      <4>1. j <= j /\ ~(j <= i)
        BY <3>1
      <4>. QED
        BY <4>1
    <3>3. \A x \in S : x <= i => x <= j
      BY <3>1
    <3>. QED
      BY <3>2, <3>3
  <2>2. Cardinality(Below(i)) # Cardinality(Below(j))
    BY <1>2, <2>1, FS_Subset
  <2>. QED
    BY <2>2
<1>4. rank \in Injection(S, T)
  <2>1. rank \in [S -> T]
    BY <1>2
  <2>2. \A i, j \in S : i \in Int /\ j \in Int
    OBVIOUS
  <2>. HIDE DEF rank
  <2>3. ASSUME NEW i \in S, NEW j \in S, rank[i] = rank[j] PROVE i = j
    <3>1. ~(i < j) /\ ~(j < i)
      BY <1>3, <2>3
    <3>. QED
      BY <2>2, <3>1
  <2>4. IsInjective(rank)
    BY <2>1, <2>3 DEF IsInjective
  <2>. QED
    BY <2>1, <2>4 DEF Injection
<1>5. IsFiniteSet(T) /\ Cardinality(T) = Cardinality(S)
  BY <1>1, FS_Interval
<1>6. rank \in Surjection(S, T)
  BY <1>4, <1>5, FS_Injection
<1>. QED
  BY <1>6 DEF Surjection

\* What the step s of a walk with the fields of c sends.
EntryOf(c, s) ==
    [key |-> s.key,
     value |-> IF s.as = "address" /\ c.inputs[s.key] = "new/" THEN "new" ELSE c.inputs[s.key]]

\* A walk is a sequence of what its steps send, with no step that is skipped.
Walks(todo, c, steps, n) ==
    /\ DOMAIN todo = 1 .. n /\ todo = [m \in 1 .. n |-> todo[m]]
    /\ \A m \in 1 .. n : \E i \in DOMAIN steps : ~Skips(c, steps[i]) /\ todo[m] = EntryOf(c, steps[i])

\* What a button sends and hands on are steps of its function that are not skipped.
LEMMA WalkEntries ==
    ASSUME NEW c, NEW steps, NEW len \in Nat, DOMAIN steps = 1 .. len
    PROVE  \E n \in Nat : Walks(Walk(c, steps), c, steps, n)
<1>. DEFINE halts == {i \in DOMAIN steps : Halts(c, steps[i])}
            on == {i \in DOMAIN steps : ~Skips(c, steps[i]) /\ \A j \in halts : i < j}
            Sent(i) == [key |-> steps[i].key,
                        value |-> IF steps[i].as = "address" /\ c.inputs[steps[i].key] = "new/"
                                  THEN "new" ELSE c.inputs[steps[i].key]]
            At_(m) == CHOOSE i \in on : Cardinality({j \in on : j <= i}) = m
<1>1. Walk(c, steps) = [m \in 1 .. Cardinality(on) |-> Sent(At_(m))]
  BY DEF Walk
<1>2. on \in SUBSET (1 .. len) /\ \A i \in on : ~Skips(c, steps[i])
  OBVIOUS
<1>3. Cardinality(on) \in Nat
  <2>1. IsFiniteSet(1 .. len)
    BY FS_Interval
  <2>. HIDE DEF on
  <2>. QED
    BY <1>2, <2>1, FS_Subset, FS_CardinalityType
<1>. HIDE DEF on
<1>4. \A m \in 1 .. Cardinality(on) : At_(m) \in on
  BY <1>2, Ranked
<1>. QED
  <2>. WITNESS Cardinality(on) \in Nat
  <2>1. \A m \in 1 .. Cardinality(on) : Walk(c, steps)[m] = Sent(At_(m))
    BY <1>1
  <2>. QED
    <3>1. \A m \in 1 .. Cardinality(on) :
            \E i \in DOMAIN steps : ~Skips(c, steps[i]) /\ Walk(c, steps)[m] = EntryOf(c, steps[i])
      <4>. TAKE m \in 1 .. Cardinality(on)
      <4>1. At_(m) \in on /\ Walk(c, steps)[m] = Sent(At_(m))
        BY <1>4, <2>1
      <4>. DEFINE i == At_(m)
      <4>. HIDE DEF i
      <4>2. i \in on /\ Walk(c, steps)[m] = EntryOf(c, steps[i])
        BY <4>1 DEF i, EntryOf
      <4>. QED
        BY <1>2, <4>2
    <3>2. /\ DOMAIN Walk(c, steps) = 1 .. Cardinality(on)
          /\ Walk(c, steps) = [m \in 1 .. Cardinality(on) |-> Walk(c, steps)[m]]
      BY <1>1
    <3>. QED
      BY <3>1, <3>2 DEF Walks

----------------------------------------------------------------------------
(***************************************************************************)
(* What the handlers do to the page: v becomes w.  The options it loaded   *)
(* stay, and what it knows of its reader only grows.                       *)
(***************************************************************************)
Follows(v, w) ==
    /\ w.at = v.at /\ w.card = v.card
    /\ v.touched \subseteq w.touched /\ (v.early => w.early) /\ (v.confirmed => w.confirmed)

Grows(v, w) == Follows(v, w) /\ w.origin = v.origin /\ w.loaded = v.loaded

LEMMA EntryGrows ==
    ASSUME NEW v, NEW w, Follows(v, w), NEW q, EntryOK(v, q)
    PROVE  EntryOK(w, q)
  BY DEF Follows, EntryOK, Pusher

LEMMA ClosureGrows ==
    ASSUME NEW v, NEW w, Grows(v, w), NEW c, ClosureOK(v, c)
    PROVE  ClosureOK(w, c)
  BY DEF Grows, Follows, ClosureOK, Pusher

\* w has fields of its own, in what the reader used.
Edited(v, w) ==
    \A k \in Keys(v.card) :
        w.inputs[k] = v.inputs[k]
          \/ (k \in w.touched /\ k \notin v.card.toggles /\ (k \in Kept => w.inputs[k] # "undefined"))

LEMMA FieldsGrow ==
    ASSUME NEW v, NEW w, Grows(v, w), Edited(v, w), ClosureOK(v, v)
    PROVE  ClosureOK(w, w)
  BY DEF Grows, Follows, Edited, ClosureOK, Pusher

\* A request that may be sent from the page v: entries that may be saved, and checkboxes alone.
PutOK(v, key, value, todo) ==
    /\ key \in Keys(v.card) /\ value \in Values /\ todo \in Seq(Entries(v.card))
    /\ \A q \in Owed([key |-> key, value |-> value, todo |-> todo]) : EntryOK(v, q)
    /\ key \in v.card.toggles => todo = <<>>
    /\ \A i \in DOMAIN todo : todo[i].key \notin v.card.toggles

----------------------------------------------------------------------------
(***************************************************************************)
(* The kinds of steps.                                                     *)
(***************************************************************************)
\* Only the page changes; a dialog opens where no option is being saved.
Edits(v) ==
    /\ Shows(v)
    /\ PageOK(v) /\ Grows(view, v) /\ Edited(view, v)
    /\ v.loading = view.loading
    /\ Locks(view) /\ v.dialog => view.dialog \/ ~view.loading

\* The first option of a walk, or the only one, is sent.
Starts(v, key, value, todo) ==
    /\ Puts(v, "updateOption", key, value, todo)
    /\ PageOK(v) /\ Grows(view, v) /\ v.inputs = view.inputs
    /\ PutOK([v EXCEPT !.early = @ \/ ~v.loaded], key, value, todo)
    /\ Locks(view) => ~v.dialog /\ (view.dialog \/ ~view.loading)

\* Something else is asked for.
AsksFor(v, fn, arg) ==
    /\ Sends(v, fn, "tell", arg)
    /\ fn \notin {"getOptions", "updateOption"}
    /\ PageOK(v) /\ Grows(view, v) /\ v.inputs = view.inputs
    /\ v.loading = view.loading /\ v.dialog = view.dialog
    /\ fn = "submitOidc" =>
          view.card = berryOidcCard /\ arg = Closure /\ (view.loaded \/ v.early)

\* A handler ends.
Stops(n, v) ==
    /\ n \in DOMAIN net /\ net[n].req # "put"
    /\ Ends(n, v)
    /\ PageOK(v) /\ Grows(view, v) /\ Edited(view, v)
    /\ v.loading = view.loading
    /\ Locks(view) => v.dialog = view.dialog

\* A handler goes on to save an option.
Continues(n, v, todo) ==
    /\ n \in DOMAIN net /\ net[n].fn = "submitOidc"
    /\ PutsNext(n, v, todo)
    /\ PageOK(v) /\ Grows(view, v) /\ Edited(view, v)
    /\ todo # <<>> /\ todo \in Seq(Entries(view.card))
    /\ \A q \in Range(todo) : EntryOK(v, q) /\ q.key \notin view.card.toggles
    /\ ~Locks(view)

----------------------------------------------------------------------------
LEMMA Sent ==
    ASSUME calls \in Nat, \A n \in DOMAIN net : n \in 1 .. calls,
           NEW r, net' = Joined(net, calls + 1, r)
    PROVE  /\ DOMAIN net' = DOMAIN net \cup {calls + 1}
           /\ calls + 1 \notin DOMAIN net
           /\ net'[calls + 1] = r
           /\ \A n \in DOMAIN net : net'[n] = net[n]
  BY DEF Joined

\* A page whose options have not changed keeps what is said of them.
LEMMA OptionsKept ==
    ASSUME IInv, UNCHANGED server, PageOK(view'), Follows(view, view')
    PROVE  PasswordLoginStaysUnlessConfirmed' /\ SecretsAreNeverErased' /\ UntouchedSettingsAreKept'
  BY DEF IInv, Follows, PasswordLoginStaysUnlessConfirmed, SecretsAreNeverErased, UntouchedSettingsAreKept, At

LEMMA EditsKeep ==
    ASSUME IInv, NEW v, Edits(v)
    PROVE  IInv'
<1>1. /\ view' = v /\ PageOK(v) /\ Grows(view, v) /\ Edited(view, v) /\ v.loading = view.loading
      /\ UNCHANGED <<net, server, calls>>
      /\ history' = [history EXCEPT !.alone = @ /\ net = <<>>]
      /\ Locks(view) /\ v.dialog => view.dialog \/ ~view.loading
  BY DEF Edits, Shows, Alone
<1>2. v.card = view.card /\ v.at = view.at /\ v.loaded = view.loaded
  BY <1>1 DEF Grows, Follows
<1>3. PageOK(view)'
  BY <1>1
<1>4. /\ ServerOK'
      /\ history'.lost = history.lost /\ (history'.alone => history.alone)
  BY <1>1, <1>2 DEF IInv, ServerOK
<1>5. RequestsOK'
  BY <1>1, <1>2 DEF IInv, RequestsOK
<1>6. EntriesOK'
  BY <1>1, EntryGrows DEF Grows, IInv, EntriesOK
<1>7. ClosuresOK'
  BY <1>1, ClosureGrows, FieldsGrow DEF IInv, ClosuresOK
<1>8. FirstOK'
  BY <1>1, <1>2 DEF IInv, FirstOK, Grows, Follows
<1>9. OneAtATime'
  BY <1>1, <1>2, <1>4 DEF IInv, OneAtATime, Locks
<1>10. TogglesEnd'
  BY <1>1, <1>2 DEF IInv, TogglesEnd
<1>11. BoxesOK'
  <2>1. \A k \in view.card.toggles : k \in Keys(view.card) /\ v.inputs[k] = view.inputs[k]
    BY <1>1 DEF Edited, Keys
  <2>2. Calm' => Calm
    BY <1>1, <1>2, <1>4 DEF Calm, Grows, Follows
  <2>. QED
    BY <1>1, <1>2, <2>1, <2>2 DEF IInv, BoxesOK, UnderWay
<1>. QED
  BY <1>1, <1>3, <1>4, <1>5, <1>6, <1>7, <1>8, <1>9, <1>10, <1>11, OptionsKept DEF IInv, Grows

----------------------------------------------------------------------------
LEMMA StartsKeep ==
    ASSUME IInv, NEW v, NEW key, NEW value, NEW todo, Starts(v, key, value, todo)
    PROVE  IInv'
<1>. DEFINE arg == [key |-> key, value |-> value, todo |-> todo]
            r == Request("updateOption", "put", arg, <<>>)
            w == [v EXCEPT !.loading = TRUE, !.early = @ \/ ~v.loaded]
<1>1. /\ PageOK(v) /\ Grows(view, v) /\ v.inputs = view.inputs
      /\ Locks(view) => ~v.dialog /\ (view.dialog \/ ~view.loading)
      /\ view' = w /\ calls' = calls + 1 /\ net' = Joined(net, calls + 1, r)
      /\ history' = [history EXCEPT !.alone = @ /\ net = <<>>] /\ UNCHANGED server
  BY DEF Starts, Puts, Sends, SendsWith, Alone
<1>2. /\ w.at = view.at /\ w.card = view.card /\ w.loaded = view.loaded /\ w.inputs = view.inputs
      /\ w.loading /\ w.dialog = v.dialog /\ w.early = (v.early \/ ~view.loaded) /\ w.origin = view.origin
      /\ w.touched = v.touched /\ w.confirmed = v.confirmed
  BY <1>1 DEF Grows, Follows, PageOK
<1>3. PageOK(w) /\ Grows(view, w)
  BY <1>1, <1>2 DEF PageOK, Grows, Follows
<1>4. PutOK(w, key, value, todo)
  <2>1. PutOK([v EXCEPT !.early = @ \/ ~v.loaded], key, value, todo)
    BY DEF Starts
  <2>. DEFINE u == [v EXCEPT !.early = @ \/ ~v.loaded]
  <2>2. u.at = w.at /\ u.card = w.card /\ u.early = w.early /\ u.touched = w.touched /\ u.confirmed = w.confirmed
    BY <1>1 DEF PageOK
  <2>. HIDE DEF u, w
  <2>. QED
    BY <2>1, <2>2 DEF PutOK, EntryOK, Pusher, u
<1>5. /\ r.fn = "updateOption" /\ r.req = "put" /\ r.st = "sent"
      /\ r.arg = [key |-> key, value |-> value, todo |-> todo]
      /\ DOMAIN r = {"fn", "req", "arg", "was", "st", "data"}
  BY DEF Request
<1>6. /\ \A n \in DOMAIN net : n \in 1 .. calls /\ RequestOK(view.card, net[n])
      /\ calls \in Nat /\ calls >= 1
  BY DEF IInv, RequestsOK, ServerOK
<1>7. /\ DOMAIN net' = DOMAIN net \cup {calls + 1} /\ calls + 1 \notin DOMAIN net
      /\ net'[calls + 1] = r /\ \A n \in DOMAIN net : net'[n] = net[n]
  BY <1>1, <1>6, Sent
<1>. HIDE DEF r, w
<1>8. ServerOK' /\ history'.lost = history.lost /\ (history'.alone => history.alone /\ DOMAIN net = {})
  <2>1. ServerOK
    BY DEF IInv
  <2>2. net = <<>> => DOMAIN net = {}
    OBVIOUS
  <2>3. /\ history' \in [alone : BOOLEAN, lost : BOOLEAN, faults : Nat]
        /\ history'.lost = history.lost /\ (history'.alone => history.alone /\ net = <<>>)
    BY <1>1, <2>1 DEF ServerOK
  <2>. QED
    BY <1>1, <1>2, <2>1, <2>2, <2>3 DEF ServerOK
<1>9. RequestsOK'
  <2>1. RequestOK(view.card, r)
    BY <1>2, <1>4, <1>5 DEF RequestOK, PutOK
  <2>2. calls + 1 \in 1 .. calls + 1 /\ \A n \in DOMAIN net : n \in 1 .. calls + 1
    BY <1>6
  <2>. QED
    BY <1>1, <1>2, <1>6, <1>7, <2>1, <2>2 DEF RequestsOK
<1>10. EntriesOK'
  <2>1. \A n \in DOMAIN net : net[n].req = "put" => \A q \in Owed(net[n].arg) : EntryOK(w, q)
    BY <1>3, EntryGrows DEF Grows, IInv, EntriesOK
  <2>2. \A q \in Owed(r.arg) : EntryOK(w, q)
    BY <1>4, <1>5 DEF PutOK
  <2>. QED
    BY <1>1, <1>7, <2>1, <2>2 DEF EntriesOK
<1>11. ClosuresOK'
  <2>1. ClosureOK(view, w)
    BY <1>2 DEF IInv, ClosuresOK, ClosureOK
  <2>2. ClosureOK(w, w)
    BY <1>3, <2>1, ClosureGrows
  <2>3. \A n \in DOMAIN net : net[n].fn = "submitOidc" => ClosureOK(w, net[n].arg)
    BY <1>3, ClosureGrows DEF IInv, ClosuresOK
  <2>. QED
    BY <1>1, <1>5, <1>7, <2>2, <2>3 DEF ClosuresOK
<1>12. FirstOK'
  <2>1. FirstOK
    BY DEF IInv
  <2>2. ~w.early => ~view.early /\ view.loaded
    BY <1>1, <1>2 DEF Grows, Follows
  <2>3. \A n \in DOMAIN net' : net'[n].req = "options" => n \in DOMAIN net /\ net'[n] = net[n]
    BY <1>5, <1>7
  <2>. QED
    BY <1>1, <1>2, <2>1, <2>2, <2>3 DEF FirstOK
<1>13. Locks(view) => \A n \in DOMAIN net : net[n].req # "put"
  BY <1>1 DEF IInv, OneAtATime
<1>14. OneAtATime'
  BY <1>1, <1>2, <1>5, <1>7, <1>8, <1>13 DEF OneAtATime, Locks
<1>15. TogglesEnd'
  BY <1>1, <1>2, <1>4, <1>5, <1>7 DEF IInv, TogglesEnd, PutOK
<1>16. BoxesOK'
  <2>1. Calm' => Calm
    BY <1>1, <1>2, <1>3, <1>8 DEF Calm, Grows, Follows
  <2>2. Calm' /\ view.card.toggles # {} => \A n \in DOMAIN net : net[n].req # "put"
    BY <1>1, <1>2, <1>8, <1>13 DEF Calm, Locks
  <2>3. Calm => \A k \in view.card.toggles : UnderWay(k) \/ view.inputs[k] = server.options[k]
    BY DEF IInv, BoxesOK
  <2>4. Calm' => \A k \in view.card.toggles : view.inputs[k] = server.options[k]
    BY <2>1, <2>2, <2>3 DEF UnderWay
  <2>. QED
    BY <1>1, <1>2, <1>5, <1>7, <2>2, <2>4 DEF IInv, BoxesOK
<1>. QED
  BY <1>1, <1>3, <1>8, <1>9, <1>10, <1>11, <1>12, <1>14, <1>15, <1>16, OptionsKept DEF IInv, Grows

LEMMA AsksKeep ==
    ASSUME IInv, NEW v, NEW fn, NEW arg, AsksFor(v, fn, arg)
    PROVE  IInv'
<1>. DEFINE r == Request(fn, "tell", arg, <<>>)
<1>1. /\ PageOK(v) /\ Grows(view, v) /\ v.inputs = view.inputs
      /\ fn \notin {"getOptions", "updateOption"} /\ v.loading = view.loading /\ v.dialog = view.dialog
      /\ fn = "submitOidc" => view.card = berryOidcCard /\ arg = Closure /\ (view.loaded \/ v.early)
      /\ view' = v /\ calls' = calls + 1 /\ net' = Joined(net, calls + 1, r)
      /\ history' = [history EXCEPT !.alone = @ /\ net = <<>>] /\ UNCHANGED server
  BY DEF AsksFor, Sends, SendsWith, Alone
<1>2. /\ v.at = view.at /\ v.card = view.card /\ v.loaded = view.loaded /\ v.origin = view.origin
      /\ (view.early => v.early)
  BY <1>1 DEF Grows, Follows
<1>3. /\ r.fn = fn /\ r.req = "tell" /\ r.st = "sent" /\ r.arg = arg
      /\ DOMAIN r = {"fn", "req", "arg", "was", "st", "data"}
  BY DEF Request
<1>4. /\ \A n \in DOMAIN net : n \in 1 .. calls /\ RequestOK(view.card, net[n])
      /\ calls \in Nat /\ calls >= 1
  BY DEF IInv, RequestsOK, ServerOK
<1>5. /\ DOMAIN net' = DOMAIN net \cup {calls + 1} /\ calls + 1 \notin DOMAIN net
      /\ net'[calls + 1] = r /\ \A n \in DOMAIN net : net'[n] = net[n]
  BY <1>1, <1>4, Sent
<1>. HIDE DEF r
<1>6. ServerOK' /\ history'.lost = history.lost /\ (history'.alone => history.alone /\ DOMAIN net = {})
  <2>1. ServerOK
    BY DEF IInv
  <2>2. net = <<>> => DOMAIN net = {}
    OBVIOUS
  <2>3. /\ history' \in [alone : BOOLEAN, lost : BOOLEAN, faults : Nat]
        /\ history'.lost = history.lost /\ (history'.alone => history.alone /\ net = <<>>)
    BY <1>1, <2>1 DEF ServerOK
  <2>. QED
    BY <1>1, <1>2, <2>1, <2>2, <2>3 DEF ServerOK
<1>7. RequestsOK'
  <2>1. fn = "submitOidc" =>
           r.arg \in [inputs : [Keys(view.card) -> Values], origin : [Keys(view.card) -> Values]]
    <3>1. view.inputs \in [Keys(view.card) -> Values] /\ view.origin \in [Keys(view.card) -> Values]
      BY DEF IInv, PageOK
    <3>. QED
      BY <1>1, <1>3, <3>1 DEF Closure
  <2>2. RequestOK(view.card, r)
    BY <1>1, <1>3, <2>1 DEF RequestOK
  <2>3. calls + 1 \in 1 .. calls + 1 /\ \A n \in DOMAIN net : n \in 1 .. calls + 1
    BY <1>4
  <2>. QED
    BY <1>1, <1>2, <1>4, <1>5, <2>2, <2>3 DEF RequestsOK
<1>8. EntriesOK'
  BY <1>1, <1>3, <1>5, EntryGrows DEF Grows, IInv, EntriesOK
<1>9. ClosuresOK'
  <2>1. ClosureOK(view, v)
    BY <1>1, <1>2 DEF IInv, ClosuresOK, ClosureOK
  <2>2. fn = "submitOidc" => ClosureOK(view, arg)
    BY <1>1 DEF IInv, ClosuresOK, ClosureOK, Closure
  <2>. QED
    BY <1>1, <1>3, <1>5, <2>1, <2>2, ClosureGrows DEF IInv, ClosuresOK
<1>10. FirstOK'
  BY <1>1, <1>2, <1>3, <1>5 DEF IInv, FirstOK
<1>11. OneAtATime'
  BY <1>1, <1>2, <1>3, <1>5, <1>6 DEF IInv, OneAtATime, Locks
<1>12. TogglesEnd'
  BY <1>1, <1>2, <1>3, <1>5 DEF IInv, TogglesEnd
<1>13. BoxesOK'
  <2>1. Calm' => Calm
    BY <1>1, <1>2, <1>6 DEF Calm
  <2>2. \A k : UnderWay(k) => UnderWay(k)'
    BY <1>5 DEF UnderWay
  <2>. QED
    BY <1>1, <1>2, <1>3, <1>5, <2>1, <2>2 DEF IInv, BoxesOK
<1>. QED
  BY <1>1, <1>6, <1>7, <1>8, <1>9, <1>10, <1>11, <1>12, <1>13, OptionsKept DEF IInv, Grows

LEMMA StopsKeep ==
    ASSUME IInv, NEW n, NEW v, Stops(n, v)
    PROVE  IInv'
<1>1. /\ n \in DOMAIN net /\ net[n].req # "put"
      /\ PageOK(v) /\ Grows(view, v) /\ Edited(view, v) /\ v.loading = view.loading
      /\ Locks(view) => v.dialog = view.dialog
      /\ view' = v /\ UNCHANGED <<server, calls, history>>
      /\ DOMAIN net' = DOMAIN net \ {n} /\ \A m \in DOMAIN net \ {n} : net'[m] = net[m]
  BY DEF Stops, Ends, Without
<1>2. v.card = view.card /\ v.at = view.at /\ v.loaded = view.loaded
  BY <1>1 DEF Grows, Follows
<1>3. ServerOK'
  BY <1>1, <1>2 DEF IInv, ServerOK
<1>4. RequestsOK'
  BY <1>1, <1>2 DEF IInv, RequestsOK
<1>5. EntriesOK'
  BY <1>1, EntryGrows DEF Grows, IInv, EntriesOK
<1>6. ClosuresOK'
  BY <1>1, ClosureGrows, FieldsGrow DEF IInv, ClosuresOK
<1>7. FirstOK'
  BY <1>1, <1>2 DEF IInv, FirstOK, Grows, Follows
<1>8. OneAtATime'
  BY <1>1, <1>2 DEF IInv, OneAtATime, Locks
<1>9. TogglesEnd'
  BY <1>1, <1>2 DEF IInv, TogglesEnd
<1>10. BoxesOK'
  <2>1. \A k \in view.card.toggles : k \in Keys(view.card) /\ v.inputs[k] = view.inputs[k]
    BY <1>1 DEF Edited, Keys
  <2>2. Calm' => Calm
    BY <1>1, <1>2 DEF Calm, Grows, Follows
  <2>3. \A k : UnderWay(k) => UnderWay(k)'
    BY <1>1 DEF UnderWay
  <2>. QED
    BY <1>1, <1>2, <2>1, <2>2, <2>3 DEF IInv, BoxesOK
<1>. QED
  BY <1>1, <1>3, <1>4, <1>5, <1>6, <1>7, <1>8, <1>9, <1>10, OptionsKept DEF IInv, Grows

----------------------------------------------------------------------------
LEMMA RestOfWalk ==
    ASSUME NEW card, NEW todo \in Seq(Entries(card)), todo # <<>>
    PROVE  /\ todo[1].key \in Keys(card) /\ todo[1].value \in Values
           /\ Tail(todo) \in Seq(Entries(card))
           /\ \A q \in Owed([key |-> todo[1].key, value |-> todo[1].value, todo |-> Tail(todo)]) :
                 q \in Range(todo)
           /\ \A i \in DOMAIN Tail(todo) : i + 1 \in DOMAIN todo /\ Tail(todo)[i] = todo[i + 1]
<1>1. /\ Len(todo) \in Nat /\ Len(todo) >= 1 /\ DOMAIN todo = 1 .. Len(todo)
      /\ \A i \in 1 .. Len(todo) : todo[i] \in Entries(card)
  OBVIOUS
<1>2. /\ Tail(todo) \in Seq(Entries(card)) /\ DOMAIN Tail(todo) = 1 .. Len(todo) - 1
      /\ \A i \in 1 .. Len(todo) - 1 : Tail(todo)[i] = todo[i + 1]
  OBVIOUS
<1>3. todo[1] \in Entries(card)
  BY <1>1
<1>4. todo[1] = [key |-> todo[1].key, value |-> todo[1].value] /\ todo[1] \in Range(todo)
  BY <1>1, <1>3 DEF Entries, Range
<1>5. \A q \in Range(Tail(todo)) : q \in Range(todo)
  <2>1. \A i \in 1 .. Len(todo) - 1 : i + 1 \in 1 .. Len(todo)
    BY <1>1
  <2>. QED
    BY <1>1, <1>2, <2>1 DEF Range
<1>6. \A i \in DOMAIN Tail(todo) : i + 1 \in DOMAIN todo
  BY <1>1, <1>2
<1>. QED
  BY <1>2, <1>3, <1>4, <1>5, <1>6 DEF Entries, Owed

\* The next request of a walk keeps to what is said of all requests.
WalksOn(todo) ==
    Request("updateOption", "put",
            [key |-> todo[1].key, value |-> todo[1].value, todo |-> Tail(todo)], <<>>)

LEMMA NextRequest ==
    ASSUME NEW card, NEW todo \in Seq(Entries(card)), todo # <<>>
    PROVE  LET r == WalksOn(todo) IN
           /\ RequestOK(card, r) /\ r.req = "put" /\ r.fn = "updateOption" /\ r.st = "sent"
           /\ r.arg.key = todo[1].key
           /\ \A q \in Owed(r.arg) : q \in Range(todo)
           /\ \A i \in DOMAIN r.arg.todo : i + 1 \in DOMAIN todo /\ r.arg.todo[i] = todo[i + 1]
<1>. DEFINE arg == [key |-> todo[1].key, value |-> todo[1].value, todo |-> Tail(todo)]
            r == WalksOn(todo)
<1>1. /\ r.fn = "updateOption" /\ r.req = "put" /\ r.st = "sent" /\ r.arg = arg
      /\ DOMAIN r = {"fn", "req", "arg", "was", "st", "data"}
  BY DEF Request, WalksOn
<1>2. DOMAIN arg = {"key", "value", "todo"} /\ arg.key = todo[1].key /\ arg.value = todo[1].value
      /\ arg.todo = Tail(todo)
  OBVIOUS
<1>3. \A q \in Owed(arg) : q \in Range(todo)
  BY RestOfWalk
<1>4. /\ todo[1].key \in Keys(card) /\ todo[1].value \in Values /\ Tail(todo) \in Seq(Entries(card))
      /\ \A i \in DOMAIN Tail(todo) : i + 1 \in DOMAIN todo /\ Tail(todo)[i] = todo[i + 1]
  BY RestOfWalk
<1>. HIDE DEF arg, r
<1>5. RequestOK(card, r)
  BY <1>1, <1>2, <1>4 DEF RequestOK
<1>. QED
  BY <1>1, <1>2, <1>3, <1>4, <1>5 DEF r

LEMMA ContinuesKeep ==
    ASSUME IInv, NEW n, NEW v, NEW todo, Continues(n, v, todo)
    PROVE  IInv'
<1>. DEFINE r == WalksOn(todo)
            w == [v EXCEPT !.loading = TRUE]
<1>1. /\ n \in DOMAIN net /\ net[n].fn = "submitOidc"
      /\ PageOK(v) /\ Grows(view, v) /\ Edited(view, v) /\ ~Locks(view)
      /\ todo # <<>> /\ todo \in Seq(Entries(view.card))
      /\ \A q \in Range(todo) : EntryOK(v, q) /\ q.key \notin view.card.toggles
      /\ view' = w /\ UNCHANGED <<server, calls, history>>
      /\ DOMAIN net' = DOMAIN net /\ net'[n] = r /\ \A m \in DOMAIN net : m # n => net'[m] = net[m]
  BY DEF Continues, PutsNext, WalksOn
<1>2. /\ w.card = view.card /\ w.at = view.at /\ w.loaded = view.loaded /\ w.inputs = v.inputs
      /\ w.origin = v.origin /\ w.touched = v.touched /\ w.early = v.early /\ w.confirmed = v.confirmed
      /\ w.dialog = v.dialog
  BY <1>1 DEF Grows, Follows, PageOK
<1>3. PageOK(w) /\ Grows(view, w) /\ Edited(view, w)
  BY <1>1, <1>2 DEF PageOK, Grows, Follows, Edited
<1>4. /\ RequestOK(view.card, r) /\ r.req = "put" /\ r.fn = "updateOption" /\ r.st = "sent"
      /\ \A q \in Owed(r.arg) : q \in Range(todo)
      /\ r.arg.key \notin view.card.toggles
      /\ \A i \in DOMAIN r.arg.todo : r.arg.todo[i].key \notin view.card.toggles
  <2>1. 1 \in DOMAIN todo /\ \A i \in DOMAIN todo : todo[i] \in Range(todo)
    BY <1>1 DEF Range
  <2>2. \A i \in DOMAIN todo : todo[i].key \notin view.card.toggles
    BY <1>1, <2>1
  <2>3. /\ RequestOK(view.card, r) /\ r.req = "put" /\ r.fn = "updateOption" /\ r.st = "sent"
        /\ r.arg.key = todo[1].key
        /\ \A q \in Owed(r.arg) : q \in Range(todo)
        /\ \A i \in DOMAIN r.arg.todo : i + 1 \in DOMAIN todo /\ r.arg.todo[i] = todo[i + 1]
    BY <1>1, NextRequest
  <2>. QED
    BY <2>1, <2>2, <2>3
<1>. HIDE DEF r, w
<1>5. ServerOK'
  BY <1>1, <1>2 DEF IInv, ServerOK
<1>6. RequestsOK'
  BY <1>1, <1>2, <1>4 DEF IInv, RequestsOK
<1>7. EntriesOK'
  <2>1. \A q \in Range(todo) : EntryOK(w, q)
    BY <1>1, <1>2 DEF EntryOK, Pusher, Grows, Follows
  <2>. QED
    BY <1>1, <1>3, <1>4, <2>1, EntryGrows DEF Grows, IInv, EntriesOK
<1>8. ClosuresOK'
  BY <1>1, <1>3, <1>4, ClosureGrows, FieldsGrow DEF IInv, ClosuresOK
<1>9. FirstOK'
  BY <1>1, <1>2, <1>3, <1>4 DEF IInv, FirstOK, Grows, Follows
<1>10. OneAtATime'
  BY <1>1, <1>2 DEF IInv, OneAtATime, Locks
<1>11. TogglesEnd'
  BY <1>1, <1>2, <1>4 DEF IInv, TogglesEnd
<1>12. BoxesOK'
  <2>1. \A k \in view.card.toggles : k \in Keys(view.card) /\ w.inputs[k] = view.inputs[k]
    BY <1>3 DEF Edited, Keys
  <2>2. Calm' => Calm
    BY <1>1, <1>2, <1>3 DEF Calm, Grows, Follows
  <2>3. net[n].req # "put"
    BY <1>1 DEF IInv, RequestsOK, RequestOK
  <2>4. \A k : UnderWay(k) => UnderWay(k)'
    BY <1>1, <2>3 DEF UnderWay
  <2>. QED
    BY <1>1, <1>2, <1>4, <2>1, <2>2, <2>4 DEF IInv, BoxesOK
<1>. QED
  BY <1>1, <1>3, <1>5, <1>6, <1>7, <1>8, <1>9, <1>10, <1>11, <1>12, OptionsKept DEF IInv, Grows

\* An uncaught rejection, of request n or before anything was sent.
LEMMA LostKeep ==
    ASSUME IInv, history' = [history EXCEPT !.lost = TRUE], UNCHANGED <<view, server, calls>>,
           DOMAIN net' \subseteq DOMAIN net, \A m \in DOMAIN net' : net'[m] = net[m]
    PROVE  IInv'
<1>1. PageOK(view)' /\ Follows(view, view')
  BY DEF IInv, Follows
<1>2. ServerOK' /\ history'.lost /\ history'.alone = history.alone
  BY DEF IInv, ServerOK
<1>3. RequestsOK' /\ EntriesOK' /\ ClosuresOK' /\ FirstOK' /\ TogglesEnd'
  BY DEF IInv, RequestsOK, EntriesOK, ClosuresOK, FirstOK, TogglesEnd
<1>4. OneAtATime'
  BY <1>2 DEF IInv, OneAtATime
<1>5. BoxesOK'
  BY <1>2 DEF IInv, BoxesOK, Calm
<1>. QED
  BY <1>1, <1>2, <1>3, <1>4, <1>5, OptionsKept DEF IInv

----------------------------------------------------------------------------
\* The options arrive at a page; only a page that saves every field keeps no copy.
Arrives(n, compares) ==
    /\ n \in DOMAIN net /\ net[n].fn = "getOptions" /\ net[n].st \in {"ok", "refused", "failed"}
    /\ compares \/ view.at \in OtherPages
    /\ Loads(n, compares)

LEMMA ArrivesKeep ==
    ASSUME IInv, NEW n, NEW compares \in BOOLEAN, Arrives(n, compares)
    PROVE  IInv'
<1>. DEFINE inputs == [k \in Keys(view.card) |->
                         IF k \in DOMAIN net[n].data THEN Shown(net[n].data[k]) ELSE "undefined"]
            v == [SetInputs(view, inputs) EXCEPT !.loaded = TRUE,
                    !.domains = IF Whitelist \in Keys(view.card) THEN inputs[Whitelist] ELSE ""]
            w == IF compares THEN [v EXCEPT !.origin = inputs] ELSE v
<1>1. /\ n \in DOMAIN net /\ RequestOK(view.card, net[n]) /\ net[n].req = "options" /\ n = 1 /\ ~view.loaded
      /\ \A m \in DOMAIN net : net[m].req = "options" => m = n
      /\ PageOK(view)
  BY DEF Arrives, IInv, RequestsOK, RequestOK, FirstOK
<1>2. CASE net[n].st = "refused"
  <2>1. Ends(n, view)
    BY <1>2 DEF Arrives, Loads
  <2>2. Grows(view, view) /\ Edited(view, view)
    BY DEF Grows, Follows, Edited
  <2>3. Stops(n, view)
    BY <1>1, <2>1, <2>2 DEF Stops
  <2>. QED
    BY <2>3, StopsKeep
<1>3. CASE net[n].st # "refused"
  <2>1. net[n].st = "ok" /\ Ends(n, w)
    BY <1>3 DEF Arrives, Loads
  <2>2. /\ view' = w /\ UNCHANGED <<server, calls, history>>
        /\ DOMAIN net' = DOMAIN net \ {n} /\ \A m \in DOMAIN net \ {n} : net'[m] = net[m]
    BY <2>1 DEF Ends, Without
  <2>3. net[n].data \in [Keys(view.card) \ Hidden -> Values]
    BY <1>1, <2>1 DEF RequestOK
  <2>4. /\ inputs \in [Keys(view.card) -> Values]
        /\ \A k \in Keys(view.card) \ Hidden : inputs[k] = Shown(net[n].data[k])
    BY <2>3 DEF Shown, Values
  <2>. HIDE DEF inputs
  <2>5. /\ DOMAIN w = DOMAIN view /\ w.at = view.at /\ w.card = view.card /\ w.inputs = inputs /\ w.loaded
        /\ w.loading = view.loading /\ w.dialog = view.dialog /\ w.edits = view.edits /\ w.domain = view.domain
        /\ w.touched = view.touched /\ w.early = view.early /\ w.confirmed = view.confirmed
        /\ w.loaded \in BOOLEAN
        /\ w.origin = IF compares THEN inputs ELSE view.origin
    BY <1>1 DEF PageOK, SetInputs
  <2>. HIDE DEF w
  <2>6. PageOK(w) /\ Follows(view, w)
    BY <1>1, <2>4, <2>5 DEF PageOK, Follows
  <2>7. ServerOK'
    BY <2>2, <2>5 DEF IInv, ServerOK
  <2>8. RequestsOK' /\ TogglesEnd'
    BY <2>2, <2>5 DEF IInv, RequestsOK, TogglesEnd
  <2>9. EntriesOK'
    BY <2>2, <2>6, EntryGrows DEF IInv, EntriesOK
  <2>10. ~view.early => \A m \in DOMAIN net : net[m].req # "put" /\ net[m].fn # "submitOidc"
    BY <1>1 DEF IInv, FirstOK
  <2>11. ClosuresOK'
    <3>1. ClosureOK(w, w)
      <4>1. view.at \in OtherPages => \A k \in Keys(view.card) : k \notin Kept
        BY <1>1 DEF PageOK, CardOK
      <4>2. compares => w.origin = w.inputs
        BY <2>5
      <4>3. compares \/ w.at \in OtherPages
        BY <2>5 DEF Arrives
      <4>. QED
        BY <2>5, <4>1, <4>2, <4>3 DEF ClosureOK
    <3>2. ASSUME NEW m \in DOMAIN net, net[m].fn = "submitOidc"
          PROVE  ClosureOK(w, net[m].arg)
      <4>1. ClosureOK(view, net[m].arg) /\ view.early
        BY <2>10, <3>2 DEF IInv, ClosuresOK, PageOK
      <4>. QED
        BY <2>5, <4>1 DEF ClosureOK, Pusher
    <3>. QED
      BY <2>2, <3>1, <3>2 DEF ClosuresOK
  <2>12. FirstOK'
    BY <1>1, <2>2, <2>5 DEF FirstOK
  <2>13. OneAtATime'
    BY <2>2, <2>5 DEF IInv, OneAtATime, Locks
  <2>14. BoxesOK'
    <3>1. \A k \in view.card.toggles : k \in Keys(view.card) \ Hidden
      BY <1>1 DEF PageOK, CardOK, Keys, Kept
    <3>2. Calm' => ~view.early /\ ~server.others
      BY <2>2, <2>5 DEF Calm
    <3>3. \A k \in view.card.toggles : server.options[k] \in {"true", "false"}
      BY DEF IInv, BoxesOK
    <3>4. ~view.early /\ ~server.others =>
            \A k \in view.card.toggles : net[n].data[k] = server.options[k]
      BY <1>1, <2>1 DEF IInv, FirstOK
    <3>5. Calm' => \A k \in view.card.toggles : w.inputs[k] = server.options[k]
      BY <2>4, <2>5, <3>1, <3>2, <3>3, <3>4 DEF Shown
    <3>6. Calm' => \A m \in DOMAIN net' : net'[m].req # "put"
      BY <2>2, <2>10, <3>2
    <3>. QED
      BY <2>2, <2>5, <3>3, <3>5, <3>6 DEF BoxesOK
  <2>. QED
    BY <2>2, <2>6, <2>7, <2>8, <2>9, <2>11, <2>12, <2>13, <2>14, OptionsKept DEF IInv
<1>. QED
  BY <1>2, <1>3

----------------------------------------------------------------------------
\* One option is saved, or refused, and the page learns of it.
LEMMA ReturnsKeep ==
    ASSUME IInv, NEW n \in DOMAIN net, net[n].fn = "updateOption",
           net[n].st \in {"ok", "refused", "failed"}, PutReturns(n)
    PROVE  IInv'
<1>. DEFINE arg == net[n].arg
            q == [key |-> arg.key, value |-> arg.value]
            v == IF net[n].st = "ok" THEN SetInput(view, arg.key, arg.value) ELSE view
            w == [v EXCEPT !.loading = arg.todo # <<>>]
            r == WalksOn(arg.todo)
<1>1. /\ RequestOK(view.card, net[n]) /\ net[n].req = "put" /\ net[n].st \in {"ok", "refused"}
      /\ arg.key \in Keys(view.card) /\ arg.value \in Values /\ arg.todo \in Seq(Entries(view.card))
      /\ PageOK(view)
  BY DEF PutReturns, IInv, RequestsOK, RequestOK
<1>2. \A p \in Owed(arg) : EntryOK(view, p)
  BY <1>1 DEF IInv, EntriesOK
<1>3. /\ arg.key \in view.card.toggles => arg.todo = <<>>
      /\ \A i \in DOMAIN arg.todo : arg.todo[i].key \notin view.card.toggles
  BY <1>1 DEF IInv, TogglesEnd
<1>4. /\ DOMAIN v = DOMAIN view /\ v.at = view.at /\ v.card = view.card /\ v.loaded = view.loaded
      /\ v.loading = view.loading /\ v.dialog = view.dialog /\ v.edits = view.edits /\ v.domain = view.domain
      /\ v.touched = view.touched /\ v.early = view.early /\ v.confirmed = view.confirmed
      /\ v.origin = view.origin
      /\ v.inputs = IF net[n].st = "ok" THEN [view.inputs EXCEPT ![arg.key] = arg.value] ELSE view.inputs
  BY <1>1 DEF PageOK, SetInput, SetInputs
<1>5. /\ view' = w /\ UNCHANGED <<server, calls, history>>
      /\ \A m \in DOMAIN net' : m \in DOMAIN net /\ (m # n => net'[m] = net[m])
      /\ \A m \in DOMAIN net : m # n => m \in DOMAIN net'
      /\ n \in DOMAIN net' => arg.todo # <<>> /\ net'[n] = r
  <2>1. CASE arg.todo = <<>>
    <3>1. Ends(n, [v EXCEPT !.loading = FALSE])
      BY <2>1 DEF PutReturns
    <3>. QED
      BY <2>1, <3>1 DEF Ends, Without
  <2>2. CASE arg.todo # <<>>
    <3>1. PutsNext(n, v, arg.todo)
      BY <2>2 DEF PutReturns
    <3>. QED
      BY <2>2, <3>1 DEF PutsNext, WalksOn
  <2>. QED
    BY <2>1, <2>2
<1>. HIDE DEF v
<1>6. /\ DOMAIN w = DOMAIN view /\ w.at = view.at /\ w.card = view.card /\ w.loaded = view.loaded
      /\ w.loading = (arg.todo # <<>>) /\ w.dialog = view.dialog /\ w.edits = view.edits /\ w.domain = view.domain
      /\ w.touched = view.touched /\ w.early = view.early /\ w.confirmed = view.confirmed
      /\ w.origin = view.origin /\ w.inputs = v.inputs
  BY <1>1, <1>4 DEF PageOK
<1>. HIDE DEF w
<1>7. /\ w.inputs \in [Keys(view.card) -> Values]
      /\ \A k \in Keys(view.card) :
            w.inputs[k] = IF k = arg.key /\ net[n].st = "ok" THEN arg.value ELSE view.inputs[k]
  <2>1. view.inputs \in [Keys(view.card) -> Values]
    BY <1>1 DEF PageOK
  <2>2. CASE net[n].st = "ok"
    <3>1. w.inputs = [view.inputs EXCEPT ![arg.key] = arg.value]
      BY <1>4, <1>6, <2>2
    <3>. QED
      BY <1>1, <2>1, <2>2, <3>1
  <2>3. CASE net[n].st # "ok"
    BY <1>4, <1>6, <2>1, <2>3
  <2>. QED
    BY <2>2, <2>3
<1>8. PageOK(w) /\ Grows(view, w)
  BY <1>1, <1>6, <1>7 DEF PageOK, Grows, Follows
<1>9. arg.todo # <<>> =>
        /\ RequestOK(view.card, r) /\ r.req = "put" /\ r.fn = "updateOption" /\ r.st = "sent"
        /\ \A p \in Owed(r.arg) : p \in Owed(arg)
        /\ r.arg.key \notin view.card.toggles
        /\ \A i \in DOMAIN r.arg.todo : r.arg.todo[i].key \notin view.card.toggles
  <2>. SUFFICES ASSUME arg.todo # <<>>
                PROVE  /\ RequestOK(view.card, r) /\ r.req = "put" /\ r.fn = "updateOption" /\ r.st = "sent"
                       /\ \A p \in Owed(r.arg) : p \in Owed(arg)
                       /\ r.arg.key \notin view.card.toggles
                       /\ \A i \in DOMAIN r.arg.todo : r.arg.todo[i].key \notin view.card.toggles
    OBVIOUS
  <2>1. 1 \in DOMAIN arg.todo
    BY <1>1
  <2>2. \A p \in Range(arg.todo) : p \in Owed(arg)
    BY DEF Owed
  <2>. QED
    BY <1>1, <1>3, <2>1, <2>2, NextRequest
<1>. HIDE DEF r
<1>10. ServerOK'
  BY <1>5, <1>6 DEF IInv, ServerOK
<1>11. RequestsOK'
  BY <1>5, <1>6, <1>9 DEF IInv, RequestsOK
<1>12. EntriesOK'
  <2>1. ASSUME NEW m \in DOMAIN net', net'[m].req = "put", NEW p \in Owed(net'[m].arg)
        PROVE  EntryOK(w, p)
    <3>1. EntryOK(view, p)
      BY <1>2, <1>5, <1>9, <2>1 DEF IInv, EntriesOK
    <3>. QED
      BY <1>8, <3>1, EntryGrows DEF Grows
  <2>. QED
    BY <1>5, <2>1 DEF EntriesOK
<1>13. ClosuresOK'
  <2>1. EntryOK(view, q) /\ q.key = arg.key /\ q.value = arg.value
    BY <1>2 DEF Owed
  <2>2. ClosureOK(view, view)
    BY DEF IInv, ClosuresOK
  <2>3. ClosureOK(w, w)
    <3>. SUFFICES ASSUME NEW k \in Keys(view.card)
                  PROVE  /\ k \in Kept /\ ~Pusher(view) /\ w.inputs[k] = "undefined" => w.origin[k] = "undefined"
                         /\ ~view.early /\ Eligible(view.card, k) /\ k \notin view.touched /\ view.loaded
                              /\ view.at \notin OtherPages => w.inputs[k] = w.origin[k]
      BY <1>6 DEF ClosureOK, Pusher
    <3>1. CASE w.inputs[k] = view.inputs[k]
      BY <1>6, <2>2, <3>1 DEF ClosureOK
    <3>2. CASE w.inputs[k] # view.inputs[k]
      <4>1. k = q.key /\ w.inputs[k] = q.value
        BY <1>7, <2>1, <3>2
      <4>. QED
        BY <2>1, <4>1 DEF EntryOK
    <3>. QED
      BY <3>1, <3>2
  <2>4. \A m \in DOMAIN net : net[m].fn = "submitOidc" => ClosureOK(w, net[m].arg)
    BY <1>8, ClosureGrows DEF IInv, ClosuresOK
  <2>. QED
    BY <1>5, <1>9, <2>3, <2>4 DEF ClosuresOK
<1>14. FirstOK'
  BY <1>1, <1>5, <1>6, <1>9 DEF IInv, FirstOK
<1>15. OneAtATime'
  <2>1. Locks(view) => /\ ~view.dialog
                       /\ \A m \in DOMAIN net : net[m].req = "put" => m = n
    BY <1>1 DEF IInv, OneAtATime
  <2>2. history.alone => \A m, p \in DOMAIN net : m = p
    BY DEF IInv, OneAtATime
  <2>3. ASSUME Locks(view), NEW m \in DOMAIN net', net'[m].req = "put"
        PROVE  m = n /\ arg.todo # <<>>
    BY <1>5, <2>1, <2>3
  <2>. QED
    BY <1>5, <1>6, <2>1, <2>2, <2>3 DEF OneAtATime, Locks
<1>16. TogglesEnd'
  BY <1>5, <1>6, <1>9 DEF IInv, TogglesEnd
<1>17. BoxesOK'
  <2>1. \A k \in view.card.toggles : k \in Keys(view.card) /\ server.options[k] \in {"true", "false"}
    BY DEF IInv, BoxesOK, Keys
  <2>2. Calm' => Calm
    BY <1>5, <1>6 DEF Calm
  <2>3. ASSUME Calm, NEW k \in view.card.toggles
        PROVE  /\ UnderWay(k)' \/ w.inputs[k] = server.options[k]
               /\ \A m \in DOMAIN net : net[m].req = "put" /\ net[m].arg.key = k =>
                     /\ net[m].st \in {"sent", "refused"} => w.inputs[k] = server.options[k]
                     /\ net[m].st = "ok" => server.options[k] = net[m].arg.value
    <3>1. /\ UnderWay(k) \/ view.inputs[k] = server.options[k]
          /\ \A m \in DOMAIN net : net[m].req = "put" /\ net[m].arg.key = k =>
                /\ net[m].st \in {"sent", "refused"} => view.inputs[k] = server.options[k]
                /\ net[m].st = "ok" => server.options[k] = net[m].arg.value
      BY <2>3 DEF IInv, BoxesOK
    <3>2. CASE k = arg.key
      <4>1. w.inputs[k] = server.options[k]
        BY <1>1, <1>7, <3>1, <3>2
      <4>. QED
        BY <3>1, <4>1
    <3>3. CASE k # arg.key
      <4>1. w.inputs[k] = view.inputs[k]
        BY <1>7, <2>1, <3>3
      <4>2. UnderWay(k) => UnderWay(k)'
        BY <1>5, <3>3 DEF UnderWay
      <4>. QED
        BY <3>1, <4>1, <4>2
    <3>. QED
      BY <3>2, <3>3
  <2>. QED
    BY <1>5, <1>6, <1>9, <2>1, <2>2, <2>3 DEF BoxesOK
<1>. QED
  BY <1>5, <1>8, <1>10, <1>11, <1>12, <1>13, <1>14, <1>15, <1>16, <1>17, OptionsKept DEF IInv, Grows

----------------------------------------------------------------------------
(***************************************************************************)
(* The service replies to request n, which is left as it was but for its   *)
(* status and its data.                                                    *)
(***************************************************************************)
Replied(n) ==
    /\ n \in DOMAIN net /\ net[n].st = "sent"
    /\ UNCHANGED <<view, calls>>
    /\ history' \in [alone : BOOLEAN, lost : BOOLEAN, faults : Nat]
    /\ history'.alone = history.alone /\ history'.lost = history.lost
    /\ DOMAIN net' = DOMAIN net
    /\ \A m \in DOMAIN net : m # n => net'[m] = net[m]
    /\ net'[n].fn = net[n].fn /\ net'[n].req = net[n].req /\ net'[n].arg = net[n].arg
    /\ RequestOK(view.card, net'[n])

LEMMA RepliesKeep ==
    ASSUME IInv, NEW n, Replied(n)
    PROVE  /\ PageOK(view)' /\ RequestsOK' /\ EntriesOK' /\ ClosuresOK' /\ OneAtATime' /\ TogglesEnd'
           /\ \A k : UnderWay(k) => UnderWay(k)'
<1>1. PageOK(view)' /\ RequestsOK'
  BY DEF IInv, Replied, RequestsOK
<1>2. EntriesOK' /\ TogglesEnd'
  BY DEF IInv, Replied, EntriesOK, TogglesEnd
<1>3. ClosuresOK' /\ OneAtATime'
  BY DEF IInv, Replied, ClosuresOK, OneAtATime
<1>4. \A k : UnderWay(k) => UnderWay(k)'
  BY DEF Replied, UnderWay
<1>. QED
  BY <1>1, <1>2, <1>3, <1>4

\* A reply that saves nothing.
LEMMA AnswersKeep ==
    ASSUME IInv, NEW n, Replied(n), UNCHANGED server,
           net[n].req = "put" => net'[n].st # "ok",
           net[n].req = "options" /\ net'[n].st = "ok" =>
              \A k \in Keys(view.card) \ Hidden : net'[n].data[k] = server.options[k]
    PROVE  IInv'
<1>1. ServerOK'
  BY DEF IInv, ServerOK, Replied
<1>2. FirstOK'
  <2>1. \A k \in view.card.toggles : k \in Keys(view.card) \ Hidden
    BY DEF IInv, PageOK, CardOK, Keys, Kept
  <2>. QED
    BY <2>1 DEF IInv, FirstOK, Replied
<1>3. BoxesOK'
  <2>1. Calm' <=> Calm
    BY DEF Calm, Replied
  <2>2. net'[n].st \in {"ok", "refused", "failed", "sent"}
    BY DEF Replied, RequestOK
  <2>. QED
    BY <2>1, <2>2, RepliesKeep DEF IInv, BoxesOK, Replied
<1>4. PageOK(view') /\ Follows(view, view')
  BY DEF IInv, Replied, Follows
<1>. QED
  BY <1>1, <1>2, <1>3, <1>4, RepliesKeep, OptionsKept DEF IInv

\* An option is saved, whether the answer comes through or not.
LEMMA SavesKeep ==
    ASSUME IInv, NEW n, Replied(n), net[n].req = "put", server' = Saved(net[n].arg),
           net'[n].st \in {"ok", "failed"}
    PROVE  IInv'
<1>. DEFINE key == net[n].arg.key
            value == net[n].arg.value
            q == [key |-> key, value |-> value]
            text == IF value = "undefined" THEN "" ELSE value
<1>1. key \in Keys(view.card) /\ value \in Values /\ n \in DOMAIN net /\ UNCHANGED view
  BY DEF IInv, RequestsOK, RequestOK, Replied
<1>2. ServerOK /\ PageOK(view)
  BY DEF IInv
<1>3. EntryOK(view, q) /\ q.key = key /\ q.value = value
  BY <1>1 DEF IInv, EntriesOK, Owed
<1>4. /\ server'.theirs = server.theirs /\ server'.others = server.others
      /\ server'.options \in [Keys(view.card) -> Values]
      /\ \A k \in Keys(view.card) : server'.options[k] = IF k = key THEN text ELSE server.options[k]
  <2>1. server.options \in [Keys(view.card) -> Values] /\ text \in Values
    BY <1>1, <1>2 DEF ServerOK, Values
  <2>2. /\ server'.options = [server.options EXCEPT ![key] = text]
        /\ server'.theirs = server.theirs /\ server'.others = server.others
    BY <1>2 DEF ServerOK, Saved
  <2>. QED
    BY <1>1, <2>1, <2>2
<1>5. server' \in [options : [Keys(view.card) -> Values], theirs : [Keys(view.card) -> Values], others : BOOLEAN]
  BY <1>2, <1>4 DEF ServerOK, Saved
<1>6. ServerOK'
  BY <1>1, <1>2, <1>5 DEF ServerOK, Replied
<1>. HIDE DEF key, value, q, text
<1>7. FirstOK'
  <2>1. FirstOK
    BY DEF IInv
  <2>2. \A m \in DOMAIN net : net[m].req = "options" => view.early
    BY <1>1, <2>1 DEF FirstOK, IInv, PageOK
  <2>3. \A m \in DOMAIN net' : net'[m].req = net[m].req /\ net'[m].fn = net[m].fn /\ m \in DOMAIN net
    BY DEF Replied
  <2>. QED
    BY <1>1, <2>1, <2>2, <2>3 DEF FirstOK
<1>8. key \in view.card.toggles => text = value /\ value \in {"true", "false"}
  BY <1>3 DEF EntryOK, text
<1>9. BoxesOK'
  <2>1. Calm' <=> Calm
    BY <1>1, <1>4 DEF Calm, Replied
  <2>2. \A k \in view.card.toggles : k \in Keys(view.card) /\ server.options[k] \in {"true", "false"}
    BY DEF IInv, BoxesOK, Keys
  <2>3. \A k \in view.card.toggles : server'.options[k] \in {"true", "false"}
    BY <1>4, <1>8, <2>2
  <2>4. ASSUME Calm, NEW k \in view.card.toggles
        PROVE  /\ UnderWay(k)' \/ view.inputs[k] = server'.options[k]
               /\ \A m \in DOMAIN net : net[m].req = "put" /\ net[m].arg.key = k =>
                     /\ net'[m].st \in {"sent", "refused"} => view.inputs[k] = server'.options[k]
                     /\ net'[m].st = "ok" => server'.options[k] = net[m].arg.value
    <3>1. /\ UnderWay(k) \/ view.inputs[k] = server.options[k]
          /\ \A m \in DOMAIN net : net[m].req = "put" /\ net[m].arg.key = k =>
                /\ net[m].st \in {"sent", "refused"} => view.inputs[k] = server.options[k]
                /\ net[m].st = "ok" => server.options[k] = net[m].arg.value
      BY <2>4 DEF IInv, BoxesOK
    <3>2. CASE k # key
      <4>1. server'.options[k] = server.options[k]
        BY <1>4, <2>2, <3>2
      <4>2. \A m \in DOMAIN net : net[m].req = "put" /\ net[m].arg.key = k => net'[m] = net[m]
        BY <3>2 DEF Replied, key
      <4>. QED
        BY <3>1, <4>1, <4>2, RepliesKeep
    <3>3. CASE k = key
      <4>1. \A m \in DOMAIN net : net[m].req = "put" => m = n
        BY <1>1, <2>4 DEF IInv, OneAtATime, Calm, Locks
      <4>2. UnderWay(k)
        BY <1>1, <3>3 DEF UnderWay, key
      <4>3. server'.options[k] = value /\ value = net[n].arg.value
        BY <1>4, <1>8, <2>2, <3>3 DEF value
      <4>4. UnderWay(k)'
        BY <4>2, RepliesKeep
      <4>. QED
        BY <4>1, <4>3, <4>4
    <3>. QED
      BY <3>2, <3>3
  <2>. QED
    BY <1>1, <2>1, <2>3, <2>4 DEF BoxesOK, Replied
<1>10. PasswordLoginStaysUnlessConfirmed'
  BY <1>1, <1>3, <1>4 DEF IInv, PasswordLoginStaysUnlessConfirmed, EntryOK, text
<1>11. SecretsAreNeverErased'
  BY <1>1, <1>3, <1>4 DEF IInv, SecretsAreNeverErased, EntryOK, Pusher, At, text
<1>12. UntouchedSettingsAreKept'
  BY <1>1, <1>3, <1>4 DEF IInv, UntouchedSettingsAreKept, EntryOK, Eligible
<1>. QED
  BY <1>6, <1>7, <1>9, <1>10, <1>11, <1>12, RepliesKeep DEF IInv

LEMMA ServeKeeps ==
    ASSUME IInv, Serve
    PROVE  IInv'
<1>. PICK n \in DOMAIN net :
        /\ net[n].st = "sent"
        /\ GetOptions(n) \/ UpdateOption(n) \/ Tell(n) \/ Refuse(n) \/ Break(n)
  BY DEF Serve
<1>1. RequestOK(view.card, net[n]) /\ ServerOK
  BY DEF IInv, RequestsOK
<1>2. /\ history \in [alone : BOOLEAN, lost : BOOLEAN, faults : Nat]
      /\ server.options \in [Keys(view.card) -> Values]
  BY <1>1 DEF ServerOK
<1>3. [history EXCEPT !.faults = @ + 1] \in [alone : BOOLEAN, lost : BOOLEAN, faults : Nat]
  BY <1>2
<1>4. CASE GetOptions(n)
  <2>. DEFINE data == [k \in DOMAIN server.options \ Hidden |-> server.options[k]]
  <2>1. /\ net[n].req = "options" /\ UNCHANGED <<view, server, calls, history>>
        /\ net' = [net EXCEPT ![n].st = "ok", ![n].data = data]
    BY <1>4 DEF GetOptions, Answered
  <2>2. /\ data \in [Keys(view.card) \ Hidden -> Values]
        /\ \A k \in Keys(view.card) \ Hidden : data[k] = server.options[k]
    BY <1>2
  <2>. HIDE DEF data
  <2>3. /\ net'[n].st = "ok" /\ net'[n].data = data /\ net'[n].fn = net[n].fn /\ net'[n].req = net[n].req
        /\ net'[n].arg = net[n].arg /\ DOMAIN net'[n] = DOMAIN net[n]
        /\ DOMAIN net' = DOMAIN net /\ \A m \in DOMAIN net : m # n => net'[m] = net[m]
    BY <1>1, <2>1 DEF RequestOK
  <2>4. RequestOK(view.card, net'[n])
    BY <1>1, <2>1, <2>2, <2>3 DEF RequestOK
  <2>5. Replied(n)
    BY <1>2, <2>1, <2>3, <2>4 DEF Replied
  <2>. QED
    BY <2>1, <2>2, <2>3, <2>5, AnswersKeep
<1>5. CASE UpdateOption(n)
  <2>1. net[n].req = "put" /\ UNCHANGED <<view, calls, history>>
    BY <1>5 DEF UpdateOption, Answered
  <2>2. CASE net[n].arg.value = "zero"
    <3>1. net' = [net EXCEPT ![n].st = "failed"] /\ UNCHANGED server
      BY <1>5, <2>2 DEF UpdateOption
    <3>2. /\ net'[n].st = "failed" /\ net'[n].fn = net[n].fn /\ net'[n].req = net[n].req
          /\ net'[n].arg = net[n].arg /\ DOMAIN net'[n] = DOMAIN net[n]
          /\ DOMAIN net' = DOMAIN net /\ \A m \in DOMAIN net : m # n => net'[m] = net[m]
      BY <1>1, <3>1 DEF RequestOK
    <3>3. RequestOK(view.card, net'[n])
      BY <1>1, <3>2 DEF RequestOK
    <3>4. Replied(n)
      BY <1>2, <2>1, <3>2, <3>3 DEF Replied
    <3>. QED
      BY <2>1, <3>1, <3>2, <3>4, AnswersKeep
  <2>3. CASE net[n].arg.value # "zero"
    <3>1. net' = [net EXCEPT ![n].st = "ok", ![n].data = <<>>] /\ server' = Saved(net[n].arg)
      BY <1>5, <2>3 DEF UpdateOption, Answered
    <3>2. /\ net'[n].st = "ok" /\ net'[n].fn = net[n].fn /\ net'[n].req = net[n].req
          /\ net'[n].arg = net[n].arg /\ DOMAIN net'[n] = DOMAIN net[n]
          /\ DOMAIN net' = DOMAIN net /\ \A m \in DOMAIN net : m # n => net'[m] = net[m]
      BY <1>1, <3>1 DEF RequestOK
    <3>3. RequestOK(view.card, net'[n])
      BY <1>1, <2>1, <3>2 DEF RequestOK
    <3>4. Replied(n)
      BY <1>2, <2>1, <3>2, <3>3 DEF Replied
    <3>. QED
      BY <2>1, <3>1, <3>2, <3>4, SavesKeep
  <2>. QED
    BY <2>2, <2>3
<1>6. CASE Tell(n)
  <2>1. PICK told \in {"new", "undefined"} : Answered(n, told)
    BY <1>6 DEF Tell
  <2>2. /\ net[n].req = "tell" /\ UNCHANGED <<view, server, calls, history>>
        /\ net' = [net EXCEPT ![n].st = "ok", ![n].data = told]
    BY <1>6, <2>1 DEF Tell, Answered
  <2>3. /\ net'[n].st = "ok" /\ net'[n].data = told /\ net'[n].fn = net[n].fn /\ net'[n].req = net[n].req
        /\ net'[n].arg = net[n].arg /\ DOMAIN net'[n] = DOMAIN net[n]
        /\ DOMAIN net' = DOMAIN net /\ \A m \in DOMAIN net : m # n => net'[m] = net[m]
    BY <1>1, <2>2 DEF RequestOK
  <2>4. RequestOK(view.card, net'[n])
    BY <1>1, <2>1, <2>2, <2>3 DEF RequestOK
  <2>5. Replied(n)
    BY <1>2, <2>2, <2>3, <2>4 DEF Replied
  <2>. QED
    BY <2>2, <2>5, AnswersKeep
<1>7. CASE Refuse(n)
  <2>1. /\ UNCHANGED <<view, server, calls>> /\ history' = [history EXCEPT !.faults = @ + 1]
        /\ net' = [net EXCEPT ![n].st = "refused"]
    BY <1>7 DEF Refuse
  <2>2. /\ net'[n].st = "refused" /\ net'[n].fn = net[n].fn /\ net'[n].req = net[n].req
        /\ net'[n].arg = net[n].arg /\ DOMAIN net'[n] = DOMAIN net[n]
        /\ DOMAIN net' = DOMAIN net /\ \A m \in DOMAIN net : m # n => net'[m] = net[m]
    BY <1>1, <2>1 DEF RequestOK
  <2>3. RequestOK(view.card, net'[n])
    BY <1>1, <2>2 DEF RequestOK
  <2>4. Replied(n)
    BY <1>2, <1>3, <2>1, <2>2, <2>3 DEF Replied
  <2>. QED
    BY <2>1, <2>2, <2>4, AnswersKeep
<1>8. CASE Break(n)
  <2>1. /\ UNCHANGED <<view, calls>> /\ history' = [history EXCEPT !.faults = @ + 1]
        /\ net' = [net EXCEPT ![n].st = "failed"]
    BY <1>8 DEF Break, Failed
  <2>2. /\ net'[n].st = "failed" /\ net'[n].fn = net[n].fn /\ net'[n].req = net[n].req
        /\ net'[n].arg = net[n].arg /\ DOMAIN net'[n] = DOMAIN net[n]
        /\ DOMAIN net' = DOMAIN net /\ \A m \in DOMAIN net : m # n => net'[m] = net[m]
    BY <1>1, <2>1 DEF RequestOK
  <2>3. RequestOK(view.card, net'[n])
    BY <1>1, <2>2 DEF RequestOK
  <2>4. Replied(n)
    BY <1>2, <1>3, <2>1, <2>2, <2>3 DEF Replied
  <2>5. UNCHANGED server \/ (net[n].req = "put" /\ server' = Saved(net[n].arg))
    BY <1>8 DEF Break
  <2>. QED
    BY <2>2, <2>4, <2>5, AnswersKeep, SavesKeep
<1>. QED
  BY <1>4, <1>5, <1>6, <1>7, <1>8

LEMMA ElsewhereKeeps ==
    ASSUME IInv, Elsewhere
    PROVE  IInv'
<1>1. /\ UNCHANGED <<view, net, calls>>
      /\ history' = [history EXCEPT !.alone = FALSE, !.faults = @ + 1]
  BY DEF Elsewhere, Disturbed
<1>2. ServerOK /\ PageOK(view)
  BY DEF IInv
<1>3. DOMAIN server.options = Keys(view.card)
  BY <1>2 DEF ServerOK
<1>. DEFINE Other(k) == IF k \in view.card.toggles
                        THEN IF server.options[k] = "true" THEN "false" ELSE "true" ELSE "other"
<1>4. PICK k \in Keys(view.card) :
        server' = [options |-> [server.options EXCEPT ![k] = Other(k)],
                   theirs |-> [server.theirs EXCEPT ![k] = Other(k)], others |-> TRUE]
  BY <1>3 DEF Elsewhere
<1>. DEFINE value == Other(k)
<1>5. value \in {"true", "false", "other"} /\ (k \in view.card.toggles => value \in {"true", "false"})
  OBVIOUS
<1>. HIDE DEF value
<1>6. /\ server'.options = [server.options EXCEPT ![k] = value] /\ server'.others
      /\ server'.theirs = [server.theirs EXCEPT ![k] = value]
      /\ server' = [options |-> server'.options, theirs |-> server'.theirs, others |-> TRUE]
  BY <1>4 DEF value
<1>7. /\ server.options \in [Keys(view.card) -> Values] /\ server.theirs \in [Keys(view.card) -> Values]
      /\ history \in [alone : BOOLEAN, lost : BOOLEAN, faults : Nat]
  BY <1>2 DEF ServerOK
<1>8. /\ server'.options \in [Keys(view.card) -> Values] /\ server'.theirs \in [Keys(view.card) -> Values]
      /\ \A j \in Keys(view.card) :
            /\ server'.options[j] = IF j = k THEN value ELSE server.options[j]
            /\ server'.theirs[j] = IF j = k THEN value ELSE server.theirs[j]
  <2>1. value \in Values
    BY <1>5 DEF Values
  <2>2. ASSUME NEW f \in [Keys(view.card) -> Values], NEW g, g = [f EXCEPT ![k] = value]
        PROVE  /\ g \in [Keys(view.card) -> Values]
               /\ \A j \in Keys(view.card) : g[j] = IF j = k THEN value ELSE f[j]
    BY <2>1, <2>2
  <2>. QED
    BY <1>6, <1>7, <2>2
<1>9. history' \in [alone : BOOLEAN, lost : BOOLEAN, faults : Nat] /\ ~history'.alone /\ history'.lost = history.lost
  <2>1. history' = [alone |-> FALSE, lost |-> history.lost, faults |-> history.faults + 1]
    BY <1>1, <1>7
  <2>. QED
    BY <1>7, <2>1
<1>10. ServerOK'
  <2>1. server' \in [options : [Keys(view.card) -> Values], theirs : [Keys(view.card) -> Values], others : BOOLEAN]
    BY <1>6, <1>8
  <2>. QED
    BY <1>1, <1>2, <1>9, <2>1 DEF ServerOK
<1>11. PageOK(view)' /\ RequestsOK' /\ EntriesOK' /\ ClosuresOK' /\ TogglesEnd'
  BY <1>1 DEF IInv, RequestsOK, EntriesOK, ClosuresOK, TogglesEnd
<1>12. FirstOK'
  BY <1>1, <1>6 DEF IInv, FirstOK
<1>13. OneAtATime'
  BY <1>1, <1>9 DEF IInv, OneAtATime
<1>14. BoxesOK'
  <2>1. ~Calm'
    BY <1>6 DEF Calm
  <2>2. \A j \in view.card.toggles : j \in Keys(view.card) /\ server.options[j] \in {"true", "false"}
    BY DEF IInv, BoxesOK, Keys
  <2>. QED
    BY <1>1, <1>5, <1>8, <2>1, <2>2 DEF BoxesOK
<1>15. PasswordLoginStaysUnlessConfirmed'
  <2>1. "PasswordLoginEnabled" \in Keys(view.card) => "PasswordLoginEnabled" \in view.card.toggles
    BY <1>2 DEF PageOK, CardOK
  <2>. QED
    BY <1>1, <1>5, <1>8, <2>1 DEF IInv, PasswordLoginStaysUnlessConfirmed
<1>16. SecretsAreNeverErased'
  BY <1>1, <1>5, <1>8 DEF IInv, SecretsAreNeverErased, At
<1>17. UntouchedSettingsAreKept'
  BY <1>1, <1>8 DEF IInv, UntouchedSettingsAreKept
<1>. QED
  BY <1>10, <1>11, <1>12, <1>13, <1>14, <1>15, <1>16, <1>17 DEF IInv

----------------------------------------------------------------------------
(***************************************************************************)
(* The handlers the pages have in common.                                  *)
(***************************************************************************)
LEMMA PageFacts ==
    ASSUME IInv
    PROVE  /\ PageOK(view) /\ CardOK(view.at, view.card) /\ ClosureOK(view, view)
           /\ view.at \in OtherPages \cup BerryPages => ~Locks(view)
           /\ \A k \in view.card.toggles : k \in Keys(view.card)
           /\ Grows(view, view) /\ Edited(view, view)
<1>1. PageOK(view) /\ CardOK(view.at, view.card) /\ ClosureOK(view, view)
  BY DEF IInv, PageOK, ClosuresOK
<1>2. view.at \in OtherPages \cup BerryPages => ~Locks(view)
  BY <1>1 DEF CardOK, Locks
<1>. QED
  BY <1>1, <1>2 DEF Keys, Grows, Follows, Edited

\* Nothing happens.
LEMMA IdleKeeps == ASSUME IInv, Shows(view) PROVE IInv'
<1>1. Edits(view)
  BY PageFacts DEF Edits
<1>. QED
  BY <1>1, EditsKeep

LEMMA TypedValues == \A k : Typed(k) \subseteq Values \ {"undefined"}
  BY DEF Typed, Values

LEMMA TypesKeep == ASSUME IInv, NEW k, Types(k) PROVE IInv'
<1>1. PICK value \in Typed(k) : Shows([SetInput(view, k, value) EXCEPT !.touched = @ \cup {k}])
  BY DEF Types
<1>. DEFINE v == [SetInput(view, k, value) EXCEPT !.touched = @ \cup {k}]
<1>2. k \in Keys(view.card) /\ k \notin view.card.toggles /\ value \in Values /\ value # "undefined"
  BY <1>1, PageFacts, TypedValues DEF Types, PageOK
<1>3. /\ DOMAIN v = DOMAIN view /\ v.inputs = [view.inputs EXCEPT ![k] = value]
      /\ v.touched = view.touched \cup {k} /\ v.at = view.at /\ v.card = view.card /\ v.origin = view.origin
      /\ v.loaded = view.loaded /\ v.loading = view.loading /\ v.dialog = view.dialog /\ v.edits = view.edits
      /\ v.domain = view.domain /\ v.early = view.early /\ v.confirmed = view.confirmed
  BY PageFacts DEF PageOK, SetInput, SetInputs
<1>. HIDE DEF v
<1>4. /\ v.inputs \in [Keys(view.card) -> Values]
      /\ \A j \in Keys(view.card) : v.inputs[j] = IF j = k THEN value ELSE view.inputs[j]
  BY <1>2, <1>3, PageFacts DEF PageOK
<1>5. PageOK(v)
  BY <1>3, <1>4, PageFacts DEF PageOK
<1>6. Grows(view, v) /\ Edited(view, v)
  BY <1>2, <1>3, <1>4 DEF Grows, Follows, Edited
<1>7. Edits(v)
  BY <1>1, <1>3, <1>5, <1>6 DEF Edits, v
<1>. QED
  BY <1>7, EditsKeep

LEMMA WarnsKeep == ASSUME IInv, Warns, Locks(view) => ~view.loading PROVE IInv'
<1>. DEFINE v == [view EXCEPT !.dialog = TRUE]
<1>1. Shows(v) /\ "PasswordLoginEnabled" \in Keys(view.card)
  BY PageFacts DEF Warns, PageOK
<1>2. PageOK(v) /\ Grows(view, v) /\ Edited(view, v) /\ v.loading = view.loading
  BY <1>1, PageFacts DEF PageOK, Grows, Follows, Edited
<1>3. Edits(v)
  BY <1>1, <1>2 DEF Edits
<1>. QED
  BY <1>3, EditsKeep

LEMMA CancelsKeep == ASSUME IInv, Cancels PROVE IInv'
<1>. DEFINE v == [view EXCEPT !.dialog = FALSE]
<1>1. Shows(v) /\ ~v.dialog
  BY PageFacts DEF Cancels, PageOK
<1>2. PageOK(v) /\ Grows(view, v) /\ Edited(view, v) /\ v.loading = view.loading
  BY <1>1, PageFacts DEF PageOK, Grows, Follows, Edited
<1>3. Edits(v)
  BY <1>1, <1>2 DEF Edits
<1>. QED
  BY <1>3, EditsKeep

\* The list of the whitelist, and the entry to be added to it.
LEMMA DomainsKeep ==
    ASSUME IInv, NEW value,
           \/ Shows([view EXCEPT !.domains = value, !.touched = @ \cup {Whitelist}])
           \/ Shows([view EXCEPT !.domain = "new"])
    PROVE  IInv'
<1>1. PICK v : /\ Shows(v)
               /\ \/ v = [view EXCEPT !.domains = value, !.touched = @ \cup {Whitelist}]
                  \/ v = [view EXCEPT !.domain = "new"]
  OBVIOUS
<1>2. PageOK(v) /\ Grows(view, v) /\ Edited(view, v) /\ v.loading = view.loading /\ v.dialog = view.dialog
  BY <1>1, PageFacts DEF PageOK, Grows, Follows, Edited
<1>3. Edits(v)
  BY <1>1, <1>2 DEF Edits
<1>. QED
  BY <1>3, EditsKeep

LEMMA NewDomainKeeps ==
    ASSUME IInv, Whitelist \in view.edits,
           Shows([SetInput(view, Whitelist, view.domain) EXCEPT !.domain = "", !.touched = @ \cup {Whitelist}])
    PROVE  IInv'
<1>. DEFINE v == [SetInput(view, Whitelist, view.domain) EXCEPT !.domain = "", !.touched = @ \cup {Whitelist}]
<1>1. /\ Whitelist \in Keys(view.card) /\ Whitelist \notin view.card.toggles /\ Whitelist \notin Kept
      /\ view.domain \in Values
  BY PageFacts, Names DEF PageOK, CardOK, Values
<1>2. /\ DOMAIN v = DOMAIN view /\ v.inputs = [view.inputs EXCEPT ![Whitelist] = view.domain]
      /\ v.touched = view.touched \cup {Whitelist} /\ v.at = view.at /\ v.card = view.card
      /\ v.origin = view.origin /\ v.loaded = view.loaded /\ v.loading = view.loading
      /\ v.dialog = view.dialog /\ v.edits = view.edits /\ v.domain = "" /\ v.early = view.early
      /\ v.confirmed = view.confirmed
  BY PageFacts DEF PageOK, SetInput, SetInputs
<1>. HIDE DEF v
<1>3. /\ v.inputs \in [Keys(view.card) -> Values]
      /\ \A j \in Keys(view.card) : v.inputs[j] = IF j = Whitelist THEN view.domain ELSE view.inputs[j]
  BY <1>1, <1>2, PageFacts DEF PageOK
<1>4. PageOK(v)
  BY <1>2, <1>3, PageFacts DEF PageOK
<1>5. Grows(view, v) /\ Edited(view, v)
  BY <1>1, <1>2, <1>3 DEF Grows, Follows, Edited
<1>6. Edits(v)
  BY <1>2, <1>4, <1>5 DEF Edits, v
<1>. QED
  BY <1>6, EditsKeep

----------------------------------------------------------------------------
\* A single option, which no walk goes on from.
LEMMA AloneOK ==
    ASSUME NEW v, NEW key \in Keys(v.card), NEW value \in Values,
           EntryOK(v, [key |-> key, value |-> value])
    PROVE  PutOK(v, key, value, <<>>)
<1>1. <<>> \in Seq(Entries(v.card)) /\ DOMAIN <<>> = {}
  OBVIOUS
<1>2. Range(<<>>) = {}
  BY <1>1 DEF Range
<1>3. Owed([key |-> key, value |-> value, todo |-> <<>>]) = {[key |-> key, value |-> value]}
  BY <1>2 DEF Owed
<1>. QED
  BY <1>1, <1>3 DEF PutOK

\* A checkbox, in the page v that its handler leaves.
LEMMA TogglesStart ==
    ASSUME IInv, NEW k \in view.card.toggles, NEW v,
           PageOK(v), Grows(view, v), v.inputs = view.inputs, k \in v.touched,
           k = "PasswordLoginEnabled" => view.inputs[k] # "true" \/ v.confirmed,
           Locks(view) => ~v.dialog /\ (view.dialog \/ ~view.loading),
           Toggle(v, "updateOption", k)
    PROVE  IInv'
<1>. DEFINE value == IF view.inputs[k] = "true" THEN "false" ELSE "true"
            u == [v EXCEPT !.early = @ \/ ~v.loaded]
            q == [key |-> k, value |-> value]
<1>1. Puts(v, "updateOption", k, value, <<>>)
  BY DEF Toggle
<1>2. /\ u.at = view.at /\ u.card = view.card /\ u.touched = v.touched /\ u.confirmed = v.confirmed
  BY DEF PageOK, Grows, Follows
<1>3. k \in Keys(view.card) /\ k \notin Kept
  BY PageFacts DEF CardOK
<1>4. value \in {"true", "false"} /\ value \in Values /\ q.key = k /\ q.value = value
  BY DEF Values
<1>5. k = "PasswordLoginEnabled" => value = "true" \/ u.confirmed
  BY <1>2
<1>. HIDE DEF u, value, q
<1>6. EntryOK(u, q)
  BY <1>2, <1>3, <1>4, <1>5 DEF EntryOK
<1>7. PutOK(u, k, value, <<>>)
  BY <1>2, <1>3, <1>4, <1>6, AloneOK DEF q
<1>8. Starts(v, k, value, <<>>)
  BY <1>1, <1>7 DEF Starts, u
<1>. QED
  BY <1>8, StartsKeep

LEMMA TogglesKeep ==
    ASSUME IInv, NEW k, Toggles(k), k = "PasswordLoginEnabled" => view.inputs[k] # "true",
           Locks(view) => ~view.loading /\ ~view.dialog
    PROVE  IInv'
<1>. DEFINE v == [view EXCEPT !.touched = @ \cup {k}]
<1>1. k \in view.card.toggles /\ Toggle(v, "updateOption", k)
  BY DEF Toggles
<1>2. PageOK(v) /\ Grows(view, v) /\ v.inputs = view.inputs /\ k \in v.touched /\ v.dialog = view.dialog
  BY PageFacts DEF PageOK, Grows, Follows
<1>. HIDE DEF v
<1>. QED
  BY <1>1, <1>2, TogglesStart

LEMMA ConfirmsKeep == ASSUME IInv, Confirms, view.at \in SystemPages PROVE IInv'
<1>. DEFINE k == "PasswordLoginEnabled"
            v == [view EXCEPT !.dialog = FALSE, !.confirmed = TRUE, !.touched = @ \cup {k}]
<1>1. view.dialog /\ Toggle(v, "updateOption", k)
  BY DEF Confirms
<1>2. k \in view.card.toggles
  BY <1>1, PageFacts, PageNames DEF PageOK, CardOK
<1>3. /\ PageOK(v) /\ Grows(view, v) /\ v.inputs = view.inputs /\ k \in v.touched /\ ~v.dialog /\ v.confirmed
  BY PageFacts DEF PageOK, Grows, Follows
<1>. HIDE DEF v, k
<1>. QED
  BY <1>1, <1>2, <1>3, TogglesStart

LEMMA TypesAndPutsKeep ==
    ASSUME IInv, NEW k \in airPusherCard.fields, TypesAndPuts(k), view.at = AirSystem
    PROVE  IInv'
<1>. DEFINE v == [view EXCEPT !.touched = @ \cup {k}]
            u == [v EXCEPT !.early = @ \/ ~v.loaded]
<1>1. PICK value \in Typed(k) : Puts(v, "updateOption", k, value, <<>>)
  BY DEF TypesAndPuts
<1>2. k \in view.card.fields /\ k \in Keys(view.card) /\ value \in Values
  BY TypedValues DEF TypesAndPuts, Keys
<1>3. view.card = airPusherCard /\ view.card.toggles = {} /\ k # "PasswordLoginEnabled"
  BY <1>2, PageFacts, Names DEF CardOK
<1>4. PageOK(v) /\ Grows(view, v) /\ v.inputs = view.inputs
  BY PageFacts DEF PageOK, Grows, Follows
<1>5. u.at = view.at /\ u.card = view.card /\ k \in u.touched
  BY PageFacts DEF PageOK
<1>. HIDE DEF u
<1>6. EntryOK(u, [key |-> k, value |-> value])
  BY <1>3, <1>5 DEF EntryOK, Pusher
<1>7. PutOK(u, k, value, <<>>)
  BY <1>2, <1>5, <1>6, AloneOK
<1>8. Starts(v, k, value, <<>>)
  BY <1>1, <1>3, <1>4, <1>7 DEF Starts, Locks, u
<1>. QED
  BY <1>8, StartsKeep

----------------------------------------------------------------------------
(***************************************************************************)
(* A button: whatever page and closure, what it sends may be sent.         *)
(***************************************************************************)
LEMMA WalkOK ==
    ASSUME NEW v, CardOK(v.at, v.card), v.loaded \/ v.early,
           NEW c, c.inputs \in [Keys(v.card) -> Values], ClosureOK(v, c),
           NEW steps \in v.card.buttons
    PROVE  /\ Walk(c, steps) \in Seq(Entries(v.card))
           /\ \A q \in Range(Walk(c, steps)) : EntryOK(v, q) /\ q.key \notin v.card.toggles
<1>. DEFINE todo == Walk(c, steps)
            Entry(s) == [key |-> s.key,
                         value |-> IF s.as = "address" /\ c.inputs[s.key] = "new/" THEN "new" ELSE c.inputs[s.key]]
<1>1. PICK len \in Nat : DOMAIN steps = 1 .. len /\ \A i \in 1 .. len : StepOK(v.at, v.card, steps[i])
  BY DEF CardOK, ButtonOK
<1>2. \A i \in 1 .. len : steps[i] \in Steps(v.card)
  BY <1>1 DEF Steps, Range
<1>3. ASSUME NEW i \in 1 .. len, ~Skips(c, steps[i])
      PROVE  /\ Entry(steps[i]) \in Entries(v.card)
             /\ EntryOK(v, Entry(steps[i])) /\ Entry(steps[i]).key \notin v.card.toggles
  <2>. DEFINE s == steps[i]
              k == s.key
              value == IF s.as = "address" /\ c.inputs[k] = "new/" THEN "new" ELSE c.inputs[k]
              q == Entry(s)
  <2>1. StepOK(v.at, v.card, s) /\ s \in Steps(v.card)
    BY <1>1, <1>2
  <2>2. k \in v.card.fields /\ k \in Keys(v.card) /\ k \notin v.card.toggles /\ k # "PasswordLoginEnabled"
    BY <2>1 DEF StepOK, CardOK, Keys
  <2>3. /\ "same" \in s.unless => c.origin[k] # c.inputs[k]
        /\ "empty" \in s.unless => c.inputs[k] # ""
    BY <1>3 DEF Skips
  <2>4. value \in Values
    BY <2>2 DEF Values
  <2>5. q = [key |-> k, value |-> value] /\ q.key = k /\ q.value = value
    OBVIOUS
  <2>6. k \in Kept /\ ~Pusher(v) => value \notin {"", "undefined"}
    BY <2>1, <2>2, <2>3 DEF StepOK, ClosureOK
  <2>7. ~v.early /\ Eligible(v.card, k) => k \in v.touched
    BY <2>1, <2>2, <2>3 DEF StepOK, ClosureOK, Eligible
  <2>. HIDE DEF k, value, q, s, Entry
  <2>8. q \in Entries(v.card)
    BY <2>2, <2>4, <2>5 DEF Entries
  <2>9. EntryOK(v, q) /\ q.key \notin v.card.toggles
    BY <2>2, <2>5, <2>6, <2>7 DEF EntryOK
  <2>. QED
    BY <2>8, <2>9 DEF q, s
<1>4. PICK n \in Nat : Walks(todo, c, steps, n)
  BY <1>1, WalkEntries
<1>4a. /\ DOMAIN todo = 1 .. n /\ todo = [m \in 1 .. n |-> todo[m]]
       /\ \A m \in 1 .. n : \E i \in 1 .. len : ~Skips(c, steps[i]) /\ todo[m] = Entry(steps[i])
  BY <1>1, <1>4 DEF Walks, EntryOf
<1>. HIDE DEF todo, Entry
<1>5. \A m \in 1 .. n : /\ todo[m] \in Entries(v.card)
                        /\ EntryOK(v, todo[m]) /\ todo[m].key \notin v.card.toggles
  BY <1>3, <1>4a
<1>6. todo \in Seq(Entries(v.card))
  <2>1. todo \in [1 .. n -> Entries(v.card)]
    BY <1>4a, <1>5
  <2>. QED
    BY <2>1
<1>7. \A q \in Range(todo) : EntryOK(v, q) /\ q.key \notin v.card.toggles
  BY <1>4a, <1>5 DEF Range
<1>. QED
  BY <1>6, <1>7 DEF todo

LEMMA ButtonsKeep ==
    ASSUME IInv, NEW steps \in view.card.buttons, Saves(steps),
           Locks(view) => ~view.loading /\ ~view.dialog
    PROVE  IInv'
<1>. DEFINE todo == Walk(Closure, steps)
            u == [view EXCEPT !.early = @ \/ ~view.loaded]
<1>1. CASE todo = <<>>
  BY <1>1, IdleKeeps DEF Saves
<1>2. CASE todo # <<>>
  <2>1. Puts(view, "updateOption", todo[1].key, todo[1].value, Tail(todo))
    BY <1>2 DEF Saves
  <2>2. /\ u.at = view.at /\ u.card = view.card /\ u.loaded = view.loaded
        /\ u.early = (view.early \/ ~view.loaded) /\ Grows(view, u)
    BY PageFacts DEF PageOK, Grows, Follows
  <2>3. ClosureOK(u, Closure) /\ Closure.inputs \in [Keys(view.card) -> Values]
    <3>1. ClosureOK(view, Closure)
      BY PageFacts DEF ClosureOK, Closure
    <3>2. Closure.inputs \in [Keys(view.card) -> Values]
      BY PageFacts DEF PageOK, Closure
    <3>. QED
      BY <2>2, <3>1, <3>2, ClosureGrows
  <2>. HIDE DEF u
  <2>4. /\ todo \in Seq(Entries(u.card))
        /\ \A q \in Range(todo) : EntryOK(u, q) /\ q.key \notin u.card.toggles
    BY <2>2, <2>3, PageFacts, WalkOK
  <2>. HIDE DEF todo
  <2>5. PutOK(u, todo[1].key, todo[1].value, Tail(todo))
    <3>1. /\ todo[1].key \in Keys(u.card) /\ todo[1].value \in Values
          /\ Tail(todo) \in Seq(Entries(u.card))
          /\ \A q \in Owed([key |-> todo[1].key, value |-> todo[1].value, todo |-> Tail(todo)]) :
                q \in Range(todo)
          /\ \A i \in DOMAIN Tail(todo) : i + 1 \in DOMAIN todo /\ Tail(todo)[i] = todo[i + 1]
      BY <1>2, <2>4, RestOfWalk
    <3>2. 1 \in DOMAIN todo
      BY <1>2, <2>4
    <3>3. \A i \in DOMAIN todo : todo[i] \in Range(todo)
      BY DEF Range
    <3>. QED
      BY <2>4, <3>1, <3>2, <3>3 DEF PutOK
  <2>6. Starts(view, todo[1].key, todo[1].value, Tail(todo))
    BY <2>1, <2>5, PageFacts DEF Starts, u
  <2>. QED
    BY <2>6, StartsKeep
<1>. QED
  BY <1>1, <1>2

LEMMA QuestionsKeep ==
    ASSUME IInv, NEW fn \in {"deleteHistoryLogs", "checkUpdate"}, Asks(fn)
    PROVE  IInv'
<1>1. AsksFor(view, fn, "")
  BY PageFacts DEF AsksFor, Asks
<1>. QED
  BY <1>1, AsksKeep

LEMMA AnswersEnd ==
    ASSUME IInv, NEW n \in DOMAIN net, net[n].fn \notin {"updateOption"},
           ReportReturns(n) \/ (ReleaseReturns(n) /\ view.at \in OtherPages)
    PROVE  IInv'
<1>1. net[n].req # "put"
  BY DEF IInv, RequestsOK, RequestOK
<1>2. PICK v : /\ Ends(n, v)
               /\ v = view \/ (v = [view EXCEPT !.dialog = TRUE] /\ view.at \in OtherPages)
  BY DEF ReportReturns, ReleaseReturns
<1>3. view.at \in OtherPages => view.at \notin SystemPages
  BY PageNames
<1>4. /\ PageOK(v) /\ Grows(view, v) /\ Edited(view, v) /\ v.loading = view.loading
      /\ Locks(view) => v.dialog = view.dialog
  BY <1>2, <1>3, PageFacts DEF PageOK, Grows, Follows, Edited
<1>5. Stops(n, v)
  BY <1>1, <1>2, <1>4 DEF Stops
<1>. QED
  BY <1>5, StopsKeep

LEMMA RejectedKeep == ASSUME IInv, NEW n \in DOMAIN net, Rejected(n) PROVE IInv'
<1>1. /\ history' = [history EXCEPT !.lost = TRUE] /\ UNCHANGED <<view, server, calls>>
      /\ DOMAIN net' \subseteq DOMAIN net /\ \A m \in DOMAIN net' : net'[m] = net[m]
  BY DEF Rejected, Without
<1>. QED
  BY <1>1, LostKeep

LEMMA ThrowsKeep == ASSUME IInv, Throws PROVE IInv'
<1>1. /\ history' = [history EXCEPT !.lost = TRUE] /\ UNCHANGED <<view, server, calls>>
      /\ DOMAIN net' \subseteq DOMAIN net /\ \A m \in DOMAIN net' : net'[m] = net[m]
  BY DEF Throws
<1>. QED
  BY <1>1, LostKeep

----------------------------------------------------------------------------
\* Discovery: the endpoints found are written into the fields the handler holds.
LEMMA OidcKeeps == ASSUME IInv, berrySubmitOidc PROVE IInv'
<1>0. view.at = BerrySystem /\ view.card = berryOidcCard
  BY DEF berrySubmitOidc, berrySystemShown, At
<1>1. (CASE view.inputs["OidcWellKnown"] = "" -> Saves(berryOidcSteps)
           [] view.inputs["OidcWellKnown"] = "bad" -> Shows(view)
           [] OTHER -> Sends([view EXCEPT !.held = @ \cup {calls + 1}, !.early = @ \/ ~view.loaded],
                             "submitOidc", "tell", Closure))
  BY DEF berrySubmitOidc
<1>2. ~Locks(view) /\ berryOidcSteps \in view.card.buttons
  BY <1>0 DEF Locks, BerryPages, berryOidcCard, Card
<1>3. CASE Saves(berryOidcSteps)
  BY <1>2, <1>3, ButtonsKeep
<1>4. CASE Shows(view)
  BY <1>4, IdleKeeps
<1>5. CASE Sends([view EXCEPT !.held = @ \cup {calls + 1}, !.early = @ \/ ~view.loaded],
                 "submitOidc", "tell", Closure)
  <2>. DEFINE v == [view EXCEPT !.held = @ \cup {calls + 1}, !.early = @ \/ ~view.loaded]
  <2>1. /\ PageOK(v) /\ Grows(view, v) /\ v.inputs = view.inputs /\ v.loading = view.loading
        /\ v.dialog = view.dialog /\ (view.loaded \/ v.early)
    BY PageFacts DEF PageOK, Grows, Follows
  <2>. HIDE DEF v
  <2>2. AsksFor(v, "submitOidc", Closure)
    BY <1>0, <1>5, <2>1 DEF AsksFor, v
  <2>. QED
    BY <2>2, AsksKeep
<1>. QED
  BY <1>1, <1>3, <1>4, <1>5

LEMMA OidcReturnsKeep == ASSUME IInv, berrySubmitOidcReturns PROVE IInv'
<1>. DEFINE Discovered(n, f) ==
              [k \in DOMAIN f |-> IF net[n].st = "ok" /\ k \in Endpoints THEN net[n].data ELSE f[k]]
            Known(n) == [net[n].arg EXCEPT !.inputs = Discovered(n, @)]
            Now(n) == [view EXCEPT !.inputs = IF n \in view.held THEN Discovered(n, @) ELSE @,
                                   !.touched = IF net[n].st = "ok" THEN @ \cup Endpoints ELSE @]
<1>1. PICK n \in Back(BerrySystem, "submitOidc") :
        IF Walk(Known(n), berryOidcSteps) = <<>> THEN Ends(n, Now(n))
        ELSE PutsNext(n, Now(n), Walk(Known(n), berryOidcSteps))
  BY DEF berrySubmitOidcReturns
<1>. DEFINE c == Known(n)
            v == Now(n)
            todo == Walk(c, berryOidcSteps)
            arg == net[n].arg
<1>2. n \in DOMAIN net /\ net[n].fn = "submitOidc" /\ view.at = BerrySystem
  BY DEF Back
<1>3. /\ RequestOK(view.card, net[n]) /\ ClosureOK(view, arg) /\ net[n].req # "put"
      /\ view.loaded \/ view.early
  BY <1>2 DEF IInv, RequestsOK, RequestOK, ClosuresOK, FirstOK
<1>4. /\ view.card = berryOidcCard
      /\ arg \in [inputs : [Keys(view.card) -> Values], origin : [Keys(view.card) -> Values]]
      /\ net[n].st = "ok" => net[n].data \in Values
  BY <1>2, <1>3 DEF RequestOK, Values
<1>5. ~Locks(view) /\ berryOidcSteps \in view.card.buttons
  BY <1>2, <1>4 DEF Locks, BerryPages, berryOidcCard, Card
<1>6. \A k \in Endpoints : k \notin Kept /\ k \notin view.card.toggles
  BY Names, PageFacts DEF CardOK
<1>7. ASSUME NEW f \in [Keys(view.card) -> Values]
      PROVE  /\ Discovered(n, f) \in [Keys(view.card) -> Values]
             /\ \A k \in Keys(view.card) : Discovered(n, f)[k] # f[k] => net[n].st = "ok" /\ k \in Endpoints
  BY <1>4
<1>8. /\ DOMAIN v = DOMAIN view /\ v.at = view.at /\ v.card = view.card /\ v.origin = view.origin
      /\ v.loaded = view.loaded /\ v.loading = view.loading /\ v.dialog = view.dialog /\ v.edits = view.edits
      /\ v.domain = view.domain /\ v.early = view.early /\ v.confirmed = view.confirmed
      /\ v.touched = IF net[n].st = "ok" THEN view.touched \cup Endpoints ELSE view.touched
      /\ v.inputs = IF n \in view.held THEN Discovered(n, view.inputs) ELSE view.inputs
  BY PageFacts DEF PageOK
<1>9. /\ c.origin = arg.origin /\ c.inputs = Discovered(n, arg.inputs)
  BY <1>4
<1>. HIDE DEF Discovered, Known, Now, c, v
<1>10. view.inputs \in [Keys(view.card) -> Values] /\ arg.inputs \in [Keys(view.card) -> Values]
  BY <1>4, PageFacts DEF PageOK
<1>11. /\ v.inputs \in [Keys(view.card) -> Values] /\ c.inputs \in [Keys(view.card) -> Values]
       /\ \A k \in Keys(view.card) :
            /\ v.inputs[k] # view.inputs[k] => k \in Endpoints /\ k \in v.touched
            /\ c.inputs[k] # arg.inputs[k] => k \in Endpoints /\ k \in v.touched
  BY <1>7, <1>8, <1>9, <1>10
<1>12. PageOK(v) /\ Grows(view, v) /\ Edited(view, v)
  <2>1. PageOK(v)
    BY <1>8, <1>11, PageFacts DEF PageOK
  <2>2. Grows(view, v)
    BY <1>8 DEF Grows, Follows
  <2>3. Edited(view, v)
    BY <1>6, <1>11 DEF Edited
  <2>. QED
    BY <2>1, <2>2, <2>3
<1>13. ClosureOK(v, c)
  <2>1. ClosureOK(v, arg)
    BY <1>3, <1>12, ClosureGrows
  <2>. QED
    BY <1>6, <1>8, <1>9, <1>11, <2>1 DEF ClosureOK
<1>14. /\ todo \in Seq(Entries(view.card))
       /\ \A q \in Range(todo) : EntryOK(v, q) /\ q.key \notin view.card.toggles
  <2>1. CardOK(v.at, v.card) /\ (v.loaded \/ v.early)
    BY <1>3, <1>8, PageFacts
  <2>2. berryOidcSteps \in v.card.buttons /\ c.inputs \in [Keys(v.card) -> Values]
    BY <1>5, <1>8, <1>11
  <2>. QED
    BY <1>8, <1>13, <2>1, <2>2, WalkOK
<1>15. CASE todo = <<>>
  <2>1. Ends(n, v)
    BY <1>1, <1>15 DEF c, v
  <2>2. Stops(n, v)
    BY <1>2, <1>3, <1>8, <1>12, <2>1 DEF Stops
  <2>. QED
    BY <2>2, StopsKeep
<1>16. CASE todo # <<>>
  <2>1. PutsNext(n, v, todo)
    BY <1>1, <1>16 DEF c, v
  <2>2. Continues(n, v, todo)
    BY <1>2, <1>5, <1>12, <1>14, <1>16, <2>1 DEF Continues
  <2>. QED
    BY <2>2, ContinuesKeep
<1>. QED
  BY <1>15, <1>16

----------------------------------------------------------------------------
(***************************************************************************)
(* The pages, each of which has some of these handlers.                    *)
(***************************************************************************)
LEMMA PageKinds ==
    /\ DefaultSystem \in SystemPages /\ AirSystem \in SystemPages /\ BerrySystem \in SystemPages
    /\ DefaultOther \in OtherPages /\ AirOther \in OtherPages /\ BerryOther \in OtherPages
    /\ BerrySystem \in BerryPages /\ BerryOperation \in BerryPages
    /\ \A page \in {DefaultOperation, AirOperation, BerryOperation} :
          page \notin SystemPages /\ page \notin OtherPages
    /\ SystemPages \cap OtherPages = {}
  BY DEF SystemPages, OtherPages, BerryPages, DefaultSystem, AirSystem, BerrySystem, DefaultOperation,
         AirOperation, BerryOperation, DefaultOther, AirOther, BerryOther

\* What follows an await.
LEMMA OptionsBack ==
    ASSUME IInv, NEW at, NEW compares \in BOOLEAN, compares \/ at \in OtherPages,
           NEW n \in Back(at, "getOptions"), Loads(n, compares)
    PROVE  IInv'
<1>1. Arrives(n, compares)
  BY DEF Arrives, Back
<1>. QED
  BY <1>1, ArrivesKeep

LEMMA SavedBack ==
    ASSUME IInv, NEW at, NEW n \in Back(at, "updateOption"), PutReturns(n)
    PROVE  IInv'
<1>1. n \in DOMAIN net /\ net[n].fn = "updateOption" /\ net[n].st \in {"ok", "refused", "failed"}
  BY DEF Back
<1>. QED
  BY <1>1, ReturnsKeep

LEMMA ReportBack ==
    ASSUME IInv, NEW at, NEW n \in Back(at, "deleteHistoryLogs"), ReportReturns(n)
    PROVE  IInv'
<1>1. n \in DOMAIN net /\ net[n].fn # "updateOption"
  BY DEF Back
<1>. QED
  BY <1>1, AnswersEnd

LEMMA ReleaseBack ==
    ASSUME IInv, NEW at \in OtherPages, NEW n \in Back(at, "checkUpdate"), ReleaseReturns(n)
    PROVE  IInv'
<1>1. n \in DOMAIN net /\ net[n].fn # "updateOption" /\ view.at \in OtherPages
  BY DEF Back
<1>. QED
  BY <1>1, AnswersEnd

\* A checkbox of the page at, whose warning does not keep others from being saved.
LEMMA ChecksKeep ==
    ASSUME IInv, NEW k, Checks(k), Locks(view) => ~view.loading /\ ~view.dialog
    PROVE  IInv'
  BY TogglesKeep DEF Checks

LEMMA OperationToggles ==
    ASSUME IInv, NEW k, Toggles(k), view.at \notin SystemPages \cup OtherPages,
           Locks(view) => ~view.loading
    PROVE  IInv'
<1>1. "PasswordLoginEnabled" \notin Keys(view.card) /\ ~view.dialog
  BY PageFacts DEF PageOK, CardOK
<1>2. k \in Keys(view.card)
  BY PageFacts DEF Toggles
<1>. QED
  BY <1>1, <1>2, TogglesKeep

LEMMA OperationButtons ==
    ASSUME IInv, NEW steps \in view.card.buttons, Saves(steps), view.at \notin SystemPages \cup OtherPages,
           Locks(view) => ~view.loading
    PROVE  IInv'
<1>1. ~view.dialog
  BY PageFacts DEF PageOK, CardOK
<1>. QED
  BY <1>1, ButtonsKeep

LEMMA OtherButtons ==
    ASSUME IInv, NEW steps \in view.card.buttons, Saves(steps), view.at \in OtherPages
    PROVE  IInv'
<1>1. ~Locks(view)
  BY PageFacts
<1>. QED
  BY <1>1, ButtonsKeep

----------------------------------------------------------------------------
LEMMA DefaultKeeps == ASSUME IInv, DefaultNext PROVE IInv'
<1>1. CASE systemGetOptionsReturns
  BY <1>1, OptionsBack DEF systemGetOptionsReturns
<1>2. CASE systemHandleInputChange
  <2>1. CASE \E k \in view.edits \ {Whitelist} : Types(k)
    BY <2>1, TypesKeep
  <2>2. CASE SystemClicks /\ Warns
    BY <2>2, WarnsKeep DEF SystemClicks
  <2>3. CASE SystemClicks /\ \E k \in view.edits : Checks(k)
    BY <2>3, ChecksKeep DEF SystemClicks
  <2>. QED
    BY <1>2, <2>1, <2>2, <2>3 DEF systemHandleInputChange
<1>3. CASE systemFillsDomains
  BY <1>3, DomainsKeep DEF systemFillsDomains
<1>4. CASE systemWarning
  BY <1>4, ConfirmsKeep, CancelsKeep, PageKinds DEF systemWarning, At
<1>5. CASE systemSubmits
  <2>1. PICK steps \in view.card.buttons : Throws \/ Saves(steps)
    BY <1>5 DEF systemSubmits
  <2>. QED
    BY <1>5, <2>1, ThrowsKeep, ButtonsKeep DEF systemSubmits, SystemClicks
<1>6. CASE systemUpdateOptionReturns
  BY <1>6, SavedBack DEF systemUpdateOptionReturns
<1>7. CASE operationGetOptionsReturns
  BY <1>7, OptionsBack DEF operationGetOptionsReturns
<1>8. CASE operationHandleInputChange
  <2>1. CASE \E k \in view.edits : Types(k)
    BY <2>1, TypesKeep
  <2>2. CASE OperationClicks /\ \E k \in view.edits : Toggles(k)
    BY <2>2, OperationToggles, PageKinds DEF OperationClicks, At
  <2>. QED
    BY <1>8, <2>1, <2>2 DEF operationHandleInputChange
<1>9. CASE submitConfig
  BY <1>9, OperationButtons, PageKinds DEF submitConfig, OperationClicks, At
<1>10. CASE deleteHistoryLogs
  BY <1>10, QuestionsKeep DEF deleteHistoryLogs
<1>11. CASE deleteHistoryLogsReturns
  BY <1>11, ReportBack DEF deleteHistoryLogsReturns
<1>12. CASE operationUpdateOptionReturns
  BY <1>12, SavedBack DEF operationUpdateOptionReturns
<1>13. CASE otherGetOptionsReturns
  BY <1>13, OptionsBack, PageKinds DEF otherGetOptionsReturns
<1>14. CASE otherHandleInputChange
  BY <1>14, TypesKeep DEF otherHandleInputChange
<1>15. CASE otherSubmit
  BY <1>15, OtherButtons, PageKinds DEF otherSubmit, At
<1>16. CASE otherUpdateOptionReturns
  BY <1>16, SavedBack DEF otherUpdateOptionReturns
<1>17. CASE DefaultRejected
  BY <1>17, RejectedKeep DEF DefaultRejected
<1>. QED
  BY <1>1, <1>2, <1>3, <1>4, <1>5, <1>6, <1>7, <1>8, <1>9, <1>10, <1>11, <1>12, <1>13, <1>14, <1>15,
     <1>16, <1>17 DEF DefaultNext

LEMMA AirKeeps == ASSUME IInv, AirNext PROVE IInv'
<1>1. CASE airSystemGetOptionsReturns
  BY <1>1, OptionsBack DEF airSystemGetOptionsReturns
<1>2. CASE airSystemHandleInputChange
  <2>1. CASE \E k \in view.edits \ airPusherCard.fields : Types(k)
    BY <2>1, TypesKeep
  <2>2. CASE \E k \in view.edits \cap airPusherCard.fields : TypesAndPuts(k)
    BY <1>2, <2>2, TypesAndPutsKeep DEF airSystemHandleInputChange, At
  <2>3. CASE airSystemClicks /\ Warns
    BY <2>3, WarnsKeep DEF airSystemClicks
  <2>4. CASE airSystemClicks /\ \E k \in view.edits : Checks(k)
    BY <2>4, ChecksKeep DEF airSystemClicks
  <2>. QED
    BY <1>2, <2>1, <2>2, <2>3, <2>4 DEF airSystemHandleInputChange
<1>3. CASE airTypesDomain
  BY <1>3, DomainsKeep DEF airTypesDomain
<1>4. CASE airSubmitNewRestrictedDomain
  BY <1>4, NewDomainKeeps DEF airSubmitNewRestrictedDomain
<1>5. CASE airSystemWarning
  BY <1>5, ConfirmsKeep, CancelsKeep, PageKinds DEF airSystemWarning, At
<1>6. CASE airSystemSubmits
  <2>1. PICK steps \in view.card.buttons : Throws \/ Saves(steps)
    BY <1>6 DEF airSystemSubmits
  <2>. QED
    BY <1>6, <2>1, ThrowsKeep, ButtonsKeep DEF airSystemSubmits, airSystemClicks
<1>7. CASE airSystemUpdateOptionReturns
  BY <1>7, SavedBack DEF airSystemUpdateOptionReturns
<1>8. CASE airOperationGetOptionsReturns
  BY <1>8, OptionsBack DEF airOperationGetOptionsReturns
<1>9. CASE airOperationHandleInputChange
  <2>1. CASE \E k \in view.edits : Types(k)
    BY <2>1, TypesKeep
  <2>2. CASE airOperationClicks /\ \E k \in view.edits : Toggles(k)
    BY <2>2, OperationToggles, PageKinds DEF airOperationClicks, At
  <2>. QED
    BY <1>9, <2>1, <2>2 DEF airOperationHandleInputChange
<1>10. CASE airSubmitConfig
  BY <1>10, OperationButtons, PageKinds DEF airSubmitConfig, airOperationClicks, At
<1>11. CASE airDeleteHistoryLogs
  BY <1>11, QuestionsKeep DEF airDeleteHistoryLogs
<1>12. CASE airDeleteHistoryLogsReturns
  BY <1>12, ReportBack DEF airDeleteHistoryLogsReturns
<1>13. CASE airOperationUpdateOptionReturns
  BY <1>13, SavedBack DEF airOperationUpdateOptionReturns
<1>14. CASE airOtherGetOptionsReturns
  BY <1>14, OptionsBack, PageKinds DEF airOtherGetOptionsReturns
<1>15. CASE airOtherHandleInputChange
  BY <1>15, TypesKeep DEF airOtherHandleInputChange
<1>16. CASE airOtherSubmit
  BY <1>16, OtherButtons, PageKinds DEF airOtherSubmit, airOtherClicks, At
<1>17. CASE airOtherUpdateOptionReturns
  BY <1>17, SavedBack DEF airOtherUpdateOptionReturns
<1>18. CASE airCheckUpdate
  BY <1>18, QuestionsKeep DEF airCheckUpdate
<1>19. CASE airCheckUpdateReturns
  BY <1>19, ReleaseBack, PageKinds DEF airCheckUpdateReturns
<1>20. CASE airUpdateModal
  BY <1>20, CancelsKeep DEF airUpdateModal
<1>21. CASE AirRejected
  BY <1>21, RejectedKeep DEF AirRejected
<1>. QED
  BY <1>1, <1>2, <1>3, <1>4, <1>5, <1>6, <1>7, <1>8, <1>9, <1>10, <1>11, <1>12, <1>13, <1>14, <1>15,
     <1>16, <1>17, <1>18, <1>19, <1>20, <1>21 DEF AirNext

LEMMA BerryKeeps == ASSUME IInv, BerryNext PROVE IInv'
<1>1. CASE berrySystemGetOptionsReturns
  BY <1>1, OptionsBack DEF berrySystemGetOptionsReturns
<1>2. CASE berrySystemHandleInputChange
  <2>1. ~Locks(view)
    BY <1>2, PageFacts, PageKinds DEF berrySystemHandleInputChange, berrySystemShown, At
  <2>2. CASE \E k \in view.edits : Types(k)
    BY <2>2, TypesKeep
  <2>3. CASE Warns
    BY <2>1, <2>3, WarnsKeep
  <2>4. CASE \E k \in view.edits : Checks(k)
    BY <2>1, <2>4, ChecksKeep
  <2>. QED
    BY <1>2, <2>2, <2>3, <2>4 DEF berrySystemHandleInputChange
<1>3. CASE berrySystemWarning
  BY <1>3, ConfirmsKeep, CancelsKeep, PageKinds DEF berrySystemWarning, At
<1>4. CASE berrySystemSubmits
  <2>1. ~Locks(view)
    BY <1>4, PageFacts, PageKinds DEF berrySystemSubmits, berrySystemShown, At
  <2>. QED
    BY <1>4, <2>1, ButtonsKeep DEF berrySystemSubmits
<1>5. CASE berrySubmitOidc
  BY <1>5, OidcKeeps
<1>6. CASE berrySubmitOidcReturns
  BY <1>6, OidcReturnsKeep
<1>7. CASE berrySystemUpdateOptionReturns
  BY <1>7, SavedBack DEF berrySystemUpdateOptionReturns
<1>8. CASE berryOperationGetOptionsReturns
  BY <1>8, OptionsBack DEF berryOperationGetOptionsReturns
<1>9. CASE berryOperationHandleInputChange
  <2>1. ~Locks(view) /\ view.at \notin SystemPages \cup OtherPages
    BY <1>9, PageFacts, PageKinds DEF berryOperationHandleInputChange, At
  <2>2. CASE \E k \in view.edits : Types(k)
    BY <2>2, TypesKeep
  <2>3. CASE \E k \in view.edits : Toggles(k)
    BY <2>1, <2>3, OperationToggles
  <2>. QED
    BY <1>9, <2>2, <2>3 DEF berryOperationHandleInputChange
<1>10. CASE berrySubmitConfig
  <2>1. ~Locks(view) /\ view.at \notin SystemPages \cup OtherPages
    BY <1>10, PageFacts, PageKinds DEF berrySubmitConfig, At
  <2>. QED
    BY <1>10, <2>1, OperationButtons DEF berrySubmitConfig
<1>11. CASE berryDeleteHistoryLogs
  BY <1>11, QuestionsKeep DEF berryDeleteHistoryLogs
<1>12. CASE berryDeleteHistoryLogsReturns
  BY <1>12, ReportBack DEF berryDeleteHistoryLogsReturns
<1>13. CASE berryOperationUpdateOptionReturns
  BY <1>13, SavedBack DEF berryOperationUpdateOptionReturns
<1>14. CASE berryOtherGetOptionsReturns
  BY <1>14, OptionsBack, PageKinds DEF berryOtherGetOptionsReturns
<1>15. CASE berryOtherHandleInputChange
  BY <1>15, TypesKeep DEF berryOtherHandleInputChange
<1>16. CASE berryOtherSubmit
  BY <1>16, OtherButtons, PageKinds DEF berryOtherSubmit, berryOtherShown, At
<1>17. CASE berryOtherUpdateOptionReturns
  BY <1>17, SavedBack DEF berryOtherUpdateOptionReturns
<1>18. CASE berryCheckUpdate
  BY <1>18, QuestionsKeep DEF berryCheckUpdate
<1>19. CASE berryCheckUpdateReturns
  BY <1>19, ReleaseBack, PageKinds DEF berryCheckUpdateReturns
<1>20. CASE berryUpdateDialog
  BY <1>20, CancelsKeep DEF berryUpdateDialog
<1>21. CASE BerryRejected
  BY <1>21, RejectedKeep DEF BerryRejected
<1>. QED
  BY <1>1, <1>2, <1>3, <1>4, <1>5, <1>6, <1>7, <1>8, <1>9, <1>10, <1>11, <1>12, <1>13, <1>14, <1>15,
     <1>16, <1>17, <1>18, <1>19, <1>20, <1>21 DEF BerryNext

----------------------------------------------------------------------------
\* A page is opened, with nothing in its fields.
Blank == {"", "zero"}
LEMMA OpensOK ==
    ASSUME NEW page \in AllPages, NEW card, CardOK(page, card),
           NEW initial \in [Keys(card) -> Blank],
           OptionsInit(page, card, initial)
    PROVE  IInv
<1>1. /\ view.at = page /\ view.card = card /\ PageOK(view) /\ view.origin = [k \in Keys(card) |-> "undefined"]
      /\ ~view.loaded /\ \A k \in Keys(card) : view.inputs[k] \in Blank
  <2>1. PICK edits \in SUBSET Keys(card) :
          view = [at |-> page, card |-> card, inputs |-> [k \in Keys(card) |-> initial[k]],
                  origin |-> [k \in Keys(card) |-> "undefined"], loaded |-> FALSE, loading |-> FALSE,
                  domains |-> "", domain |-> "", dialog |-> FALSE, edits |-> edits, touched |-> {},
                  early |-> FALSE, confirmed |-> FALSE, held |-> {}]
    BY DEF OptionsInit, Opens
  <2>2. /\ view.at = page /\ view.card = card /\ view.inputs = [k \in Keys(card) |-> initial[k]]
        /\ view.origin = [k \in Keys(card) |-> "undefined"] /\ view.edits = edits
        /\ view.loaded = FALSE /\ view.loading = FALSE /\ view.dialog = FALSE /\ view.domain = ""
        /\ view.early = FALSE /\ view.confirmed = FALSE
        /\ DOMAIN view = {"at", "card", "inputs", "origin", "loaded", "loading", "domains", "domain",
                          "dialog", "edits", "touched", "early", "confirmed", "held"}
    BY <2>1
  <2>3. view.inputs \in [Keys(card) -> Values] /\ view.origin \in [Keys(card) -> Values]
    <3>1. \A k \in Keys(card) : initial[k] \in Values
      BY DEF Values, Blank
    <3>2. "undefined" \in Values
      BY DEF Values
    <3>3. view.inputs = [k \in Keys(card) |-> initial[k]] /\ view.origin = [k \in Keys(card) |-> "undefined"]
      BY <2>2
    <3>. QED
      BY <3>1, <3>2, <3>3, Zenon
  <2>4. PageOK(view)
    BY <2>2, <2>3 DEF PageOK
  <2>5. \A k \in Keys(card) : view.inputs[k] \in Blank
    BY <2>2, Zenon
  <2>. QED
    BY <2>2, <2>4, <2>5, Zenon
<1>2. /\ net = <<Request("getOptions", "options", "", <<>>)>> /\ calls = 1
      /\ history = [alone |-> TRUE, lost |-> FALSE, faults |-> 0]
  BY DEF OptionsInit, Opens
<1>3. /\ server \in [options : [Keys(card) -> Values], theirs : [Keys(card) -> Values], others : BOOLEAN]
      /\ server.options = server.theirs
      /\ \A k \in Keys(card) : server.options[k] # ""
      /\ \A k \in card.toggles : server.options[k] \in {"true", "false"}
  <2>1. PICK value \in {"true", "false"}, ratio \in {"old", "{}"} :
          LET options == [k \in Keys(card) |->
                            IF k \in card.toggles THEN value
                            ELSE IF AsJSON(Changed(k)) \in Steps(card) THEN ratio ELSE "old"]
          IN  server = [options |-> options, theirs |-> options, others |-> FALSE]
    BY DEF OptionsInit
  <2>. QED
    BY <2>1 DEF Values, Keys
<1>4. /\ DOMAIN net = {1} /\ net[1].fn = "getOptions" /\ net[1].req = "options" /\ net[1].st = "sent"
      /\ DOMAIN net[1] = {"fn", "req", "arg", "was", "st", "data"}
  <2>. DEFINE r == Request("getOptions", "options", "", <<>>)
  <2>1. /\ r.fn = "getOptions" /\ r.req = "options" /\ r.st = "sent"
        /\ DOMAIN r = {"fn", "req", "arg", "was", "st", "data"}
    BY DEF Request
  <2>2. net = <<r>>
    BY <1>2
  <2>. HIDE DEF r
  <2>3. Len(net) = 1 /\ net[1] = r /\ DOMAIN net = 1 .. 1
    BY <2>2
  <2>. QED
    BY <2>1, <2>3
<1>5. ServerOK /\ RequestsOK /\ EntriesOK /\ FirstOK
  <2>1. ServerOK
    <3>1. history \in [alone : BOOLEAN, lost : BOOLEAN, faults : Nat] /\ calls \in Nat /\ calls >= 1
      <4>1. calls = 1 /\ history = [alone |-> TRUE, lost |-> FALSE, faults |-> 0]
        BY <1>2
      <4>2. 0 \in Nat
        OBVIOUS
      <4>3. history \in [alone : BOOLEAN, lost : BOOLEAN, faults : Nat]
        BY <4>1, <4>2, Zenon
      <4>. QED
        BY <4>1, <4>3
    <3>2. view.card = card
      BY <1>1
    <3>3. server \in [options : [Keys(card) -> Values], theirs : [Keys(card) -> Values], others : BOOLEAN]
      BY <1>3
    <3>. QED
      BY <3>1, <3>2, <3>3 DEF ServerOK
  <2>2. RequestsOK
    <3>1. RequestOK(view.card, net[1])
      BY <1>4 DEF RequestOK
    <3>2. calls = 1 /\ DOMAIN net = {1}
      BY <1>2, <1>4
    <3>. QED
      BY <3>1, <3>2 DEF RequestsOK
  <2>3. EntriesOK
    BY <1>4 DEF EntriesOK
  <2>4. FirstOK
    BY <1>1, <1>4 DEF FirstOK
  <2>. QED
    BY <2>1, <2>2, <2>3, <2>4
<1>6. ClosuresOK
  BY <1>1, <1>4 DEF ClosuresOK, ClosureOK, Blank
<1>7. OneAtATime /\ TogglesEnd /\ BoxesOK
  BY <1>1, <1>3, <1>4 DEF OneAtATime, TogglesEnd, BoxesOK, Calm
<1>8. PasswordLoginStaysUnlessConfirmed /\ SecretsAreNeverErased /\ UntouchedSettingsAreKept
  BY <1>1, <1>3, PageNames DEF PasswordLoginStaysUnlessConfirmed, SecretsAreNeverErased,
     UntouchedSettingsAreKept, CardOK
<1>. QED
  BY <1>1, <1>5, <1>6, <1>7, <1>8 DEF IInv

LEMMA InitIInv == Init => IInv
<1>. SUFFICES ASSUME Init PROVE IInv
  OBVIOUS
<1>1. ASSUME NEW page \in AllPages, NEW card, CardOK(page, card), OptionsInit(page, card, [k \in Keys(card) |-> ""])
      PROVE  IInv
  <2>1. [k \in Keys(card) |-> ""] \in [Keys(card) -> Blank]
    BY DEF Blank
  <2>. QED
    BY <1>1, <2>1, OpensOK
<1>2. CASE DefaultInit
  <2>1. ASSUME NEW card \in SystemCards, OptionsInit(DefaultSystem, card, [k \in Keys(card) |-> systemInputs(k)])
        PROVE  IInv
    BY <2>1, <1>1, DefaultSystemCardsOK DEF AllPages, systemInputs
  <2>2. ASSUME NEW card \in OperationCards,
               OptionsInit(DefaultOperation, card,
                           [k \in Keys(card) |-> IF k \in card.toggles THEN "" ELSE operationInputs(k)])
        PROVE  IInv
    <3>. DEFINE initial == [k \in Keys(card) |-> IF k \in card.toggles THEN "" ELSE operationInputs(k)]
    <3>1. initial \in [Keys(card) -> Blank]
      BY DEF Blank, operationInputs
    <3>2. CardOK(DefaultOperation, card) /\ OptionsInit(DefaultOperation, card, initial)
      BY <2>2, DefaultOperationCardsOK
    <3>. HIDE DEF initial
    <3>. QED
      BY <3>1, <3>2, OpensOK DEF AllPages
  <2>3. ASSUME OptionsInit(DefaultOther, OtherCard, [k \in Keys(OtherCard) |-> otherInputs(k)])
        PROVE  IInv
    BY <2>3, <1>1, DefaultOtherCardOK DEF AllPages, OtherPages, otherInputs
  <2>. QED
    BY <1>2, <2>1, <2>2, <2>3 DEF DefaultInit
<1>3. CASE AirInit
  <2>1. ASSUME NEW card \in airSystemCards, OptionsInit(AirSystem, card, [k \in Keys(card) |-> airSystemInputs(k)])
        PROVE  IInv
    BY <2>1, <1>1, AirSystemCardsOK DEF AllPages, airSystemInputs
  <2>2. ASSUME NEW card \in airOperationCards,
               OptionsInit(AirOperation, card,
                           [k \in Keys(card) |-> IF k \in card.toggles THEN "" ELSE airOperationInputs(k)])
        PROVE  IInv
    <3>. DEFINE initial == [k \in Keys(card) |-> IF k \in card.toggles THEN "" ELSE airOperationInputs(k)]
    <3>1. initial \in [Keys(card) -> Blank]
      BY DEF Blank, airOperationInputs
    <3>2. CardOK(AirOperation, card) /\ OptionsInit(AirOperation, card, initial)
      BY <2>2, AirOperationCardsOK
    <3>. HIDE DEF initial
    <3>. QED
      BY <3>1, <3>2, OpensOK DEF AllPages
  <2>3. ASSUME OptionsInit(AirOther, airOtherCard, [k \in Keys(airOtherCard) |-> ""])
        PROVE  IInv
    BY <2>3, <1>1, AirOtherCardOK DEF AllPages, OtherPages
  <2>. QED
    BY <1>3, <2>1, <2>2, <2>3 DEF AirInit
<1>4. CASE BerryInit
  <2>1. ASSUME NEW card \in berrySystemCards,
               OptionsInit(BerrySystem, card, [k \in Keys(card) |-> berrySystemInputs(k)])
        PROVE  IInv
    BY <2>1, <1>1, BerrySystemCardsOK DEF AllPages, BerryPages, berrySystemInputs
  <2>2. ASSUME NEW card \in berryOperationCards,
               OptionsInit(BerryOperation, card,
                           [k \in Keys(card) |-> IF k \in card.toggles THEN "" ELSE berryOperationInputs(k)])
        PROVE  IInv
    <3>. DEFINE initial == [k \in Keys(card) |-> IF k \in card.toggles THEN "" ELSE berryOperationInputs(k)]
    <3>1. initial \in [Keys(card) -> Blank]
      BY DEF Blank, berryOperationInputs
    <3>2. CardOK(BerryOperation, card) /\ OptionsInit(BerryOperation, card, initial)
      BY <2>2, BerryOperationCardsOK
    <3>. HIDE DEF initial
    <3>. QED
      BY <3>1, <3>2, OpensOK DEF AllPages, BerryPages
  <2>3. ASSUME OptionsInit(BerryOther, berryOtherCard, [k \in Keys(berryOtherCard) |-> ""])
        PROVE  IInv
    BY <2>3, <1>1, BerryOtherCardOK DEF AllPages, OtherPages
  <2>. QED
    BY <1>4, <2>1, <2>2, <2>3 DEF BerryInit
<1>. QED
  BY <1>2, <1>3, <1>4 DEF Init

LEMMA NextIInv == IInv /\ [Next]_vars => IInv'
<1>. SUFFICES ASSUME IInv, [Next]_vars PROVE IInv'
  OBVIOUS
<1>1. CASE UNCHANGED vars
  <2>. USE <1>1 DEF vars
  <2>1. PageOK(view)' /\ ServerOK' /\ RequestsOK' /\ EntriesOK' /\ ClosuresOK'
    BY DEF IInv, ServerOK, RequestsOK, EntriesOK, ClosuresOK
  <2>2. FirstOK' /\ OneAtATime' /\ TogglesEnd'
    BY DEF IInv, FirstOK, OneAtATime, TogglesEnd
  <2>3. BoxesOK'
    BY DEF IInv, BoxesOK, Calm, UnderWay
  <2>4. PasswordLoginStaysUnlessConfirmed' /\ SecretsAreNeverErased' /\ UntouchedSettingsAreKept'
    BY DEF IInv, PasswordLoginStaysUnlessConfirmed, SecretsAreNeverErased, UntouchedSettingsAreKept, At
  <2>. QED
    BY <2>1, <2>2, <2>3, <2>4 DEF IInv
<1>. QED
  BY <1>1, DefaultKeeps, AirKeeps, BerryKeeps, ServeKeeps, ElsewhereKeeps DEF Next

LEMMA SpecIInv == Spec => []IInv
  BY InitIInv, NextIInv, PTL DEF Spec

----------------------------------------------------------------------------
(***************************************************************************)
(* An empty field of a credential leaves the credential as it is: the      *)
(* service never has nothing where it had a credential, whatever the       *)
(* reader types, whichever button is used and however the requests of      *)
(* several walks are answered, refused or lost (submitSMTP and the other   *)
(* submit functions).                                                      *)
(***************************************************************************)
THEOREM Secrets_are_never_erased == Spec => []SecretsAreNeverErased
<1>1. IInv => SecretsAreNeverErased
  BY DEF IInv
<1>. QED
  BY <1>1, SpecIInv, PTL

(***************************************************************************)
(* A button sends the fields the reader used and no other: an option that  *)
(* was not used is what the other administrators made of it.               *)
(***************************************************************************)
THEOREM Untouched_settings_are_kept == Spec => []UntouchedSettingsAreKept
<1>1. IInv => UntouchedSettingsAreKept
  BY DEF IInv
<1>. QED
  BY <1>1, SpecIInv, PTL

(***************************************************************************)
(* Password login is never disabled by a reader who did not confirm the    *)
(* warning (handleInputChange and the dialog of the three front ends).     *)
(***************************************************************************)
THEOREM Password_login_stays == Spec => []PasswordLoginStaysUnlessConfirmed
<1>1. IInv => PasswordLoginStaysUnlessConfirmed
  BY DEF IInv
<1>. QED
  BY <1>1, SpecIInv, PTL

(***************************************************************************)
(* Once the options are loaded, a checkbox that is not being saved shows   *)
(* what the service has, as long as nobody else saves options and no       *)
(* handler was lost; a reader of the berry front end must wait for each    *)
(* answer, the forms of the other two see to that themselves.              *)
(***************************************************************************)
THEOREM Checkboxes_are_true == Spec => []CheckboxesAreTrue
<1>1. IInv => CheckboxesAreTrue
  BY DEF IInv, BoxesOK, Calm, CheckboxesAreTrue, BerryPages
<1>. QED
  BY <1>1, SpecIInv, PTL
===========================================================================
