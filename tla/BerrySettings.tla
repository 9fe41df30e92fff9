--------------------------- MODULE BerrySettings ---------------------------
(***************************************************************************)
(* The settings pages of the berry front end: SystemSetting,               *)
(* OperationSetting and OtherSetting in                                    *)
(* src/web/berry/src/views/Setting/component.  While an option is saved    *)
(* most fields are disabled, but no button and no checkbox is.             *)
(***************************************************************************)
EXTENDS OptionServer

(***************************************************************************)
(* SystemSetting.                                                          *)
(***************************************************************************)
berrySystemInputs(k) == ""

berrySubmitServerAddress == <<WithoutSlash(Always("ServerAddress"))>>
berrySubmitSMTP ==
    <<Changed("SMTPServer"), Changed("SMTPAccount"), Changed("SMTPFrom"),
      ChangedAndFilled("SMTPPort"), ChangedAndFilled("SMTPToken")>>
berrySubmitEmailDomainWhitelist == <<Always(Whitelist)>>
berrySubmitWeChat ==
    <<WithoutSlash(Changed("WeChatServerAddress")), Changed("WeChatAccountQRCodeImageURL"),
      ChangedAndFilled("WeChatServerToken")>>
berrySubmitGitHubOAuth == <<Changed("GitHubClientId"), ChangedAndFilled("GitHubClientSecret")>>
berrySubmitTurnstile == <<Changed("TurnstileSiteKey"), ChangedAndFilled("TurnstileSecretKey")>>
berrySubmitMessagePusher ==
    <<WithoutSlash(Changed("MessagePusherAddress")), ChangedAndFilled("MessagePusherToken")>>
berrySubmitLarkOAuth == <<Changed("LarkClientId"), ChangedAndFilled("LarkClientSecret")>>
Endpoints == {"OidcAuthorizationEndpoint", "OidcTokenEndpoint", "OidcUserinfoEndpoint"}
berryOidcSteps ==
    <<Changed("OidcWellKnown"), Changed("OidcClientId"), ChangedAndFilled("OidcClientSecret"),
      Changed("OidcAuthorizationEndpoint"), Changed("OidcTokenEndpoint"), Changed("OidcUserinfoEndpoint")>>

berryGeneralCard == Card({"ServerAddress"}, {}, {berrySubmitServerAddress})
berryLoginCard ==
    Card({}, {"PasswordLoginEnabled", "PasswordRegisterEnabled", "EmailVerificationEnabled",
              "GitHubOAuthEnabled", "OidcEnabled", "WeChatAuthEnabled", "RegisterEnabled",
              "TurnstileCheckEnabled"}, {})
berryEmailCard == Card({Whitelist}, {"EmailDomainRestrictionEnabled"}, {berrySubmitEmailDomainWhitelist})
berrySMTPCard ==
    Card({"SMTPServer", "SMTPPort", "SMTPAccount", "SMTPFrom", "SMTPToken"}, {}, {berrySubmitSMTP})
berryGitHubCard == Card({"GitHubClientId", "GitHubClientSecret"}, {}, {berrySubmitGitHubOAuth})
berryLarkCard == Card({"LarkClientId", "LarkClientSecret"}, {}, {berrySubmitLarkOAuth})
berryWeChatCard ==
    Card({"WeChatServerAddress", "WeChatServerToken", "WeChatAccountQRCodeImageURL"}, {}, {berrySubmitWeChat})
berryOidcCard ==
    Card({"OidcClientId", "OidcClientSecret", "OidcWellKnown"} \cup Endpoints, {}, {berryOidcSteps})
berryPusherCard == Card({"MessagePusherAddress", "MessagePusherToken"}, {}, {berrySubmitMessagePusher})
berryTurnstileCard == Card({"TurnstileSiteKey", "TurnstileSecretKey"}, {}, {berrySubmitTurnstile})

berrySystemCards ==
    {berryGeneralCard, berryLoginCard, berryEmailCard, berrySMTPCard, berryGitHubCard, berryLarkCard,
     berryWeChatCard, berryOidcCard, berryPusherCard, berryTurnstileCard}

BerrySystem == "berry SystemSetting"
berrySystemShown == At(BerrySystem) /\ ~view.dialog

berrySystemGetOptionsReturns == \E n \in Back(BerrySystem, "getOptions") : Loads(n, TRUE)

\* The list of the whitelist is the only field that is not disabled while an option is saved.
berrySystemHandleInputChange ==
    /\ berrySystemShown
    /\ \/ \E k \in view.edits : (k = Whitelist \/ ~view.loading) /\ Types(k)
       \/ Warns
       \/ \E k \in view.edits : Checks(k)

berrySystemWarning == At(BerrySystem) /\ (Confirms \/ Cancels)

berrySystemSubmits ==
    /\ berrySystemShown
    /\ \E steps \in view.card.buttons \ {berryOidcSteps} : Saves(steps)

\* The address of the provider's discovery document is read first: the handler
\* holds the object of the fields, and writes what it finds into it.
berrySubmitOidc ==
    /\ berrySystemShown /\ view.card = berryOidcCard
    /\ CASE view.inputs["OidcWellKnown"] = "" -> Saves(berryOidcSteps)
         [] view.inputs["OidcWellKnown"] = "bad" -> Shows(view)
         [] OTHER -> Sends([view EXCEPT !.held = @ \cup {calls + 1}, !.early = @ \/ ~view.loaded],
                           "submitOidc", "tell", Closure)

berrySubmitOidcReturns ==
    \E n \in Back(BerrySystem, "submitOidc") :
        LET found == net[n].st = "ok"
            Discovered(f) == [k \in DOMAIN f |-> IF found /\ k \in Endpoints THEN net[n].data ELSE f[k]]
            c == [net[n].arg EXCEPT !.inputs = Discovered(@)]
            v == [view EXCEPT !.inputs = IF n \in view.held THEN Discovered(@) ELSE @,
                              !.touched = IF found THEN @ \cup Endpoints ELSE @]
            todo == Walk(c, berryOidcSteps)
        IN  IF todo = <<>> THEN Ends(n, v) ELSE PutsNext(n, v, todo)

berrySystemUpdateOptionReturns == \E n \in Back(BerrySystem, "updateOption") : PutReturns(n)

(***************************************************************************)
(* OperationSetting.                                                       *)
(***************************************************************************)
berryRatios == {"ModelRatio", "CompletionRatio", "GroupRatio"}
berryOperationInputs(k) == IF k \in {"TopUpLink", "ChatLink"} \cup berryRatios THEN "" ELSE "zero"

berryMonitor == <<Changed("ChannelDisableThreshold"), Changed("QuotaRemindThreshold")>>
berryRatio == <<AsJSON(Changed("ModelRatio")), AsJSON(Changed("GroupRatio")), AsJSON(Changed("CompletionRatio"))>>
berryQuota ==
    <<Changed("QuotaForNewUser"), Changed("QuotaForInvitee"), Changed("QuotaForInviter"),
      Changed("PreConsumedQuota")>>
berryGeneral == <<Changed("TopUpLink"), Changed("ChatLink"), Changed("QuotaPerUnit"), Changed("RetryTimes")>>

berryOperationGeneralCard ==
    Card({"TopUpLink", "ChatLink", "QuotaPerUnit", "RetryTimes"},
         {"DisplayInCurrencyEnabled", "DisplayTokenStatEnabled", "ApproximateTokenEnabled"}, {berryGeneral})
berryLogCard == Card({}, {"LogConsumeEnabled"}, {})
berryMonitorCard ==
    Card({"ChannelDisableThreshold", "QuotaRemindThreshold"},
         {"AutomaticDisableChannelEnabled", "AutomaticEnableChannelEnabled"}, {berryMonitor})
berryQuotaCard ==
    Card({"QuotaForNewUser", "PreConsumedQuota", "QuotaForInviter", "QuotaForInvitee"}, {}, {berryQuota})
berryRatioCard == Card(berryRatios, {}, {berryRatio})
berryOperationCards ==
    {berryOperationGeneralCard, berryLogCard, berryMonitorCard, berryQuotaCard, berryRatioCard}

BerryOperation == "berry OperationSetting"

berryOperationGetOptionsReturns == \E n \in Back(BerryOperation, "getOptions") : Loads(n, TRUE)

berryOperationHandleInputChange ==
    /\ At(BerryOperation)
    /\ \/ \E k \in view.edits : (k \in berryRatios \/ ~view.loading) /\ Types(k)
       \/ \E k \in view.edits : Toggles(k)

berrySubmitConfig == At(BerryOperation) /\ \E steps \in view.card.buttons : Saves(steps)
berryDeleteHistoryLogs == At(BerryOperation) /\ view.card = berryLogCard /\ Asks("deleteHistoryLogs")
berryDeleteHistoryLogsReturns == \E n \in Back(BerryOperation, "deleteHistoryLogs") : ReportReturns(n)
berryOperationUpdateOptionReturns == \E n \in Back(BerryOperation, "updateOption") : PutReturns(n)

(***************************************************************************)
(* OtherSetting keeps no copy of the options: each button saves its field. *)
(***************************************************************************)
berryOtherDisabled == {"SystemName", "Theme", "Logo"}
berryOtherFields == berryOtherDisabled \cup {"Footer", "Notice", "About", "HomePageContent"}
berryOtherSubmits == {<<Always(k)>> : k \in berryOtherFields}
berryOtherCard == Card(berryOtherFields, {}, berryOtherSubmits)

BerryOther == "berry OtherSetting"
berryOtherShown == At(BerryOther) /\ ~view.dialog
berryOtherGetOptionsReturns == \E n \in Back(BerryOther, "getOptions") : Loads(n, FALSE)
berryOtherHandleInputChange ==
    berryOtherShown /\ \E k \in view.edits : (k \notin berryOtherDisabled \/ ~view.loading) /\ Types(k)
berryOtherSubmit ==
    berryOtherShown /\ \E steps \in view.card.buttons : steps[1].key \in view.edits /\ Saves(steps)
berryOtherUpdateOptionReturns == \E n \in Back(BerryOther, "updateOption") : PutReturns(n)
berryCheckUpdate == berryOtherShown /\ Asks("checkUpdate")
berryCheckUpdateReturns == \E n \in Back(BerryOther, "checkUpdate") : ReleaseReturns(n)
berryUpdateDialog == At(BerryOther) /\ Cancels

BerryInit ==
    \/ BerrySystem \in Pages /\ \E card \in berrySystemCards :
        OptionsInit(BerrySystem, card, [k \in Keys(card) |-> berrySystemInputs(k)])
    \/ BerryOperation \in Pages /\ \E card \in berryOperationCards :
        OptionsInit(BerryOperation, card,
                    [k \in Keys(card) |-> IF k \in card.toggles THEN "" ELSE berryOperationInputs(k)])
    \/ BerryOther \in Pages /\ OptionsInit(BerryOther, berryOtherCard, [k \in Keys(berryOtherCard) |-> ""])

BerryRejected ==
    /\ view.at \in {BerrySystem, BerryOperation, BerryOther}
    /\ \E n \in DOMAIN net : net[n].fn # "submitOidc" /\ Rejected(n)

BerryNext ==
    \/ berrySystemGetOptionsReturns \/ berrySystemHandleInputChange \/ berrySystemWarning
    \/ berrySystemSubmits \/ berrySubmitOidc \/ berrySubmitOidcReturns \/ berrySystemUpdateOptionReturns
    \/ berryOperationGetOptionsReturns \/ berryOperationHandleInputChange \/ berrySubmitConfig
    \/ berryDeleteHistoryLogs \/ berryDeleteHistoryLogsReturns \/ berryOperationUpdateOptionReturns
    \/ berryOtherGetOptionsReturns \/ berryOtherHandleInputChange \/ berryOtherSubmit
    \/ berryOtherUpdateOptionReturns \/ berryCheckUpdate \/ berryCheckUpdateReturns \/ berryUpdateDialog
    \/ BerryRejected
=============================================================================
