---------------------------- MODULE AirSettings ----------------------------
(***************************************************************************)
(* The settings pages of the air front end: SystemSetting,                 *)
(* OperationSetting and OtherSetting in src/web/air/src/components.        *)
(***************************************************************************)
EXTENDS OptionServer

(***************************************************************************)
(* SystemSetting.                                                          *)
(***************************************************************************)
airSystemInputs(k) == ""

airSubmitServerAddress == <<WithoutSlash(Always("ServerAddress"))>>
airSubmitSMTP ==
    <<Changed("SMTPServer"), Changed("SMTPAccount"), Changed("SMTPFrom"),
      ChangedAndFilled("SMTPPort"), ChangedAndFilled("SMTPToken")>>
airSubmitEmailDomainWhitelist == <<Save(Whitelist, {"same", "credential"})>>
airSubmitWeChat ==
    <<WithoutSlash(Changed("WeChatServerAddress")), Changed("WeChatAccountQRCodeImageURL"),
      ChangedAndFilled("WeChatServerToken")>>
airSubmitMessagePusher ==
    <<WithoutSlash(Changed("MessagePusherAddress")), ChangedAndFilled("MessagePusherToken")>>
airSubmitGitHubOAuth == <<Changed("GitHubClientId"), ChangedAndFilled("GitHubClientSecret")>>
airSubmitTurnstile == <<Changed("TurnstileSiteKey"), ChangedAndFilled("TurnstileSecretKey")>>

airGeneralCard == Card({"ServerAddress"}, {}, {airSubmitServerAddress})
airLoginCard ==
    Card({}, {"PasswordLoginEnabled", "PasswordRegisterEnabled", "EmailVerificationEnabled",
              "GitHubOAuthEnabled", "WeChatAuthEnabled", "RegisterEnabled", "TurnstileCheckEnabled"}, {})
airEmailCard ==
    [Card({Whitelist}, {"EmailDomainRestrictionEnabled"}, {airSubmitEmailDomainWhitelist})
        EXCEPT !.reads = {"SMTPToken"}]
airSMTPCard ==
    Card({"SMTPServer", "SMTPPort", "SMTPAccount", "SMTPFrom", "SMTPToken"}, {}, {airSubmitSMTP})
airGitHubCard == Card({"GitHubClientId", "GitHubClientSecret"}, {}, {airSubmitGitHubOAuth})
airWeChatCard ==
    Card({"WeChatServerAddress", "WeChatServerToken", "WeChatAccountQRCodeImageURL"}, {}, {airSubmitWeChat})
airPusherCard == Card({"MessagePusherAddress", "MessagePusherToken"}, {}, {airSubmitMessagePusher})
airTurnstileCard == Card({"TurnstileSiteKey", "TurnstileSecretKey"}, {}, {airSubmitTurnstile})

airSystemCards ==
    {airGeneralCard, airLoginCard, airEmailCard, airSMTPCard, airGitHubCard, airWeChatCard,
     airPusherCard, airTurnstileCard}

AirSystem == "air SystemSetting"
airSystemClicks == At(AirSystem) /\ ~view.loading /\ ~view.dialog

airSystemGetOptionsReturns == \E n \in Back(AirSystem, "getOptions") : Loads(n, TRUE)

\* The fields of the message pusher are missing among those that are only typed,
\* so each key the reader presses there saves the option.
airSystemHandleInputChange ==
    /\ At(AirSystem) /\ ~view.dialog
    /\ \/ \E k \in view.edits \ airPusherCard.fields : Types(k)
       \/ \E k \in view.edits \cap airPusherCard.fields : TypesAndPuts(k)
       \/ airSystemClicks /\ Warns
       \/ airSystemClicks /\ \E k \in view.edits : Checks(k)

airTypesDomain ==
    /\ At(AirSystem) /\ Whitelist \in view.edits /\ view.domain = ""
    /\ Shows([view EXCEPT !.domain = "new"])

airSubmitNewRestrictedDomain ==
    /\ At(AirSystem) /\ Whitelist \in view.edits
    /\ view.domain # "" /\ view.inputs[Whitelist] # view.domain
    /\ Shows([SetInput(view, Whitelist, view.domain) EXCEPT !.domain = "", !.touched = @ \cup {Whitelist}])

airSystemWarning == At(AirSystem) /\ (Confirms \/ Cancels)

\* Before the options are there the whitelist is a text, which has no join.
airSystemSubmits ==
    /\ airSystemClicks
    /\ \E steps \in view.card.buttons :
        IF steps = airSubmitEmailDomainWhitelist /\ view.inputs[Whitelist] = ""
        THEN Throws ELSE Saves(steps)

airSystemUpdateOptionReturns == \E n \in Back(AirSystem, "updateOption") : PutReturns(n)

(***************************************************************************)
(* OperationSetting.                                                       *)
(***************************************************************************)
airRatios == {"ModelRatio", "CompletionRatio", "GroupRatio"}
airOperationInputs(k) == IF k \in {"TopUpLink", "ChatLink"} \cup airRatios THEN "" ELSE "zero"

airMonitor == <<Changed("ChannelDisableThreshold"), Changed("QuotaRemindThreshold")>>
airRatio == <<AsJSON(Changed("ModelRatio")), AsJSON(Changed("GroupRatio")), AsJSON(Changed("CompletionRatio"))>>
airQuota ==
    <<Changed("QuotaForNewUser"), Changed("QuotaForInvitee"), Changed("QuotaForInviter"),
      Changed("PreConsumedQuota")>>
airGeneral == <<Changed("TopUpLink"), Changed("ChatLink"), Changed("QuotaPerUnit"), Changed("RetryTimes")>>

airOperationGeneralCard ==
    Card({"TopUpLink", "ChatLink", "QuotaPerUnit", "RetryTimes"},
         {"DisplayInCurrencyEnabled", "DisplayTokenStatEnabled", "ApproximateTokenEnabled"}, {airGeneral})
airLogCard == Card({}, {"LogConsumeEnabled"}, {})
airMonitorCard ==
    Card({"ChannelDisableThreshold", "QuotaRemindThreshold"},
         {"AutomaticDisableChannelEnabled", "AutomaticEnableChannelEnabled"}, {airMonitor})
airQuotaCard ==
    Card({"QuotaForNewUser", "PreConsumedQuota", "QuotaForInviter", "QuotaForInvitee"}, {}, {airQuota})
airRatioCard == Card(airRatios, {}, {airRatio})
airOperationCards == {airOperationGeneralCard, airLogCard, airMonitorCard, airQuotaCard, airRatioCard}

AirOperation == "air OperationSetting"
airOperationClicks == At(AirOperation) /\ ~view.loading

airOperationGetOptionsReturns == \E n \in Back(AirOperation, "getOptions") : Loads(n, TRUE)

airOperationHandleInputChange ==
    /\ At(AirOperation)
    /\ \/ \E k \in view.edits : Types(k)
       \/ airOperationClicks /\ \E k \in view.edits : Toggles(k)

airSubmitConfig == airOperationClicks /\ \E steps \in view.card.buttons : Saves(steps)
airDeleteHistoryLogs == airOperationClicks /\ view.card = airLogCard /\ Asks("deleteHistoryLogs")
airDeleteHistoryLogsReturns == \E n \in Back(AirOperation, "deleteHistoryLogs") : ReportReturns(n)
airOperationUpdateOptionReturns == \E n \in Back(AirOperation, "updateOption") : PutReturns(n)

(***************************************************************************)
(* OtherSetting keeps no copy of the options: each button saves its field. *)
(***************************************************************************)
airOtherFields == {"Footer", "Notice", "About", "SystemName", "Logo", "HomePageContent", "Theme"}
airOtherSubmits == {<<Always(k)>> : k \in airOtherFields}
airOtherCard == Card(airOtherFields, {}, airOtherSubmits)

AirOther == "air OtherSetting"
airOtherClicks == At(AirOther) /\ ~view.loading /\ ~view.dialog
airOtherGetOptionsReturns == \E n \in Back(AirOther, "getOptions") : Loads(n, FALSE)
airOtherHandleInputChange == At(AirOther) /\ ~view.dialog /\ \E k \in view.edits : Types(k)
airOtherSubmit ==
    airOtherClicks /\ \E steps \in view.card.buttons : steps[1].key \in view.edits /\ Saves(steps)
airOtherUpdateOptionReturns == \E n \in Back(AirOther, "updateOption") : PutReturns(n)
airCheckUpdate == airOtherClicks /\ Asks("checkUpdate")
airCheckUpdateReturns == \E n \in Back(AirOther, "checkUpdate") : ReleaseReturns(n)
airUpdateModal == At(AirOther) /\ Cancels

AirInit ==
    \/ AirSystem \in Pages /\ \E card \in airSystemCards :
        OptionsInit(AirSystem, card, [k \in Keys(card) |-> airSystemInputs(k)])
    \/ AirOperation \in Pages /\ \E card \in airOperationCards :
        OptionsInit(AirOperation, card, [k \in Keys(card) |-> IF k \in card.toggles THEN "" ELSE airOperationInputs(k)])
    \/ AirOther \in Pages /\ OptionsInit(AirOther, airOtherCard, [k \in Keys(airOtherCard) |-> ""])

AirRejected ==
    /\ view.at \in {AirSystem, AirOperation, AirOther}
    /\ \E n \in DOMAIN net : Rejected(n)

AirNext ==
    \/ airSystemGetOptionsReturns \/ airSystemHandleInputChange \/ airTypesDomain
    \/ airSubmitNewRestrictedDomain \/ airSystemWarning \/ airSystemSubmits \/ airSystemUpdateOptionReturns
    \/ airOperationGetOptionsReturns \/ airOperationHandleInputChange \/ airSubmitConfig
    \/ airDeleteHistoryLogs \/ airDeleteHistoryLogsReturns \/ airOperationUpdateOptionReturns
    \/ airOtherGetOptionsReturns \/ airOtherHandleInputChange \/ airOtherSubmit
    \/ airOtherUpdateOptionReturns \/ airCheckUpdate \/ airCheckUpdateReturns \/ airUpdateModal
    \/ AirRejected
=============================================================================
