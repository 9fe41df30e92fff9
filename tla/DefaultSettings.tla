-------------------------- MODULE DefaultSettings --------------------------
(***************************************************************************)
(* The settings pages of the default front end: SystemSetting,             *)
(* OperationSetting and OtherSetting in src/web/default/src/components.    *)
(***************************************************************************)
EXTENDS OptionServer

(***************************************************************************)
(* SystemSetting: the functions of its buttons, and its cards.             *)
(***************************************************************************)
systemInputs(k) == ""

submitServerAddress == <<WithoutSlash(Always("ServerAddress"))>>
submitSMTP ==
    <<Changed("SMTPServer"), Changed("SMTPAccount"), Changed("SMTPFrom"),
      ChangedAndFilled("SMTPPort"), ChangedAndFilled("SMTPToken")>>
submitEmailDomainWhitelist == <<Save(Whitelist, {"same", "credential"})>>
submitWeChat ==
    <<WithoutSlash(Changed("WeChatServerAddress")), Changed("WeChatAccountQRCodeImageURL"),
      ChangedAndFilled("WeChatServerToken")>>
submitGitHubOAuth == <<Changed("GitHubClientId"), ChangedAndFilled("GitHubClientSecret")>>
submitLarkOAuth == <<Changed("LarkClientId"), ChangedAndFilled("LarkClientSecret")>>
submitTurnstile == <<Changed("TurnstileSiteKey"), ChangedAndFilled("TurnstileSecretKey")>>

GeneralCard == Card({"ServerAddress"}, {}, {submitServerAddress})
LoginCard ==
    Card({}, {"PasswordLoginEnabled", "PasswordRegisterEnabled", "EmailVerificationEnabled",
              "GitHubOAuthEnabled", "WeChatAuthEnabled", "RegisterEnabled", "TurnstileCheckEnabled"}, {})
EmailCard ==
    [Card({Whitelist}, {"EmailDomainRestrictionEnabled"}, {submitEmailDomainWhitelist}) EXCEPT !.reads = {"SMTPToken"}]
SMTPCard ==
    Card({"SMTPServer", "SMTPPort", "SMTPAccount", "SMTPFrom", "SMTPToken"}, {}, {submitSMTP})
GitHubCard == Card({"GitHubClientId", "GitHubClientSecret"}, {}, {submitGitHubOAuth})
LarkCard == Card({"LarkClientId", "LarkClientSecret"}, {}, {submitLarkOAuth})
WeChatCard ==
    Card({"WeChatServerAddress", "WeChatServerToken", "WeChatAccountQRCodeImageURL"}, {}, {submitWeChat})
TurnstileCard == Card({"TurnstileSiteKey", "TurnstileSecretKey"}, {}, {submitTurnstile})

SystemCards ==
    {GeneralCard, LoginCard, EmailCard, SMTPCard, GitHubCard, LarkCard, WeChatCard, TurnstileCard}

DefaultSystem == "default SystemSetting"
SystemClicks == At(DefaultSystem) /\ ~view.loading /\ ~view.dialog

systemGetOptionsReturns == \E n \in Back(DefaultSystem, "getOptions") : Loads(n, TRUE)

\* The list of the whitelist is a state of its own: no handler of this page
\* writes it to inputs, which is what submitEmailDomainWhitelist saves.
systemHandleInputChange ==
    /\ At(DefaultSystem) /\ ~view.dialog
    /\ \/ \E k \in view.edits \ {Whitelist} : Types(k)
       \/ SystemClicks /\ Warns
       \/ SystemClicks /\ \E k \in view.edits : Checks(k)

systemFillsDomains ==
    /\ SystemClicks /\ Whitelist \in view.edits
    /\ \E value \in {"old", "new"} :
        Shows([view EXCEPT !.domains = value, !.touched = @ \cup {Whitelist}])

systemWarning == At(DefaultSystem) /\ (Confirms \/ Cancels)

\* Before the options are there the whitelist is a text, which has no join.  What is
\* saved is not the list that the reader edits (domains).
systemSubmits ==
    /\ SystemClicks
    /\ \E steps \in view.card.buttons :
        IF steps = submitEmailDomainWhitelist /\ view.inputs[Whitelist] = "" THEN Throws ELSE Saves(steps)

systemUpdateOptionReturns == \E n \in Back(DefaultSystem, "updateOption") : PutReturns(n)

(***************************************************************************)
(* OperationSetting.                                                       *)
(***************************************************************************)
operationInputs(k) == IF k = "ChatLink" THEN "" ELSE "zero"

monitor == <<Changed("ChannelDisableThreshold"), Changed("QuotaRemindThreshold")>>
quota ==
    <<Changed("QuotaForNewUser"), Changed("QuotaForInvitee"), Changed("QuotaForInviter"),
      Changed("PreConsumedQuota")>>
general == <<Changed("ChatLink"), Changed("RetryTimes")>>

QuotaCard ==
    Card({"QuotaForNewUser", "PreConsumedQuota", "QuotaForInviter", "QuotaForInvitee"}, {}, {quota})
LogCard == Card({}, {"LogConsumeEnabled"}, {})
MonitorCard ==
    Card({"ChannelDisableThreshold", "QuotaRemindThreshold"},
         {"AutomaticDisableChannelEnabled", "AutomaticEnableChannelEnabled"}, {monitor})
OperationGeneralCard == Card({"ChatLink", "RetryTimes"}, {"ApproximateTokenEnabled"}, {general})
OperationCards == {QuotaCard, LogCard, MonitorCard, OperationGeneralCard}

DefaultOperation == "default OperationSetting"
OperationClicks == At(DefaultOperation) /\ ~view.loading

operationGetOptionsReturns == \E n \in Back(DefaultOperation, "getOptions") : Loads(n, TRUE)

operationHandleInputChange ==
    /\ At(DefaultOperation)
    /\ \/ \E k \in view.edits : Types(k)
       \/ OperationClicks /\ \E k \in view.edits : Toggles(k)

submitConfig == OperationClicks /\ \E steps \in view.card.buttons : Saves(steps)
deleteHistoryLogs == OperationClicks /\ view.card = LogCard /\ Asks("deleteHistoryLogs")
deleteHistoryLogsReturns == \E n \in Back(DefaultOperation, "deleteHistoryLogs") : ReportReturns(n)
operationUpdateOptionReturns == \E n \in Back(DefaultOperation, "updateOption") : PutReturns(n)

(***************************************************************************)
(* OtherSetting keeps no copy of the options: each button saves its field. *)
(* No control is bound to checkUpdate.                                     *)
(***************************************************************************)
otherInputs(k) == ""
otherSubmits ==
    {<<Always(k)>> : k \in {"Notice", "SystemName", "Theme", "Logo", "HomePageContent", "About", "Footer"}}
OtherCard ==
    Card({"Notice", "SystemName", "Theme", "Logo", "HomePageContent", "About", "Footer"}, {}, otherSubmits)

DefaultOther == "default OtherSetting"
otherGetOptionsReturns == \E n \in Back(DefaultOther, "getOptions") : Loads(n, FALSE)
otherHandleInputChange ==
    At(DefaultOther) /\ \E k \in view.edits : Types(k)
otherSubmit ==
    /\ At(DefaultOther) /\ ~view.loading
    /\ \E steps \in view.card.buttons : steps[1].key \in view.edits /\ Saves(steps)
otherUpdateOptionReturns == \E n \in Back(DefaultOther, "updateOption") : PutReturns(n)

DefaultInit ==
    \/ DefaultSystem \in Pages /\ \E card \in SystemCards :
        OptionsInit(DefaultSystem, card, [k \in Keys(card) |-> systemInputs(k)])
    \/ DefaultOperation \in Pages /\ \E card \in OperationCards :
        OptionsInit(DefaultOperation, card, [k \in Keys(card) |-> IF k \in card.toggles THEN "" ELSE operationInputs(k)])
    \/ DefaultOther \in Pages /\ OptionsInit(DefaultOther, OtherCard, [k \in Keys(OtherCard) |-> otherInputs(k)])

DefaultRejected ==
    /\ view.at \in {DefaultSystem, DefaultOperation, DefaultOther}
    /\ \E n \in DOMAIN net : Rejected(n)

DefaultNext ==
    \/ systemGetOptionsReturns \/ systemHandleInputChange \/ systemFillsDomains \/ systemWarning
    \/ systemSubmits \/ systemUpdateOptionReturns
    \/ operationGetOptionsReturns \/ operationHandleInputChange \/ submitConfig \/ deleteHistoryLogs
    \/ deleteHistoryLogsReturns \/ operationUpdateOptionReturns
    \/ otherGetOptionsReturns \/ otherHandleInputChange \/ otherSubmit \/ otherUpdateOptionReturns
    \/ DefaultRejected
=============================================================================
