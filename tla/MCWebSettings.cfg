SPECIFICATION Spec
CONSTANTS
    MaxEvents = 3
    MaxEdits = 1
    Pages = {"default SystemSetting", "default OperationSetting", "default OtherSetting",
             "air SystemSetting", "air OperationSetting", "air OtherSetting",
             "berry SystemSetting", "berry OperationSetting", "berry OtherSetting"}
INVARIANTS SecretsAreNeverErased UntouchedSettingsAreKept  PasswordLoginStaysUnlessConfirmed
CHECK_DEADLOCK FALSE
