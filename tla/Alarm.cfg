CONSTANTS
  Wrap = 5
  MaxDelay = 2
  MaxGap = 2
  CountMax = 3
  Configs <- MCConfigs
  Alerts <- TwoTampersAndAlarm
  Critical = {"ALARM_TRIGGERED"}
  Cooldown = 2
  MessageRoom = 2
  HookRoom = 2
  Retries = 1
  OfflineRetries = 2
  MaxTests = 2
  Settings <- TelegramOrWebhooks
SPECIFICATION MCSpec
INVARIANTS NobodyMasksAnother
PROPERTIES KeepsThePromise EntryResolves TestIsAnswered
