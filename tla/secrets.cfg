SPECIFICATION FairSpec
CONSTANTS
  a1 = a1
  a2 = a2
  b1 = b1
  Account <- MCAccount
  Vault <- MCVault
  Thread = {t1, t2}
  Timeout = 2
  Patience = {TRUE, FALSE}
  MaxStarts = 6
  HastyStarts = 4
  None = None
  Empty = Empty
  Text = Text
  Foreign = Foreign
INVARIANTS SecretsTimed PanelShowsOwn
PROPERTY SecretsEnd
