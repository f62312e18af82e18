SPECIFICATION Spec
CONSTANTS
  acct1 = acct1
  acct2 = acct2
  priv1 = priv1
  priv2 = priv2
  pub1 = pub1
  pub2 = pub2
  host1 = host1
  host2 = host2
  rel = rel
  NULL = NULL
  Arn <- Arns
  Zone <- Zones
  Account <- Accounts
  PrivateIP <- PrivateIPs
  PublicIP <- PublicIPs
  Hostname <- Hostnames
  InPrivateNetwork <- InNetwork
  Related = {rel}
  ChangeType <- Types
  SpellsAdded <- AddedTypes
  Requests <- OneHostname
  MaxStored = 3
INVARIANTS TypeOK AddedIsFound TakenBackIsGone
PROPERTY OtherResourcesUntouched
CHECK_DEADLOCK FALSE
