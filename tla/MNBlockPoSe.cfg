SPECIFICATION Spec
CONSTANTS
  MaxTxId = 9
  Outpoints <- MCOutpoints
  Addrs <- MCAddrs
  Keys <- MCKeys
  RawScore <- MCRawScore
  Txs <- PoSeTxs
  NoKey = NoKey
  CoinAmount <- MCCoinAmount
  CoinHeight <- MCCoinHeight
  nMasternodeCollateralConfirmations = 1
  nMasternodeActivationHeight = 1
  nTieredMNActivationHeight = 0
  nMNv2MigrationHeight = 0
  nProUpServCooldown = 2
  nProUpRegCooldown = 2
  nPoSeBanThreshold = 2
  nPoSeRevivalHeight = 2
  MAX_SPECIAL_TXS_PER_BLOCK = 2
  MaxHeight = 5
  MaxBlockTxs = 2
  MaxPenalty = 2
INVARIANTS
  RevivalOnTime
PROPERTIES
  RevocationHolds
