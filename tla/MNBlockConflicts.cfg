SPECIFICATION Spec
CONSTANTS
  MaxTxId = 11
  Outpoints <- MCOutpoints
  Addrs <- MCAddrs
  Keys <- MCKeys
  RawScore <- MCRawScore
  Txs <- ConflictTxs
  NoKey = NoKey
  CoinAmount <- MCCoinAmount
  CoinHeight <- MCCoinHeight
  nMasternodeCollateralConfirmations = 1
  nMasternodeActivationHeight = 1
  nTieredMNActivationHeight = 2
  nMNv2MigrationHeight = 2
  nProUpServCooldown = 2
  nProUpRegCooldown = 2
  nPoSeBanThreshold = 2
  nPoSeRevivalHeight = 2
  MAX_SPECIAL_TXS_PER_BLOCK = 2
  MaxHeight = 4
  MaxBlockTxs = 3
  MaxPenalty = 0
INVARIANTS
  TypeOK
  IndexSound
  CollateralIndexed
  CollateralUnspent
PROPERTIES
  UniquenessKept
