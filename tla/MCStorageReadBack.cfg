SPECIFICATION StorageSpec
CONSTANTS
  Parts = {"vault"}
  Lbas = {counter, zone, file}
  AUTH_COUNTER_LBA = counter
  counter = counter
  zone = zone
  file = file
  WipeList <- MCWipeList
  Covered = {counter, zone, file}
  Data = {content}
  AUTH_COUNTER_MAX = 2
  Machines = {1, 2}
  MaxBoots = 2
  HidDriver = FALSE
  IOErrors = {FALSE}
  ORAM_L = 2
  ORAM_Z = 1
  STASH_MAX = 2
  Used = {0, 3}
  BlockData = {0, 1}
  Zero = 0
  SNAP_BLOCKS = 3
  Sizes = {2, 3, 4}
  BUFFER = 3
  Pools = {0, 1}
  MaxWork = 1
  MaxSaves = 2
  MaxCycles = 2
  AesKeys <- MCAesKeys
  AesBlocks <- MCAesBlocks
  GcmKeys <- MCGcmKeys
  GcmTexts <- MCGcmTexts
  Changes = {"none", "tag", "ct", "aad", "shorter", "moved"}
  XTS_BLOCKS = 32
  XtsKeys <- MCXtsKeys
  Sectors <- MCSectors
  SectorLbas = {0, 12345}
  Messages <- MCMessages
  Cuts = {1, 111, 112, 127, 128, 129}
  HASH = 2
  HMAC_BLOCK = 4
  INFO_MAX = 2
  COUNTER = 4
  Salts <- MCSalts
  Infos <- MCInfos
  OkmLengths = {0, 1, 2, 3, 4, 5, 9}
  ChachaKeys <- MCChachaKeys
  Nonces <- MCNonces
  Texts <- MCTexts
PROPERTY ReadsBack
CHECK_DEADLOCK FALSE
