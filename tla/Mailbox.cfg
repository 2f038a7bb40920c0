CONSTANTS
    Claim = {c1}
    Upload = {u1}
    Request = {r1, r2}
    Token = {t1}
    None = None
    MaxTtl = 1
    MaxDownloadsCap = 2
    MaxBlob = 1
    Grace = 2
    UploadIdle = 2
    CommittedGrace = 1
    MaxOpenUploads = 1
    MaxStall = 1
    MaxWait = 1
    MaxWalk = 0
    MaxCrashes = 1
SPECIFICATION FairSpec
INVARIANTS  DownloadsAccounted GuardHolds
PROPERTIES LeavesForAReason OffsetNeverShrinks StorageFreed
