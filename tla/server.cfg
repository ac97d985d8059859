CONSTANTS
    Origin <- Senders
    Port = {1, 2}
    Hash = {h1}
    MyId = 0
    TOKEN_VALID_SECONDS = 2
    MaxTime = 2
    MaxBoot = 1
    MaxTokens = 2
SPECIFICATION SSpec
INVARIANT STypeOK
INVARIANT StoreIntact
PROPERTY AnnounceAuthorised
