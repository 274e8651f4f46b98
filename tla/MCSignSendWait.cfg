CONSTANTS
    N = 4
    Signers = {"SolanaSendSigner", "SolanaSigner", "EvmNativeSigner", "CeloSigner", "SuiSigner"}
    MaxResubmits = 2
SPECIFICATION FairSpec
INVARIANT TypeOK LastIsLast
PROPERTY ImplementsOrder Settles
\* a submission ends
CHECK_DEADLOCK FALSE
