\* Two wallets, two tasks that may retry: probing moves on to the spare wallet,
\* and every recovery and every task ends.
SPECIFICATION FairSpec
CONSTANTS
    N = 2
    Tasks = {t1, t2}
    Main = main
    MaxRetries = 2
    StartNonces = {0}
INVARIANTS RecoveryExclusive NoNonceGap
PROPERTIES RecoveryEnds TaskEnds
