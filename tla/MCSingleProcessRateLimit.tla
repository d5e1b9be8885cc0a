---------------------- MODULE MCSingleProcessRateLimit ----------------------
EXTENDS SingleProcessRateLimit, TLC

CONSTANTS short, long

MCKeys == {short, long}
MCLimit == short :> 1 @@ long :> 2
MCWindow == short :> 2 @@ long :> 3

=============================================================================
