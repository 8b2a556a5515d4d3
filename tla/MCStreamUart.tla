---------------------------- MODULE MCStreamUart ---------------------------
EXTENDS StreamUart

\* Much to receive with nothing to send, or much to send and little to receive.
MCMaxBreaks == 0 :> 3 @@ 1 :> 1 @@ 2 :> 0
\* Only to receive, enough to lock.
MCManyBreaks == 0 :> 4
\* Only to send.
MCNoBreaks == 0 :> 0 @@ 1 :> 0 @@ 2 :> 0
=============================================================================
