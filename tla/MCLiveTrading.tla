---------------------------- MODULE MCLiveTrading ----------------------------
\* One symbol, positions of up to MaxTarget shares, and what the runs let fail.
EXTENDS LiveTrading

\* Writes, reads and submits fail, aloud or in silence, orders fill in pieces, the
\* operator accepts.
LossyFaults == FaultKinds \ {"disconnect", "reject"}

\* The network and the broker fail; what the service writes is written, and a
\* resting order fills in one piece.
WholeFaults == FaultKinds \ {"pieces", "state_store", "ledger", "disk", "reject"}

\* Whatever the broker, the network, the prices and the operator do; the session
\* stays up, since nothing in the loop brings it back.
ConnectedFaults == FaultKinds \ {"disconnect", "state_store", "ledger", "disk"}

\* A write or a resync may be cut short.
AnyPoint == {"idle", "submitting", "ran", "recorded", "resolving"}
=============================================================================
