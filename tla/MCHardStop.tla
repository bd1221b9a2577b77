------------------------------ MODULE MCHardStop ------------------------------
\* A NAV at its peak, one in a MEDIUM drawdown and one in a KILL drawdown.
EXTENDS HardStop

MCNavs == {16, 18, 20}
=============================================================================
