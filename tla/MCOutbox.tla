------------------------------ MODULE MCOutbox ------------------------------
\* One worker and the desk.
EXTENDS Outbox
CONSTANTS w1
Workers == {w1}
=============================================================================
