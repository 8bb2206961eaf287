--------------------------- MODULE MCOutboxRelay ---------------------------
EXTENDS OutboxRelay

=============================================================================
