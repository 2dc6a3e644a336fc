-------------------------- MODULE MCMessageDelivery --------------------------
EXTENDS MessageDelivery

=============================================================================
