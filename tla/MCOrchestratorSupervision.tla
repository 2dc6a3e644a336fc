---------------------- MODULE MCOrchestratorSupervision ----------------------
EXTENDS OrchestratorSupervision, TLC

=============================================================================
