-------------------------- MODULE MCThermalExchange --------------------------
EXTENDS ThermalExchange

MCDurations == {1, 2}
============================================================================
