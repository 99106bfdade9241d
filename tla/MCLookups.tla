------------------------------ MODULE MCLookups ------------------------------
EXTENDS LookupsProperties

CONSTANTS home

AtHome == [a \in Addresses |-> home]
=============================================================================
