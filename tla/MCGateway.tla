----------------------------- MODULE MCGateway -----------------------------
EXTENDS Gateway

CONSTANTS validating, mutating

Admission == <<validating, mutating>>
=============================================================================
