------------------------------ MODULE MCShards ------------------------------
EXTENDS Shards
=============================================================================
