------------------------------ MODULE MCRetention ------------------------------
EXTENDS Retention
MCCreatorOf == [v \in Recordings |-> CHOOSE u \in Creators : TRUE]
=============================================================================
