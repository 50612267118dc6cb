-------------------------- MODULE MCKnowledgeStore --------------------------
EXTENDS Retrieval

\* The symbol moves down with every revision, so that no id comes back.
Lines == [v \in 1..MaxRevision |-> 10 * v]
=============================================================================
