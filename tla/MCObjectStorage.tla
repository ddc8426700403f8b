-------------------------- MODULE MCObjectStorage ---------------------------
EXTENDS ObjectStorage, TLC

\* The callers differ in nothing but their names.
CallerSymmetry == Permutations(Callers)

\* For each provider a store as documented under a budget of two attempts, and one that is given
\* no attempts, may create no container and drops the start of a listing; on S3 and Azure the
\* latter also holds an object of another codec.
MCConfig(p, attempts, isCreationAllowed) ==
    CASE p = "memory" -> [provider |-> p]
      [] p = "gcs" -> [provider |-> p, maxAttempts |-> attempts, isCreationAllowed |-> isCreationAllowed,
                       hasProject |-> isCreationAllowed, pageSize |-> 1, batchSize |-> 1]
      [] OTHER -> [provider |-> p, maxAttempts |-> attempts, isCreationAllowed |-> isCreationAllowed,
                   pageSize |-> 1, batchSize |-> IF p = "s3" THEN 2 ELSE 1]

MCSetups ==
    {[config |-> MCConfig(p, 2, TRUE), isBoundKept |-> TRUE, isForeign |-> FALSE] :
        p \in Providers \cup {"memory"}}
    \cup {[config |-> MCConfig(p, 0, FALSE), isBoundKept |-> FALSE, isForeign |-> p # "gcs"] :
        p \in Providers}
=============================================================================
