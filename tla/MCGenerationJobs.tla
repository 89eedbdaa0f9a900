-------------------------- MODULE MCGenerationJobs --------------------------
\* The generation-job engine on small instances, for TLC.
EXTENDS GenerationJobs, TLC

\* Workers are interchangeable.  Only for runs without liveness properties.
WorkerSymmetry == Permutations(Workers)
=============================================================================
