----------------------------- MODULE MCRelease ------------------------------
\* Three processes at a time, among them a build whose runtime is embedded while
\* another fails.
EXTENDS ReleaseProperties, TLC

MCBuilders == Permutations(Builders)
=============================================================================
