----------------------------- MODULE MCLifecycle -----------------------------
EXTENDS Lifecycle, TLC

\* Sessions are interchangeable.
Symmetry == Permutations(Sessions)
=============================================================================
