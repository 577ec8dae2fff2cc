--------------------------- MODULE MCNimRealtime ---------------------------
\* Model values for NimRealtime; the locales are interchangeable.
EXTENDS NimRealtime, TLC

LocaleSymmetry == Permutations(Locales)
=============================================================================
