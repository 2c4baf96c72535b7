-------------------------- MODULE MCBitrateControl --------------------------
\* An instance of BitrateControl small enough to be checked.
EXTENDS BitrateControl

CONSTANTS s1, s2

\* Two rates, the request for an I frame, and one number on either side of it that
\* means nothing.
Numbers == {100, 200, 0, -1, -2}
MinusTwo == -2
=============================================================================
