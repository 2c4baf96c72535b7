-------------------------- MODULE MCCommandStream --------------------------
\* Instances of CommandStream small enough to be checked: see the .cfg files.
EXTENDS CommandStream

\* One answer whose length fits into a byte, and one whose length does not.
TwoSdps == <<1, 3>>

=============================================================================
