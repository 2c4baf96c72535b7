--------------------------- MODULE MCInputDevices ---------------------------
\* Instances of InputDevices small enough to be checked: see the .cfg files.
EXTENDS InputDevices

CONSTANTS k1, k2, k3, c1, c2

\* Two keys of one code, as RETURN and EXECUTE are, and a third key.
Aliased == [k \in {k1, k2, k3} |-> IF k = k3 THEN c2 ELSE c1]

\* A key that is mapped and, among Keys, one that is not.
Single == [k \in {k1} |-> c1]

=============================================================================
