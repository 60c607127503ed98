------------------------- MODULE MCPackageArtifacts -------------------------
EXTENDS PackageArtifacts, TLC

CONSTANTS p1, p2

\* A temporary file that is left when its request is over is told apart from none
\* only while no other request is under way; and nothing is edited while both
\* requests are to write documents.
MCNext ==
  /\ Next
  /\ \A p, q \in Packagers : pc'[p] = "idle" /\ temp'[p] # NoFile => pc'[q] = "idle"
  /\ source' # source => \E p \in Packagers : ~sbom[p]

MCSpec == Init /\ [][MCNext]_vars

Symmetric == Permutations({p1, p2})
=============================================================================
