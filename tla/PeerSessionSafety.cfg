\* Two callers competing for one stream permit; enough revisions for a
\* reconnection, so that a lease of generation 1 meets generation 2.
SPECIFICATION Spec
CONSTANTS
  Callers = {c1, c2}
  MaxStreams = 1
  Routes = {"none", "direct"}
  MaxRevision = 7
SYMMETRY CallerSymmetry
INVARIANTS
  NoLostInvalidation
  NoLostPublication
  ClosedReleasesAll
  PermitsConserved
PROPERTIES
  ImplementsContract
\* A closed session whose owner is dropped has no further step.
CHECK_DEADLOCK FALSE
