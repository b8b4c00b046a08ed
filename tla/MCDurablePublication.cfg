\* A killed publication is resumed; what is on the disk then?
CONSTANTS
  v1 = v1
  v2 = v2
  v2x = v2x
  Releases <- MCReleases
  Version <- MCVersion
  Attempts = {a1, a2}
  NULL = NULL
  PowerLossAfterKill = FALSE
SPECIFICATION Spec
SYMMETRY Interchangeable
INVARIANT JournalOutlivesPublication
