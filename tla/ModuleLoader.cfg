\* Five files, each of which may be loaded several times, up to five loads.
CONSTANTS
    File <- MCFile
    Header <- MCHeader
    Nil = Nil
    MODULE_ARRAY_SIZE = 5
SPECIFICATION Spec
INVARIANTS DependenciesFirst EnteredOnce NoneForgotten
PROPERTY LoaderReturns
CHECK_DEADLOCK FALSE
