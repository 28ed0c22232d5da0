SPECIFICATION Spec
CONSTANTS
    a1 = a1  a2 = a2  a3 = a3  f2 = f2  b1 = b1  b2 = b2  x3 = x3
    A = A  B = B  n1 = n1  n2 = n2  Nil = Nil
    Messages = {a1, a2, a3, f2, b1, x3}
    Verified = {a1, a2, a3, f2, b1}
    Authors = {A, B}
    Names = {n1, n2}
    Author <- MCAuthor
    Sequence <- MCSequence
    Previous <- MCPrevious
    TangleDeps <- MCTangleDeps
    AboutName <- MCAboutName
INVARIANTS
    FeedsIntact
    StateCoversMessages
    CausallyClosed
    DependencyRowsExact
    NothingReleasable
    NoStaleQuarantine
    ProfilesStored
PROPERTIES
    WedgedStaysWedged
