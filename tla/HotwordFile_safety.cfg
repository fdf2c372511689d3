CONSTANTS
  Windows = {w1, w2}
  MaxVersions = 4
SPECIFICATION HotwordSpec
INVARIANT NothingIsLost
PROPERTIES PathStaysAvailable OutcomesAreTrue
SYMMETRY Symmetry
