SPECIFICATION Spec
CONSTANTS
  w1 = w1
  w2 = w2
  Candidates <- TwoCandidates
  MaxReleases = 3
  Workers <- TwoWorkers
SYMMETRY WorkerSymmetry
CONSTRAINT Bounded
PROPERTIES
  RepublishKeepsTheActiveRelease
