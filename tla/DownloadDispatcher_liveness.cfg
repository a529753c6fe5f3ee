SPECIFICATION FairSpec
CONSTANTS
  r1 = r1
  r2 = r2
  r3 = r3
  c1 = c1
  c2 = c2
  w1 = w1
  w2 = w2
  Releases = {r1, r2}
  Stored = {r2}
  Callers = {c1, c2}
  Workers = {w1}
  MaxDepth = 1
PROPERTIES
  JobIsTaken
  CallerIsAnswered
