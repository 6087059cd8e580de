SPECIFICATION Spec
CONSTANTS
  Conts = {c1}
  Rests = {r1}
  Hands = {h1}
  MaxFaults = 2
  MaxMoves = 2
  c1 = c1
  r1 = r1
  h1 = h1
PROPERTIES ImplementsOneShot ReleaseSettles HandoffResumes
