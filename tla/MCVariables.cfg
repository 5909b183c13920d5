CONSTANTS
  x = x
  y = y
  z = z
  v1 = v1
  v2 = v2
  NoValue = NoValue
  Names <- MCNames
  Values <- MCValues
SPECIFICATION FairSpec
INVARIANTS TypeOK ListShape UniqueNames
PROPERTIES ImplementsMap PlacesAreStable CallsReturn
