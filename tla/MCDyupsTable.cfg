SPECIFICATION Spec
CONSTANTS
  h1 = h1
  h2 = h2
  Names <- MCNames
  Vals <- MCVals
  Holders <- MCHolders
SYMMETRY MCSymmetry
  
PROPERTY IsMap
