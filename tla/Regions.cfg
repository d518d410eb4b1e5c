SPECIFICATION BandSpec
CONSTANTS
  Width = 3
  Height = 3
  RequestBoxes <- MCRequestBoxes
  MaxRequests = 2
INVARIANT CanonicalForm
PROPERTY ImplementsSets
