SPECIFICATION Spec
CONSTANTS
  Clients = {c1}
  Colours = {black, white, red}
  TileSizes <- EdgeSizes
  RRESizes <- EdgeSizes
  PixelSizes = {1, 4}
  RectangleSize = 4
SYMMETRY AnyColours
INVARIANTS PictureArrives RoomIsEnough
