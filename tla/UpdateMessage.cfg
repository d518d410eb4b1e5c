SPECIFICATION FairSpec
CONSTANTS
  Width = 8
  Height = 7
  Regions <- SmallRegions
  Encodings = {"CoRRE", "Zlib", "Tight", "plain"}
  Scales = {1, 2, 3}
  CorreMax = 3
  ZlibMaxRect = 15
  MaxRectSize = 9
  MaxRectWidth = 3
  MinSplit = 12
  MinSolid = 6
  Tile = 2
INVARIANTS TypeOK EveryPixelOnce ScaledRegionArrives CountAgrees
PROPERTY MessageEnds
