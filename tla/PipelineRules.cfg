SPECIFICATION PipelineSpec
CONSTANTS
  Ceiling = 400  Margin = 50
  Mark <- PageMarks  PageWidth = 1000  PageHeight = 600
  Point = {0, 300}  MaxReferences = 1  MaxRegions = 2
CHECK_DEADLOCK FALSE
INVARIANT RulesDealtWith
