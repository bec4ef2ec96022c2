\* Three questions, one write and one flow at a time, with one kind of mishap; see NoneAstray and NoCrowd.
CONSTANTS
  MaxAsks = 3
  MaxEdits = 1
  MaxFlows = 1
  MaxRash = 1
SPECIFICATION Spec
CONSTRAINTS NoneAstray NoCrowd
INVARIANTS TypeOK PageKnowsTheFolder BannerIsTrue
PROPERTIES FolderUserKeepsTheirPage WarningStays
