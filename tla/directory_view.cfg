\* Two fellows, one query, a directory that loses or gains one fellow: every order of what the
\* member does and what is answered, with one kind of mishap.
CONSTANTS
  ann = ann
  bob = bob
  q1 = q1
  q2 = q2
  None = None
  Fellows = {ann, bob}
  Queries = {q1}
  Hits <- Finds
  WithEmail = {ann}
  Picked = {bob}
  Directories <- Both
  MaxCalls = 2
  MaxUpdates = 1
  MaxRash = 1
SPECIFICATION MCSpec
INVARIANTS TypeOK ListIsWhatWasAsked BulkSelectsWhatIsShown PaneIsTheUrls RemovedStaysRemoved SettingAgrees
