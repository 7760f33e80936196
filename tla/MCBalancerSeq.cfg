SPECIFICATION FairSpec
CONSTANTS
  Thread = {t1}
  Falls = {1, 2}
  Rises = {1, 2}
  Fall = 2
  Rise = 2
PROPERTIES
  RiseConsecutive
  PassiveRecovers
