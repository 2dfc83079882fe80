CONSTANTS
  t1 = t1
  t2 = t2
  Task = {t1, t2}
  Restless = {t1}
  Steps = 1
  Width = 1
  MaxResumes = 1
  Activations = 1
  Upsets = 1
SPECIFICATION FairSpec
PROPERTY NoneForgotten
