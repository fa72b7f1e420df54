SPECIFICATION FairSpec
CONSTANTS
  noText = noText
  sea = sea
  noOther = noOther
  anna = anna
  Texts = {noText, sea}
  NoText = noText
  Others = {noOther, anna}
  NoOther = noOther
  MaxLoads = 3
  MaxPage = 3
  None = None
CHECK_DEADLOCK FALSE
INVARIANTS
  TilesAgree
  UrlAgrees
  PatientResults
PROPERTIES
  RefinesList
  ScrollRecovers
