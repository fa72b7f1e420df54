SPECIFICATION Spec
CONSTANTS
  noText = noText
  sea = sea
  noOther = noOther
  anna = anna
  Texts = {noText, sea}
  NoText = noText
  Others = {noOther}
  NoOther = noOther
  MaxLoads = 2
  MaxPage = 3
  None = None
CHECK_DEADLOCK FALSE
INVARIANTS
  SharedLinkShowsTheSame
