SPECIFICATION FairSpec
CONSTANTS
  Lines <- MCLines
  Known <- MCKnown
INVARIANTS TypeOK TokensCover ScannersAgree StaysInWord
PROPERTY LineIsExpanded
