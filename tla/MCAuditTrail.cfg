CONSTANTS
  Tables = {actions}
  Times <- TwoSeconds
  PageSize = 2
  MaxRows = 4
  MaxFetches = 2
SPECIFICATION Spec
INVARIANTS PagingComplete NoEmptyPage
