CONSTANTS
  Conns = {c1, c2}
  Ips = {i1, i2, i3}
  IpInterval = 3
  MinGap = 2
  MaxTracked = 2
  MaxTime = 6
  MaxCalls = 4
SPECIFICATION Spec
SYMMETRY Symmetry
INVARIANT Accounted
PROPERTIES GlobalGap PerIpGap
