SPECIFICATION Spec
CONSTANTS
  Processes = {p1, p2}
  Latest = 4
  Targets = {3, 4}
  Newer = {p2}
PROPERTIES
  MetadataNeverDowngraded
