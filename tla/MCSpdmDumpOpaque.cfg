\* Structure sizes of the Secured Messages specification.  Up to two
\* element tables, so that the cursor moves past a first element;
\* OpaqueLength up to 30 = 8 + 2 * (4 + 7), so that every table fits, and
\* every shorter length cuts one somewhere; element lengths 0 to 7 fall on
\* both sides of every size test (2, 3, 4, and 3 + 2 * VersionCount).
\* After its one Dump step the tool is done with the blob, so a final state
\* is not an error.
CONSTANTS
  GeneralHeaderSize = 8
  ElementTableHeaderSize = 4
  ElementHeaderSize = 2
  VersionSelectionSize = 4
  SupportedVersionSize = 3
  VersionNumberSize = 2
  MaxOpaqueLength = 30
  MaxTotalElements = 2
  ElementDataLens = {0, 1, 2, 3, 4, 5, 6, 7}
  VersionCounts = {1, 2}
SPECIFICATION Spec
CHECK_DEADLOCK FALSE
INVARIANT OpaqueDumpReadsInBounds
