\* One instance of the last release and two of a release with a third file; the second
\* could be executed twice. They start on an empty database and die at any moment.
SPECIFICATION FairSpec
CONSTANTS
  Instances = {"old", "new", "new2"}
  Ships <- MCShips
  Tolerant = {2}
INVARIANTS TypeOK AppliedOnce
PROPERTIES EveryInstanceServes SchemaKept
CHECK_DEADLOCK FALSE
