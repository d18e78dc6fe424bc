\* Small settings of every strategy; scripts that fail and scripts that are cut.
CONSTANT Settings <- SmallSettings
SPECIFICATION Spec
INVARIANTS Consistent TriggerFound
