SPECIFICATION Spec
CONSTANT MaxForms = 2
INVARIANT DefaultOnlyIfNone
