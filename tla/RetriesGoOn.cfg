CONSTANT K = 2
SPECIFICATION Spec
INVARIANT RetriesGoOn
