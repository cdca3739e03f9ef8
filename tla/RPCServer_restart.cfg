SPECIFICATION ServerSpec
CONSTANT Client = {c1}
INVARIANT RestartSurvives
CHECK_DEADLOCK FALSE
