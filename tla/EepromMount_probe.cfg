SPECIFICATION Spec
INVARIANT HealthyLogKept
