SPECIFICATION StreamSpec
CONSTANT MaxReconnects = 3
INVARIANT OnlyFailedConnectsExhaust
