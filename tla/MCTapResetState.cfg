SPECIFICATION Spec
INVARIANT ResetStateSelectsIdcode
