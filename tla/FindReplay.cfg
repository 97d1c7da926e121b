\* The instance of Parts.cfg, for the promise runner.py makes of replays.
CONSTANTS
  Actors = {a1, a2}
  Keys = {k1, k2}
SPECIFICATION Spec
SYMMETRY Symmetry
INVARIANTS ReplayIsProduction
CHECK_DEADLOCK FALSE
