CONSTANTS
  Readers = {r1}
  Registrars = {w1}
SPECIFICATION Spec
PROPERTY OutcomeFixed
CHECK_DEADLOCK FALSE
