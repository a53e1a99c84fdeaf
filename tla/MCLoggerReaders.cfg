\* Two readers that are opened and closed.
SPECIFICATION Spec
CONSTANTS
  Readers = {r1, r2}
  Head = head
INVARIANT OpenReadersAreListed
