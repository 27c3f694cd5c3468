SPECIFICATION Spec
CONSTANTS
  Clients = {c1, c2}
  Deliveries = {d1}
  Ops = {o1, o2}
  Tolerance = 1
  Window = 1
  MaxHits = 2
  MaxKeys = 1
  MaxTime = 2
  MaxArrivals = 3
  MaxRequests = 3
  MaxFaults = 1
SYMMETRY Alike
INVARIANTS TypeOK AcceptedOnce RateHeld OldSecretsDie ShownSecretWorks
