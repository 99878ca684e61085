CONSTANTS
  NoIP = NoIP NoMac = NoMac Mark = Mark m1 = m1 m2 = m2 a1 = a1 a2 = a2 a3 = a3
  Macs = {m1, m2} IPs = {a1, a2, a3} Revoked = {a3} Spellings <- MCSpellings
  MaxFaults = 1 Haste = {"probe"}
SPECIFICATION Spec
INVARIANTS LeasesReconstructed
