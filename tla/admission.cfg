SPECIFICATION Spec
CONSTANTS
  Width = 4
  ServiceCIDR <- MCServiceCIDR
  Drafts <- MCDrafts
  Macs = {m1, m2}
  NoMac = NoMac
  Edits = {}
SYMMETRY Symmetric
INVARIANTS TypeOK Rebuildable OfferedExactly LeaseRecorded ServiceDisjoint Editable
