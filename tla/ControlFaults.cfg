SPECIFICATION Spec
CONSTANTS
  p1 = p1
  p2 = p2
  p3 = p3
  app = app
  other = other
  Procs = {p1, p2}
  Uids = {app}
  Packages = {1}
  PackageOf <- OnePackage
  UidOf <- OneUid
  Protected = {}
  CgroupProcs = {p1}
  Modes = {20, 31}
  Features = {"binder", "audit", "wakeup", "download", "edits", "stopping", "failures"}
INVARIANTS SignalOnlyIsComplete HeldIsTracked
PROPERTIES ResidualPrecedence
