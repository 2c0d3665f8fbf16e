SPECIFICATION Spec
CONSTANTS
  p1 = p1
  p2 = p2
  p3 = p3
  app = app
  other = other
  Procs = {p1, p2, p3}
  Uids = {app}
  Packages = {1, 2, 3}
  PackageOf <- PackageEach
  UidOf <- OneUid
  Protected = {2}
  CgroupProcs = {p1, p2, p3}
  Modes = {10, 30}
  Features = {"binder", "edits", "stopping", "toggle", "failures", "meddling"}
INVARIANTS HeldOfOnePackage
