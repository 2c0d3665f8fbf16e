SPECIFICATION Spec
CONSTANTS
  p1 = p1
  p2 = p2
  p3 = p3
  app = app
  other = other
  Procs = {p1, p2}
  Uids = {app, other}
  Packages = {1, 2}
  PackageOf <- TwoPackages
  UidOf <- TwoUids
  Protected = {}
  CgroupProcs = {p1, p2}
  Modes = {0, 30}
  Features = {"binder", "edits"}
PROPERTY UncontrolledThaws
