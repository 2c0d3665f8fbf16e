SPECIFICATION AuditedSpec
CONSTANTS
  p1 = p1
  p2 = p2
  p3 = p3
  app = app
  other = other
  Procs = {p1, p2}
  Uids = {app}
  Packages = {1}
  PackageOf <- OnePackage
  UidOf <- OneUid
  Protected = {}
  CgroupProcs = {p1, p2}
  Modes = {20, 30}
  Features = {"binder", "delay", "audit"}
PROPERTY BackgroundFreezes
