----------------------------- MODULE MCHookSync -----------------------------
(* One app, two values of a setting *)
EXTENDS HookSync, TLC
CONSTANT app

Row(name, uids) == [policy |-> app :> [name |-> name, uids |-> uids], settings |-> Default]

\* No file yet, one row by package name or by uid, and a setting that was changed before.
FirstFiles ==
  {[policy |-> NoFile, settings |-> Default], Row("controlled", <<>>),
   Row("none", <<"controlled">>), [Row("free", <<>>) EXCEPT !.settings = 2]}
=============================================================================
