-------------------------- MODULE MCModelResidency --------------------------
(* ModelResidency for one device, with configurations that differ from a     *)
(* good one in a field: refused, normalised to it, or another session's.     *)
EXTENDS ModelResidency, TLC

Base ==
  [schemaVersion |-> Num(1), family |-> Str("sd15"), checkpointPath |-> Str("model"),
   checkpointDigest |-> Str("d1"), device |-> Str("cuda:0"), root |-> Str("images"),
   resolution |-> List(<<Num(8), Num(8)>>), encodedCacheRoot |-> Str("cache")]

\* Accepted, with the same normal form or another one.
Good ==
  {Base, [Base EXCEPT !.root = Str("latest")], [Base EXCEPT !.checkpointDigest = Str("d2")],
   [Base EXCEPT !.schemaVersion = Bool(TRUE)],
   Base @@ [alpha |-> Num(4)], Base @@ [captionExtension |-> Str(".caption")]}

\* Refused by from_mapping.
Malformed ==
  {[Base EXCEPT !.schemaVersion = Num(2)], [Base EXCEPT !.device = Str("mps")],
   [Base EXCEPT !.resolution = List(<<Num(8), Num(12)>>)],
   [f \in DOMAIN Base \ {"root"} |-> Base[f]],
   Base @@ [epochs |-> Num(1)], Base @@ [rank |-> Bool(TRUE)], Base @@ [rank |-> Num(0)],
   Base @@ [alpha |-> NonFinite], Base @@ [weightDecay |-> Num(-1)], Base @@ [seed |-> Null],
   Base @@ [targetPatterns |-> List(<<>>)]}

\* Refused for what they name: a device of another worker, no device, no dataset.
Unserved ==
  {[Base EXCEPT !.device = Str("cuda:1")], [f \in DOMAIN Base \ {"device"} |-> Base[f]],
   [Base EXCEPT !.root = Str("cache")]}

Configurations == Good \cup Malformed \cup Unserved
=============================================================================
