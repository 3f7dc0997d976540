---------------------------- MODULE TrainingConfig ----------------------------
(***************************************************************************)
(* TrainingConfig: the JSON mapping a caller or a checkpoint gives is       *)
(* accepted or refused, and put in a normal form whose canonical JSON is    *)
(* the config digest of a session.  A JSON value is a pair of its kind and  *)
(* its value; a mapping is a function from field names, those of the        *)
(* dataset object among them.  resolve[p] is what Path(p).resolve() gives.  *)
(***************************************************************************)
EXTENDS Integers, Sequences

CONSTANT Digests   \* well-formed "sha256:..." texts

Str(s) == <<"str", s>>
Num(n) == <<"int", n>>
Float(n) == <<"float", n>>          \* a finite one
NonFinite == <<"nonfinite", "NaN">>  \* json.loads reads NaN and Infinity
Bool(b) == <<"bool", b>>
Null == <<"null", "null">>
List(s) == <<"list", s>>

Devices == {"cpu", "cuda", "cuda:0", "cuda:1"}
CaptionExtensions == {".txt", ".caption"}

PathFields == {"checkpointPath", "root", "encodedCacheRoot"}
PositiveIntFields == {"rank", "batchSize", "gradientAccumulationSteps", "checkpointInterval"}
PositiveFloatFields == {"alpha", "learningRate"}
FloatFields == PositiveFloatFields \cup {"weightDecay"}
Fields == PathFields \cup PositiveIntFields \cup FloatFields
            \cup {"checkpointDigest", "device", "seed", "targetPatterns", "resolution",
                  "captionExtension"}

\* learningRate in units of 1e-4.
Defaults ==
  [device |-> Str("cuda"), seed |-> Num(0), rank |-> Num(4), alpha |-> Float(4),
   learningRate |-> Float(1), weightDecay |-> Float(0), batchSize |-> Num(1),
   gradientAccumulationSteps |-> Num(1), checkpointInterval |-> Num(1),
   targetPatterns |-> List(<<Str("attn2.to_q"), Str("attn2.to_k")>>),
   captionExtension |-> Str(".txt")]

-----------------------------------------------------------------------------
Text(v) == v[1] = "str" /\ v[2] # ""
Whole(v, least) == v[1] = "int" /\ v[2] >= least   \* type(value) is int: no bool
Number(v) == v[1] \in {"int", "float"}

Fits(f, v) ==
  CASE f \in PathFields -> Text(v)
    [] f \in PositiveIntFields -> Whole(v, 1)
    [] f = "seed" -> Whole(v, 0)
    [] f \in PositiveFloatFields -> Number(v) /\ v[2] > 0
    [] f = "weightDecay" -> Number(v) /\ v[2] >= 0
    [] f = "checkpointDigest" -> v[1] = "str" /\ v[2] \in Digests
    [] f = "device" -> v[1] = "str" /\ v[2] \in Devices
    [] f = "captionExtension" -> v[1] = "str" /\ v[2] \in CaptionExtensions
    [] f = "targetPatterns" ->
         v[1] = "list" /\ v[2] # <<>> /\ \A i \in DOMAIN v[2] : Text(v[2][i])
    [] f = "resolution" ->
         /\ v[1] = "list" /\ Len(v[2]) = 2
         /\ \A i \in 1..2 : Whole(v[2][i], 8) /\ v[2][i][2] % 8 = 0

\* mapping.get(name, default): a field given as null is not a field left out.
Value(m, f) == IF f \in DOMAIN m THEN m[f] ELSE Defaults[f]

\* from_mapping refuses nothing of m.  schemaVersion is compared with 1, which
\* 1.0 and true equal.
Accepted(m) ==
  /\ {"schemaVersion", "family"} \subseteq DOMAIN m
  /\ DOMAIN m \subseteq Fields \cup {"schemaVersion", "family"}
  /\ m["schemaVersion"] \in {Num(1), Float(1), Bool(TRUE)}
  /\ m["family"] = Str("sd15")
  /\ \A f \in Fields : f \in DOMAIN m \cup DOMAIN Defaults /\ Fits(f, Value(m, f))

\* Mutant: paths are kept as they were written.
NormalAsWritten(f, v, resolve) == IF f \in FloatFields THEN Float(v[2]) ELSE v

Normal(f, v, resolve) ==
  IF f \in PathFields THEN Str(resolve[v[2]])
  ELSE IF f \in FloatFields THEN Float(v[2]) ELSE v

\* The configuration from_mapping builds of an accepted mapping.
FromMapping(m, resolve) == [f \in Fields |-> Normal(f, Value(m, f), resolve)]

Identity == [schemaVersion |-> Num(1), family |-> Str("sd15")]

\* Mutant: a field is forgotten.
ToMappingWithoutCaption(c) ==
  [f \in (Fields \ {"captionExtension"}) \cup DOMAIN Identity |->
     IF f \in Fields THEN c[f] ELSE Identity[f]]

\* What a checkpoint records; its canonical JSON is what the digest is taken of,
\* so two configurations have one digest when they are equal.
ToMapping(c) ==
  [f \in Fields \cup DOMAIN Identity |-> IF f \in Fields THEN c[f] ELSE Identity[f]]
=============================================================================
