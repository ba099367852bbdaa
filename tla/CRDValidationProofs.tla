------------------------ MODULE CRDValidationProofs ------------------------
(***************************************************************************)
(* Proofs about CRDValidation, for every table of definitions of the shape *)
(* DefinitionsAssumption states.                                           *)
(***************************************************************************)
EXTENDS CRDValidation, TLAPS

\* A leaf that names no prover goes to Zenon, which is quick where a leaf only
\* puts facts together, and then to the SMT solver: no proof hangs on the speed
\* of one machine.  Leaves that need arithmetic or sequences name the latter.
USE ZenonT(10), SMTT(30), SMTT(60)

-----------------------------------------------------------------------------
(* The inductive invariant: what the Go type, the generated schema and the *)
(* template's schema are, by the place looked at.                          *)

Resolved(s) == Scalar(s) \/ StructOf(s) \/ ListOf(s) \/ MapOf(s)

\* The job as a whole.
AtJob == Len(path) = 0 /\ declared.schema = MXJob /\ generated.schema = MXJob

\* Its spec, where types.go has fields the definition has not.
AtSpec == /\ Len(path) = 1 /\ path[1] = "spec"
          /\ declared.schema = GoMXJobSpec
          /\ generated.schema \in {ref("MXJobSpec"), MXJobSpec}

\* One of those fields, and what is below it.
AtWebhook ==
    /\ Len(path) >= 2 /\ path[2] \in {"startWebhook", "finishWebhook"}
    /\ generated.schema = Anything
    /\ Len(path) >= 4 => path[4] \in {"url", "service", "caBundle"}
    /\ \/ Len(path) = 2 /\ declared.schema = GoWebhook
       \/ Len(path) = 3 /\ declared.schema \in {String, WebhookClientConfig}
       \/ Len(path) = 4 /\ declared.schema \in {String, ServiceReference}
       \/ Len(path) = 5 /\ declared.schema = String

\* Any other place: the conversion follows the Go type, but for quantities
\* and the values of maps.
Converted(d, g) ==
    \/ g = JSONProps(d)
    \/ \E n \in References : g = ref(n) /\ d = GoTypes[n]
    \/ g = Anything /\ d = Typed("quantity")
    \/ g = Anything /\ Scalar(d) /\ path[Len(path)] = "*"

Elsewhere == /\ Len(path) > 0 /\ (Len(path) = 1 => path[1] # "spec")
             /\ Resolved(declared.schema)
             /\ generated.demanded <=> declared.demanded
             /\ Converted(declared.schema, generated.schema)

Roles == {"scheduler", "server", "worker"}

InRoles == Len(path) >= 2 /\ path[1] = "spec" /\ path[2] = "replicaSpecs"

Places ==
    /\ \E S : path \in Seq(S)
    /\ \E s, b : declared = View(s, b)
    /\ \E s, b : generated = View(s, b)
    /\ AtJob \/ AtSpec \/ AtWebhook \/ Elsewhere
    /\ InRoles /\ Len(path) = 2 => declared.schema = MXReplicaSpecs
    /\ InRoles /\ Len(path) >= 3 => path[3] \in Roles

TemplateSchemas == {template, templateSpec, templateRoles, templateScheduler, templateRole,
                    Typed("positive"), Integer, Anything}

TemplatePlaces ==
    /\ \E s \in TemplateSchemas, b \in BOOLEAN : templated = View(s, b)
    /\ Len(path) = 0 => templated.schema = template
    /\ Len(path) = 1 /\ path[1] = "spec" => templated.schema = templateSpec
    /\ InRoles /\ Len(path) = 2 => templated.schema = templateRoles
    /\ InRoles /\ Len(path) = 3 =>
           templated.demanded /\ templated.schema \in {templateScheduler, templateRole}
    /\ InRoles /\ Len(path) = 4 /\ path[4] = "replicas" =>
           templated.demanded /\ templated.schema = Typed("positive")

\* What has become of the job submitted.
Settled ==
    /\ pc \in Stage /\ crd \in CRDs \cup {"none"} /\ flaw \in Flaws \cup {"none"}
    /\ pc # "generate" => generated.schema.ref = Empty
    /\ pc \in {"stored", "panics", "podsRefused", "succeedsEmpty", "idles", "runs"} =>
           ~Refuses(IF crd = "template" THEN templated ELSE generated, flaw)
    /\ pc \in {"panics", "podsRefused", "succeedsEmpty", "idles", "runs"} => pc \in outcomes

Known == types \in Seq(DOMAIN GoTypes)

CRDInv == Places /\ TemplatePlaces /\ Settled /\ Known

-----------------------------------------------------------------------------
(* Schemas and definitions. *)

\* No type and no definition is called the empty string.
LEMMA NotEmpty ==
    Empty \notin {"array", "object", "string", "integer", "positive", "quantity", "intOrString",
                  "IntOrString", "Quantity", "MXJobSpec", "MXReplicaSpecs", "Webhook",
                  "WebhookClientConfig", "ServiceReference"}
BY Zenon DEF Empty

\* A view is its schema and whether it is demanded.
LEMMA ViewFields ==
    ASSUME NEW s, NEW b
    PROVE  /\ View(s, b).schema = s /\ View(s, b).demanded = b
           /\ DOMAIN View(s, b) = {"schema", "demanded"}
BY DEF View

\* A scalar, a reference and the schema that says nothing have nothing below.
LEMMA NothingBelow ==
    ASSUME NEW s, s.properties = <<>>, s.sub = <<>>
    PROVE  Fields(s) = {} /\ \A f : Child(s, f) = Anything
<1>1. DOMAIN s.properties = {}
  OBVIOUS
<1>2. QED
  BY <1>1 DEF Fields, Child

\* Below nothing said, nothing is said.
LEMMA AnythingBelow ==
    /\ Fields(Anything) = {} /\ \A f : Child(Anything, f) = Anything
    /\ JSONProps(Anything) = Anything /\ Anything.required = {}
    /\ Anything.type = Empty /\ Anything.ref = Empty
<1>1. /\ Anything.properties = <<>> /\ Anything.sub = <<>> /\ Anything.required = {}
      /\ Anything.type = Empty /\ Anything.ref = Empty
  BY DEF Anything, SchemaProps
<1>2. JSONProps(Anything) = Anything
  BY <1>1, Zenon DEF JSONProps, Anything
<1>3. QED
  BY <1>1, <1>2, NothingBelow

\* A scalar is converted to itself, and is the end of the way down.
LEMMA ScalarFacts ==
    ASSUME NEW s, Scalar(s)
    PROVE  /\ s.properties = <<>> /\ s.sub = <<>> /\ s.required = {} /\ s.ref = Empty
           /\ JSONProps(s) = s /\ GoType(s) = s /\ Fields(s) = {}
<1>1. PICK t : s = Typed(t)
  BY DEF Scalar
<1>2. /\ Typed(t).properties = <<>> /\ Typed(t).sub = <<>> /\ Typed(t).required = {}
      /\ Typed(t).ref = Empty /\ Typed(t).type = t
  BY DEF Typed, SchemaProps
<1>3. JSONProps(Typed(t)) = Typed(t)
  BY <1>2, Zenon DEF JSONProps, Typed
<1>4. QED
  BY <1>1, <1>2, <1>3, NothingBelow DEF GoType

\* A reference stays one when converted; nested follows it.
LEMMA ReferenceFacts ==
    ASSUME NEW n
    PROVE  /\ ref(n).ref = n /\ ref(n).properties = <<>> /\ ref(n).sub = <<>>
           /\ JSONProps(ref(n)) = ref(n)
<1>1. /\ ref(n).ref = n /\ ref(n).properties = <<>> /\ ref(n).sub = <<>>
      /\ ref(n).type = Empty /\ ref(n).required = {}
  BY DEF ref, SchemaProps
<1>2. JSONProps(ref(n)) = ref(n)
  BY <1>1, Zenon DEF JSONProps, ref
<1>3. QED
  BY <1>1, <1>2

\* A struct is converted to itself, field by field.
LEMMA StructOfFacts ==
    ASSUME NEW s, StructOf(s)
    PROVE  /\ JSONProps(s) = s /\ GoType(s) = s /\ s.ref = Empty /\ s # Anything
           /\ \A f \in Fields(s) :
                  LET c == Child(s, f) IN Scalar(c) \/ Reference(c) \/ ListOf(c) \/ MapOf(c)
<1>1. PICK p, r : s = Struct(p, r)
  BY DEF StructOf
<1>2. s.properties = p /\ s.sub = <<>> /\ s.ref = Empty /\ s.type = Empty /\ s.required = r
  BY <1>1 DEF Struct, SchemaProps
<1>3. JSONProps(s) = s
  BY <1>1, <1>2 DEF JSONProps, Struct
<1>4. \A f \in Fields(s) : f \in DOMAIN s.properties /\ Child(s, f) = s.properties[f]
  BY <1>2 DEF Fields, Child
<1>5. QED
  BY <1>2, <1>3, <1>4 DEF GoType, StructOf

\* SchemaOrArrayToJSONItems: the elements of an array are kept.
LEMMA ListFacts ==
    ASSUME NEW s, ListOf(s)
    PROVE  /\ JSONProps(s) = s /\ GoType(s) = s /\ Fields(s) = {"*"} /\ Child(s, "*") = s.sub[1]
           /\ s.required = {} /\ s.ref = Empty /\ s # Anything
<1>1. PICK c : s = Array(c)
  BY DEF ListOf
<1>2. /\ s.properties = <<>> /\ s.sub = <<c>> /\ s.required = {} /\ s.ref = Empty
      /\ s.type = "array"
  BY <1>1 DEF Array, SchemaProps
<1>3. JSONProps(s) = s
  BY <1>1, <1>2 DEF JSONProps, Array
<1>4. DOMAIN s.properties = {}
  <2>1. s.properties = <<>>
    BY <1>2
  <2>2. QED
    BY <2>1
<1>5. Fields(s) = {"*"} /\ Child(s, "*") = s.sub[1]
  BY <1>4 DEF Fields, Child, ListOf
<1>6. s # Anything
  BY <1>2, AnythingBelow, NotEmpty
<1>7. QED
  BY <1>2, <1>3, <1>5, <1>6 DEF GoType

\* AdditionalProperties are lost: a map is converted to a bare object.
LEMMA MapFacts ==
    ASSUME NEW s, MapOf(s)
    PROVE  /\ JSONProps(s) = Typed("object") /\ GoType(s) = s /\ Fields(s) = {"*"}
           /\ Child(s, "*") = s.sub[1] /\ s.required = {} /\ s.ref = Empty /\ s # Anything
<1>1. PICK c : s = Map(c)
  BY DEF MapOf
<1>2. /\ s.properties = <<>> /\ s.sub = <<c>> /\ s.required = {} /\ s.ref = Empty
      /\ s.type = "object"
  BY <1>1 DEF Map, SchemaProps
<1>3. JSONProps(s) = Typed("object")
  BY <1>2 DEF JSONProps, Typed
<1>4. DOMAIN s.properties = {}
  <2>1. s.properties = <<>>
    BY <1>2
  <2>2. QED
    BY <2>1
<1>5. Fields(s) = {"*"} /\ Child(s, "*") = s.sub[1]
  BY <1>4 DEF Fields, Child, MapOf
<1>6. s # Anything
  BY <1>2, AnythingBelow, NotEmpty
<1>7. QED
  BY <1>2, <1>3, <1>5, <1>6 DEF GoType

\* The tables, at the operator's own types.
LEMMA Tables ==
    /\ DOMAIN openapiSpec = DOMAIN Definitions \cup {"IntOrString"}
    /\ openapiSpec["MXJob"] = MXJob /\ openapiSpec["MXJobSpec"] = MXJobSpec
    /\ openapiSpec["IntOrString"] = Typed("intOrString")
    /\ \A n \in DOMAIN Definitions \ {"IntOrString"} : openapiSpec[n] = Definitions[n]
BY DefinitionsAssumption DEF openapiSpec, fixKnownTypes, Merged

\* The Go types the operator itself declares, or uses from Kubernetes.
LEMMA OwnTypes ==
    /\ GoTypes["MXJob"] = MXJob /\ GoTypes["MXJobSpec"] = GoMXJobSpec
    /\ GoTypes["Webhook"] = GoWebhook /\ GoTypes["WebhookClientConfig"] = WebhookClientConfig
    /\ GoTypes["ServiceReference"] = ServiceReference
    /\ GoTypes["MXReplicaSpecs"] = MXReplicaSpecs
    /\ GoTypes["Quantity"] = Typed("quantity")
    /\ {"MXJob", "MXJobSpec"} \subseteq DOMAIN GoTypes
BY Tables, DefinitionsAssumption DEF GoTypes, Merged

\* The references to them lead to them.
LEMMA OwnReferred ==
    \A n \in {"Quantity", "MXJobSpec", "MXReplicaSpecs", "Webhook", "WebhookClientConfig",
             "ServiceReference"} : GoType(ref(n)) = GoTypes[n]
BY ReferenceFacts, NotEmpty DEF GoType

\* A reference leads to a scalar or a struct, and to the same one in the
\* definitions and in Go, if there is a definition.
LEMMA ReferencesLead ==
    ASSUME NEW n \in References
    PROVE  /\ n # Empty /\ n \in DOMAIN GoTypes
           /\ Scalar(GoTypes[n]) \/ StructOf(GoTypes[n])
           /\ n \in DOMAIN openapiSpec => GoTypes[n] = openapiSpec[n]
           /\ n \notin DOMAIN openapiSpec => GoTypes[n] = Typed("quantity")
<1>1. \A t : t # Empty => Scalar(Typed(t))
  BY DEF Scalar, Typed, SchemaProps
<1>2. CASE n = "Quantity"
  BY <1>1, <1>2, Tables, OwnTypes, DefinitionsAssumption, NotEmpty DEF GoTypes, Merged
<1>3. CASE n = "IntOrString"
  BY <1>1, <1>3, Tables, NotEmpty DEF GoTypes, Merged
<1>4. CASE n \notin {"Quantity", "IntOrString"}
  <2>1. /\ n \in DOMAIN Definitions \ {"MXJob", "MXJobSpec"}
        /\ n \notin {Empty, "Webhook", "WebhookClientConfig", "ServiceReference"}
    BY <1>4, DefinitionsAssumption DEF References
  <2>2. n \in DOMAIN openapiSpec /\ openapiSpec[n] = Definitions[n]
    BY <1>4, <2>1, Tables
  <2>3. n \in DOMAIN GoTypes /\ GoTypes[n] = openapiSpec[n]
    BY <1>4, <2>1, <2>2 DEF GoTypes, Merged
  <2>4. QED
    BY <2>1, <2>2, <2>3, DefinitionsAssumption
<1>5. QED
  BY <1>2, <1>3, <1>4

-----------------------------------------------------------------------------
(* One call of the conversion. *)

\* A field is converted to what its Go type is converted to, or left a
\* reference to it.
LEMMA FieldConverted ==
    ASSUME NEW c, Scalar(c) \/ Reference(c) \/ ListOf(c) \/ MapOf(c)
    PROVE  /\ Resolved(GoType(c))
           /\ \/ JSONProps(c) = JSONProps(GoType(c))
              \/ \E n \in References : JSONProps(c) = ref(n) /\ GoType(c) = GoTypes[n]
<1>1. CASE Scalar(c)
  BY <1>1, ScalarFacts DEF Resolved
<1>2. CASE Reference(c)
  <2>1. PICK n \in References : c = ref(n)
    BY <1>2 DEF Reference
  <2>2. GoType(c) = GoTypes[n] /\ JSONProps(c) = ref(n)
    BY <2>1, ReferenceFacts, ReferencesLead DEF GoType
  <2>3. QED
    BY <2>1, <2>2, ReferencesLead DEF Resolved
<1>3. CASE ListOf(c)
  BY <1>3, ListFacts DEF Resolved
<1>4. CASE MapOf(c)
  BY <1>4, MapFacts DEF Resolved
<1>5. QED
  BY <1>1, <1>2, <1>3, <1>4

\* Below a place that is converted as its Go type says, so is every field,
\* but for the values of a map.
LEMMA FieldBelow ==
    ASSUME NEW d, Resolved(d), NEW f \in Fields(d)
    PROVE  LET g == JSONProps(d)
               c == GoType(Child(d, f))
               h == JSONProps(Child(g, f))
           IN  /\ Resolved(c)
               /\ f \in g.required <=> f \in d.required
               /\ \/ h = JSONProps(c)
                  \/ \E n \in References : h = ref(n) /\ c = GoTypes[n]
                  \/ h = Anything /\ c = Typed("quantity")
                  \/ h = Anything /\ Scalar(c) /\ f = "*"
<1>1. CASE Scalar(d)
  BY <1>1, ScalarFacts
<1>2. CASE StructOf(d)
  <2>1. /\ JSONProps(d) = d
        /\ LET c == Child(d, f) IN Scalar(c) \/ Reference(c) \/ ListOf(c) \/ MapOf(c)
    BY <1>2, StructOfFacts
  <2>2. QED
    BY <2>1, FieldConverted
<1>3. CASE ListOf(d)
  <2>1. /\ f = "*" /\ JSONProps(d) = d /\ Child(d, f) = d.sub[1]
    <3>1. f = "*"
      BY <1>3, ListFacts, SMTT(30)
    <3>2. QED
      BY <1>3, <3>1, ListFacts
  <2>2. Scalar(d.sub[1]) \/ Reference(d.sub[1])
    BY <1>3 DEF ListOf
  <2>3. QED
    BY <2>1, <2>2, FieldConverted
<1>4. CASE MapOf(d)
  <2>1. /\ f = "*" /\ JSONProps(d) = Typed("object")
        /\ Child(d, f) = d.sub[1] /\ d.required = {}
    <3>1. f = "*"
      BY <1>4, MapFacts, SMTT(30)
    <3>2. QED
      BY <1>4, <3>1, MapFacts
  <2>2. /\ Typed("object").properties = <<>> /\ Typed("object").sub = <<>>
        /\ Typed("object").required = {}
    BY DEF Typed, SchemaProps
  <2>3. JSONProps(Child(JSONProps(d), f)) = Anything
    BY <2>1, <2>2, NothingBelow, AnythingBelow
  <2>4. CASE Scalar(d.sub[1])
    <3>1. GoType(d.sub[1]) = d.sub[1]
      BY <2>4, ScalarFacts
    <3>2. Resolved(d.sub[1])
      BY <2>4 DEF Resolved
    <3>3. QED
      BY <2>1, <2>2, <2>3, <2>4, <3>1, <3>2
  <2>5. CASE d.sub[1] = ref("Quantity")
    <3>1. GoType(d.sub[1]) = Typed("quantity")
      BY <2>5, OwnTypes, OwnReferred
    <3>2. Scalar(Typed("quantity"))
      BY NotEmpty DEF Scalar, Typed, SchemaProps
    <3>3. QED
      BY <2>1, <2>2, <2>3, <3>1, <3>2 DEF Resolved
  <2>6. QED
    BY <1>4, <2>4, <2>5 DEF MapOf
<1>5. QED
  BY <1>1, <1>2, <1>3, <1>4 DEF Resolved

-----------------------------------------------------------------------------
(* The operator's own types. *)

\* A schema with a type alone is a scalar.
LEMMA TypedScalar == ASSUME NEW t, t # Empty PROVE Scalar(Typed(t))
BY DEF Scalar, Typed, SchemaProps

\* A schema with a reference alone is a reference.
LEMMA RefReference == ASSUME NEW n \in References PROVE Reference(ref(n))
BY DEF Reference, ref, SchemaProps

\* What MXJob and MXJobSpec refer to is defined.
LEMMA OwnReferences == {"ObjectMeta", "MXJobStatus", "MXReplicaSpecs"} \subseteq References
BY DefinitionsAssumption DEF References

\* The fields of MXJob; all but the spec are in the definitions.
LEMMA JobFields ==
    /\ JSONProps(MXJob) = MXJob /\ MXJob.ref = Empty /\ MXJob # Anything
    /\ Fields(MXJob) = {"kind", "apiVersion", "metadata", "spec", "status"}
    /\ Child(MXJob, "spec") = ref("MXJobSpec") /\ "spec" \in MXJob.required
    /\ \A f \in Fields(MXJob) \ {"spec"} : Scalar(Child(MXJob, f)) \/ Reference(Child(MXJob, f))
<1> DEFINE p == [kind |-> String, apiVersion |-> String, metadata |-> ref("ObjectMeta"),
                 spec |-> ref("MXJobSpec"), status |-> ref("MXJobStatus")]
<1>1. /\ p.kind = String /\ p.apiVersion = String /\ p.metadata = ref("ObjectMeta")
      /\ p.spec = ref("MXJobSpec") /\ p.status = ref("MXJobStatus")
      /\ DOMAIN p = {"kind", "apiVersion", "metadata", "spec", "status"}
  OBVIOUS
<1>2. MXJob = Struct(p, {"metadata", "spec"})
  BY DEF MXJob
<1> HIDE DEF p
<1>3. /\ MXJob.properties = p /\ MXJob.required = {"metadata", "spec"} /\ MXJob.sub = <<>>
      /\ MXJob.ref = Empty /\ MXJob.type = Empty
  BY <1>2 DEF Struct, SchemaProps
<1>4. JSONProps(MXJob) = MXJob
  BY <1>2, <1>3, Zenon DEF JSONProps, Struct
<1>5. Fields(MXJob) = DOMAIN p /\ \A f \in DOMAIN p : Child(MXJob, f) = p[f]
  BY <1>3 DEF Fields, Child
<1>6. Scalar(String) /\ Reference(ref("ObjectMeta")) /\ Reference(ref("MXJobStatus"))
  BY TypedScalar, RefReference, OwnReferences, NotEmpty DEF String
<1>7. MXJob # Anything
  BY <1>3, AnythingBelow
<1>8. ASSUME NEW f \in Fields(MXJob) \ {"spec"}
      PROVE  Scalar(Child(MXJob, f)) \/ Reference(Child(MXJob, f))
  <2>1. /\ f \in {"kind", "apiVersion", "metadata", "status"} /\ Child(MXJob, f) = p[f]
    BY <1>1, <1>5
  <2>2. Child(MXJob, f) \in {String, ref("ObjectMeta"), ref("MXJobStatus")}
    BY <1>1, <2>1
  <2>3. QED
    BY <1>6, <2>2
<1>9. Child(MXJob, "spec") = ref("MXJobSpec") /\ "spec" \in MXJob.required
  BY <1>1, <1>3, <1>5
<1>10. QED
  BY <1>1, <1>3, <1>4, <1>5, <1>7, <1>8, <1>9

\* The fields of MXJobSpec in types.go.
LEMMA SpecFields ==
    /\ Fields(GoMXJobSpec) = {"replicaSpecs", "startWebhook", "finishWebhook"}
    /\ Child(GoMXJobSpec, "replicaSpecs") = ref("MXReplicaSpecs")
    /\ Child(GoMXJobSpec, "startWebhook") = ref("Webhook")
    /\ Child(GoMXJobSpec, "finishWebhook") = ref("Webhook")
    /\ GoMXJobSpec.required = {"replicaSpecs"} /\ GoMXJobSpec.type = Empty
    /\ GoMXJobSpec # Anything /\ "replicaSpecs" \in DOMAIN GoMXJobSpec.properties
<1> DEFINE p == [replicaSpecs |-> ref("MXReplicaSpecs"),
                 startWebhook |-> ref("Webhook"), finishWebhook |-> ref("Webhook")]
<1>1. /\ p.replicaSpecs = ref("MXReplicaSpecs") /\ p.startWebhook = ref("Webhook")
      /\ p.finishWebhook = ref("Webhook")
      /\ DOMAIN p = {"replicaSpecs", "startWebhook", "finishWebhook"}
  OBVIOUS
<1>2. GoMXJobSpec = Struct(p, {"replicaSpecs"})
  BY DEF GoMXJobSpec
<1> HIDE DEF p
<1>3. /\ GoMXJobSpec.properties = p /\ GoMXJobSpec.required = {"replicaSpecs"}
      /\ GoMXJobSpec.sub = <<>> /\ GoMXJobSpec.type = Empty
  BY <1>2 DEF Struct, SchemaProps
<1>4. Fields(GoMXJobSpec) = DOMAIN p /\ \A f \in DOMAIN p : Child(GoMXJobSpec, f) = p[f]
  BY <1>3 DEF Fields, Child
<1>5. GoMXJobSpec # Anything
  BY <1>3, AnythingBelow
<1>6. QED
  BY <1>1, <1>3, <1>4, <1>5

\* The definition of MXJobSpec, which knows of no webhook.
LEMMA DefinedSpecFields ==
    /\ JSONProps(MXJobSpec) = MXJobSpec /\ MXJobSpec.ref = Empty /\ MXJobSpec.type = Empty
    /\ MXJobSpec.required = {"replicaSpecs"}
    /\ DOMAIN MXJobSpec.properties = {"replicaSpecs"}
    /\ Child(MXJobSpec, "replicaSpecs") = ref("MXReplicaSpecs")
    /\ \A f \in {"startWebhook", "finishWebhook"} : Child(MXJobSpec, f) = Anything
<1> DEFINE p == [replicaSpecs |-> ref("MXReplicaSpecs")]
<1>1. p.replicaSpecs = ref("MXReplicaSpecs") /\ DOMAIN p = {"replicaSpecs"}
  OBVIOUS
<1>2. MXJobSpec = Struct(p, {"replicaSpecs"})
  BY DEF MXJobSpec
<1> HIDE DEF p
<1>3. /\ MXJobSpec.properties = p /\ MXJobSpec.required = {"replicaSpecs"}
      /\ MXJobSpec.sub = <<>> /\ MXJobSpec.ref = Empty /\ MXJobSpec.type = Empty
  BY <1>2 DEF Struct, SchemaProps
<1>4. JSONProps(MXJobSpec) = MXJobSpec
  BY <1>2, <1>3, Zenon DEF JSONProps, Struct
<1>5. "replicaSpecs" \in DOMAIN p /\ "startWebhook" \notin DOMAIN p /\ "finishWebhook" \notin DOMAIN p
  BY <1>1
<1>6. /\ Child(MXJobSpec, "replicaSpecs") = ref("MXReplicaSpecs")
      /\ Child(MXJobSpec, "startWebhook") = Anything
      /\ Child(MXJobSpec, "finishWebhook") = Anything
  BY <1>1, <1>3, <1>5 DEF Child
<1>7. QED
  BY <1>1, <1>3, <1>4, <1>6

\* A struct has a child where it has a property, and elsewhere says nothing.
LEMMA StructChild ==
    ASSUME NEW s, NEW p, NEW r, s = Struct(p, r)
    PROVE  /\ s.required = r /\ Fields(s) = DOMAIN p
           /\ \A f : Child(s, f) = IF f \in DOMAIN p THEN p[f] ELSE Anything
<1>1. s.properties = p /\ s.required = r /\ s.sub = <<>>
  BY DEF Struct, SchemaProps
<1>2. QED
  BY <1>1 DEF Fields, Child

\* A webhook's client configuration, its service, and their strings.
LEMMA WebhookFields ==
    /\ \A f \in Fields(GoWebhook) : GoType(Child(GoWebhook, f)) \in {String, WebhookClientConfig}
    /\ Fields(WebhookClientConfig) = {"url", "service", "caBundle"}
    /\ \A f \in Fields(WebhookClientConfig) :
           GoType(Child(WebhookClientConfig, f)) \in {String, ServiceReference}
    /\ \A f \in Fields(ServiceReference) : GoType(Child(ServiceReference, f)) = String
    /\ Fields(String) = {}
<1>1. GoType(String) = String /\ Fields(String) = {}
  BY TypedScalar, ScalarFacts, NotEmpty DEF String
<1>2. /\ GoType(ref("WebhookClientConfig")) = WebhookClientConfig
      /\ GoType(ref("ServiceReference")) = ServiceReference
  BY OwnReferred, OwnTypes
<1>3. /\ Fields(GoWebhook) = {"Name", "clientConfig"}
      /\ \A f \in Fields(GoWebhook) : Child(GoWebhook, f) \in {String, ref("WebhookClientConfig")}
  <2> DEFINE p == [Name |-> String, clientConfig |-> ref("WebhookClientConfig")]
  <2>1. /\ p.Name = String /\ p.clientConfig = ref("WebhookClientConfig")
        /\ DOMAIN p = {"Name", "clientConfig"}
    OBVIOUS
  <2>2. GoWebhook = Struct(p, {"clientConfig"})
    BY DEF GoWebhook
  <2> HIDE DEF p
  <2>3. Fields(GoWebhook) = DOMAIN p /\ \A f \in DOMAIN p : Child(GoWebhook, f) = p[f]
    BY <2>2, StructChild
  <2>4. QED
    BY <2>1, <2>3
<1>4. /\ Fields(WebhookClientConfig) = {"url", "service", "caBundle"}
      /\ \A f \in Fields(WebhookClientConfig) :
             Child(WebhookClientConfig, f) \in {String, ref("ServiceReference")}
  <2> DEFINE p == [url |-> String, service |-> ref("ServiceReference"), caBundle |-> String]
  <2>1. /\ p.url = String /\ p.service = ref("ServiceReference") /\ p.caBundle = String
        /\ DOMAIN p = {"url", "service", "caBundle"}
    OBVIOUS
  <2>2. WebhookClientConfig = Struct(p, {"service", "caBundle"})
    BY DEF WebhookClientConfig
  <2> HIDE DEF p
  <2>3. /\ Fields(WebhookClientConfig) = DOMAIN p
        /\ \A f \in DOMAIN p : Child(WebhookClientConfig, f) = p[f]
    BY <2>2, StructChild, SMTT(30)
  <2>4. QED
    BY <2>1, <2>3
<1>5. \A f \in Fields(ServiceReference) : Child(ServiceReference, f) = String
  <2> DEFINE p == [namespace |-> String, name |-> String, path |-> String]
  <2>1. \A f \in DOMAIN p : p[f] = String
    OBVIOUS
  <2>2. ServiceReference = Struct(p, {"namespace", "name"})
    BY DEF ServiceReference
  <2> HIDE DEF p
  <2>3. /\ Fields(ServiceReference) = DOMAIN p
        /\ \A f \in DOMAIN p : Child(ServiceReference, f) = p[f]
    BY <2>2, StructChild, SMTT(30)
  <2>4. QED
    BY <2>1, <2>3
<1>6. QED
  BY <1>1, <1>2, <1>3, <1>4, <1>5

\* MXReplicaSpecs has the three roles and no other.
LEMMA RolesFields == Fields(MXReplicaSpecs) = Roles
<1> DEFINE p == [scheduler |-> ref("MXReplicaSpec"), server |-> ref("MXReplicaSpec"),
                 worker |-> ref("MXReplicaSpec")]
<1>1. DOMAIN p = {"scheduler", "server", "worker"}
  OBVIOUS
<1>2. MXReplicaSpecs = Struct(p, {})
  BY DEF MXReplicaSpecs
<1> HIDE DEF p
<1>3. QED
  BY <1>1, <1>2, StructChild DEF Roles

-----------------------------------------------------------------------------
(* The template. *)

\* crd_templ.yaml says something of spec.replicaSpecs only.
LEMMA TemplateTop ==
    /\ \A f : Child(template, f) = IF f = "spec" THEN templateSpec ELSE Anything
    /\ \A f : Child(templateSpec, f) = IF f = "replicaSpecs" THEN templateRoles ELSE Anything
<1>1. \A f : Child(template, f) = IF f = "spec" THEN templateSpec ELSE Anything
  <2> DEFINE p == [spec |-> templateSpec]
  <2>1. DOMAIN p = {"spec"} /\ p["spec"] = templateSpec
    OBVIOUS
  <2>2. template = Struct(p, {})
    BY DEF template
  <2> HIDE DEF p
  <2>3. QED
    BY <2>1, <2>2, StructChild, SMTT(30)
<1>2. \A f : Child(templateSpec, f) = IF f = "replicaSpecs" THEN templateRoles ELSE Anything
  <2> DEFINE p == [replicaSpecs |-> templateRoles]
  <2>1. DOMAIN p = {"replicaSpecs"} /\ p["replicaSpecs"] = templateRoles
    OBVIOUS
  <2>2. templateSpec = Struct(p, {})
    BY DEF templateSpec
  <2> HIDE DEF p
  <2>3. QED
    BY <2>1, <2>2, StructChild, SMTT(30)
<1>3. QED
  BY <1>1, <1>2

\* It requires each of the roles.
LEMMA TemplateRoles ==
    /\ templateRoles.required = Roles
    /\ \A f \in Roles : Child(templateRoles, f) \in {templateScheduler, templateRole}
    /\ \A f : f \notin Roles => Child(templateRoles, f) = Anything
<1> DEFINE p == [scheduler |-> templateScheduler, server |-> templateRole, worker |-> templateRole]
<1>1. /\ p.scheduler = templateScheduler /\ p.server = templateRole /\ p.worker = templateRole
      /\ DOMAIN p = Roles
  BY DEF Roles
<1>2. templateRoles = Struct(p, Roles)
  BY DEF templateRoles, Roles
<1> HIDE DEF p
<1>3. /\ templateRoles.required = Roles
      /\ \A f : Child(templateRoles, f) = IF f \in DOMAIN p THEN p[f] ELSE Anything
  BY <1>2, StructChild
<1>4. \A f \in Roles : p[f] \in {templateScheduler, templateRole}
  BY <1>1 DEF Roles
<1>5. QED
  BY <1>1, <1>3, <1>4

\* It requires, in a role, at least one replica.
LEMMA TemplateRole ==
    ASSUME NEW s \in {templateScheduler, templateRole}
    PROVE  /\ Child(s, "replicas") = Typed("positive") /\ "replicas" \in s.required
           /\ \A f : Child(s, f) \in {Typed("positive"), Integer, Anything}
<1>1. CASE s = templateScheduler
  <2> DEFINE p == [replicas |-> Typed("positive"), psVerbose |-> Typed("positive"),
                   psRootPort |-> Integer]
  <2>1. /\ p["replicas"] = Typed("positive") /\ "replicas" \in DOMAIN p
        /\ \A f \in DOMAIN p : p[f] \in {Typed("positive"), Integer}
    OBVIOUS
  <2>2. s = Struct(p, {"replicas"})
    BY <1>1 DEF templateScheduler
  <2> HIDE DEF p
  <2>3. /\ s.required = {"replicas"}
        /\ \A f : Child(s, f) = IF f \in DOMAIN p THEN p[f] ELSE Anything
    BY <2>2, StructChild
  <2>4. QED
    BY <2>1, <2>3
<1>2. CASE s = templateRole
  <2> DEFINE p == [replicas |-> Typed("positive"), psVerbose |-> Typed("positive")]
  <2>1. /\ p["replicas"] = Typed("positive") /\ "replicas" \in DOMAIN p
        /\ \A f \in DOMAIN p : p[f] \in {Typed("positive"), Integer}
    OBVIOUS
  <2>2. s = Struct(p, {"replicas"})
    BY <1>2 DEF templateRole
  <2> HIDE DEF p
  <2>3. /\ s.required = {"replicas"}
        /\ \A f : Child(s, f) = IF f \in DOMAIN p THEN p[f] ELSE Anything
    BY <2>2, StructChild
  <2>4. QED
    BY <2>1, <2>3
<1>3. QED
  BY <1>1, <1>2

\* Below the template's schemas there are only schemas of the template.
LEMMA TemplateClosed ==
    ASSUME NEW s \in TemplateSchemas, NEW f
    PROVE  Child(s, f) \in TemplateSchemas
<1>1. CASE s \in {template, templateSpec, templateRoles, templateScheduler, templateRole}
  BY <1>1, TemplateTop, TemplateRoles, TemplateRole DEF TemplateSchemas
<1>2. CASE s \in {Typed("positive"), Integer, Anything}
  <2>1. s.properties = <<>> /\ s.sub = <<>>
    <3>1. PICK t : s = Typed(t)
      BY <1>2 DEF Typed, Integer, Anything
    <3>2. QED
      BY <3>1 DEF Typed, SchemaProps
  <2>2. Child(s, f) = Anything
    BY <2>1, NothingBelow
  <2>3. QED
    BY <2>2 DEF TemplateSchemas
<1>3. QED
  BY <1>1, <1>2 DEF TemplateSchemas

\* Every schema here is a SchemaProps.
LEMMA TemplateTyped ==
    ASSUME NEW s \in TemplateSchemas
    PROVE  DOMAIN s = DOMAIN Anything
BY DEF TemplateSchemas, template, templateSpec, templateRoles, templateScheduler, templateRole,
       Typed, Integer, Anything, Struct, SchemaProps

-----------------------------------------------------------------------------
(* The way down. *)

\* The place grows by the field called for.
LEMMA PathBelow ==
    ASSUME NEW s, NEW S, s \in Seq(S), NEW f
    PROVE  LET t == Append(s, f) IN
               /\ t \in Seq(S \cup {f}) /\ Len(t) = Len(s) + 1 /\ t # <<>>
               /\ Len(s) \in Nat /\ t[Len(t)] = f /\ \A i \in 1..Len(s) : t[i] = s[i]
<1> DEFINE t == Append(s, f)
<1>1. s \in Seq(S \cup {f}) /\ f \in S \cup {f} /\ Len(s) \in Nat
  OBVIOUS
<1>2. t \in Seq(S \cup {f}) /\ Len(t) = Len(s) + 1
  BY <1>1
<1>3. t[Len(s) + 1] = f /\ \A i \in 1..Len(s) : t[i] = s[i]
  BY <1>1
<1>4. Len(t) # 0
  BY <1>1, <1>2
<1>5. t # <<>>
  <2>1. \A u : u = <<>> => Len(u) = 0
    OBVIOUS
  <2> HIDE DEF t
  <2>2. QED
    BY <1>4, <2>1
<1>6. QED
  BY <1>1, <1>2, <1>3, <1>5

\* Arithmetic on the depth of a place.
LEMMA Lengths ==
    ASSUME NEW n \in Nat
    PROVE  /\ (n + 1 = 2 => n = 1) /\ (n + 1 = 3 => n = 2) /\ (n + 1 = 4 => n = 3)
           /\ n >= 2 /\ n # 2 => n >= 3 /\ 3 \in 1..n
           /\ n > 0 => n + 1 > 0 /\ n + 1 # 1
OBVIOUS

\* The places after a call for the field f, one case per kind of place.
LEMMA PlacesBelow ==
    ASSUME Places, NEW f \in Fields(declared.schema), SchemaPropsToJSONProps(f)
    PROVE  Places'
<1>1. PICK S : path \in Seq(S)
  BY DEF Places
<1> DEFINE d == declared.schema
           g == generated.schema
<1>2. /\ path' \in Seq(S \cup {f}) /\ Len(path') = Len(path) + 1 /\ Len(path) \in Nat
      /\ path'[Len(path')] = f /\ \A i \in 1..Len(path) : path'[i] = path[i]
  BY <1>1, PathBelow, SMTT(30) DEF SchemaPropsToJSONProps
<1>3. /\ declared'.schema = GoType(Child(d, f))
      /\ generated'.schema = JSONProps(Child(g, f))
      /\ declared'.demanded <=> f \in d.required
      /\ generated'.demanded <=> f \in g.required
  <2>1. /\ declared' = View(GoType(Child(d, f)), f \in d.required)
        /\ generated' = View(JSONProps(Child(g, f)), f \in g.required)
    BY DEF SchemaPropsToJSONProps
  <2>2. ASSUME NEW v, NEW x, NEW b, v = View(x, b) PROVE v.schema = x /\ v.demanded = b
    BY <2>2, ViewFields
  <2> HIDE DEF d, g
  <2>3. declared'.schema = GoType(Child(d, f)) /\ declared'.demanded = (f \in d.required)
    BY <2>1, <2>2, SMTT(30)
  <2>4. generated'.schema = JSONProps(Child(g, f)) /\ generated'.demanded = (f \in g.required)
    BY <2>1, <2>2, SMTT(30)
  <2>5. QED
    BY <2>3, <2>4, Zenon
<1>4. g.ref = Empty
  BY DEF SchemaPropsToJSONProps
<1>5. ASSUME AtJob PROVE AtSpec' \/ Elsewhere'
  <2>1. f \in Fields(MXJob) /\ Len(path') = 1 /\ path'[1] = f
    BY <1>2, <1>5, SMTT(30) DEF AtJob
  <2>2. ASSUME f = "spec" PROVE AtSpec'
    <3>1. declared'.schema = GoMXJobSpec /\ generated'.schema = ref("MXJobSpec")
      BY <1>3, <1>5, <2>2, JobFields, ReferenceFacts, OwnTypes, OwnReferred, SMTT(30) DEF AtJob
    <3>2. QED
      BY <2>1, <2>2, <3>1 DEF AtSpec
  <2>3. ASSUME f # "spec" PROVE Elsewhere'
    <3>1. Scalar(Child(MXJob, f)) \/ Reference(Child(MXJob, f))
      BY <2>1, <2>3, JobFields
    <3>2. /\ Resolved(declared'.schema)
          /\ \/ generated'.schema = JSONProps(declared'.schema)
             \/ \E n \in References : generated'.schema = ref(n) /\ declared'.schema = GoTypes[n]
      BY <1>3, <1>5, <3>1, FieldConverted DEF AtJob
    <3>3. generated'.demanded <=> declared'.demanded
      BY <1>3, <1>5 DEF AtJob
    <3>4. QED
      BY <2>1, <2>3, <3>2, <3>3 DEF Elsewhere, Converted
  <2>4. QED
    BY <2>2, <2>3
<1>6. ASSUME AtSpec PROVE AtWebhook' \/ Elsewhere'
  <2>1. /\ f \in {"replicaSpecs", "startWebhook", "finishWebhook"}
        /\ Len(path') = 2 /\ path'[2] = f /\ g = MXJobSpec
    <3>1. f \in {"replicaSpecs", "startWebhook", "finishWebhook"}
      BY <1>6, SpecFields DEF AtSpec
    <3>2. g # ref("MXJobSpec")
      BY <1>4, ReferenceFacts, NotEmpty
    <3>3. QED
      BY <1>2, <1>6, <3>1, <3>2, SMTT(30) DEF AtSpec
  <2>2. ASSUME f = "replicaSpecs" PROVE Elsewhere'
    <3>1. /\ Child(d, f) = ref("MXReplicaSpecs") /\ Child(g, f) = ref("MXReplicaSpecs")
          /\ f \in d.required /\ f \in g.required
      BY <1>6, <2>1, <2>2, SpecFields, DefinedSpecFields DEF AtSpec
    <3>2. /\ Resolved(declared'.schema)
          /\ \/ generated'.schema = JSONProps(declared'.schema)
             \/ \E n \in References : generated'.schema = ref(n) /\ declared'.schema = GoTypes[n]
      BY <1>3, <3>1, FieldConverted, RefReference, OwnReferences, SMTT(30)
    <3>3. QED
      BY <1>3, <2>1, <3>1, <3>2 DEF Elsewhere, Converted
  <2>3. ASSUME f # "replicaSpecs" PROVE AtWebhook'
    <3>1. Child(d, f) = ref("Webhook") /\ Child(g, f) = Anything
      BY <1>6, <2>1, <2>3, SpecFields, DefinedSpecFields DEF AtSpec
    <3>2. declared'.schema = GoWebhook /\ generated'.schema = Anything
      BY <1>3, <3>1, OwnReferred, OwnTypes, AnythingBelow
    <3>3. QED
      BY <2>1, <2>3, <3>2 DEF AtWebhook
  <2>4. QED
    BY <2>2, <2>3
<1>7. ASSUME AtWebhook PROVE AtWebhook'
  <2>1. generated'.schema = Anything
    BY <1>3, <1>7, AnythingBelow DEF AtWebhook
  <2>2. Len(path') >= 2 /\ path'[2] \in {"startWebhook", "finishWebhook"}
    BY <1>2, <1>7, SMTT(30) DEF AtWebhook
  <2>3. CASE Len(path) = 2
    <3>1. declared'.schema \in {String, WebhookClientConfig}
      BY <1>3, <1>7, <2>3, WebhookFields DEF AtWebhook
    <3>2. Len(path') = 3
      BY <1>2, <2>3, SMTT(30)
    <3>3. QED
      BY <2>1, <2>2, <3>1, <3>2 DEF AtWebhook
  <2>4. CASE Len(path) = 3
    <3>1. d = WebhookClientConfig
      BY <1>7, <2>4, WebhookFields, SMTT(30) DEF AtWebhook
    <3>2. f \in {"url", "service", "caBundle"} /\ declared'.schema \in {String, ServiceReference}
      BY <1>3, <3>1, WebhookFields
    <3>3. Len(path') = 4 /\ path'[4] = f
      BY <1>2, <2>4, SMTT(30)
    <3>4. QED
      BY <2>1, <2>2, <3>2, <3>3 DEF AtWebhook
  <2>5. CASE Len(path) = 4
    <3>1. d = ServiceReference
      BY <1>7, <2>5, WebhookFields, SMTT(30) DEF AtWebhook
    <3>2. declared'.schema = String
      BY <1>3, <3>1, WebhookFields
    <3>3. Len(path') = 5 /\ path'[4] = path[4] /\ path[4] \in {"url", "service", "caBundle"}
      BY <1>2, <1>7, <2>5, SMTT(30) DEF AtWebhook
    <3>4. QED
      BY <2>1, <2>2, <3>2, <3>3 DEF AtWebhook
  <2>6. CASE Len(path) = 5
    BY <1>7, <2>6, WebhookFields, SMTT(30) DEF AtWebhook
  <2>7. QED
    BY <1>7, <2>3, <2>4, <2>5, <2>6 DEF AtWebhook
<1>8. ASSUME Elsewhere PROVE Elsewhere'
  <2>1. g = JSONProps(d)
    <3>1. ~\E n \in References : g = ref(n)
      BY <1>4, ReferenceFacts, ReferencesLead
    <3>2. Scalar(Typed("quantity"))
      BY TypedScalar, NotEmpty
    <3>3. ~Scalar(d)
      BY ScalarFacts
    <3>4. QED
      BY <1>8, <3>1, <3>2, <3>3 DEF Elsewhere, Converted
  <2>2. Resolved(d)
    BY <1>8 DEF Elsewhere
  <2> HIDE DEF d, g
  <2>3. f \in Fields(d)
    BY DEF d
  <2>4. /\ Resolved(declared'.schema)
        /\ generated'.demanded <=> declared'.demanded
        /\ LET c == declared'.schema
               h == generated'.schema
           IN  \/ h = JSONProps(c)
               \/ \E n \in References : h = ref(n) /\ c = GoTypes[n]
               \/ h = Anything /\ c = Typed("quantity")
               \/ h = Anything /\ Scalar(c) /\ f = "*"
    BY <1>3, <2>1, <2>2, <2>3, FieldBelow
  <2>5. Len(path') > 1
    BY <1>2, <1>8, SMTT(30) DEF Elsewhere
  <2>6. QED
    <3>1. Converted(declared.schema, generated.schema)'
      BY <1>2, <2>4 DEF Converted
    <3>2. Len(path)' > 0 /\ Len(path)' # 1
      <4>1. Len(path') = Len(path) + 1 /\ Len(path) \in Nat
        BY <1>2
      <4>2. QED
        BY <2>5, <4>1
    <3>3. QED
      BY <2>4, <3>1, <3>2, Zenon DEF Elsewhere
<1>9. InRoles' /\ Len(path') = 2 => declared'.schema = MXReplicaSpecs
  <2>1. HAVE InRoles' /\ Len(path') = 2
  <2>2. Len(path) = 1 /\ path[1] = "spec" /\ f = "replicaSpecs"
    <3>1. Len(path) = 1
      <4>1. Len(path') = Len(path) + 1 /\ Len(path) \in Nat
        BY <1>2
      <4>2. Len(path') = 2
        BY <2>1
      <4>3. QED
        BY <4>1, <4>2, Lengths, Zenon
    <3>2. path'[1] = path[1] /\ path'[2] = f
      BY <1>2, <3>1, SMTT(30)
    <3>3. QED
      BY <2>1, <3>1, <3>2 DEF InRoles
  <2>3. d = GoMXJobSpec
    BY <2>2 DEF Places, AtJob, AtSpec, AtWebhook, Elsewhere
  <2>4. QED
    BY <1>3, <2>2, <2>3, SpecFields, OwnReferred, OwnTypes
<1>10. InRoles' /\ Len(path') >= 3 => path'[3] \in Roles
  <2>1. HAVE InRoles' /\ Len(path') >= 3
  <2>2. InRoles /\ Len(path) >= 2
    BY <1>2, <2>1, SMTT(30) DEF InRoles
  <2>3. CASE Len(path) = 2
    BY <1>2, <2>2, <2>3, RolesFields, SMTT(30) DEF Places
  <2>4. CASE Len(path) # 2
    <3>1. Len(path) >= 3 /\ path'[3] = path[3]
      <4>1. Len(path) \in Nat /\ Len(path) >= 2
        BY <1>2, <2>2
      <4>2. Len(path) >= 3 /\ 3 \in 1..Len(path)
        BY <2>4, <4>1, Lengths, Zenon
      <4>3. QED
        BY <1>2, <4>2
    <3>2. QED
      BY <2>2, <3>1 DEF Places
  <2>5. QED
    BY <2>3, <2>4
<1>11. (\E s, b : declared' = View(s, b)) /\ (\E s, b : generated' = View(s, b))
  BY DEF SchemaPropsToJSONProps
<1>12. QED
  BY <1>2, <1>5, <1>6, <1>7, <1>8, <1>9, <1>10, <1>11 DEF Places

\* The places after the call for the definition a schema refers to.
LEMMA PlacesNested ==
    ASSUME Places, nested
    PROVE  Places'
<1> DEFINE d == declared.schema
           n == generated.schema.ref
<1>1. /\ path' = path /\ declared' = declared /\ n # Empty
      /\ generated' = View(IF n \in DOMAIN openapiSpec THEN JSONProps(openapiSpec[n])
                                                       ELSE Anything, generated.demanded)
  BY DEF nested
<1>2. /\ generated'.schema = IF n \in DOMAIN openapiSpec THEN JSONProps(openapiSpec[n])
                                                         ELSE Anything
      /\ generated'.demanded = generated.demanded
  BY <1>1 DEF View
<1>3. ~AtJob
  BY <1>1, JobFields DEF AtJob
<1>4. ~AtWebhook
  BY <1>1, AnythingBelow DEF AtWebhook
<1>5. ASSUME AtSpec PROVE AtSpec'
  <2>1. n = "MXJobSpec"
    BY <1>1, <1>5, ReferenceFacts, DefinedSpecFields DEF AtSpec
  <2>2. generated'.schema = MXJobSpec
    BY <1>2, <2>1, Tables, DefinitionsAssumption, DefinedSpecFields
  <2>3. QED
    BY <1>1, <1>5, <2>2 DEF AtSpec
<1>6. ASSUME Elsewhere PROVE Elsewhere'
  <2>1. JSONProps(d).ref = Empty
    <3>1. d.ref = Empty
      BY <1>6, ScalarFacts, StructOfFacts, ListFacts, MapFacts DEF Elsewhere, Resolved
    <3>2. QED
      BY <3>1 DEF JSONProps, SchemaProps
  <2>2. PICK m \in References : generated.schema = ref(m) /\ d = GoTypes[m]
    BY <1>1, <1>6, <2>1, AnythingBelow DEF Elsewhere, Converted
  <2>3. n = m
    BY <2>2, ReferenceFacts
  <2>4. \/ generated'.schema = JSONProps(d)
        \/ generated'.schema = Anything /\ d = Typed("quantity")
    BY <1>2, <2>2, <2>3, ReferencesLead
  <2>5. Converted(d, generated.schema)'
    BY <1>1, <2>4 DEF Converted
  <2>6. QED
    BY <1>1, <1>2, <1>6, <2>5 DEF Elsewhere
<1>7. QED
  BY <1>1, <1>3, <1>4, <1>5, <1>6 DEF Places, InRoles

\* The template's schemas after a call for the field f.
LEMMA TemplateBelow ==
    ASSUME Places, TemplatePlaces, NEW f \in Fields(declared.schema), SchemaPropsToJSONProps(f)
    PROVE  TemplatePlaces'
<1>1. PICK S : path \in Seq(S)
  BY DEF Places
<1> DEFINE t == templated.schema
<1>2. /\ Len(path') = Len(path) + 1 /\ Len(path) \in Nat
      /\ path'[Len(path')] = f /\ \A i \in 1..Len(path) : path'[i] = path[i]
  BY <1>1, PathBelow, SMTT(30) DEF SchemaPropsToJSONProps
<1>len. Len(path') = Len(path) + 1 /\ Len(path) \in Nat
  BY <1>2
<1>3. /\ templated' = View(Child(t, f), f \in t.required)
      /\ templated'.schema = Child(t, f)
      /\ templated'.demanded <=> f \in t.required
  <2>1. templated' = View(Child(t, f), f \in t.required)
    BY DEF SchemaPropsToJSONProps
  <2>2. ASSUME NEW v, NEW x, NEW b, v = View(x, b) PROVE v.schema = x /\ v.demanded = b
    BY <2>2, ViewFields
  <2> HIDE DEF t
  <2>3. templated'.schema = Child(t, f) /\ templated'.demanded = (f \in t.required)
    BY <2>1, <2>2, SMTT(30)
  <2>4. QED
    BY <2>1, <2>3, Zenon
<1>4. \E s \in TemplateSchemas, b \in BOOLEAN : templated' = View(s, b)
  <2>1. t \in TemplateSchemas
    BY ViewFields, SMTT(30) DEF TemplatePlaces
  <2>2. Child(t, f) \in TemplateSchemas /\ (f \in t.required) \in BOOLEAN
    BY <2>1, TemplateClosed
  <2>3. QED
    BY <1>3, <2>2, Zenon
<1>5. Len(path') # 0
  BY <1>2
<1>6. Len(path') = 1 /\ path'[1] = "spec" => templated'.schema = templateSpec
  <2>1. HAVE Len(path') = 1 /\ path'[1] = "spec"
  <2>2. Len(path) = 0 /\ f = "spec"
    BY <1>2, <2>1
  <2>3. QED
    BY <1>3, <2>2, TemplateTop DEF TemplatePlaces
<1>7. InRoles' /\ Len(path') = 2 => templated'.schema = templateRoles
  <2>1. HAVE InRoles' /\ Len(path') = 2
  <2>2. Len(path) = 1
    <3>1. Len(path') = 2
      BY <2>1
    <3>2. QED
      BY <1>len, <3>1, Lengths, Zenon
  <2>3. path[1] = "spec" /\ f = "replicaSpecs"
    BY <1>2, <2>1, <2>2, SMTT(30) DEF InRoles
  <2>4. QED
    BY <1>3, <2>2, <2>3, TemplateTop DEF TemplatePlaces
<1>8. InRoles' /\ Len(path') = 3 =>
          templated'.demanded /\ templated'.schema \in {templateScheduler, templateRole}
  <2>1. HAVE InRoles' /\ Len(path') = 3
  <2>2. Len(path) = 2
    <3>1. Len(path') = 3
      BY <2>1
    <3>2. QED
      BY <1>len, <3>1, Lengths, Zenon
  <2>3. InRoles
    BY <1>2, <2>1, <2>2, SMTT(30) DEF InRoles
  <2>4. f \in Roles
    BY <2>2, <2>3, RolesFields DEF Places
  <2>5. t = templateRoles
    BY <2>2, <2>3 DEF TemplatePlaces
  <2>6. QED
    BY <1>3, <2>4, <2>5, TemplateRoles
<1>9. InRoles' /\ Len(path') = 4 /\ path'[4] = "replicas" =>
          templated'.demanded /\ templated'.schema = Typed("positive")
  <2>1. HAVE InRoles' /\ Len(path') = 4 /\ path'[4] = "replicas"
  <2>2. Len(path) = 3 /\ f = "replicas"
    <3>1. Len(path) = 3
      <4>1. Len(path') = 4
        BY <2>1
      <4>2. QED
        BY <1>len, <4>1, Lengths, Zenon
    <3>2. QED
      BY <1>2, <2>1, <3>1
  <2>3. InRoles
    BY <1>2, <2>1, <2>2, SMTT(30) DEF InRoles
  <2>4. t \in {templateScheduler, templateRole}
    BY <2>2, <2>3 DEF TemplatePlaces
  <2>5. QED
    BY <1>3, <2>2, <2>4, TemplateRole
<1>10. QED
  BY <1>4, <1>5, <1>6, <1>7, <1>8, <1>9 DEF TemplatePlaces

-----------------------------------------------------------------------------
(* The invariant holds. *)

\* The conversion begins with the job as a whole.
LEMMA CRDInitially == Init => CRDInv
<1> SUFFICES ASSUME Init PROVE CRDInv
  OBVIOUS
<1>1. /\ declared = View(MXJob, TRUE) /\ generated = View(MXJob, TRUE)
      /\ templated = View(template, TRUE)
  BY Tables, OwnTypes, JobFields DEF Init
<1>2. Len(path) = 0 /\ path \in Seq({})
  BY DEF Init
<1>3. Places
  <2>1. AtJob
    BY <1>1, <1>2, ViewFields, Zenon DEF AtJob
  <2>2. ~InRoles
    BY <1>2 DEF InRoles
  <2>3. QED
    BY <1>1, <1>2, <2>1, <2>2, Zenon DEF Places
<1>4. TemplatePlaces
  <2>1. templated.schema = template /\ template \in TemplateSchemas /\ TRUE \in BOOLEAN
    BY <1>1, ViewFields, Zenon DEF TemplateSchemas
  <2>2. ~InRoles /\ Len(path) # 1
    BY <1>2 DEF InRoles
  <2>3. QED
    BY <1>1, <2>1, <2>2, Zenon DEF TemplatePlaces
<1>5. Settled
  BY DEF Settled, Init, Stage
<1>6. Known
  BY OwnTypes DEF Known, Init
<1>7. QED
  BY <1>3, <1>4, <1>5, <1>6 DEF CRDInv

\* What a stored job may come to.
LEMMA OutcomesListed ==
    /\ outcomes \subseteq {"panics", "podsRefused", "succeedsEmpty", "idles", "runs"}
    /\ "panics" \in outcomes => flaw = "kind" \/ nilDereferenced
    /\ "succeedsEmpty" \in outcomes =>
           flaw = "zero" /\ path = <<"spec", "replicaSpecs", "worker", "replicas">>
    /\ "podsRefused" \in outcomes =>
           flaw = "missing" /\ Len(path) > 4 /\ path[4] = "template" /\ declared.demanded
<1> DEFINE A == flaw = "missing" /\ path \in {<<"spec">>, <<"spec", "replicaSpecs">>}
           B == flaw = "zero" /\ path = <<"spec", "replicaSpecs", "worker", "replicas">>
           C == flaw = "missing" /\ Len(path) > 4 /\ path[4] = "template" /\ declared.demanded
<1>1. outcomes = CASE flaw = "kind" -> {"panics"}
                   [] nilDereferenced -> {"panics"}
                   [] A -> {"idles"}
                   [] B -> {"succeedsEmpty"}
                   [] C -> {"podsRefused", "runs"}
                   [] OTHER -> {"runs"}
  BY DEF outcomes
<1> HIDE DEF A, B, C
<1>2. /\ outcomes \subseteq {"panics", "podsRefused", "succeedsEmpty", "idles", "runs"}
      /\ "panics" \in outcomes => flaw = "kind" \/ nilDereferenced
      /\ "succeedsEmpty" \in outcomes => B
      /\ "podsRefused" \in outcomes => C
  BY <1>1
<1>3. QED
  BY <1>2 DEF B, C

\* The names the conversion follows are names of types.
LEMMA NamesKnown ==
    ASSUME Places, generated.schema.ref # Empty
    PROVE  generated.schema.ref \in DOMAIN GoTypes
<1>1. ~AtJob /\ ~AtWebhook
  BY JobFields, AnythingBelow DEF AtJob, AtWebhook
<1>2. ASSUME AtSpec PROVE generated.schema.ref = "MXJobSpec"
  BY <1>2, ReferenceFacts, DefinedSpecFields DEF AtSpec
<1>3. ASSUME Elsewhere PROVE generated.schema.ref \in References
  <2>1. declared.schema.ref = Empty
    BY <1>3, ScalarFacts, StructOfFacts, ListFacts, MapFacts DEF Elsewhere, Resolved
  <2>2. JSONProps(declared.schema).ref = Empty
    BY <2>1 DEF JSONProps, SchemaProps
  <2>3. PICK m \in References : generated.schema = ref(m)
    BY <1>3, <2>2, AnythingBelow DEF Elsewhere, Converted
  <2>4. QED
    BY <2>3, ReferenceFacts
<1>4. QED
  BY <1>1, <1>2, <1>3, OwnTypes, ReferencesLead DEF Places

\* One case per action.
LEMMA CRDStep == CRDInv /\ [Next]_vars => CRDInv'
<1> SUFFICES ASSUME CRDInv, [Next]_vars PROVE CRDInv'
  OBVIOUS
<1>0. Places /\ TemplatePlaces /\ Settled /\ Known
  BY DEF CRDInv
<1>1. ASSUME path' = path, declared' = declared, generated' = generated, templated' = templated
      PROVE  Places' /\ TemplatePlaces'
  <2>1. Places'
    BY <1>0, <1>1 DEF Places, AtJob, AtSpec, AtWebhook, Elsewhere, Converted, InRoles
  <2>2. TemplatePlaces'
    BY <1>0, <1>1 DEF TemplatePlaces, InRoles
  <2>3. QED
    BY <2>1, <2>2
<1>2. ASSUME path' = path, declared' = declared, generated' = generated, templated' = templated,
             crd' = crd, flaw' = flaw
      PROVE  /\ outcomes' = outcomes
             /\ Refuses(IF crd = "template" THEN templated ELSE generated, flaw)' <=>
                Refuses(IF crd = "template" THEN templated ELSE generated, flaw)
  BY <1>2 DEF outcomes, nilDereferenced, inRole, Refuses
<1>3. ASSUME NEW f \in Fields(declared.schema), SchemaPropsToJSONProps(f) PROVE CRDInv'
  <2>1. Places' /\ TemplatePlaces'
    BY <1>0, <1>3, PlacesBelow, TemplateBelow
  <2>2. Settled'
    BY <1>0, <1>3 DEF SchemaPropsToJSONProps, Settled
  <2>3. Known'
    BY <1>0, <1>3 DEF SchemaPropsToJSONProps, Known
  <2>4. QED
    BY <2>1, <2>2, <2>3 DEF CRDInv
<1>4. CASE nested
  <2>1. Places'
    BY <1>0, <1>4, PlacesNested
  <2>2. TemplatePlaces'
    BY <1>0, <1>4 DEF nested, TemplatePlaces, InRoles
  <2>3. Settled'
    BY <1>0, <1>4 DEF nested, Settled
  <2>4. Known'
    <3>1. generated.schema.ref # Empty /\ types' = Append(types, generated.schema.ref)
      BY <1>4 DEF nested
    <3>2. generated.schema.ref \in DOMAIN GoTypes
      BY <1>0, <3>1, NamesKnown, Zenon
    <3>3. types \in Seq(DOMAIN GoTypes)
      BY <1>0 DEF Known
    <3>4. QED
      BY <3>1, <3>2, <3>3 DEF Known
  <2>5. QED
    BY <2>1, <2>2, <2>3, <2>4 DEF CRDInv
<1>5. CASE main
  <2>1. Settled' /\ Known'
    BY <1>0, <1>5 DEF main, Settled, Known, Stage
  <2>2. QED
    BY <1>1, <1>5, <2>1 DEF main, CRDInv
<1>6. ASSUME NEW v \in CRDs, install(v) PROVE CRDInv'
  <2>1. Settled' /\ Known'
    BY <1>0, <1>6 DEF install, Settled, Known, Stage
  <2>2. QED
    BY <1>1, <1>6, <2>1 DEF install, CRDInv
<1>7. ASSUME NEW x \in Flaws, submit(x) PROVE CRDInv'
  <2>1. Settled' /\ Known'
    BY <1>0, <1>7 DEF submit, Settled, Known, Stage, Refuses
  <2>2. QED
    BY <1>1, <1>7, <2>1 DEF submit, CRDInv
<1>8. CASE sync
  <2>1. pc' \in {"panics", "podsRefused", "succeedsEmpty", "idles", "runs"} /\ pc' \in outcomes'
    BY <1>2, <1>8, OutcomesListed DEF sync
  <2>2. Settled' /\ Known'
    BY <1>0, <1>2, <1>8, <2>1 DEF sync, Settled, Known, Stage
  <2>3. QED
    BY <1>1, <1>8, <2>2 DEF sync, CRDInv
<1>9. CASE restart
  <2>1. Settled' /\ Known'
    BY <1>0, <1>2, <1>9 DEF restart, Settled, Known, Stage
  <2>2. QED
    BY <1>1, <1>9, <2>1 DEF restart, CRDInv
<1>10. CASE UNCHANGED vars
  <2>1. Settled' /\ Known'
    BY <1>0, <1>2, <1>10 DEF vars, Settled, Known
  <2>2. QED
    BY <1>1, <1>10, <2>1 DEF vars, CRDInv
<1>11. QED
  BY <1>3, <1>4, <1>5, <1>6, <1>7, <1>8, <1>9, <1>10 DEF Next

\* The inductive invariant, in every state.
LEMMA CRDHolds == Spec => []CRDInv
BY CRDInitially, CRDStep, PTL DEF Spec

-----------------------------------------------------------------------------
(* What follows from it. *)

\* Whatever is converted is a SchemaProps.
LEMMA SchemasTyped ==
    /\ \A t, n, p, r, c : DOMAIN SchemaProps(t, n, p, r, c) = DOMAIN Anything
    /\ \A s : DOMAIN JSONProps(s) = DOMAIN Anything
    /\ \A n : DOMAIN ref(n) = DOMAIN Anything
BY DEF SchemaProps, Anything, JSONProps, ref

\* So is a Go type, and it says something.
LEMMA ResolvedTyped ==
    ASSUME NEW s, Resolved(s)
    PROVE  DOMAIN s = DOMAIN Anything /\ s # Anything
<1>1. CASE Scalar(s)
  <2>1. PICK t : s = Typed(t)
    BY <1>1 DEF Scalar
  <2>2. QED
    BY <1>1, <2>1, SchemasTyped, AnythingBelow, SMTT(30) DEF Scalar, Typed
<1>2. CASE StructOf(s)
  <2>1. PICK p, r : s = Struct(p, r)
    BY <1>2 DEF StructOf
  <2>2. QED
    BY <1>2, <2>1, SchemasTyped DEF StructOf, Struct
<1>3. CASE ListOf(s)
  <2>1. PICK c : s = Array(c)
    BY <1>3 DEF ListOf
  <2>2. QED
    BY <1>3, <2>1, ListFacts, SchemasTyped DEF Array
<1>4. CASE MapOf(s)
  <2>1. PICK c : s = Map(c)
    BY <1>4 DEF MapOf
  <2>2. QED
    BY <1>4, <2>1, MapFacts, SchemasTyped DEF Map
<1>5. QED
  BY <1>1, <1>2, <1>3, <1>4 DEF Resolved

\* So are the operator's own types.
LEMMA OwnTyped ==
    \A s \in {MXJob, GoMXJobSpec, MXJobSpec, GoWebhook, WebhookClientConfig, ServiceReference,
              String} : DOMAIN s = DOMAIN Anything
BY SchemasTyped, SMTT(30) DEF MXJob, GoMXJobSpec, MXJobSpec, GoWebhook, WebhookClientConfig,
                    ServiceReference, String, Typed, Struct

\* The types of a webhook say something.
LEMMA OwnSomething ==
    \A s \in {GoWebhook, WebhookClientConfig, ServiceReference, String} : s # Anything
<1>1. ASSUME NEW s, NEW p, NEW r, NEW x \in r, s = Struct(p, r) PROVE s # Anything
  <2>1. s.required = r
    BY <1>1, StructChild
  <2>2. QED
    BY <2>1, AnythingBelow
<1>2. GoWebhook # Anything
  BY <1>1 DEF GoWebhook
<1>3. WebhookClientConfig # Anything
  BY <1>1 DEF WebhookClientConfig
<1>4. ServiceReference # Anything
  BY <1>1 DEF ServiceReference
<1>5. String # Anything
  BY NotEmpty, AnythingBelow DEF String, Typed, SchemaProps
<1>6. QED
  BY <1>2, <1>3, <1>4, <1>5

\* Type correctness: at every place of the document the Go type is known,
\* whatever the conversion has made of it.
LEMMA CRDTyped == CRDInv => TypeOK
<1> SUFFICES ASSUME CRDInv PROVE TypeOK
  OBVIOUS
<1> USE DEF CRDInv
<1>1. pc \in Stage /\ crd \in CRDs \cup {"none"} /\ flaw \in Flaws \cup {"none"}
  BY DEF Settled
<1>2. /\ DOMAIN declared = {"schema", "demanded"} /\ DOMAIN generated = {"schema", "demanded"}
      /\ DOMAIN templated = {"schema", "demanded"}
  BY ViewFields, SMTT(30) DEF Places, TemplatePlaces
<1>3. DOMAIN templated.schema = DOMAIN Anything
  BY TemplateTyped, ViewFields, SMTT(30) DEF TemplatePlaces
<1>4. DOMAIN declared.schema = DOMAIN Anything /\ declared.schema # Anything
  <2>1. CASE AtJob
    BY <2>1, OwnTyped, JobFields DEF AtJob
  <2>2. CASE AtSpec
    BY <2>2, OwnTyped, SpecFields DEF AtSpec
  <2>3. CASE AtWebhook
    <3>1. declared.schema \in {GoWebhook, WebhookClientConfig, ServiceReference, String}
      BY <2>3 DEF AtWebhook
    <3>2. QED
      BY <3>1, OwnTyped, OwnSomething
  <2>4. CASE Elsewhere
    BY <2>4, ResolvedTyped DEF Elsewhere
  <2>5. QED
    BY <2>1, <2>2, <2>3, <2>4 DEF Places
<1>5. DOMAIN generated.schema = DOMAIN Anything
  BY OwnTyped, SchemasTyped DEF Places, AtJob, AtSpec, AtWebhook, Elsewhere, Converted
<1>6. \A i \in DOMAIN types : types[i] \in DOMAIN GoTypes
  BY DEF Known
<1>7. QED
  BY <1>1, <1>2, <1>3, <1>4, <1>5, <1>6, Zenon DEF TypeOK

\* The generated validation is faithful in every state of the invariant.
LEMMA CRDFaithful == CRDInv => GeneratedFaithful
<1> SUFFICES ASSUME CRDInv, generated.schema.ref = Empty, generated.schema # Anything
             PROVE  /\ generated.schema.type = declared.schema.type
                    /\ generated.schema.required = declared.schema.required
                    /\ DOMAIN generated.schema.properties \subseteq
                           DOMAIN declared.schema.properties
  BY DEF GeneratedFaithful
<1>1. CASE AtJob
  BY <1>1 DEF AtJob
<1>2. CASE AtSpec
  <2>1. generated.schema = MXJobSpec
    BY <1>2, ReferenceFacts, NotEmpty DEF AtSpec
  <2>2. QED
    BY <1>2, <2>1, SpecFields, DefinedSpecFields DEF AtSpec
<1>3. CASE AtWebhook
  BY <1>3 DEF AtWebhook
<1>4. CASE Elsewhere
  <2>1. ~\E n \in References : generated.schema = ref(n)
    BY ReferenceFacts, ReferencesLead
  <2>2. generated.schema = JSONProps(declared.schema)
    BY <1>4, <2>1 DEF Elsewhere, Converted
  <2>3. QED
    BY <2>2 DEF JSONProps, SchemaProps
<1>5. QED
  BY <1>1, <1>2, <1>3, <1>4 DEF CRDInv, Places

\* A job that cannot be decoded was stored at a place of Anything.
LEMMA CRDGaps == CRDInv => DecodeGaps
<1> SUFFICES ASSUME CRDInv, crd = "generated", pc = "panics", flaw = "kind"
             PROVE  \/ declared.schema.type \in {Empty, "quantity"}
                    \/ \E i \in DOMAIN path : path[i] \in {"startWebhook", "finishWebhook"}
                    \/ path[Len(path)] = "*" /\ generated.schema = Anything
  BY DEF DecodeGaps
<1>1. generated.schema.type = Empty /\ generated.schema.ref = Empty
  BY DEF CRDInv, Settled, Refuses
<1>2. CASE AtJob
  BY <1>1, <1>2 DEF AtJob
<1>3. CASE AtSpec
  BY <1>3, SpecFields DEF AtSpec
<1>4. CASE AtWebhook
  <2>1. PICK S : path \in Seq(S)
    BY DEF CRDInv, Places
  <2>2. 2 \in DOMAIN path
    BY <1>4, <2>1 DEF AtWebhook
  <2>3. QED
    BY <1>4, <2>2 DEF AtWebhook
<1>5. CASE Elsewhere
  <2>1. ~\E n \in References : generated.schema = ref(n)
    BY <1>1, ReferenceFacts, ReferencesLead, SMTT(30)
  <2>2. JSONProps(declared.schema).type = declared.schema.type
    BY DEF JSONProps, SchemaProps
  <2>3. Typed("quantity").type = "quantity"
    BY DEF Typed, SchemaProps
  <2>4. QED
    BY <1>1, <1>5, <2>1, <2>2, <2>3 DEF Elsewhere, Converted
<1>6. QED
  BY <1>2, <1>3, <1>4, <1>5 DEF CRDInv, Places

\* A place in a role, as the handler's code is modelled to see it.
LEMMA RolePlace ==
    ASSUME Places, NEW n \in {3, 4}, inRole(n)
    PROVE  InRoles /\ Len(path) = n
<1>1. PICK S : path \in Seq(S)
  BY DEF Places
<1>2. Len(path) = n /\ SubSeq(path, 1, 2) = <<"spec", "replicaSpecs">>
  BY DEF inRole
<1>3. SubSeq(path, 1, 2)[1] = path[1] /\ SubSeq(path, 1, 2)[2] = path[2]
  BY <1>1, <1>2
<1>4. path[1] = "spec" /\ path[2] = "replicaSpecs"
  <2>1. \A t : t = <<"spec", "replicaSpecs">> => t[1] = "spec" /\ t[2] = "replicaSpecs"
    OBVIOUS
  <2>2. QED
    BY <1>2, <1>3, <2>1, Zenon
<1>5. QED
  BY <1>2, <1>4 DEF InRoles

\* What the template requires of roles was there when the job was stored.
LEMMA CRDGuards == CRDInv => TemplateGuards
<1> SUFFICES ASSUME CRDInv, crd = "template"
             PROVE  /\ pc # "succeedsEmpty"
                    /\ pc = "panics" /\ flaw = "missing" => path[Len(path)] = "template"
  BY DEF TemplateGuards
<1> USE DEF CRDInv
<1>1. pc # "succeedsEmpty"
  <2>1. SUFFICES ASSUME pc = "succeedsEmpty" PROVE FALSE
    OBVIOUS
  <2>2. /\ flaw = "zero" /\ path = <<"spec", "replicaSpecs", "worker", "replicas">>
        /\ templated.schema.type # "positive"
    BY <2>1, OutcomesListed DEF Settled, Refuses
  <2>3. InRoles /\ Len(path) = 4 /\ path[4] = "replicas"
    BY <2>2 DEF InRoles
  <2>4. templated.schema = Typed("positive")
    BY <2>3 DEF TemplatePlaces
  <2>5. QED
    BY <2>2, <2>4 DEF Typed, SchemaProps
<1>2. ASSUME pc = "panics", flaw = "missing" PROVE path[Len(path)] = "template"
  <2>1. nilDereferenced /\ ~templated.demanded
    BY <1>2, OutcomesListed DEF Settled, Refuses
  <2>2. ~inRole(3)
    BY <2>1, RolePlace DEF TemplatePlaces
  <2>3. inRole(4) /\ path[4] \in {"replicas", "template"}
    BY <2>1, <2>2 DEF nilDereferenced
  <2>4. InRoles /\ Len(path) = 4
    BY <2>3, RolePlace
  <2>5. path[4] # "replicas"
    BY <2>1, <2>4 DEF TemplatePlaces
  <2>6. QED
    BY <2>3, <2>4, <2>5
<1>3. QED
  BY <1>1, <1>2

\* In a pod template both views demand the same.
LEMMA CRDComplete == CRDInv => PodsComplete
<1> SUFFICES ASSUME CRDInv, crd = "generated", pc = "podsRefused" PROVE FALSE
  BY DEF PodsComplete
<1>1. /\ Len(path) > 4 /\ path[4] = "template" /\ declared.demanded /\ ~generated.demanded
  BY OutcomesListed DEF CRDInv, Settled, Refuses
<1>2. ~AtJob /\ ~AtSpec /\ ~AtWebhook /\ ~Elsewhere
  BY <1>1 DEF AtJob, AtSpec, AtWebhook, Elsewhere
<1>3. QED
  BY <1>2 DEF CRDInv, Places

\* The state of the conversion and of the job submitted is well formed: every
\* name followed is that of a Go type, and at every place there is a Go type.
THEOREM CRDTypeCorrect == Spec => []TypeOK
BY CRDHolds, CRDTyped, PTL

\* SchemaPropsToJSONProps is faithful: for every table of definitions, at any
\* depth, where the validation says anything it says what the Go type says.
THEOREM ConversionFaithful == Spec => []GeneratedFaithful
BY CRDHolds, CRDFaithful, PTL

\* For every table of definitions, RuntimeObjectFromUnstructured panics for a
\* job the generated validation let pass only over an object as a whole, a
\* quantity, a value of a map, or a webhook.
THEOREM DecodeGapsKnown == Spec => []DecodeGaps
BY CRDHolds, CRDGaps, PTL

\* crd_templ.yaml's validation keeps away every job whose roles or numbers of
\* replicas the handler would dereference in vain, or take for done.
THEOREM TemplateKeepsAway == Spec => []TemplateGuards
BY CRDHolds, CRDGuards, PTL

\* For every table of definitions, under the generated validation no job is
\* stored whose pods lack a required field of the pod template.
THEOREM GeneratedPodsComplete == Spec => []PodsComplete
BY CRDHolds, CRDComplete, PTL


-----------------------------------------------------------------------------
(* The conversion ends.  It follows references and remembers none of them, *)
(* so nothing but the table of definitions can stop it: the hypothesis is  *)
(* that the definitions are in some order, each referring to lower ones.   *)

\* The definitions that may be called for from a schema: its own reference,
\* those of its fields or elements, and those of the elements of its fields.
Names(s) ==
    ({s.ref} \cup {Child(s, f).ref : f \in Fields(s)}
             \cup {Child(Child(s, f), "*").ref : f \in Fields(s)}) \ {Empty}

\* An order of the definitions in which none refers to itself, or to one that
\* refers back to it.
Descends(rank) ==
    /\ rank \in [DOMAIN GoTypes -> Nat]
    /\ \A n \in DOMAIN openapiSpec : \A m \in Names(openapiSpec[n]) : rank[m] < rank[n]

\* The definition the conversion is in.
Innermost == types[Len(types)]

\* The calls go down the order, and what is still to be called is lower yet.
Descending(rank) ==
    /\ Len(types) >= 1
    /\ \A i, j \in 1 .. Len(types) : i < j => rank[types[j]] < rank[types[i]]
    /\ Len(types) + rank[Innermost] <= 1 + rank["MXJob"]
    /\ \A n \in Names(generated.schema) : rank[n] < rank[Innermost]

\* Nothing can be called for from nothing.
LEMMA NoNames ==
    ASSUME NEW s, s.properties = <<>>, s.sub = <<>>
    PROVE  Names(s) = {s.ref} \ {Empty}
BY NothingBelow DEF Names

\* What can be called for from a converted field can be called for from the
\* schema it is a field of.
LEMMA FieldNames ==
    ASSUME NEW s, NEW f \in Fields(s),
           LET c == Child(s, f) IN Scalar(c) \/ (\E n : c = ref(n)) \/ ListOf(c) \/ MapOf(c)
    PROVE  Names(JSONProps(Child(s, f))) \subseteq Names(s)
<1> DEFINE c == Child(s, f)
<1>0. ({c.ref} \cup {Child(c, "*").ref}) \ {Empty} \subseteq Names(s)
  BY DEF Names
<1> HIDE DEF c
<1>1. CASE Scalar(c)
  BY <1>0, <1>1, ScalarFacts, NoNames DEF c
<1>2. ASSUME NEW n, c = ref(n) PROVE Names(JSONProps(c)) \subseteq Names(s)
  BY <1>0, <1>2, ReferenceFacts, NoNames, SMTT(30)
<1>3. CASE ListOf(c)
  <2>1. JSONProps(c) = c /\ Fields(c) = {"*"} /\ Child(c, "*") = c.sub[1] /\ c.ref = Empty
    BY <1>3, ListFacts
  <2>2. c.sub[1].properties = <<>> /\ c.sub[1].sub = <<>>
    BY <1>3, ScalarFacts, ReferenceFacts, SMTT(30) DEF ListOf, Reference
  <2>3. Child(c.sub[1], "*").ref = Empty
    BY <2>2, NothingBelow, AnythingBelow
  <2>4. Names(c) \subseteq {c.sub[1].ref} \ {Empty}
    BY <2>1, <2>3 DEF Names
  <2>5. QED
    BY <1>0, <2>1, <2>4 DEF c
<1>4. CASE MapOf(c)
  <2>1. JSONProps(c) = Typed("object")
    BY <1>4, MapFacts
  <2>2. Names(Typed("object")) = {}
    BY NoNames DEF Typed, SchemaProps
  <2>3. QED
    BY <2>1, <2>2 DEF c
<1>5. QED
  BY <1>1, <1>2, <1>3, <1>4 DEF c

\* At every place of the document the fields of the generated schema are of
\* these kinds.
LEMMA GeneratedFields ==
    ASSUME CRDInv, generated.schema.ref = Empty, NEW f \in Fields(generated.schema)
    PROVE  LET c == Child(generated.schema, f)
           IN  Scalar(c) \/ (\E n : c = ref(n)) \/ ListOf(c) \/ MapOf(c)
<1>1. CASE AtJob
  BY <1>1, JobFields DEF AtJob, Reference
<1>2. CASE AtSpec
  <2>1. generated.schema = MXJobSpec
    BY <1>2, ReferenceFacts, NotEmpty DEF AtSpec
  <2>2. MXJobSpec.sub = <<>>
    BY DEF MXJobSpec, Struct, SchemaProps
  <2>3. Fields(MXJobSpec) = {"replicaSpecs"}
    BY <2>2, DefinedSpecFields DEF Fields
  <2>4. QED
    BY <2>1, <2>3, DefinedSpecFields
<1>3. CASE AtWebhook
  BY <1>3, AnythingBelow DEF AtWebhook
<1>4. CASE Elsewhere
  <2>1. ~\E n \in References : generated.schema = ref(n)
    BY ReferenceFacts, ReferencesLead
  <2>2. generated.schema # Anything
    BY AnythingBelow
  <2>3. generated.schema = JSONProps(declared.schema) /\ Resolved(declared.schema)
    BY <1>4, <2>1, <2>2 DEF Elsewhere, Converted
  <2>4. CASE Scalar(declared.schema)
    BY <2>3, <2>4, ScalarFacts
  <2>5. CASE StructOf(declared.schema)
    <3>1. generated.schema = declared.schema
      BY <2>3, <2>5, StructOfFacts
    <3>2. StructOf(generated.schema)
      BY <2>5, <3>1
    <3>3. QED
      BY <3>2, StructOfFacts DEF Reference
  <2>6. CASE ListOf(declared.schema)
    <3>1. generated.schema = declared.schema
      BY <2>3, <2>6, ListFacts
    <3>2. ListOf(generated.schema)
      BY <2>6, <3>1
    <3>3. Child(generated.schema, f) = generated.schema.sub[1]
      BY <3>2, ListFacts, SMTT(30)
    <3>4. QED
      BY <3>2, <3>3 DEF ListOf, Reference
  <2>7. CASE MapOf(declared.schema)
    <3>1. generated.schema = Typed("object")
      BY <2>3, <2>7, MapFacts
    <3>2. Fields(Typed("object")) = {}
      BY NothingBelow DEF Typed, SchemaProps
    <3>3. QED
      BY <3>1, <3>2
  <2>8. QED
    BY <2>3, <2>4, <2>5, <2>6, <2>7 DEF Resolved
<1>5. QED
  BY <1>1, <1>2, <1>3, <1>4 DEF CRDInv, Places

\* The definition a reference leads to is converted to itself.
LEMMA NestedDefined ==
    ASSUME CRDInv, generated.schema.ref # Empty, generated.schema.ref \in DOMAIN openapiSpec
    PROVE  JSONProps(openapiSpec[generated.schema.ref]) = openapiSpec[generated.schema.ref]
<1> DEFINE name == generated.schema.ref
<1>1. name = "MXJobSpec" \/ name \in References
  <2>1. ~AtJob /\ ~AtWebhook
    BY JobFields, AnythingBelow DEF AtJob, AtWebhook
  <2>2. ASSUME AtSpec PROVE name = "MXJobSpec"
    BY <2>2, ReferenceFacts, DefinedSpecFields DEF AtSpec
  <2>3. ASSUME Elsewhere PROVE name \in References
    <3>1. declared.schema.ref = Empty
      BY <2>3, ScalarFacts, StructOfFacts, ListFacts, MapFacts DEF Elsewhere, Resolved
    <3>2. JSONProps(declared.schema).ref = Empty
      BY <3>1 DEF JSONProps, SchemaProps
    <3>3. PICK m \in References : generated.schema = ref(m)
      BY <2>3, <3>2, AnythingBelow DEF Elsewhere, Converted
    <3>4. QED
      BY <3>3, ReferenceFacts
  <2>4. QED
    BY <2>1, <2>2, <2>3 DEF CRDInv, Places
<1> HIDE DEF name
<1>2. CASE name = "MXJobSpec"
  BY <1>2, Tables, DefinedSpecFields DEF name
<1>3. CASE name \in References
  <2>1. Scalar(openapiSpec[name]) \/ StructOf(openapiSpec[name])
    BY <1>3, ReferencesLead DEF name
  <2>2. QED
    BY <2>1, ScalarFacts, StructOfFacts DEF name
<1>4. QED
  BY <1>1, <1>2, <1>3

\* Each call keeps to the order.
LEMMA DescendingStep ==
    ASSUME NEW rank, Descends(rank), CRDInv, Descending(rank), [Next]_vars
    PROVE  Descending(rank)'
<1>0. /\ rank \in [DOMAIN GoTypes -> Nat] /\ types \in Seq(DOMAIN GoTypes) /\ Len(types) \in Nat
      /\ Len(types) >= 1 /\ "MXJob" \in DOMAIN GoTypes /\ Innermost \in DOMAIN GoTypes
      /\ \A i \in 1 .. Len(types) : types[i] \in DOMAIN GoTypes
  <2>1. Known /\ Len(types) >= 1
    BY DEF CRDInv, Descending
  <2>2. QED
    BY <2>1, OwnTypes, SMTT(30) DEF Descends, Known, Innermost
<1>1. ASSUME NEW f, SchemaPropsToJSONProps(f) PROVE Descending(rank)'
  <2>1. /\ types' = types /\ generated.schema.ref = Empty
        /\ generated'.schema = JSONProps(Child(generated.schema, f))
    BY <1>1, ViewFields DEF SchemaPropsToJSONProps
  <2>2. CASE f \in Fields(generated.schema)
    <3>1. Names(generated'.schema) \subseteq Names(generated.schema)
      BY <2>1, <2>2, GeneratedFields, FieldNames
    <3>2. QED
      BY <2>1, <3>1 DEF Descending, Innermost
  <2>3. CASE f \notin Fields(generated.schema)
    <3>1. Child(generated.schema, f) = Anything
      BY <2>3 DEF Fields, Child
    <3>2. generated'.schema = Anything
      BY <2>1, <3>1, AnythingBelow
    <3>3. Names(Anything) = {}
      BY AnythingBelow DEF Names
    <3>4. QED
      BY <2>1, <3>2, <3>3 DEF Descending, Innermost
  <2>4. QED
    BY <2>2, <2>3
<1>2. CASE nested
  <2> DEFINE name == generated.schema.ref
  <2>1. /\ name # Empty /\ types' = Append(types, name)
        /\ generated'.schema = IF name \in DOMAIN openapiSpec THEN JSONProps(openapiSpec[name])
                                                              ELSE Anything
    BY <1>2, ViewFields DEF nested
  <2>2. name \in DOMAIN GoTypes
    BY <2>1, NamesKnown DEF CRDInv
  <2>3. rank[name] < rank[Innermost]
    BY <2>1 DEF Descending, Names
  <2>4. \A n \in Names(generated'.schema) : rank[n] < rank[name]
    <3>1. CASE name \in DOMAIN openapiSpec
      BY <2>1, <3>1, NestedDefined DEF Descends
    <3>2. CASE name \notin DOMAIN openapiSpec
      <4>1. Names(Anything) = {}
        BY AnythingBelow DEF Names
      <4>2. QED
        BY <2>1, <3>2, <4>1
    <3>3. QED
      BY <3>1, <3>2
  <2> HIDE DEF name
  <2>5. /\ Len(types') = Len(types) + 1 /\ types'[Len(types) + 1] = name
        /\ \A i \in 1 .. Len(types) : types'[i] = types[i]
    BY <1>0, <2>1, <2>2, SMTT(30)
  <2>6. Innermost' = name
    BY <2>5 DEF Innermost
  <2>7. \A i \in 1 .. Len(types) : rank[name] < rank[types[i]]
    <3>1. \A i \in 1 .. Len(types) : i = Len(types) \/ rank[Innermost] < rank[types[i]]
      <4>1. Len(types) \in Nat /\ Len(types) >= 1
        BY <1>0
      <4>2. QED
        BY <4>1, SMTT(30) DEF Descending, Innermost
    <3>2. \A i \in 1 .. Len(types) : rank[types[i]] \in Nat
      BY <1>0
    <3>3. rank[name] \in Nat /\ rank[Innermost] \in Nat
      BY <1>0, <2>2
    <3>4. QED
      BY <2>3, <3>1, <3>2, <3>3 DEF Innermost
  <2>8. \A i, j \in 1 .. Len(types') : i < j => rank[types'[j]] < rank[types'[i]]
    <3> SUFFICES ASSUME NEW i \in 1 .. Len(types'), NEW j \in 1 .. Len(types'), i < j
                 PROVE  rank[types'[j]] < rank[types'[i]]
      OBVIOUS
    <3>1. i \in 1 .. Len(types) /\ types'[i] = types[i]
      BY <1>0, <2>5
    <3>2. CASE j = Len(types) + 1
      BY <2>5, <2>7, <3>1, <3>2
    <3>3. CASE j \in 1 .. Len(types)
      BY <2>5, <3>1, <3>3 DEF Descending
    <3>4. QED
      BY <1>0, <2>5, <3>2, <3>3, SMTT(30)
  <2>9. Len(types') + rank[name] <= 1 + rank["MXJob"]
    BY <1>0, <2>2, <2>3, <2>5, SMTT(30) DEF Descending
  <2>10. QED
    BY <1>0, <2>4, <2>5, <2>6, <2>8, <2>9 DEF Descending
<1>3. CASE UNCHANGED <<types, generated>>
  BY <1>3 DEF Descending, Innermost
<1>4. QED
  BY <1>1, <1>2, <1>3 DEF Next, main, sync, restart, install, submit, vars

\* If the definitions of a table descend, SchemaPropsToJSONProps ends: no
\* definition is converted within itself, and no more calls for definitions are
\* open at a time than the order has ranks up to MXJob's.
THEOREM ConversionEnds ==
    ASSUME NEW rank, Descends(rank)
    PROVE  Spec => [](NoTypeInItself /\ Len(types) <= 1 + rank["MXJob"])
<1>1. Init => Descending(rank)
  <2> SUFFICES ASSUME Init PROVE Descending(rank)
    OBVIOUS
  <2>1. Len(types) = 1 /\ types[1] = "MXJob" /\ generated.schema = openapiSpec["MXJob"]
    BY ViewFields, Tables, JobFields, ZenonT(60) DEF Init
  <2>2. "MXJob" \in DOMAIN openapiSpec /\ rank["MXJob"] \in Nat
    BY Tables, OwnTypes, DefinitionsAssumption DEF Descends
  <2>3. \A n \in Names(generated.schema) : rank[n] < rank["MXJob"]
    BY <2>1, <2>2 DEF Descends
  <2>4. QED
    BY <2>1, <2>2, <2>3 DEF Descending, Innermost
<1>2. CRDInv /\ Descending(rank) /\ [Next]_vars => Descending(rank)'
  BY DescendingStep
<1>3. ASSUME CRDInv, Descending(rank)
      PROVE  NoTypeInItself /\ Len(types) <= 1 + rank["MXJob"]
  <2>1. /\ types \in Seq(DOMAIN GoTypes) /\ Len(types) \in Nat /\ Len(types) >= 1
        /\ DOMAIN types = 1 .. Len(types)
    BY <1>3 DEF CRDInv, Known, Descending
  <2>2. /\ \A i \in 1 .. Len(types) : rank[types[i]] \in Nat
        /\ rank["MXJob"] \in Nat /\ rank[Innermost] \in Nat
    BY <2>1, OwnTypes, SMTT(30) DEF Descends, Innermost
  <2>3. NoTypeInItself
    BY <1>3, <2>1, <2>2 DEF NoTypeInItself, Descending
  <2>4. QED
    BY <1>3, <2>1, <2>2, <2>3 DEF Descending
<1>4. QED
  BY <1>1, <1>2, <1>3, CRDHolds, PTL DEF Spec
=============================================================================
