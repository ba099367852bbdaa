--------------------------- MODULE CRDValidation ---------------------------
(***************************************************************************)
(* What keeps a malformed MXJob away from the operator: the validation in   *)
(* the CustomResourceDefinition.  cmd/crd-validation takes a definition     *)
(* (deploy/crd_templ.yaml) and replaces its validation by one converted     *)
(* from the OpenAPI definitions; either of the two can be installed.        *)
(*                                                                         *)
(* A behaviour looks at one place in a job document.  On the way down, the  *)
(* conversion, which is recursive, the template's validation and the Go     *)
(* types are followed side by side: a state is a call of the recursion.     *)
(* Then a job is submitted that is in order but for a flaw at that place,   *)
(* and if it is stored the operator syncs it.                               *)
(***************************************************************************)
EXTENDS OpenAPIDefinitions, Naturals

CONSTANTS CRDs,        \* the validations that may be installed
          Flaws,       \* see Flaw
          Definitions  \* what GetOpenAPIDefinitions, a parameter of the conversion, returns

CRD == {"template", "generated"}

\* missing: the field is not there; kind: it is of another JSON type;
\* zero: a number is 0
Flaw == {"none", "missing", "kind", "zero"}

ASSUME CRDAssumption == CRDs \subseteq CRD /\ Flaws \subseteq Flaw

VARIABLES pc,         \* see Stage
          path,       \* where in the document; "*" is an element or a value
          types,      \* the definitions the conversion is in the middle of
          declared,   \* the Go type at that place, a view
          generated,  \* what the generated validation says there, a view
          templated,  \* what the template's validation says there, a view
          crd,        \* the validation installed
          flaw        \* of the job submitted

vars == <<pc, path, types, declared, generated, templated, crd, flaw>>

Stage == {"generate", "written", "failed", "installed", "rejected", "stored",
          "panics", "podsRefused", "succeedsEmpty", "idles", "runs"}

-----------------------------------------------------------------------------
(* Definitions. *)

Merged(first, second) ==
    [n \in DOMAIN first \cup DOMAIN second |-> IF n \in DOMAIN first THEN first[n] ELSE second[n]]

\* The definition of a type that is no struct is added, or replaced.
fixKnownTypes(definitions) == Merged([IntOrString |-> Typed("intOrString")], definitions)

openapiSpec == fixKnownTypes(Definitions)

\* The fields of MXJobSpec in types.go; the generated definition is older.
GoMXJobSpec == Struct([replicaSpecs |-> ref("MXReplicaSpecs"),
                       startWebhook |-> ref("Webhook"), finishWebhook |-> ref("Webhook")],
                      {"replicaSpecs"})

GoWebhook == Struct([Name |-> String, clientConfig |-> ref("WebhookClientConfig")],
                    {"clientConfig"})

WebhookClientConfig == Struct([url |-> String, service |-> ref("ServiceReference"),
                               caBundle |-> String], {"service", "caBundle"})

ServiceReference == Struct([namespace |-> String, name |-> String, path |-> String],
                           {"namespace", "name"})

GoTypes == Merged([MXJobSpec |-> GoMXJobSpec, Webhook |-> GoWebhook,
                   WebhookClientConfig |-> WebhookClientConfig,
                   ServiceReference |-> ServiceReference,
                   Quantity |-> Typed("quantity")], openapiSpec)

\* A role in crd_templ.yaml: "positive" is an integer of at least 1.
templateRole == Struct([replicas |-> Typed("positive"), psVerbose |-> Typed("positive")],
                       {"replicas"})

\* The scheduler's role has its port besides; maxima are left out.
templateScheduler ==
    Struct([replicas |-> Typed("positive"), psVerbose |-> Typed("positive"),
            psRootPort |-> Integer], {"replicas"})

\* Mutation of templateRoles: a job without workers is accepted.
templateRolesNoWorker ==
    Struct([scheduler |-> templateScheduler, server |-> templateRole, worker |-> templateRole],
           {"scheduler", "server"})

templateRoles ==
    Struct([scheduler |-> templateScheduler, server |-> templateRole, worker |-> templateRole],
           {"scheduler", "server", "worker"})

templateSpec == Struct([replicaSpecs |-> templateRoles], {})

\* openAPIV3Schema of crd_templ.yaml
template == Struct([spec |-> templateSpec], {})

-----------------------------------------------------------------------------
(* Views: the schema at the place, and whether the field must be there. *)

View(schema, demanded) == [schema |-> schema, demanded |-> demanded]

Fields(schema) == DOMAIN schema.properties \cup (IF schema.sub = <<>> THEN {} ELSE {"*"})

Child(schema, f) ==
    CASE f \in DOMAIN schema.properties -> schema.properties[f]
      [] f = "*" /\ schema.sub # <<>>   -> schema.sub[1]
      [] OTHER                          -> Anything

GoType(schema) == IF schema.ref = Empty THEN schema ELSE GoTypes[schema.ref]

\* Mutation of JSONProps: the elements of an array are left out.
JSONPropsNoItems(schema) == [schema EXCEPT !.sub = <<>>]

\* Mutation of JSONProps: nothing is required.
JSONPropsNoRequired(schema) ==
    [schema EXCEPT !.sub = IF schema.type = "array" THEN @ ELSE <<>>, !.required = {}]

\* Mutation of JSONProps: every property is required.
JSONPropsAllRequired(schema) ==
    [schema EXCEPT !.sub = IF schema.type = "array" THEN @ ELSE <<>>,
                   !.required = DOMAIN schema.properties]

\* The JSONSchemaProps of a schema that is no reference.  Items are kept,
\* AdditionalProperties are "not accepted by the current CRD Validation Spec".
JSONProps(schema) ==
    SchemaProps(schema.type, schema.ref, schema.properties, schema.required,
                IF schema.type = "array" THEN schema.sub ELSE <<>>)

-----------------------------------------------------------------------------
(* What openapi-gen writes, whatever the version of Kubernetes: a definition *)
(* is a scalar or a struct, and a field of a struct is a scalar, a reference *)
(* to a definition, an array of these, or a map to scalars or quantities.    *)

References == (DOMAIN Definitions \cup {"IntOrString", "Quantity"}) \ {"MXJob", "MXJobSpec"}

Scalar(s) == s = Typed(s.type) /\ s.type # Empty
Reference(s) == s = ref(s.ref) /\ s.ref \in References
ListOf(s) == s.sub # <<>> /\ s = Array(s.sub[1]) /\ (Scalar(s.sub[1]) \/ Reference(s.sub[1]))
MapOf(s) == s.sub # <<>> /\ s = Map(s.sub[1]) /\ (Scalar(s.sub[1]) \/ s.sub[1] = ref("Quantity"))

StructOf(s) ==
    /\ s = Struct(s.properties, s.required) /\ s # Anything
    /\ \A f \in DOMAIN s.properties :
           LET p == s.properties[f] IN Scalar(p) \/ Reference(p) \/ ListOf(p) \/ MapOf(p)

ASSUME DefinitionsAssumption ==
    /\ {"ObjectMeta", "MXJob", "MXJobSpec", "MXJobStatus", "MXReplicaSpecs"} \subseteq DOMAIN Definitions
    /\ Definitions["MXJob"] = MXJob
    /\ Definitions["MXJobSpec"] = MXJobSpec
    /\ Definitions["MXReplicaSpecs"] = MXReplicaSpecs
    /\ {Empty, "Webhook", "WebhookClientConfig", "ServiceReference", "Quantity"}
           \cap DOMAIN Definitions = {}
    /\ \A n \in DOMAIN Definitions \ {"MXJob", "MXJobSpec"} :
           Scalar(Definitions[n]) \/ StructOf(Definitions[n])

-----------------------------------------------------------------------------
(* The generator. *)

\* GetCustomResourceValidation begins with the definition called crdName.
Init == /\ pc = "generate" /\ path = <<>> /\ types = <<"MXJob">>
        /\ declared = View(GoTypes["MXJob"], TRUE)
        /\ generated = View(JSONProps(openapiSpec["MXJob"]), TRUE)
        /\ templated = View(template, TRUE)
        /\ crd = "none" /\ flaw = "none"

\* The call for a property or for the elements of an array.  Where the
\* generated schema says nothing there is no call, only the document goes on.
SchemaPropsToJSONProps(f) ==
    /\ pc = "generate" /\ generated.schema.ref = Empty
    /\ path' = Append(path, f)
    /\ declared' = View(GoType(Child(declared.schema, f)), f \in declared.schema.required)
    /\ generated' = View(JSONProps(Child(generated.schema, f)), f \in generated.schema.required)
    /\ templated' = View(Child(templated.schema, f), f \in templated.schema.required)
    /\ UNCHANGED <<pc, types, crd, flaw>>

\* "If nested just return a pointer to the reference": the call for the
\* definition referred to, or for the zero Schema when there is none.
nested ==
    LET name == generated.schema.ref IN
    /\ pc = "generate" /\ name # Empty
    /\ types' = Append(types, name)
    /\ generated' = View(IF name \in DOMAIN openapiSpec THEN JSONProps(openapiSpec[name])
                                                      ELSE Anything, generated.demanded)
    /\ UNCHANGED <<pc, path, declared, templated, crd, flaw>>

\* main writes the file, or gives up before or in the middle of it.
main ==
    /\ pc = "generate" /\ generated.schema.ref = Empty
    /\ pc' \in {"written", "failed"}
    /\ UNCHANGED <<path, types, declared, generated, templated, crd, flaw>>

-----------------------------------------------------------------------------
(* The API server and the operator. *)

\* kubectl installs what is written completely.
install(v) ==
    /\ pc \in {"written", "failed"}
    /\ v = "generated" => pc = "written"
    /\ crd' = v /\ pc' = "installed"
    /\ UNCHANGED <<path, types, declared, generated, templated, flaw>>

\* Without a type anything goes; a minimum is for integers.
Refuses(view, x) ==
    \/ x = "missing" /\ view.demanded
    \/ x = "kind" /\ view.schema.type # Empty
    \/ x = "zero" /\ view.schema.type = "positive"

\* The place is in the spec, the part a user writes.
submit(x) ==
    /\ pc = "installed"
    /\ x # "none" => path # <<>> /\ Head(path) = "spec"
    /\ x = "zero" => declared.schema.type = "integer"
    /\ x = "missing" => path[Len(path)] # "*"
    /\ flaw' = x
    /\ pc' = IF Refuses(IF crd = "template" THEN templated ELSE generated, x)
             THEN "rejected" ELSE "stored"
    /\ UNCHANGED <<path, types, declared, generated, templated, crd>>

inRole(n) == Len(path) = n /\ SubSeq(path, 1, 2) = <<"spec", "replicaSpecs">>

\* reconcilePods and createNewPod dereference Replicas and Template, and
\* genMXConfigEnv, for each pod it is called for, all three roles.
nilDereferenced ==
    flaw = "missing" /\ \/ inRole(3)
                        \/ inRole(4) /\ path[4] \in {"replicas", "template"}

\* What becomes of the job: RuntimeObjectFromUnstructured panics if it cannot
\* be decoded; no workers are as good as done; without replica specs there is
\* nothing to do; a pod that lacks a field may be refused.
outcomes ==
    CASE flaw = "kind"   -> {"panics"}
      [] nilDereferenced -> {"panics"}
      [] flaw = "missing" /\ path \in {<<"spec">>, <<"spec", "replicaSpecs">>} -> {"idles"}
      [] flaw = "zero" /\ path = <<"spec", "replicaSpecs", "worker", "replicas">> ->
             {"succeedsEmpty"}
      [] flaw = "missing" /\ Len(path) > 4 /\ path[4] = "template" /\ declared.demanded ->
             {"podsRefused", "runs"}
      [] OTHER           -> {"runs"}

sync ==
    /\ pc = "stored"
    /\ pc' \in outcomes
    /\ UNCHANGED <<path, types, declared, generated, templated, crd, flaw>>

\* The operator is started again, and meets the job again.
restart ==
    /\ pc = "panics" /\ pc' = "stored"
    /\ UNCHANGED <<path, types, declared, generated, templated, crd, flaw>>

Next == \/ \E f \in Fields(declared.schema) : SchemaPropsToJSONProps(f)
        \/ nested \/ main \/ sync \/ restart
        \/ \E v \in CRDs : install(v)
        \/ \E x \in Flaws : submit(x)

Spec == Init /\ [][Next]_vars

-----------------------------------------------------------------------------
TypeOK == /\ pc \in Stage /\ crd \in CRDs \cup {"none"} /\ flaw \in Flaws \cup {"none"}
          /\ \A v \in {declared, generated, templated} :
                 DOMAIN v = {"schema", "demanded"} /\ DOMAIN v.schema = DOMAIN Anything
          /\ \A i \in DOMAIN types : types[i] \in DOMAIN GoTypes
          /\ declared.schema # Anything

\* The conversion calls itself for what a definition refers to and keeps no
\* record of where it has been: it ends because no definition, however
\* indirectly, refers to itself.
NoTypeInItself == \A i, j \in DOMAIN types : types[i] = types[j] => i = j

\* Where the generated validation says anything, it says what the Go type says:
\* the same JSON type, the same fields required, and no field Go has not.
GeneratedFaithful ==
    LET g == generated.schema
        d == declared.schema
    IN  g.ref = Empty /\ g # Anything =>
            /\ g.type = d.type /\ g.required = d.required
            /\ DOMAIN g.properties \subseteq DOMAIN d.properties

\* The places where the generated validation lets pass what cannot be decoded,
\* and so stops the operator: an object as a whole, quantities, the values of
\* maps, and the webhooks.  Everywhere else, at any depth, it does not.
DecodeGaps ==
    crd = "generated" /\ pc = "panics" /\ flaw = "kind" =>
        \/ declared.schema.type \in {Empty, "quantity"}
        \/ \E i \in DOMAIN path : path[i] \in {"startWebhook", "finishWebhook"}
        \/ path[Len(path)] = "*" /\ generated.schema = Anything

\* The template's validation keeps away what the handler takes for granted,
\* roles and numbers of replicas, but for the pod templates.
TemplateGuards ==
    crd = "template" =>
        /\ pc # "succeedsEmpty"
        /\ pc = "panics" /\ flaw = "missing" => path[Len(path)] = "template"

\* Under the generated validation no job is stored whose pods lack a required
\* field, however deep in the pod template.
PodsComplete == crd = "generated" => pc # "podsRefused"

\* types.go marks the replica specs, Replicas and Template "omitempty", and
\* reconcileMXJobs tests each replica spec for nil: what may be left out is
\* left out without harm.
OmittedIsHandled == pc = "panics" => flaw # "missing"
=============================================================================
