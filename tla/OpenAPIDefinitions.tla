------------------------- MODULE OpenAPIDefinitions -------------------------
(***************************************************************************)
(* The OpenAPI definitions of pkg/apis/ava/v1alpha1/openapi_generated.go   *)
(* that GetOpenAPIDefinitions returns, as far as they can be reached from  *)
(* MXJob: one definition for each Go type, under the type's name.          *)
(*                                                                         *)
(* A schema is kept to what validation tells apart: its type, the          *)
(* definition it refers to, its properties, those of them it requires, and *)
(* the schema of the elements of an array or of the values of a map.       *)
(* Descriptions, formats and defaults are left out.                        *)
(***************************************************************************)
EXTENDS Sequences

\* SchemaProps: a Type, a Ref, Properties, those Required, and Items or
\* AdditionalProperties
SchemaProps(type, name, properties, required, sub) ==
    [type |-> type, ref |-> name, properties |-> properties, required |-> required, sub |-> sub]

\* The zero value of a string: no Type, no Ref
Empty == ""

\* A schema that says nothing: the zero spec.Schema
Anything == SchemaProps(Empty, Empty, <<>>, {}, <<>>)

\* The kinds of schemas there are.  The definition of a struct has no Type.
Typed(t) == SchemaProps(t, Empty, <<>>, {}, <<>>)
ref(name) == SchemaProps(Empty, name, <<>>, {}, <<>>)
Array(s) == SchemaProps("array", Empty, <<>>, {}, <<s>>)
Map(s) == SchemaProps("object", Empty, <<>>, {}, <<s>>)
Struct(properties, required) == SchemaProps(Empty, Empty, properties, required, <<>>)

String == Typed("string")
Integer == Typed("integer")
Boolean == Typed("boolean")

-----------------------------------------------------------------------------
(* The MXJob itself. *)

MXJob == Struct(
    [kind |-> String, apiVersion |-> String, metadata |-> ref("ObjectMeta"),
     spec |-> ref("MXJobSpec"), status |-> ref("MXJobStatus")],
    {"metadata", "spec"})

MXJobCondition == Struct(
    [type |-> String, status |-> String, reason |-> String,
     message |-> String, lastUpdateTime |-> ref("Time"),
     lastTransitionTime |-> ref("Time")], {"type", "status"})

MXJobSpec == Struct(
    [replicaSpecs |-> ref("MXReplicaSpecs")], {"replicaSpecs"})

MXJobStatus == Struct(
    [replicaStatuses |-> ref("MXReplicaStatuses"), startTime |-> ref("Time"),
     completionTime |-> ref("Time"),
     conditions |-> Array(ref("MXJobCondition"))],
    {"replicaStatuses", "conditions"})

MXReplicaSpec == Struct(
    [replicas |-> Integer, template |-> ref("PodTemplateSpec"),
     psRootPort |-> Integer, psVerbose |-> Integer], {})

MXReplicaSpecs == Struct(
    [scheduler |-> ref("MXReplicaSpec"), server |-> ref("MXReplicaSpec"),
     worker |-> ref("MXReplicaSpec")], {})

MXReplicaStatus == Struct(
    [active |-> Integer, succeeded |-> Integer, failed |-> Integer,
     gone |-> Integer], {})

MXReplicaStatuses == Struct(
    [scheduler |-> ref("MXReplicaStatus"), server |-> ref("MXReplicaStatus"),
     worker |-> ref("MXReplicaStatus")], {})

-----------------------------------------------------------------------------
(* The pod templates, k8s.io/api/core/v1. *)

AWSElasticBlockStoreVolumeSource == Struct(
    [volumeID |-> String, fsType |-> String, partition |-> Integer,
     readOnly |-> Boolean], {"volumeID"})

Affinity == Struct(
    [nodeAffinity |-> ref("NodeAffinity"), podAffinity |-> ref("PodAffinity"),
     podAntiAffinity |-> ref("PodAntiAffinity")], {})

AzureDiskVolumeSource == Struct(
    [diskName |-> String, diskURI |-> String, cachingMode |-> String,
     fsType |-> String, readOnly |-> Boolean, kind |-> String],
    {"diskName", "diskURI"})

AzureFileVolumeSource == Struct(
    [secretName |-> String, shareName |-> String, readOnly |-> Boolean],
    {"secretName", "shareName"})

Capabilities == Struct([add |-> Array(String), drop |-> Array(String)], {})

CephFSVolumeSource == Struct(
    [monitors |-> Array(String), path |-> String, user |-> String,
     secretFile |-> String, secretRef |-> ref("LocalObjectReference"),
     readOnly |-> Boolean], {"monitors"})

CinderVolumeSource == Struct(
    [volumeID |-> String, fsType |-> String, readOnly |-> Boolean],
    {"volumeID"})

ConfigMapEnvSource == Struct([name |-> String, optional |-> Boolean], {})

ConfigMapKeySelector == Struct(
    [name |-> String, key |-> String, optional |-> Boolean], {"key"})

ConfigMapProjection == Struct(
    [name |-> String, items |-> Array(ref("KeyToPath")), optional |-> Boolean],
    {})

ConfigMapVolumeSource == Struct(
    [name |-> String, items |-> Array(ref("KeyToPath")),
     defaultMode |-> Integer, optional |-> Boolean], {})

Container == Struct(
    [name |-> String, image |-> String, command |-> Array(String),
     args |-> Array(String), workingDir |-> String,
     ports |-> Array(ref("ContainerPort")),
     envFrom |-> Array(ref("EnvFromSource")), env |-> Array(ref("EnvVar")),
     resources |-> ref("ResourceRequirements"),
     volumeMounts |-> Array(ref("VolumeMount")),
     volumeDevices |-> Array(ref("VolumeDevice")),
     livenessProbe |-> ref("Probe"), readinessProbe |-> ref("Probe"),
     lifecycle |-> ref("Lifecycle"), terminationMessagePath |-> String,
     terminationMessagePolicy |-> String, imagePullPolicy |-> String,
     securityContext |-> ref("SecurityContext"), stdin |-> Boolean,
     stdinOnce |-> Boolean, tty |-> Boolean], {"name"})

ContainerPort == Struct(
    [name |-> String, hostPort |-> Integer, containerPort |-> Integer,
     protocol |-> String, hostIP |-> String], {"containerPort"})

DownwardAPIProjection == Struct(
    [items |-> Array(ref("DownwardAPIVolumeFile"))], {})

DownwardAPIVolumeFile == Struct(
    [path |-> String, fieldRef |-> ref("ObjectFieldSelector"),
     resourceFieldRef |-> ref("ResourceFieldSelector"), mode |-> Integer],
    {"path"})

DownwardAPIVolumeSource == Struct(
    [items |-> Array(ref("DownwardAPIVolumeFile")), defaultMode |-> Integer],
    {})

EmptyDirVolumeSource == Struct(
    [medium |-> String, sizeLimit |-> ref("Quantity")], {})

EnvFromSource == Struct(
    [prefix |-> String, configMapRef |-> ref("ConfigMapEnvSource"),
     secretRef |-> ref("SecretEnvSource")], {})

EnvVar == Struct(
    [name |-> String, value |-> String, valueFrom |-> ref("EnvVarSource")],
    {"name"})

EnvVarSource == Struct(
    [fieldRef |-> ref("ObjectFieldSelector"),
     resourceFieldRef |-> ref("ResourceFieldSelector"),
     configMapKeyRef |-> ref("ConfigMapKeySelector"),
     secretKeyRef |-> ref("SecretKeySelector")], {})

ExecAction == Struct([command |-> Array(String)], {})

FCVolumeSource == Struct(
    [targetWWNs |-> Array(String), lun |-> Integer, fsType |-> String,
     readOnly |-> Boolean, wwids |-> Array(String)], {})

FlexVolumeSource == Struct(
    [driver |-> String, fsType |-> String,
     secretRef |-> ref("LocalObjectReference"), readOnly |-> Boolean,
     options |-> Map(String)], {"driver"})

FlockerVolumeSource == Struct(
    [datasetName |-> String, datasetUUID |-> String], {})

GCEPersistentDiskVolumeSource == Struct(
    [pdName |-> String, fsType |-> String, partition |-> Integer,
     readOnly |-> Boolean], {"pdName"})

GitRepoVolumeSource == Struct(
    [repository |-> String, revision |-> String, directory |-> String],
    {"repository"})

GlusterfsVolumeSource == Struct(
    [endpoints |-> String, path |-> String, readOnly |-> Boolean],
    {"endpoints", "path"})

HTTPGetAction == Struct(
    [path |-> String, port |-> ref("IntOrString"), host |-> String,
     scheme |-> String, httpHeaders |-> Array(ref("HTTPHeader"))], {"port"})

HTTPHeader == Struct([name |-> String, value |-> String], {"name", "value"})

Handler == Struct(
    [exec |-> ref("ExecAction"), httpGet |-> ref("HTTPGetAction"),
     tcpSocket |-> ref("TCPSocketAction")], {})

HostAlias == Struct([ip |-> String, hostnames |-> Array(String)], {})

HostPathVolumeSource == Struct([path |-> String, type |-> String], {"path"})

ISCSIVolumeSource == Struct(
    [targetPortal |-> String, iqn |-> String, lun |-> Integer,
     iscsiInterface |-> String, fsType |-> String, readOnly |-> Boolean,
     portals |-> Array(String), chapAuthDiscovery |-> Boolean,
     chapAuthSession |-> Boolean, secretRef |-> ref("LocalObjectReference"),
     initiatorName |-> String], {"targetPortal", "iqn", "lun"})

KeyToPath == Struct(
    [key |-> String, path |-> String, mode |-> Integer], {"key", "path"})

Lifecycle == Struct(
    [postStart |-> ref("Handler"), preStop |-> ref("Handler")], {})

LocalObjectReference == Struct([name |-> String], {})

NFSVolumeSource == Struct(
    [server |-> String, path |-> String, readOnly |-> Boolean],
    {"server", "path"})

NodeAffinity == Struct(
    [requiredDuringSchedulingIgnoredDuringExecution |-> ref("NodeSelector"),
     preferredDuringSchedulingIgnoredDuringExecution |-> Array(ref("PreferredSchedulingTerm"))],
    {})

NodeSelector == Struct(
    [nodeSelectorTerms |-> Array(ref("NodeSelectorTerm"))],
    {"nodeSelectorTerms"})

NodeSelectorRequirement == Struct(
    [key |-> String, operator |-> String, values |-> Array(String)],
    {"key", "operator"})

NodeSelectorTerm == Struct(
    [matchExpressions |-> Array(ref("NodeSelectorRequirement"))],
    {"matchExpressions"})

ObjectFieldSelector == Struct(
    [apiVersion |-> String, fieldPath |-> String], {"fieldPath"})

PersistentVolumeClaimVolumeSource == Struct(
    [claimName |-> String, readOnly |-> Boolean], {"claimName"})

PhotonPersistentDiskVolumeSource == Struct(
    [pdID |-> String, fsType |-> String], {"pdID"})

PodAffinity == Struct(

     [requiredDuringSchedulingIgnoredDuringExecution |-> Array(ref("PodAffinityTerm")),
     preferredDuringSchedulingIgnoredDuringExecution |-> Array(ref("WeightedPodAffinityTerm"))],
    {})

PodAffinityTerm == Struct(
    [labelSelector |-> ref("LabelSelector"), namespaces |-> Array(String),
     topologyKey |-> String], {"topologyKey"})

PodAntiAffinity == Struct(

     [requiredDuringSchedulingIgnoredDuringExecution |-> Array(ref("PodAffinityTerm")),
     preferredDuringSchedulingIgnoredDuringExecution |-> Array(ref("WeightedPodAffinityTerm"))],
    {})

PodDNSConfig == Struct(
    [nameservers |-> Array(String), searches |-> Array(String),
     options |-> Array(ref("PodDNSConfigOption"))], {})

PodDNSConfigOption == Struct([name |-> String, value |-> String], {})

PodSecurityContext == Struct(
    [seLinuxOptions |-> ref("SELinuxOptions"), runAsUser |-> Integer,
     runAsNonRoot |-> Boolean, supplementalGroups |-> Array(Integer),
     fsGroup |-> Integer], {})

PodSpec == Struct(
    [volumes |-> Array(ref("Volume")),
     initContainers |-> Array(ref("Container")),
     containers |-> Array(ref("Container")), restartPolicy |-> String,
     terminationGracePeriodSeconds |-> Integer,
     activeDeadlineSeconds |-> Integer, dnsPolicy |-> String,
     nodeSelector |-> Map(String), serviceAccountName |-> String,
     serviceAccount |-> String, automountServiceAccountToken |-> Boolean,
     nodeName |-> String, hostNetwork |-> Boolean, hostPID |-> Boolean,
     hostIPC |-> Boolean, securityContext |-> ref("PodSecurityContext"),
     imagePullSecrets |-> Array(ref("LocalObjectReference")),
     hostname |-> String, subdomain |-> String, affinity |-> ref("Affinity"),
     schedulerName |-> String, tolerations |-> Array(ref("Toleration")),
     hostAliases |-> Array(ref("HostAlias")), priorityClassName |-> String,
     priority |-> Integer, dnsConfig |-> ref("PodDNSConfig")], {"containers"})

PodTemplateSpec == Struct(
    [metadata |-> ref("ObjectMeta"), spec |-> ref("PodSpec")], {})

PortworxVolumeSource == Struct(
    [volumeID |-> String, fsType |-> String, readOnly |-> Boolean],
    {"volumeID"})

PreferredSchedulingTerm == Struct(
    [weight |-> Integer, preference |-> ref("NodeSelectorTerm")],
    {"weight", "preference"})

Probe == Struct(
    [exec |-> ref("ExecAction"), httpGet |-> ref("HTTPGetAction"),
     tcpSocket |-> ref("TCPSocketAction"), initialDelaySeconds |-> Integer,
     timeoutSeconds |-> Integer, periodSeconds |-> Integer,
     successThreshold |-> Integer, failureThreshold |-> Integer], {})

ProjectedVolumeSource == Struct(
    [sources |-> Array(ref("VolumeProjection")), defaultMode |-> Integer],
    {"sources"})

QuobyteVolumeSource == Struct(
    [registry |-> String, volume |-> String, readOnly |-> Boolean,
     user |-> String, group |-> String], {"registry", "volume"})

RBDVolumeSource == Struct(
    [monitors |-> Array(String), image |-> String, fsType |-> String,
     pool |-> String, user |-> String, keyring |-> String,
     secretRef |-> ref("LocalObjectReference"), readOnly |-> Boolean],
    {"monitors", "image"})

ResourceFieldSelector == Struct(
    [containerName |-> String, resource |-> String,
     divisor |-> ref("Quantity")], {"resource"})

ResourceRequirements == Struct(
    [limits |-> Map(ref("Quantity")), requests |-> Map(ref("Quantity"))], {})

SELinuxOptions == Struct(
    [user |-> String, role |-> String, type |-> String, level |-> String], {})

ScaleIOVolumeSource == Struct(
    [gateway |-> String, system |-> String,
     secretRef |-> ref("LocalObjectReference"), sslEnabled |-> Boolean,
     protectionDomain |-> String, storagePool |-> String,
     storageMode |-> String, volumeName |-> String, fsType |-> String,
     readOnly |-> Boolean], {"gateway", "system", "secretRef"})

SecretEnvSource == Struct([name |-> String, optional |-> Boolean], {})

SecretKeySelector == Struct(
    [name |-> String, key |-> String, optional |-> Boolean], {"key"})

SecretProjection == Struct(
    [name |-> String, items |-> Array(ref("KeyToPath")), optional |-> Boolean],
    {})

SecretVolumeSource == Struct(
    [secretName |-> String, items |-> Array(ref("KeyToPath")),
     defaultMode |-> Integer, optional |-> Boolean], {})

SecurityContext == Struct(
    [capabilities |-> ref("Capabilities"), privileged |-> Boolean,
     seLinuxOptions |-> ref("SELinuxOptions"), runAsUser |-> Integer,
     runAsNonRoot |-> Boolean, readOnlyRootFilesystem |-> Boolean,
     allowPrivilegeEscalation |-> Boolean], {})

StorageOSVolumeSource == Struct(
    [volumeName |-> String, volumeNamespace |-> String, fsType |-> String,
     readOnly |-> Boolean, secretRef |-> ref("LocalObjectReference")], {})

TCPSocketAction == Struct(
    [port |-> ref("IntOrString"), host |-> String], {"port"})

Toleration == Struct(
    [key |-> String, operator |-> String, value |-> String, effect |-> String,
     tolerationSeconds |-> Integer], {})

Volume == Struct(
    [name |-> String, hostPath |-> ref("HostPathVolumeSource"),
     emptyDir |-> ref("EmptyDirVolumeSource"),
     gcePersistentDisk |-> ref("GCEPersistentDiskVolumeSource"),
     awsElasticBlockStore |-> ref("AWSElasticBlockStoreVolumeSource"),
     gitRepo |-> ref("GitRepoVolumeSource"),
     secret |-> ref("SecretVolumeSource"), nfs |-> ref("NFSVolumeSource"),
     iscsi |-> ref("ISCSIVolumeSource"),
     glusterfs |-> ref("GlusterfsVolumeSource"),
     persistentVolumeClaim |-> ref("PersistentVolumeClaimVolumeSource"),
     rbd |-> ref("RBDVolumeSource"), flexVolume |-> ref("FlexVolumeSource"),
     cinder |-> ref("CinderVolumeSource"),
     cephfs |-> ref("CephFSVolumeSource"),
     flocker |-> ref("FlockerVolumeSource"),
     downwardAPI |-> ref("DownwardAPIVolumeSource"),
     fc |-> ref("FCVolumeSource"), azureFile |-> ref("AzureFileVolumeSource"),
     configMap |-> ref("ConfigMapVolumeSource"),
     vsphereVolume |-> ref("VsphereVirtualDiskVolumeSource"),
     quobyte |-> ref("QuobyteVolumeSource"),
     azureDisk |-> ref("AzureDiskVolumeSource"),
     photonPersistentDisk |-> ref("PhotonPersistentDiskVolumeSource"),
     projected |-> ref("ProjectedVolumeSource"),
     portworxVolume |-> ref("PortworxVolumeSource"),
     scaleIO |-> ref("ScaleIOVolumeSource"),
     storageos |-> ref("StorageOSVolumeSource")], {"name"})

VolumeDevice == Struct(
    [name |-> String, devicePath |-> String], {"name", "devicePath"})

VolumeMount == Struct(
    [name |-> String, readOnly |-> Boolean, mountPath |-> String,
     subPath |-> String, mountPropagation |-> String], {"name", "mountPath"})

VolumeProjection == Struct(
    [secret |-> ref("SecretProjection"),
     downwardAPI |-> ref("DownwardAPIProjection"),
     configMap |-> ref("ConfigMapProjection")], {})

VsphereVirtualDiskVolumeSource == Struct(
    [volumePath |-> String, fsType |-> String, storagePolicyName |-> String,
     storagePolicyID |-> String], {"volumePath"})

WeightedPodAffinityTerm == Struct(
    [weight |-> Integer, podAffinityTerm |-> ref("PodAffinityTerm")],
    {"weight", "podAffinityTerm"})

-----------------------------------------------------------------------------
(* Metadata, k8s.io/apimachinery/pkg/apis/meta/v1. *)

Initializer == Struct([name |-> String], {"name"})

Initializers == Struct(
    [pending |-> Array(ref("Initializer")), result |-> ref("Status")],
    {"pending"})

LabelSelector == Struct(
    [matchLabels |-> Map(String),
     matchExpressions |-> Array(ref("LabelSelectorRequirement"))], {})

LabelSelectorRequirement == Struct(
    [key |-> String, operator |-> String, values |-> Array(String)],
    {"key", "operator"})

ListMeta == Struct(
    [selfLink |-> String, resourceVersion |-> String, continue |-> String],
    {})

ObjectMeta == Struct(
    [name |-> String, generateName |-> String, namespace |-> String,
     selfLink |-> String, uid |-> String, resourceVersion |-> String,
     generation |-> Integer, creationTimestamp |-> ref("Time"),
     deletionTimestamp |-> ref("Time"),
     deletionGracePeriodSeconds |-> Integer, labels |-> Map(String),
     annotations |-> Map(String),
     ownerReferences |-> Array(ref("OwnerReference")),
     initializers |-> ref("Initializers"), finalizers |-> Array(String),
     clusterName |-> String], {})

OwnerReference == Struct(
    [apiVersion |-> String, kind |-> String, name |-> String, uid |-> String,
     controller |-> Boolean, blockOwnerDeletion |-> Boolean],
    {"apiVersion", "kind", "name", "uid"})

Status == Struct(
    [kind |-> String, apiVersion |-> String, metadata |-> ref("ListMeta"),
     status |-> String, message |-> String, reason |-> String,
     details |-> ref("StatusDetails"), code |-> Integer], {})

StatusCause == Struct(
    [reason |-> String, message |-> String, field |-> String], {})

\* Mutation of StatusDetails: the causes are statuses again.
StatusDetailsNested == Struct(
    [name |-> String, group |-> String, kind |-> String, uid |-> String,
     causes |-> Array(ref("Status")), retryAfterSeconds |-> Integer], {})

StatusDetails == Struct(
    [name |-> String, group |-> String, kind |-> String, uid |-> String,
     causes |-> Array(ref("StatusCause")), retryAfterSeconds |-> Integer], {})

\* metav1.Time{}.OpenAPIDefinition()
Time == String

-----------------------------------------------------------------------------
\* The map from names to definitions.  IntOrString and Quantity are referred to
\* and not in it.
GetOpenAPIDefinitions ==
    [MXJob |-> MXJob, MXJobCondition |-> MXJobCondition,
     MXJobSpec |-> MXJobSpec, MXJobStatus |-> MXJobStatus,
     MXReplicaSpec |-> MXReplicaSpec, MXReplicaSpecs |-> MXReplicaSpecs,
     MXReplicaStatus |-> MXReplicaStatus,
     MXReplicaStatuses |-> MXReplicaStatuses,
     AWSElasticBlockStoreVolumeSource |-> AWSElasticBlockStoreVolumeSource,
     Affinity |-> Affinity, AzureDiskVolumeSource |-> AzureDiskVolumeSource,
     AzureFileVolumeSource |-> AzureFileVolumeSource,
     Capabilities |-> Capabilities, CephFSVolumeSource |-> CephFSVolumeSource,
     CinderVolumeSource |-> CinderVolumeSource,
     ConfigMapEnvSource |-> ConfigMapEnvSource,
     ConfigMapKeySelector |-> ConfigMapKeySelector,
     ConfigMapProjection |-> ConfigMapProjection,
     ConfigMapVolumeSource |-> ConfigMapVolumeSource, Container |-> Container,
     ContainerPort |-> ContainerPort,
     DownwardAPIProjection |-> DownwardAPIProjection,
     DownwardAPIVolumeFile |-> DownwardAPIVolumeFile,
     DownwardAPIVolumeSource |-> DownwardAPIVolumeSource,
     EmptyDirVolumeSource |-> EmptyDirVolumeSource,
     EnvFromSource |-> EnvFromSource, EnvVar |-> EnvVar,
     EnvVarSource |-> EnvVarSource, ExecAction |-> ExecAction,
     FCVolumeSource |-> FCVolumeSource, FlexVolumeSource |-> FlexVolumeSource,
     FlockerVolumeSource |-> FlockerVolumeSource,
     GCEPersistentDiskVolumeSource |-> GCEPersistentDiskVolumeSource,
     GitRepoVolumeSource |-> GitRepoVolumeSource,
     GlusterfsVolumeSource |-> GlusterfsVolumeSource,
     HTTPGetAction |-> HTTPGetAction, HTTPHeader |-> HTTPHeader,
     Handler |-> Handler, HostAlias |-> HostAlias,
     HostPathVolumeSource |-> HostPathVolumeSource,
     ISCSIVolumeSource |-> ISCSIVolumeSource, KeyToPath |-> KeyToPath,
     Lifecycle |-> Lifecycle, LocalObjectReference |-> LocalObjectReference,
     NFSVolumeSource |-> NFSVolumeSource, NodeAffinity |-> NodeAffinity,
     NodeSelector |-> NodeSelector,
     NodeSelectorRequirement |-> NodeSelectorRequirement,
     NodeSelectorTerm |-> NodeSelectorTerm,
     ObjectFieldSelector |-> ObjectFieldSelector,
     PersistentVolumeClaimVolumeSource |-> PersistentVolumeClaimVolumeSource,
     PhotonPersistentDiskVolumeSource |-> PhotonPersistentDiskVolumeSource,
     PodAffinity |-> PodAffinity, PodAffinityTerm |-> PodAffinityTerm,
     PodAntiAffinity |-> PodAntiAffinity, PodDNSConfig |-> PodDNSConfig,
     PodDNSConfigOption |-> PodDNSConfigOption,
     PodSecurityContext |-> PodSecurityContext, PodSpec |-> PodSpec,
     PodTemplateSpec |-> PodTemplateSpec,
     PortworxVolumeSource |-> PortworxVolumeSource,
     PreferredSchedulingTerm |-> PreferredSchedulingTerm, Probe |-> Probe,
     ProjectedVolumeSource |-> ProjectedVolumeSource,
     QuobyteVolumeSource |-> QuobyteVolumeSource,
     RBDVolumeSource |-> RBDVolumeSource,
     ResourceFieldSelector |-> ResourceFieldSelector,
     ResourceRequirements |-> ResourceRequirements,
     SELinuxOptions |-> SELinuxOptions,
     ScaleIOVolumeSource |-> ScaleIOVolumeSource,
     SecretEnvSource |-> SecretEnvSource,
     SecretKeySelector |-> SecretKeySelector,
     SecretProjection |-> SecretProjection,
     SecretVolumeSource |-> SecretVolumeSource,
     SecurityContext |-> SecurityContext,
     StorageOSVolumeSource |-> StorageOSVolumeSource,
     TCPSocketAction |-> TCPSocketAction, Toleration |-> Toleration,
     Volume |-> Volume, VolumeDevice |-> VolumeDevice,
     VolumeMount |-> VolumeMount, VolumeProjection |-> VolumeProjection,
     VsphereVirtualDiskVolumeSource |-> VsphereVirtualDiskVolumeSource,
     WeightedPodAffinityTerm |-> WeightedPodAffinityTerm,
     Initializer |-> Initializer, Initializers |-> Initializers,
     LabelSelector |-> LabelSelector,
     LabelSelectorRequirement |-> LabelSelectorRequirement,
     ListMeta |-> ListMeta, ObjectMeta |-> ObjectMeta,
     OwnerReference |-> OwnerReference, Status |-> Status,
     StatusCause |-> StatusCause, StatusDetails |-> StatusDetails,
     Time |-> Time]
=============================================================================
