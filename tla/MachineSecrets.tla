---------------------------- MODULE MachineSecrets ----------------------------
(***************************************************************************)
(* The forms in which one bundle of Talos machine secrets is published:    *)
(* src/internal/controller/secrets/secrets.go:304-664.                     *)
(*                                                                         *)
(* The bundle of the Talos SDK is a tree of pointers to texts; the         *)
(* structured contract has the same texts, the certificates and keys in    *)
(* base64, and no pointers.  A field the two call by different names has   *)
(* the name of the SDK here.                                               *)
(***************************************************************************)

CONSTANTS
    Text,   \* identifiers, tokens, PEM blocks
    Empty,  \* the empty text
    Nil     \* the nil pointer

Certificates == {"etcd", "k8s", "k8sAggregator", "k8sServiceAccount", "os"}

\* The Kubernetes service account has a key and no certificate.
Parts(n) == IF n = "k8sServiceAccount" THEN {"key"} ELSE {"crt", "key"}

Cluster == [id : Text, secret : Text]

Secrets == [bootstrapToken : Text, secretbox : Text, aescbc : Text]

TrustdInfo == [token : Text]

\* Certs of a bundle without a nil pointer, whose leaves are of some kind.
CertsOf(leaves) == {m \in [Certificates -> UNION {[Parts(n) -> leaves] : n \in Certificates}] :
                       \A n \in Certificates : m[n] \in [Parts(n) -> leaves]}

\* A bundle without a nil pointer.
WholeBundle == [cluster : Cluster, secrets : Secrets, trustdInfo : TrustdInfo, certs : CertsOf(Text)]

----------------------------------------------------------------------------
(* Base64 *)

\* What a string of the contract is: the encoding of a text, or a text that is none.
String == [base64 : BOOLEAN, of : Text]

Encoded(text) == [base64 |-> TRUE, of |-> text]

\* The empty string is its own encoding.
Decodable(string) == string.base64 \/ string.of = Empty

Encode(parts) == [p \in DOMAIN parts |-> Encoded(parts[p])]

Decode(parts) == [p \in DOMAIN parts |-> parts[p].of]

DecodeAllSwapped(certs) ==
    [n \in Certificates |->
        Decode(certs[CASE n = "etcd" -> "k8s" [] n = "k8s" -> "etcd" [] OTHER -> n])]

DecodeAll(certs) == [n \in Certificates |-> Decode(certs[n])]

----------------------------------------------------------------------------
(* The structured contract *)

\* MachineSecrets, as its JSON is read: a field that is not there is empty.
Contract == [cluster : Cluster, secrets : Secrets, trustdInfo : TrustdInfo,
             certs : CertsOf(String)]

\* validateBundleForStructuredSecrets and validateBundleCerts.
Complete(bundle) ==
    /\ bundle # Nil
    /\ \A field \in {"cluster", "secrets", "trustdInfo", "certs"} : bundle[field] # Nil
    /\ \A n \in Certificates : bundle.certs[n] # Nil

\* An error, or one contract.
SecretsBundleToMachineSecrets(bundle) ==
    IF Complete(bundle)
    THEN {[bundle EXCEPT !.certs = [n \in Certificates |-> Encode(@[n])]]}
    ELSE {}

\* Bundle.Validate of the Talos SDK: only one of the two encryption secrets is needed.
Validate(bundle) ==
    /\ Empty \notin {bundle.cluster.id, bundle.cluster.secret, bundle.trustdInfo.token,
                     bundle.secrets.bootstrapToken}
    /\ bundle.secrets.secretbox # Empty \/ bundle.secrets.aescbc # Empty
    /\ \A n \in Certificates : \A p \in Parts(n) : bundle.certs[n][p] # Empty

\* An error, or one bundle.
MachineSecretsToSecretsBundle(machineSecrets) ==
    IF /\ machineSecrets # Nil
       /\ \A n \in Certificates : \A p \in Parts(n) : Decodable(machineSecrets.certs[n][p])
    THEN {bundle \in {[machineSecrets EXCEPT !.certs = DecodeAll(@)]} :
             Validate(bundle)}
    ELSE {}

----------------------------------------------------------------------------
(* The connection details *)

\* The admin certificate is issued by the bundle's OS CA; without one it is an error.
GenerateClientConfiguration(bundle, issued) ==
    IF bundle = Nil \/ bundle.certs = Nil \/ bundle.certs["os"] = Nil THEN {}
    ELSE {[caCertificate |-> bundle.certs["os"]["crt"],
           clientCertificate |-> issued["crt"], clientKey |-> issued["key"]]}

\* One text per key.  client_configuration has the client configuration with its
\* fields in base64, talos_config has it as it is, under its default context.
ConnectionDetails(bundle, machineSecrets, client) ==
    [ca_certificate |-> client.caCertificate,
     client_certificate |-> client.clientCertificate,
     client_key |-> client.clientKey,
     client_configuration |-> Encode(client),
     talos_config |-> [context |-> "default", contexts |-> [default |-> client]],
     machine_secrets |-> machineSecrets,
     machine_secrets_bundle |-> bundle]

\* connectionDetailsFromGeneratedSecrets, of what generateMachineSecrets returns: all
\* keys, or an error.
Published(bundle, issued) ==
    {ConnectionDetails(bundle, machineSecrets, client) :
        machineSecrets \in SecretsBundleToMachineSecrets(bundle),
        client \in GenerateClientConfiguration(bundle, issued)}
==============================================================================
