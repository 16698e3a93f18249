------------------------- MODULE MachineSecretsProofs -------------------------
(***************************************************************************)
(* The structured contract and the bundle say the same: encoding and       *)
(* decoding are inverse to each other, in both directions, for every       *)
(* bundle and every contract.                                              *)
(***************************************************************************)
EXTENDS MachineSecrets, TLAPS

\* Certificates and keys are functions to functions.
LEMMA CertsAreFunctions ==
    ASSUME NEW L, NEW m \in CertsOf(L)
    PROVE  /\ m = [n \in Certificates |-> m[n]]
           /\ \A n \in Certificates : m[n] \in [Parts(n) -> L]
  <1>1. m \in [Certificates -> UNION {[Parts(n) -> L] : n \in Certificates}]
    BY DEF CertsOf
  <1>2. m = [n \in Certificates |-> m[n]]
    BY <1>1
  <1>3. \A n \in Certificates : m[n] \in [Parts(n) -> L]
    BY DEF CertsOf
  <1> QED
    BY <1>2, <1>3

\* What was encoded decodes to itself.
LEMMA DecodeEncode ==
    ASSUME NEW P, NEW L, NEW parts \in [P -> L]
    PROVE  /\ \A p \in P : Decodable(Encode(parts)[p])
           /\ Decode(Encode(parts)) = parts
  BY DEF Decodable, Encode, Decode, Encoded

\* What decodes to texts that are not empty is the encoding of these texts.
LEMMA EncodeDecode ==
    ASSUME NEW P, NEW parts \in [P -> String],
           \A p \in P : Decodable(parts[p]) /\ Decode(parts)[p] # Empty
    PROVE  Encode(Decode(parts)) = parts
  <1>1. ASSUME NEW p \in P
        PROVE  Encode(Decode(parts))[p] = parts[p]
    <2>1. parts[p] \in String /\ Decode(parts)[p] = parts[p].of /\ p \in DOMAIN parts
      BY DEF Decode
    <2>2. parts[p].base64 = TRUE
      BY <2>1 DEF Decodable, String
    <2>3. Encode(Decode(parts))[p] = [base64 |-> TRUE, of |-> parts[p].of]
      BY <2>1 DEF Encode, Decode, Encoded
    <2>4. parts[p] = [base64 |-> parts[p].base64, of |-> parts[p].of]
      BY <2>1 DEF String
    <2> QED
      BY <2>2, <2>3, <2>4
  <1>2. Encode(Decode(parts)) = [p \in P |-> Encode(Decode(parts))[p]]
    BY DEF Encode, Decode
  <1>3. parts = [p \in P |-> parts[p]]
    OBVIOUS
  <1> QED
    BY <1>1, <1>2, <1>3

\* A complete bundle that validates comes back from its structured contract as it was:
\* no certificate, key or token is lost, changed or swapped.
THEOREM RoundTrip ==
    ASSUME NEW bundle \in WholeBundle, Validate(bundle),
           NEW machineSecrets \in SecretsBundleToMachineSecrets(bundle), machineSecrets # Nil
    PROVE  MachineSecretsToSecretsBundle(machineSecrets) = {bundle}
  <1> DEFINE encoded == [n \in Certificates |-> Encode(bundle.certs[n])]
  <1>1. machineSecrets = [bundle EXCEPT !.certs = encoded]
    BY DEF SecretsBundleToMachineSecrets
  <1>2. machineSecrets.certs = encoded
    BY <1>1 DEF WholeBundle
  <1>3. bundle.certs \in CertsOf(Text)
    BY DEF WholeBundle
  <1>4. \A n \in Certificates : bundle.certs[n] \in [Parts(n) -> Text]
    BY <1>3, CertsAreFunctions
  <1>5. \A n \in Certificates : \A p \in Parts(n) : Decodable(machineSecrets.certs[n][p])
    <2>1. ASSUME NEW n \in Certificates
          PROVE  \A p \in Parts(n) : Decodable(Encode(bundle.certs[n])[p])
      BY <1>4, DecodeEncode
    <2>2. \A n \in Certificates : machineSecrets.certs[n] = Encode(bundle.certs[n])
      BY <1>2
    <2> QED
      BY <2>1, <2>2
  <1>6. DecodeAll(machineSecrets.certs) = bundle.certs
    <2>1. ASSUME NEW n \in Certificates
          PROVE  Decode(machineSecrets.certs[n]) = bundle.certs[n]
      <3>1. machineSecrets.certs[n] = Encode(bundle.certs[n])
        BY <1>2
      <3>2. Decode(Encode(bundle.certs[n])) = bundle.certs[n]
        BY <1>4, DecodeEncode
      <3> QED
        BY <3>1, <3>2
    <2>2. bundle.certs = [n \in Certificates |-> bundle.certs[n]]
      BY <1>3, CertsAreFunctions
    <2> QED
      BY <2>1, <2>2 DEF DecodeAll
  <1>7. [machineSecrets EXCEPT !.certs = DecodeAll(@)] = bundle
    <2> HIDE DEF encoded
    <2>1. [machineSecrets EXCEPT !.certs = bundle.certs] = bundle
      BY <1>1 DEF WholeBundle
    <2>2. [machineSecrets EXCEPT !.certs = DecodeAll(@)]
            = [machineSecrets EXCEPT !.certs = DecodeAll(machineSecrets.certs)]
      OBVIOUS
    <2> QED
      BY <2>1, <2>2, <1>6
  <1> QED
    BY <1>5, <1>7 DEF MachineSecretsToSecretsBundle

\* A contract decodes to nothing but the bundle it is the contract of: two contracts,
\* one of them perhaps damaged, never stand for the same bundle.
THEOREM DecodesItsOwnContract ==
    ASSUME NEW machineSecrets \in Contract,
           NEW bundle \in MachineSecretsToSecretsBundle(machineSecrets), Complete(bundle)
    PROVE  SecretsBundleToMachineSecrets(bundle) = {machineSecrets}
  <1> DEFINE decoded == DecodeAll(machineSecrets.certs)
  <1>1. bundle = [machineSecrets EXCEPT !.certs = decoded] /\ Validate(bundle)
    BY DEF MachineSecretsToSecretsBundle
  <1>2. bundle.certs = decoded
    BY <1>1 DEF Contract
  <1>3. machineSecrets.certs \in CertsOf(String)
    BY DEF Contract
  <1>4. ASSUME NEW n \in Certificates
        PROVE  Encode(bundle.certs[n]) = machineSecrets.certs[n]
    <2>1. machineSecrets.certs[n] \in [Parts(n) -> String]
      BY <1>3, CertsAreFunctions
    <2>2. bundle.certs[n] = Decode(machineSecrets.certs[n])
      BY <1>2 DEF DecodeAll
    <2>3. \A p \in Parts(n) : Decodable(machineSecrets.certs[n][p]) /\ bundle.certs[n][p] # Empty
      BY <1>1 DEF MachineSecretsToSecretsBundle, Validate
    <2> QED
      BY <2>1, <2>2, <2>3, EncodeDecode
  <1>5. [n \in Certificates |-> Encode(bundle.certs[n])] = machineSecrets.certs
    <2>1. machineSecrets.certs = [n \in Certificates |-> machineSecrets.certs[n]]
      BY <1>3, CertsAreFunctions
    <2> QED
      BY <1>4, <2>1
  <1>6. [bundle EXCEPT !.certs = machineSecrets.certs] = machineSecrets
    <2> HIDE DEF decoded
    <2> QED
      BY <1>1 DEF Contract
  <1>7. [bundle EXCEPT !.certs = [n \in Certificates |-> Encode(@[n])]] = machineSecrets
    BY <1>5, <1>6
  <1> QED
    BY <1>7 DEF SecretsBundleToMachineSecrets
===============================================================================
