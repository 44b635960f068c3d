------------------------------ MODULE Registry ------------------------------
(***************************************************************************)
(* The display names of registry.rs, as sets of pairs of an id and a name. *)
(* The converters' tables (X509, Json) were written apart from them.       *)
(***************************************************************************)
EXTENDS Integers

\* rdn_attribute_name
RdnAttributeNames ==
  { <<0, "emailAddress">>, <<1, "commonName">>, <<2, "surname">>, <<3, "serialNumber">>,
    <<4, "countryName">>, <<5, "localityName">>, <<6, "stateOrProvinceName">>,
    <<7, "streetAddress">>, <<8, "organizationName">>, <<9, "organizationalUnitName">>,
    <<10, "title">>, <<11, "businessCategory">>, <<12, "postalCode">>, <<13, "givenName">>,
    <<14, "initials">>, <<15, "generationQualifier">>, <<16, "dnQualifier">>,
    <<17, "pseudonym">>, <<18, "organizationIdentifier">>,
    <<19, "jurisdictionLocalityName">>, <<20, "jurisdictionStateOrProvinceName">>,
    <<21, "jurisdictionCountryName">>, <<22, "domainComponent">>, <<25, "name">>,
    <<26, "telephoneNumber">>, <<27, "dmdName">>, <<28, "uid">>, <<29, "unstructuredName">>,
    <<30, "unstructuredAddress">> }

\* extension_name
ExtensionNames ==
  { <<1, "subjectKeyIdentifier">>, <<2, "keyUsage">>, <<3, "subjectAltName">>,
    <<4, "basicConstraints">>, <<5, "cRLDistributionPoints">>, <<6, "certificatePolicies">>,
    <<7, "authorityKeyIdentifier">>, <<8, "extKeyUsage">>, <<9, "authorityInfoAccess">>,
    <<24, "subjectDirectoryAttributes">>, <<25, "issuerAltName">>, <<26, "nameConstraints">>,
    <<27, "policyMappings">>, <<28, "policyConstraints">>, <<29, "freshestCRL">>,
    <<30, "inhibitAnyPolicy">>, <<31, "subjectInfoAccess">>, <<32, "id-pe-ipAddrBlocks">>,
    <<33, "id-pe-autonomousSysIds">>, <<34, "id-pe-ipAddrBlocks-v2">>,
    <<35, "id-pe-autonomousSysIds-v2">>, <<36, "id-pkix-ocsp-nocheck">>,
    <<38, "id-pe-tlsfeature">> }

\* extended_key_usage_name
ExtendedKeyUsageNames ==
  { <<0, "anyExtendedKeyUsage">>, <<1, "id-kp-serverAuth">>, <<2, "id-kp-clientAuth">>,
    <<3, "id-kp-codeSigning">>, <<4, "id-kp-emailProtection">>, <<8, "id-kp-timeStamping">>,
    <<9, "id-kp-OCSPSigning">>, <<10, "id-pkinit-KPClientAuth">>, <<11, "id-pkinit-KPKdc">>,
    <<12, "id-kp-secureShellClient">>, <<13, "id-kp-secureShellServer">>,
    <<14, "id-kp-bundleSecurity">>, <<15, "id-kp-cmcCA">>, <<16, "id-kp-cmcRA">>,
    <<17, "id-kp-cmcArchive">>, <<18, "id-kp-cmKGA">>, <<20, "id-kp-wisun-fan-device">> }

\* general_name_type_name
GeneralNameTypeNames ==
  { <<-3, "otherName (MACAddress)">>, <<-2, "otherName (SmtpUTF8Mailbox)">>,
    <<-1, "otherName (hardwareModuleName)">>, <<0, "otherName">>, <<1, "rfc822Name">>,
    <<2, "dNSName">>, <<4, "directoryName">>, <<6, "uniformResourceIdentifier">>,
    <<7, "iPAddress">>, <<8, "registeredID">> }

\* signature_algorithm_name
SignatureAlgorithmNames ==
  { <<-256, "sha1-with-rsa-signature">>, <<-255, "ecdsa-with-SHA1">>,
    <<0, "ecdsa-with-SHA256">>, <<1, "ecdsa-with-SHA384">>, <<2, "ecdsa-with-SHA512">>,
    <<3, "id-ecdsa-with-shake128">>, <<4, "id-ecdsa-with-shake256">>,
    <<5, "id-alg-unsigned">>, <<8, "sm2-with-sm3">>, <<12, "id-Ed25519">>, <<13, "id-Ed448">>,
    <<14, "sa-ecdhPop-sha256-hmac-sha256">>, <<15, "sa-ecdhPop-sha384-hmac-sha384">>,
    <<16, "sa-ecdhPop-sha512-hmac-sha512">>, <<23, "sha256WithRSAEncryption">>,
    <<24, "sha384WithRSAEncryption">>, <<25, "sha512WithRSAEncryption">>,
    <<26, "RSASSA-PSS with SHA-256">>, <<27, "RSASSA-PSS with SHA-384">>,
    <<28, "RSASSA-PSS with SHA-512">>, <<29, "id-RSASSA-PSS-SHAKE128">>,
    <<30, "id-RSASSA-PSS-SHAKE256">> }

\* public_key_algorithm_name
PublicKeyAlgorithmNames ==
  { <<0, "rsaEncryption">>, <<1, "id-ecPublicKey (secp256r1)">>,
    <<2, "id-ecPublicKey (secp384r1)">>, <<3, "id-ecPublicKey (secp521r1)">>,
    <<6, "id-ecPublicKey (sm2p256v1)">>, <<8, "id-X25519">>, <<9, "id-X448">>,
    <<12, "id-Ed25519">>, <<13, "id-Ed448">>, <<24, "id-ecPublicKey (brainpoolP256r1)">>,
    <<25, "id-ecPublicKey (brainpoolP384r1)">>, <<26, "id-ecPublicKey (brainpoolP512r1)">>,
    <<27, "id-ecPublicKey (FRP256v1)">> }
=============================================================================
