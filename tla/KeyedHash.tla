------------------------------ MODULE KeyedHash ------------------------------
(***************************************************************************)
(* hash.py and hash.go: the secret of a process, and the message whose     *)
(* HMAC identifies a canonical text in a domain of the registry.  Of       *)
(* HMAC-SHA256 nothing is used but that it is computed from a secret and a *)
(* message, which therefore stand for the digest.                          *)
(***************************************************************************)
EXTENDS Integers, Sequences

CONSTANTS
  Byte,
  Registry,       \* profiles.REGISTERED_DOMAINS, each a sequence of bytes
  NUL,            \* the byte between the domain and the text
  MinSecretBytes, \* 16
  Placeholders    \* the secrets of the documentation

\* The registered domains are ASCII words without a NUL.
RegistryAssumption ==
  /\ NUL \in Byte /\ Registry \subseteq Seq(Byte \ {NUL})
ASSUME RegistryAssumption

\* secret_from_env; a variable that is not set reads as an empty one.
SecretError(value) ==
  IF value = <<>> THEN "empty"
  ELSE IF Len(value) < MinSecretBytes \/ value \in Placeholders THEN "weak"
  ELSE "none"
SecretFromEnv(name, env) ==
  LET value == IF name \in DOMAIN env THEN env[name] ELSE <<>>
  IN IF name = "" THEN [error |-> "empty name"]
     ELSE IF SecretError(value) # "none" THEN [error |-> SecretError(value)]
     ELSE [error |-> "none", key |-> value]

(* mutant: the domain is not ended *)
RunTogether(domain, canonical) == domain \o canonical
\* digest64, with the domain registered.
Message(domain, canonical) == domain \o <<NUL>> \o canonical

\* digest64 of a secret that was loaded.  Go has a secret that was not: the
\* zero value, which counts as empty.
PyDigest(secret, domain, canonical) ==
  IF domain \notin Registry THEN [error |-> "unregistered"]
  ELSE [error |-> "none", key |-> secret.key, message |-> Message(domain, canonical)]
GoDigest(secret, domain, canonical) ==
  IF secret.error # "none" THEN [error |-> "empty"] ELSE PyDigest(secret, domain, canonical)
=============================================================================
