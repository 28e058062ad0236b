------------------------------ MODULE Signature ------------------------------
(***************************************************************************)
(* Verification of webhook signatures (utils/signature.js), as operators.  *)
(*                                                                         *)
(* A MAC is ideal: senders compute it from the bytes that they send, and   *)
(* it matches only for the same secret and those bytes. Header strings are *)
(* reduced to what the rules of the providers look at. Ages are relative:  *)
(* a timestamp is "fresh" or "stale" with respect to the tolerance at the  *)
(* moment of the check.                                                    *)
(*                                                                         *)
(*   config : [provider, secret, headerName, timestampKey, algorithm], the *)
(*            last three of the custom provider: whether it is given a     *)
(*            header and a timestamp, and an algorithm that crypto has     *)
(*   headers: Null, or [for, secret, wellFormed, stamp], a MAC in the      *)
(*            header of provider `for`                                     *)
(*   body   : "raw", the bytes received; "reference", the object that      *)
(*            replaces an offloaded body; "buffer", JSON.stringify of the  *)
(*            Buffer that holds them; or "nothing", undefined              *)
(***************************************************************************)

CONSTANT Null

Providers == {"stripe", "shopify", "github", "slack", "custom"}

(* The signed text starts with the timestamp only for these two.           *)
SignsStamp(provider) == provider \in {"stripe", "slack"}

NeedsStamp(config) ==
  \/ SignsStamp(config.provider)
  \/ config.provider = "custom" /\ config.timestampKey

ReadsStamp(config) == NeedsStamp(config) \/ config.provider = "shopify"

(* getProviderContext returns an error: unknown provider, incomplete       *)
(* configuration, missing header, header not in the provider's format.     *)
ContextError(config, headers) ==
  \/ config.provider \notin Providers
  \/ config.provider = "custom" /\ ~config.headerName
  \/ headers = Null
  \/ headers.for # config.provider
  \/ config.provider \in {"stripe", "github", "slack"} /\ ~headers.wellFormed
  \/ NeedsStamp(config) /\ headers.stamp = "none"

(* A timestamp that the provider reads is outside the tolerance.           *)
OutOfTolerance(config, headers) ==
  ReadsStamp(config) /\ headers.stamp = "stale"

(* secureCompare of the computed MAC with the expected one.                *)
MacMatches(config, headers, body) ==
  headers.secret = config.secret /\ body = "raw"

(* Both verifiers get as far as crypto.createHmac.                         *)
ComputesMac(config, headers) ==
  /\ config.secret # Null
  /\ ~ContextError(config, headers)
  /\ ~OutOfTolerance(config, headers)

(* createHmac accepts the algorithm of the configuration.                  *)
HasAlgorithm(config) == config.provider = "custom" => config.algorithm

(* createStreamVerifier returns an hmac: checked before the body arrives.  *)
StreamVerifierStarts(config, headers) ==
  ComputesMac(config, headers) /\ HasAlgorithm(config)

(* verifySignature throws: createHmac on an algorithm that it does not     *)
(* know, or update on undefined.                                           *)
VerifySignatureThrows(config, headers, body) ==
  ComputesMac(config, headers) /\ (~HasAlgorithm(config) \/ body = "nothing")

(* verifySignature, which has not thrown, on the body that the middleware  *)
(* holds.                                                                  *)
VerifySignature(config, headers, body) ==
  ComputesMac(config, headers) /\ MacMatches(config, headers, body)
=============================================================================
