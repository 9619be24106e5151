------------------------------ MODULE JavaApi ------------------------------
(***************************************************************************)
(* The Java half of the Android bindings: what each public method of the   *)
(* classes in android/olm-sdk/src/main/java/org/matrix/olm does around its *)
(* native function of Jni.  A call ends in one of the Outcomes: a value, a *)
(* default (null, false, -1 or nothing done), an OlmException, or an       *)
(* exception the method does not translate ("raw").                        *)
(***************************************************************************)
EXTENDS Jni

Outcomes == {"value", "default", "OlmException", "raw"}

(* kind: "new" makes the object, "load" replaces its native object by one  *)
(* read from a pickle, "release" frees it, "use" is any other method.      *)
(* bad: the outcome for arguments the method refuses by itself.            *)
(* caught: what an exception of the native function becomes.               *)
(* null: the outcome when the native function fails without one.           *)
(* nullable, owned: arguments of the caller that are handed on and that    *)
(* may be null, and those that are the caller's own arrays.                *)
(* clears: arrays of clear text the method has made that it overwrites     *)
(* when the native function succeeded; finally: when it threw, as well.    *)
Method(kind, fn) ==
  [kind |-> kind, fn |-> fn, bad |-> "none", caught |-> "OlmException", null |-> "default",
   nullable |-> {}, owned |-> {}, clears |-> {}, finally |-> {}]

Use(fn) == Method("use", fn)
Checking(fn, bad) == [Use(fn) EXCEPT !.bad = bad]
Swallowing(fn) == [Use(fn) EXCEPT !.bad = "default", !.caught = "default"]
Raw(fn) == [Use(fn) EXCEPT !.bad = "raw", !.caught = "raw"]
(* A failure without an exception looks like a success when the method     *)
(* returns nothing, or a number or a truth value like any other.           *)
Plain(m) == [m EXCEPT !.null = "value"]
Clearing(m, names) == [m EXCEPT !.clears = names]
ClearingFinally(m, names) == [m EXCEPT !.clears = names, !.finally = names]
Reading(m, names) == [m EXCEPT !.nullable = names]
HandsOn(m, names) == [m EXCEPT !.nullable = names, !.owned = names]

(* serialize() tells the caller of a failure through aErrorMsg and returns *)
(* null; deserialize() releases the object when it fails.                  *)
Pickle(fn) == [Swallowing(fn) EXCEPT !.owned = {"key"}]
Unpickle(fn) == [Method("load", fn) EXCEPT !.bad = "OlmException", !.owned = {"key", "pickled"}]

OlmAccountApi ==
  [new |-> Method("new", OlmAccount_createNewAccountJni),
   rehydrate |-> HandsOn(Method("new", OlmAccount_rehydrateJni), {"key", "nonce", "device"}),
   release |-> Method("release", OlmAccount_releaseAccountJni),
   dehydrate |-> HandsOn(Use(OlmAccount_dehydrateJni), {"key"}),
   identityKeys |-> Use(OlmAccount_identityKeysJni),
   maxOneTimeKeys |-> Use(OlmAccount_maxOneTimeKeysJni),
   generateOneTimeKeys |-> Plain(Use(OlmAccount_generateOneTimeKeysJni)),
   oneTimeKeys |-> Use(OlmAccount_oneTimeKeysJni),
   removeOneTimeKeys |-> Plain(Checking(OlmAccount_removeOneTimeKeysJni, "default")),
   markOneTimeKeysAsPublished |-> Plain(Use(OlmAccount_markOneTimeKeysAsPublishedJni)),
   signMessage |-> Checking(OlmAccount_signMessageJni, "default"),
   generateFallbackKey |-> Plain(Use(OlmAccount_generateFallbackKeyJni)),
   fallbackKey |-> Use(OlmAccount_fallbackKeyJni),
   forgetFallbackKey |-> Plain(Use(OlmAccount_forgetFallbackKeyJni)),
   pickle |-> Pickle(OlmAccount_serializeJni),
   unpickle |-> Unpickle(OlmAccount_deserializeJni)]

OlmSessionApi ==
  [new |-> Method("new", OlmSession_createNewSessionJni),
   release |-> Method("release", OlmSession_releaseSessionJni),
   initOutboundSession |-> Plain(Checking(OlmSession_initOutboundSessionJni, "OlmException")),
   initInboundSession |-> Plain(Checking(OlmSession_initInboundSessionJni, "OlmException")),
   initInboundSessionFrom |-> Plain(Checking(OlmSession_initInboundSessionFromIdKeyJni, "OlmException")),
   sessionIdentifier |-> Use(OlmSession_getSessionIdentifierJni),
   sessionDescribe |-> Use(OlmSession_olmSessionDescribeJni),
   matchesInboundSession |-> Swallowing(OlmSession_matchesInboundSessionJni),
   matchesInboundSessionFrom |-> Swallowing(OlmSession_matchesInboundSessionFromIdKeyJni),
   encryptMessage |-> Clearing(Checking(OlmSession_encryptMessageJni, "default"), {"clear"}),
   decryptMessage |-> Clearing(Reading(Checking(OlmSession_decryptMessageJni, "default"),
                                      {"cipherText"}), {"plaintext"}),
   pickle |-> Pickle(OlmSession_serializeJni),
   unpickle |-> Unpickle(OlmSession_deserializeJni)]

(* The constructor overwrites a copy of the session key, not the array it  *)
(* hands to createNewSessionJni.                                           *)
OlmInboundGroupSessionApi ==
  [new |-> [Method("new", OlmInboundGroupSession_createNewSessionJni) EXCEPT !.bad = "OlmException"],
   release |-> Method("release", OlmInboundGroupSession_releaseSessionJni),
   sessionIdentifier |-> Use(OlmInboundGroupSession_sessionIdentifierJni),
   getFirstKnownIndex |-> Plain(Use(OlmInboundGroupSession_firstKnownIndexJni)),
   isVerified |-> Plain(Use(OlmInboundGroupSession_isVerifiedJni)),
   export |-> Clearing(Use(OlmInboundGroupSession_exportJni), {"exported"}),
   decryptMessage |-> Clearing(Checking(OlmInboundGroupSession_decryptMessageJni, "OlmException"),
                               {"plaintext"}),
   pickle |-> Pickle(OlmInboundGroupSession_serializeJni),
   unpickle |-> Unpickle(OlmInboundGroupSession_deserializeJni)]

OlmOutboundGroupSessionApi ==
  [new |-> Method("new", OlmOutboundGroupSession_createNewSessionJni),
   release |-> Method("release", OlmOutboundGroupSession_releaseSessionJni),
   sessionIdentifier |-> Use(OlmOutboundGroupSession_sessionIdentifierJni),
   messageIndex |-> Plain(Use(OlmOutboundGroupSession_messageIndexJni)),
   sessionKey |-> Clearing(Use(OlmOutboundGroupSession_sessionKeyJni), {"sessionKey"}),
   encryptMessage |-> Clearing(Checking(OlmOutboundGroupSession_encryptMessageJni, "default"),
                               {"clear"}),
   pickle |-> Pickle(OlmOutboundGroupSession_serializeJni),
   unpickle |-> Unpickle(OlmOutboundGroupSession_deserializeJni)]

OlmPkEncryptionApi ==
  [new |-> Method("new", OlmPkEncryption_createNewPkEncryptionJni),
   release |-> Method("release", OlmPkEncryption_releasePkEncryptionJni),
   setRecipientKey |-> Plain(Checking(OlmPkEncryption_setRecipientKeyJni, "default")),
   encrypt |-> ClearingFinally(Plain(Checking(OlmPkEncryption_encryptJni, "default")), {"clear"})]

OlmPkDecryptionApi ==
  [new |-> Method("new", OlmPkDecryption_createNewPkDecryptionJni),
   release |-> Method("release", OlmPkDecryption_releasePkDecryptionJni),
   setPrivateKey |-> [HandsOn(Use(OlmPkDecryption_setPrivateKeyJni), {"privateKey"})
                        EXCEPT !.null = "OlmException"],
   generateKey |-> Use(OlmPkDecryption_generateKeyJni),
   privateKey |-> Use(OlmPkDecryption_privateKeyJni),
   decrypt |-> Clearing([Reading(Checking(OlmPkDecryption_decryptJni, "default"),
                                {"cipherText", "mac", "ephemeral"}) EXCEPT !.caught = "raw"],
                        {"plaintext"})]

OlmPkSigningApi ==
  [new |-> Method("new", OlmPkSigning_createNewPkSigningJni),
   release |-> Method("release", OlmPkSigning_releasePkSigningJni),
   generateSeed |-> Use(OlmPkSigning_generateSeedJni),
   initWithSeed |-> HandsOn(Use(OlmPkSigning_setKeyFromSeedJni), {"seed"}),
   sign |-> Checking(OlmPkSigning_pkSignJni, "default")]

OlmSASApi ==
  [new |-> Method("new", OlmSAS_createNewSASJni),
   release |-> Method("release", OlmSAS_releaseSASJni),
   getPublicKey |-> Use(OlmSAS_getPubKeyJni),
   setTheirPublicKey |-> Plain(Raw(OlmSAS_setTheirPubKey)),
   generateShortCode |-> Reading(Checking(OlmSAS_generateShortCodeJni, "OlmException"), {"byteNb"}),
   calculateMac |-> Raw(OlmSAS_calculateMacJni),
   calculateMacFixedBase64 |-> Raw(OlmSAS_calculateMacFixedBase64Jni),
   calculateMacLongKdf |-> Raw(OlmSAS_calculateMacLongKdfJni)]

OlmUtilityApi ==
  [new |-> Method("new", OlmUtility_createUtilityJni),
   release |-> Method("release", OlmUtility_releaseUtilityJni),
   verifyEd25519Signature |-> Plain(Checking(OlmUtility_verifyEd25519SignatureJni, "OlmException")),
   sha256 |-> Swallowing(OlmUtility_sha256Jni)]

Api == [OlmAccount |-> OlmAccountApi, OlmSession |-> OlmSessionApi,
        OlmInboundGroupSession |-> OlmInboundGroupSessionApi,
        OlmOutboundGroupSession |-> OlmOutboundGroupSessionApi,
        OlmPkEncryption |-> OlmPkEncryptionApi, OlmPkDecryption |-> OlmPkDecryptionApi,
        OlmPkSigning |-> OlmPkSigningApi, OlmSAS |-> OlmSASApi, OlmUtility |-> OlmUtilityApi]

=============================================================================
