------------------------- MODULE Bindings_proofs -------------------------
(***************************************************************************)
(* What holds of Bindings for every set of Java objects, any number of     *)
(* native objects and whichever classes exist together.                    *)
(*                                                                         *)
(* Everything rests on what each native function of Jni and each method of *)
(* JavaApi does by itself, GoodMethod, which is shown one function and one *)
(* method at a time.  The invariant IInv then says how far a call has come *)
(* and what it holds, and from it follow the properties of Bindings.       *)
(***************************************************************************)
EXTENDS Bindings, Common_proofs, SequenceTheorems

(* Names of arguments that an application passes to more than one call.    *)
Kept == {"key", "nonce", "privateKey", "seed"}

(* What the native functions have in common: all that they acquire they    *)
(* release, secrets not without overwriting them, but for a pickle and for *)
(* the export of a function that failed, and arrays the caller may need    *)
(* not overwritten; and no input is decoded a second time before it is     *)
(* copied again.                                                           *)
Acquires(step) == step[1] \in {"pin", "malloc"}

Sound(fn) ==
    /\ Len(fn.steps) \in Nat /\ DOMAIN fn.steps = 1 .. Len(fn.steps)
    /\ \A i \in DOMAIN fn.steps :
         /\ fn.steps[i][2] # "none"
         /\ Acquires(fn.steps[i]) => fn.steps[i][2] \in DOMAIN fn.release \cup {"self"}
         /\ fn.steps[i][1] = "pin" /\ fn.steps[i][2] \in Kept
              => fn.release[fn.steps[i][2]] # "wipe"
    /\ \A x \in DOMAIN fn.release \cap Secrets :
         \/ fn.release[x] \in {"wipe", "wipeCopy"}
         \/ fn.release[x] = "wipeOnSuccess" /\ x = "exported"
         \/ x = "pickled"
    /\ \A i, j \in DOMAIN fn.steps :
         fn.steps[i][1] = "call" /\ fn.steps[j][1] = "call" /\ i < j
           => \A x \in Consumes(fn.steps[i][2]) \cap Consumes(fn.steps[j][2]) :
                \E k \in DOMAIN fn.steps : i < k /\ k < j /\ fn.steps[k] = Copy(x)

(* Clear text is in buffers of these names only.                           *)
ClearTextIn(fn, names) ==
    \A i \in DOMAIN fn.steps :
       Acquires(fn.steps[i]) /\ fn.steps[i][2] \in ClearText => fn.steps[i][2] \in names

(* The only clear text a method passes to such a function.                 *)
PinsMessage(fn) ==
    \A i \in DOMAIN fn.steps :
       fn.steps[i][1] = "pin" /\ fn.steps[i][2] \in ClearText => fn.steps[i][2] = "clear"

(* A function that reads no pickle.                                        *)
NoPickle(fn) == "pickled" \notin DOMAIN fn.release

(* A function that works on a native object.                               *)
KeepsObjects(fn) ==
    \A i \in DOMAIN fn.steps : fn.steps[i] # Alloc /\ fn.steps[i][1] # "clear"

(* A function that makes one: it frees it when a later step fails, but for *)
(* createNewSASJni.                                                        *)
MakesObject(fn, class) ==
    \E i \in DOMAIN fn.steps :
       /\ fn.steps[i] = Alloc
       /\ \A j \in DOMAIN fn.steps : /\ fn.steps[j][1] # "clear"
                                     /\ fn.steps[j] = Alloc => i = j
       /\ i = Len(fn.steps) \/ class = "OlmSAS"
            \/ ("self" \in DOMAIN fn.release /\ fn.release["self"] = "onError")

(* A method around such a function.                                        *)
UseFn(fn, cleared) ==
    /\ Sound(fn) /\ ClearTextIn(fn, cleared) /\ PinsMessage(fn)
    /\ KeepsObjects(fn) /\ NoPickle(fn)

(* The session key is clear text of one class of objects.                  *)
KeyOf(class) == IF class = "OlmInboundGroupSession" THEN {"sessionKey"} ELSE {}

NewFn(fn, class) ==
    Sound(fn) /\ ClearTextIn(fn, KeyOf(class)) /\ MakesObject(fn, class) /\ NoPickle(fn)

LoadFn(fn, class) == Sound(fn) /\ ClearTextIn(fn, {}) /\ MakesObject(fn, class)

Loud(fn) == fn.quiet = {}

GoodMethod(class, name, m) ==
    /\ \/ m.kind = "use" /\ UseFn(m.fn, m.clears)
       \/ m.kind = "new" /\ NewFn(m.fn, class)
       \/ m.kind = "load" /\ LoadFn(m.fn, class)
       \/ m.kind = "release" /\ m.fn = ReleaseFn
    /\ "clear" \in m.clears => "clear" \in m.finally \/ name = "encryptMessage"
    /\ m.caught # "value"
    /\ m.null = "value" => \A x \in m.fn.quiet : <<name, x>> \in Unreported

USE DEF Given, Field, Pin, Malloc, Copy, Olm, Ask, Alloc, Clear, Checked,
        Unchecked, Random, Fn, Quiet, Nothing, Consumes, Sound,
        ClearTextIn, KeepsObjects, MakesObject, PinsMessage, NoPickle,
        KeyOf, UseFn, NewFn, LoadFn, Loud,
        Acquires, Kept, Secrets, ClearText

(* The native functions of OlmAccount.                                     *)
LEMMA OlmAccountFunctions ==
    /\ NewFn(OlmAccount_createNewAccountJni, "OlmAccount")
    /\ NewFn(OlmAccount_rehydrateJni, "OlmAccount")
    /\ UseFn(OlmAccount_dehydrateJni, {})
    /\ UseFn(OlmAccount_identityKeysJni, {})
    /\ UseFn(OlmAccount_maxOneTimeKeysJni, {})
    /\ UseFn(OlmAccount_generateOneTimeKeysJni, {})
    /\ Loud(OlmAccount_generateOneTimeKeysJni)
    /\ UseFn(OlmAccount_oneTimeKeysJni, {})
    /\ UseFn(OlmAccount_removeOneTimeKeysJni, {}) /\ Loud(OlmAccount_removeOneTimeKeysJni)
    /\ UseFn(OlmAccount_markOneTimeKeysAsPublishedJni, {})
    /\ Loud(OlmAccount_markOneTimeKeysAsPublishedJni)
    /\ UseFn(OlmAccount_signMessageJni, {})
    /\ UseFn(OlmAccount_generateFallbackKeyJni, {})
    /\ Loud(OlmAccount_generateFallbackKeyJni)
    /\ UseFn(OlmAccount_fallbackKeyJni, {})
    /\ UseFn(OlmAccount_forgetFallbackKeyJni, {}) /\ Loud(OlmAccount_forgetFallbackKeyJni)
    /\ UseFn(OlmAccount_serializeJni, {})
    /\ LoadFn(OlmAccount_deserializeJni, "OlmAccount")
<1>1. NewFn(OlmAccount_createNewAccountJni, "OlmAccount")
  BY DEF OlmAccount_createNewAccountJni
<1>2. NewFn(OlmAccount_rehydrateJni, "OlmAccount")
  BY DEF OlmAccount_rehydrateJni, Rehydrate
<1>3. UseFn(OlmAccount_dehydrateJni, {})
  BY DEF OlmAccount_dehydrateJni
<1>4. UseFn(OlmAccount_identityKeysJni, {})
  BY DEF OlmAccount_identityKeysJni, Getter
<1>5. UseFn(OlmAccount_maxOneTimeKeysJni, {})
  BY DEF OlmAccount_maxOneTimeKeysJni
<1>6. /\ UseFn(OlmAccount_generateOneTimeKeysJni, {})
      /\ Loud(OlmAccount_generateOneTimeKeysJni)
  BY DEF OlmAccount_generateOneTimeKeysJni
<1>7. UseFn(OlmAccount_oneTimeKeysJni, {})
  BY DEF OlmAccount_oneTimeKeysJni, Getter
<1>8. UseFn(OlmAccount_removeOneTimeKeysJni, {}) /\ Loud(OlmAccount_removeOneTimeKeysJni)
  BY DEF OlmAccount_removeOneTimeKeysJni
<1>9. /\ UseFn(OlmAccount_markOneTimeKeysAsPublishedJni, {})
      /\ Loud(OlmAccount_markOneTimeKeysAsPublishedJni)
  BY DEF OlmAccount_markOneTimeKeysAsPublishedJni
<1>10. UseFn(OlmAccount_signMessageJni, {})
  BY DEF OlmAccount_signMessageJni
<1>11. /\ UseFn(OlmAccount_generateFallbackKeyJni, {})
       /\ Loud(OlmAccount_generateFallbackKeyJni)
  BY DEF OlmAccount_generateFallbackKeyJni
<1>12. UseFn(OlmAccount_fallbackKeyJni, {})
  BY DEF OlmAccount_fallbackKeyJni, Getter
<1>13. UseFn(OlmAccount_forgetFallbackKeyJni, {}) /\ Loud(OlmAccount_forgetFallbackKeyJni)
  BY DEF OlmAccount_forgetFallbackKeyJni
<1>14. UseFn(OlmAccount_serializeJni, {})
  BY DEF OlmAccount_serializeJni, Serialize
<1>15. LoadFn(OlmAccount_deserializeJni, "OlmAccount")
  BY DEF OlmAccount_deserializeJni, Deserialize
<1> QED BY <1>1, <1>2, <1>3, <1>4, <1>5, <1>6, <1>7, <1>8, <1>9, <1>10, <1>11,
       <1>12, <1>13, <1>14, <1>15

(* The native functions of OlmSession.                                     *)
LEMMA OlmSessionFunctions ==
    /\ NewFn(OlmSession_createNewSessionJni, "OlmSession")
    /\ UseFn(OlmSession_initOutboundSessionJni, {})
    /\ Loud(OlmSession_initOutboundSessionJni)
    /\ UseFn(OlmSession_initInboundSessionJni, {}) /\ Loud(OlmSession_initInboundSessionJni)
    /\ UseFn(OlmSession_initInboundSessionFromIdKeyJni, {})
    /\ Loud(OlmSession_initInboundSessionFromIdKeyJni)
    /\ UseFn(OlmSession_getSessionIdentifierJni, {})
    /\ UseFn(OlmSession_olmSessionDescribeJni, {})
    /\ UseFn(OlmSession_matchesInboundSessionJni, {})
    /\ UseFn(OlmSession_matchesInboundSessionFromIdKeyJni, {})
    /\ UseFn(OlmSession_encryptMessageJni, {"clear"})
    /\ UseFn(OlmSession_decryptMessageJni, {"plaintext"})
    /\ UseFn(OlmSession_serializeJni, {})
    /\ LoadFn(OlmSession_deserializeJni, "OlmSession")
<1>1. NewFn(OlmSession_createNewSessionJni, "OlmSession")
  BY DEF OlmSession_createNewSessionJni
<1>2. /\ UseFn(OlmSession_initOutboundSessionJni, {})
      /\ Loud(OlmSession_initOutboundSessionJni)
  BY DEF OlmSession_initOutboundSessionJni
<1>3. UseFn(OlmSession_initInboundSessionJni, {}) /\ Loud(OlmSession_initInboundSessionJni)
  BY DEF OlmSession_initInboundSessionJni
<1>4. /\ UseFn(OlmSession_initInboundSessionFromIdKeyJni, {})
      /\ Loud(OlmSession_initInboundSessionFromIdKeyJni)
  BY DEF OlmSession_initInboundSessionFromIdKeyJni
<1>5. UseFn(OlmSession_getSessionIdentifierJni, {})
  BY DEF OlmSession_getSessionIdentifierJni, Getter
<1>6. UseFn(OlmSession_olmSessionDescribeJni, {})
  BY DEF OlmSession_olmSessionDescribeJni
<1>7. UseFn(OlmSession_matchesInboundSessionJni, {})
  BY DEF OlmSession_matchesInboundSessionJni
<1>8. UseFn(OlmSession_matchesInboundSessionFromIdKeyJni, {})
  BY DEF OlmSession_matchesInboundSessionFromIdKeyJni
<1>9. UseFn(OlmSession_encryptMessageJni, {"clear"})
  BY DEF OlmSession_encryptMessageJni, SessionEncrypt
<1>10. UseFn(OlmSession_decryptMessageJni, {"plaintext"})
  BY SMTT(30) DEF OlmSession_decryptMessageJni, SessionDecrypt, Decrypt
<1>11. UseFn(OlmSession_serializeJni, {})
  BY DEF OlmSession_serializeJni, Serialize
<1>12. LoadFn(OlmSession_deserializeJni, "OlmSession")
  BY SMTT(30) DEF OlmSession_deserializeJni, Deserialize
<1> QED BY <1>1, <1>2, <1>3, <1>4, <1>5, <1>6, <1>7, <1>8, <1>9, <1>10, <1>11,
       <1>12

(* The native functions of OlmInboundGroupSession.                         *)
LEMMA OlmInboundGroupSessionFunctions ==
    /\ NewFn(OlmInboundGroupSession_createNewSessionJni, "OlmInboundGroupSession")
    /\ UseFn(OlmInboundGroupSession_sessionIdentifierJni, {})
    /\ UseFn(OlmInboundGroupSession_firstKnownIndexJni, {})
    /\ Loud(OlmInboundGroupSession_firstKnownIndexJni)
    /\ UseFn(OlmInboundGroupSession_isVerifiedJni, {})
    /\ Loud(OlmInboundGroupSession_isVerifiedJni)
    /\ UseFn(OlmInboundGroupSession_exportJni, {"exported"})
    /\ UseFn(OlmInboundGroupSession_decryptMessageJni, {"plaintext"})
    /\ UseFn(OlmInboundGroupSession_serializeJni, {})
    /\ LoadFn(OlmInboundGroupSession_deserializeJni, "OlmInboundGroupSession")
<1>1. NewFn(OlmInboundGroupSession_createNewSessionJni, "OlmInboundGroupSession")
  BY DEF OlmInboundGroupSession_createNewSessionJni
<1>2. UseFn(OlmInboundGroupSession_sessionIdentifierJni, {})
  BY DEF OlmInboundGroupSession_sessionIdentifierJni, Getter
<1>3. /\ UseFn(OlmInboundGroupSession_firstKnownIndexJni, {})
      /\ Loud(OlmInboundGroupSession_firstKnownIndexJni)
  BY DEF OlmInboundGroupSession_firstKnownIndexJni
<1>4. /\ UseFn(OlmInboundGroupSession_isVerifiedJni, {})
      /\ Loud(OlmInboundGroupSession_isVerifiedJni)
  BY DEF OlmInboundGroupSession_isVerifiedJni
<1>5. UseFn(OlmInboundGroupSession_exportJni, {"exported"})
  BY DEF OlmInboundGroupSession_exportJni
<1>6. UseFn(OlmInboundGroupSession_decryptMessageJni, {"plaintext"})
  BY SMTT(30) DEF OlmInboundGroupSession_decryptMessageJni, Decrypt
<1>7. UseFn(OlmInboundGroupSession_serializeJni, {})
  BY DEF OlmInboundGroupSession_serializeJni, Serialize
<1>8. LoadFn(OlmInboundGroupSession_deserializeJni, "OlmInboundGroupSession")
  BY DEF OlmInboundGroupSession_deserializeJni, Deserialize
<1> QED BY <1>1, <1>2, <1>3, <1>4, <1>5, <1>6, <1>7, <1>8

(* The native functions of OlmOutboundGroupSession.                        *)
LEMMA OlmOutboundGroupSessionFunctions ==
    /\ NewFn(OlmOutboundGroupSession_createNewSessionJni, "OlmOutboundGroupSession")
    /\ UseFn(OlmOutboundGroupSession_sessionIdentifierJni, {})
    /\ UseFn(OlmOutboundGroupSession_messageIndexJni, {})
    /\ OlmOutboundGroupSession_messageIndexJni.quiet = {"this"}
    /\ UseFn(OlmOutboundGroupSession_sessionKeyJni, {"sessionKey"})
    /\ UseFn(OlmOutboundGroupSession_encryptMessageJni, {"clear"})
    /\ UseFn(OlmOutboundGroupSession_serializeJni, {})
    /\ LoadFn(OlmOutboundGroupSession_deserializeJni, "OlmOutboundGroupSession")
<1>1. NewFn(OlmOutboundGroupSession_createNewSessionJni, "OlmOutboundGroupSession")
  BY DEF OlmOutboundGroupSession_createNewSessionJni
<1>2. UseFn(OlmOutboundGroupSession_sessionIdentifierJni, {})
  BY DEF OlmOutboundGroupSession_sessionIdentifierJni, Getter
<1>3. /\ UseFn(OlmOutboundGroupSession_messageIndexJni, {})
      /\ OlmOutboundGroupSession_messageIndexJni.quiet = {"this"}
  BY DEF OlmOutboundGroupSession_messageIndexJni
<1>4. UseFn(OlmOutboundGroupSession_sessionKeyJni, {"sessionKey"})
  BY DEF OlmOutboundGroupSession_sessionKeyJni
<1>5. UseFn(OlmOutboundGroupSession_encryptMessageJni, {"clear"})
  BY DEF OlmOutboundGroupSession_encryptMessageJni
<1>6. UseFn(OlmOutboundGroupSession_serializeJni, {})
  BY DEF OlmOutboundGroupSession_serializeJni, Serialize
<1>7. LoadFn(OlmOutboundGroupSession_deserializeJni, "OlmOutboundGroupSession")
  BY DEF OlmOutboundGroupSession_deserializeJni, Deserialize
<1> QED BY <1>1, <1>2, <1>3, <1>4, <1>5, <1>6, <1>7

(* The native functions of OlmPkEncryption.                                *)
LEMMA OlmPkEncryptionFunctions ==
    /\ NewFn(OlmPkEncryption_createNewPkEncryptionJni, "OlmPkEncryption")
    /\ UseFn(OlmPkEncryption_setRecipientKeyJni, {})
    /\ OlmPkEncryption_setRecipientKeyJni.quiet = {"this"}
    /\ UseFn(OlmPkEncryption_encryptJni, {"clear"})
    /\ OlmPkEncryption_encryptJni.quiet = {"this"}
<1>1. NewFn(OlmPkEncryption_createNewPkEncryptionJni, "OlmPkEncryption")
  BY DEF OlmPkEncryption_createNewPkEncryptionJni
<1>2. /\ UseFn(OlmPkEncryption_setRecipientKeyJni, {})
      /\ OlmPkEncryption_setRecipientKeyJni.quiet = {"this"}
  BY DEF OlmPkEncryption_setRecipientKeyJni
<1>3. /\ UseFn(OlmPkEncryption_encryptJni, {"clear"})
      /\ OlmPkEncryption_encryptJni.quiet = {"this"}
  BY DEF OlmPkEncryption_encryptJni
<1> QED BY <1>1, <1>2, <1>3

(* The native functions of OlmPkDecryption.                                *)
LEMMA OlmPkDecryptionFunctions ==
    /\ NewFn(OlmPkDecryption_createNewPkDecryptionJni, "OlmPkDecryption")
    /\ UseFn(OlmPkDecryption_setPrivateKeyJni, {})
    /\ UseFn(OlmPkDecryption_generateKeyJni, {})
    /\ UseFn(OlmPkDecryption_privateKeyJni, {})
    /\ UseFn(OlmPkDecryption_decryptJni, {"plaintext"})
<1>1. NewFn(OlmPkDecryption_createNewPkDecryptionJni, "OlmPkDecryption")
  BY DEF OlmPkDecryption_createNewPkDecryptionJni
<1>2. UseFn(OlmPkDecryption_setPrivateKeyJni, {})
  BY DEF OlmPkDecryption_setPrivateKeyJni
<1>3. UseFn(OlmPkDecryption_generateKeyJni, {})
  BY DEF OlmPkDecryption_generateKeyJni
<1>4. UseFn(OlmPkDecryption_privateKeyJni, {})
  BY DEF OlmPkDecryption_privateKeyJni, PrivateKey
<1>5. UseFn(OlmPkDecryption_decryptJni, {"plaintext"})
  BY DEF OlmPkDecryption_decryptJni
<1> QED BY <1>1, <1>2, <1>3, <1>4, <1>5

(* The native functions of OlmPkSigning.                                   *)
LEMMA OlmPkSigningFunctions ==
    /\ NewFn(OlmPkSigning_createNewPkSigningJni, "OlmPkSigning")
    /\ UseFn(OlmPkSigning_generateSeedJni, {})
    /\ UseFn(OlmPkSigning_setKeyFromSeedJni, {})
    /\ UseFn(OlmPkSigning_pkSignJni, {})
<1>1. NewFn(OlmPkSigning_createNewPkSigningJni, "OlmPkSigning")
  BY DEF OlmPkSigning_createNewPkSigningJni
<1>2. UseFn(OlmPkSigning_generateSeedJni, {})
  BY DEF OlmPkSigning_generateSeedJni
<1>3. UseFn(OlmPkSigning_setKeyFromSeedJni, {})
  BY DEF OlmPkSigning_setKeyFromSeedJni
<1>4. UseFn(OlmPkSigning_pkSignJni, {})
  BY DEF OlmPkSigning_pkSignJni
<1> QED BY <1>1, <1>2, <1>3, <1>4

(* The native functions of OlmSAS.                                         *)
LEMMA OlmSASFunctions ==
    /\ NewFn(OlmSAS_createNewSASJni, "OlmSAS")
    /\ UseFn(OlmSAS_getPubKeyJni, {})
    /\ UseFn(OlmSAS_setTheirPubKey, {}) /\ Loud(OlmSAS_setTheirPubKey)
    /\ UseFn(OlmSAS_generateShortCodeJni, {})
    /\ UseFn(OlmSAS_calculateMacJni, {})
    /\ UseFn(OlmSAS_calculateMacFixedBase64Jni, {})
    /\ UseFn(OlmSAS_calculateMacLongKdfJni, {})
<1>1. NewFn(OlmSAS_createNewSASJni, "OlmSAS")
  BY DEF OlmSAS_createNewSASJni
<1>2. UseFn(OlmSAS_getPubKeyJni, {})
  BY DEF OlmSAS_getPubKeyJni, Getter
<1>3. UseFn(OlmSAS_setTheirPubKey, {}) /\ Loud(OlmSAS_setTheirPubKey)
  BY DEF OlmSAS_setTheirPubKey
<1>4. UseFn(OlmSAS_generateShortCodeJni, {})
  BY DEF OlmSAS_generateShortCodeJni
<1>5. UseFn(OlmSAS_calculateMacJni, {})
  BY DEF OlmSAS_calculateMacJni, CalculateMac
<1>6. UseFn(OlmSAS_calculateMacFixedBase64Jni, {})
  BY DEF OlmSAS_calculateMacFixedBase64Jni, CalculateMac
<1>7. UseFn(OlmSAS_calculateMacLongKdfJni, {})
  BY DEF OlmSAS_calculateMacLongKdfJni, CalculateMac
<1> QED BY <1>1, <1>2, <1>3, <1>4, <1>5, <1>6, <1>7

(* The native functions of OlmUtility.                                     *)
LEMMA OlmUtilityFunctions ==
    /\ NewFn(OlmUtility_createUtilityJni, "OlmUtility")
    /\ UseFn(OlmUtility_verifyEd25519SignatureJni, {})
    /\ OlmUtility_verifyEd25519SignatureJni.quiet = {"this", "signature", "fingerprint", "message"}
    /\ UseFn(OlmUtility_sha256Jni, {})
<1>1. NewFn(OlmUtility_createUtilityJni, "OlmUtility")
  BY DEF OlmUtility_createUtilityJni
<1>2. /\ UseFn(OlmUtility_verifyEd25519SignatureJni, {})
      /\ OlmUtility_verifyEd25519SignatureJni.quiet = {"this", "signature", "fingerprint", "message"}
  BY DEF OlmUtility_verifyEd25519SignatureJni
<1>3. UseFn(OlmUtility_sha256Jni, {})
  BY DEF OlmUtility_sha256Jni
<1> QED BY <1>1, <1>2, <1>3

HIDE DEF Given, Field, Pin, Malloc, Copy, Olm, Ask, Alloc, Clear, Checked,
         Unchecked, Random, Fn, Quiet, Nothing, Consumes, Sound,
         ClearTextIn, KeepsObjects, MakesObject, PinsMessage, NoPickle,
         KeyOf, UseFn, NewFn, LoadFn, Loud,
         Acquires, Kept, Secrets, ClearText

(* The methods of OlmAccount.                                              *)
LEMMA OlmAccountMethods ==
    \A m \in DOMAIN OlmAccountApi : GoodMethod("OlmAccount", m, OlmAccountApi[m])
<1>1. GoodMethod("OlmAccount", "new", OlmAccountApi.new)
  BY OlmAccountFunctions DEF GoodMethod, OlmAccountApi, Method
<1>2. GoodMethod("OlmAccount", "rehydrate", OlmAccountApi.rehydrate)
  BY OlmAccountFunctions DEF GoodMethod, OlmAccountApi, HandsOn, Method
<1>3. GoodMethod("OlmAccount", "release", OlmAccountApi.release)
  BY DEF GoodMethod, OlmAccountApi, Method, OlmAccount_releaseAccountJni
<1>4. GoodMethod("OlmAccount", "dehydrate", OlmAccountApi.dehydrate)
  BY OlmAccountFunctions DEF GoodMethod, OlmAccountApi, HandsOn, Use, Method
<1>5. GoodMethod("OlmAccount", "identityKeys", OlmAccountApi.identityKeys)
  BY OlmAccountFunctions DEF GoodMethod, OlmAccountApi, Use, Method
<1>6. GoodMethod("OlmAccount", "maxOneTimeKeys", OlmAccountApi.maxOneTimeKeys)
  BY OlmAccountFunctions DEF GoodMethod, OlmAccountApi, Use, Method
<1>7. GoodMethod("OlmAccount", "generateOneTimeKeys", OlmAccountApi.generateOneTimeKeys)
  BY OlmAccountFunctions DEF GoodMethod, Loud, OlmAccountApi, Plain, Use,
     Method
<1>8. GoodMethod("OlmAccount", "oneTimeKeys", OlmAccountApi.oneTimeKeys)
  BY OlmAccountFunctions DEF GoodMethod, OlmAccountApi, Use, Method
<1>9. GoodMethod("OlmAccount", "removeOneTimeKeys", OlmAccountApi.removeOneTimeKeys)
  BY OlmAccountFunctions DEF GoodMethod, Loud, OlmAccountApi, Plain,
     Checking, Use, Method
<1>10. GoodMethod("OlmAccount", "markOneTimeKeysAsPublished",
                OlmAccountApi.markOneTimeKeysAsPublished)
  BY OlmAccountFunctions DEF GoodMethod, Loud, OlmAccountApi, Plain, Use,
     Method
<1>11. GoodMethod("OlmAccount", "signMessage", OlmAccountApi.signMessage)
  BY OlmAccountFunctions DEF GoodMethod, OlmAccountApi, Checking, Use, Method
<1>12. GoodMethod("OlmAccount", "generateFallbackKey", OlmAccountApi.generateFallbackKey)
  BY OlmAccountFunctions DEF GoodMethod, Loud, OlmAccountApi, Plain, Use,
     Method
<1>13. GoodMethod("OlmAccount", "fallbackKey", OlmAccountApi.fallbackKey)
  BY OlmAccountFunctions DEF GoodMethod, OlmAccountApi, Use, Method
<1>14. GoodMethod("OlmAccount", "forgetFallbackKey", OlmAccountApi.forgetFallbackKey)
  BY OlmAccountFunctions DEF GoodMethod, Loud, OlmAccountApi, Plain, Use,
     Method
<1>15. GoodMethod("OlmAccount", "pickle", OlmAccountApi.pickle)
  BY OlmAccountFunctions DEF GoodMethod, OlmAccountApi, Pickle, Swallowing, Use,
     Method
<1>16. GoodMethod("OlmAccount", "unpickle", OlmAccountApi.unpickle)
  BY OlmAccountFunctions DEF GoodMethod, OlmAccountApi, Unpickle, Method
<1> QED BY <1>1, <1>2, <1>3, <1>4, <1>5, <1>6, <1>7, <1>8, <1>9, <1>10, <1>11, <1>12,
     <1>13, <1>14, <1>15, <1>16 DEF OlmAccountApi

(* The methods of OlmSession.                                              *)
LEMMA OlmSessionMethods ==
    \A m \in DOMAIN OlmSessionApi : GoodMethod("OlmSession", m, OlmSessionApi[m])
<1>1. GoodMethod("OlmSession", "new", OlmSessionApi.new)
  BY OlmSessionFunctions DEF GoodMethod, OlmSessionApi, Method
<1>2. GoodMethod("OlmSession", "release", OlmSessionApi.release)
  BY DEF GoodMethod, OlmSessionApi, Method, OlmSession_releaseSessionJni
<1>3. GoodMethod("OlmSession", "initOutboundSession", OlmSessionApi.initOutboundSession)
  BY OlmSessionFunctions DEF GoodMethod, Loud, OlmSessionApi, Plain,
     Checking, Use, Method
<1>4. GoodMethod("OlmSession", "initInboundSession", OlmSessionApi.initInboundSession)
  BY OlmSessionFunctions DEF GoodMethod, Loud, OlmSessionApi, Plain,
     Checking, Use, Method
<1>5. GoodMethod("OlmSession", "initInboundSessionFrom",
                OlmSessionApi.initInboundSessionFrom)
  BY OlmSessionFunctions DEF GoodMethod, Loud, OlmSessionApi, Plain,
     Checking, Use, Method
<1>6. GoodMethod("OlmSession", "sessionIdentifier", OlmSessionApi.sessionIdentifier)
  BY OlmSessionFunctions DEF GoodMethod, OlmSessionApi, Use, Method
<1>7. GoodMethod("OlmSession", "sessionDescribe", OlmSessionApi.sessionDescribe)
  BY OlmSessionFunctions DEF GoodMethod, OlmSessionApi, Use, Method
<1>8. GoodMethod("OlmSession", "matchesInboundSession", OlmSessionApi.matchesInboundSession)
  BY OlmSessionFunctions DEF GoodMethod, OlmSessionApi, Swallowing, Use, Method
<1>9. GoodMethod("OlmSession", "matchesInboundSessionFrom",
                OlmSessionApi.matchesInboundSessionFrom)
  BY OlmSessionFunctions DEF GoodMethod, OlmSessionApi, Swallowing, Use, Method
<1>10. GoodMethod("OlmSession", "encryptMessage", OlmSessionApi.encryptMessage)
  BY OlmSessionFunctions DEF GoodMethod, OlmSessionApi, Clearing, Checking, Use,
     Method
<1>11. GoodMethod("OlmSession", "decryptMessage", OlmSessionApi.decryptMessage)
  BY OlmSessionFunctions DEF GoodMethod, OlmSessionApi, Clearing, Reading,
     Checking, Use, Method
<1>12. GoodMethod("OlmSession", "pickle", OlmSessionApi.pickle)
  BY OlmSessionFunctions DEF GoodMethod, OlmSessionApi, Pickle, Swallowing, Use,
     Method
<1>13. GoodMethod("OlmSession", "unpickle", OlmSessionApi.unpickle)
  BY OlmSessionFunctions DEF GoodMethod, OlmSessionApi, Unpickle, Method
<1> QED BY <1>1, <1>2, <1>3, <1>4, <1>5, <1>6, <1>7, <1>8, <1>9, <1>10, <1>11, <1>12,
     <1>13 DEF OlmSessionApi

(* The methods of OlmInboundGroupSession.                                  *)
LEMMA OlmInboundGroupSessionMethods ==
    \A m \in DOMAIN OlmInboundGroupSessionApi :
       GoodMethod("OlmInboundGroupSession", m, OlmInboundGroupSessionApi[m])
<1>1. GoodMethod("OlmInboundGroupSession", "new", OlmInboundGroupSessionApi.new)
  BY OlmInboundGroupSessionFunctions DEF GoodMethod, OlmInboundGroupSessionApi,
     Method
<1>2. GoodMethod("OlmInboundGroupSession", "release", OlmInboundGroupSessionApi.release)
  BY DEF GoodMethod, OlmInboundGroupSessionApi, Method,
     OlmInboundGroupSession_releaseSessionJni
<1>3. GoodMethod("OlmInboundGroupSession", "sessionIdentifier",
                OlmInboundGroupSessionApi.sessionIdentifier)
  BY OlmInboundGroupSessionFunctions DEF GoodMethod, OlmInboundGroupSessionApi,
     Use, Method
<1>4. GoodMethod("OlmInboundGroupSession", "getFirstKnownIndex",
                OlmInboundGroupSessionApi.getFirstKnownIndex)
  BY OlmInboundGroupSessionFunctions DEF GoodMethod, Loud,
     OlmInboundGroupSessionApi, Plain, Use, Method
<1>5. GoodMethod("OlmInboundGroupSession", "isVerified",
                OlmInboundGroupSessionApi.isVerified)
  BY OlmInboundGroupSessionFunctions DEF GoodMethod, Loud,
     OlmInboundGroupSessionApi, Plain, Use, Method
<1>6. GoodMethod("OlmInboundGroupSession", "export", OlmInboundGroupSessionApi.export)
  BY OlmInboundGroupSessionFunctions DEF GoodMethod, OlmInboundGroupSessionApi,
     Clearing, Use, Method
<1>7. GoodMethod("OlmInboundGroupSession", "decryptMessage",
                OlmInboundGroupSessionApi.decryptMessage)
  BY OlmInboundGroupSessionFunctions DEF GoodMethod, OlmInboundGroupSessionApi,
     Clearing, Checking, Use, Method
<1>8. GoodMethod("OlmInboundGroupSession", "pickle", OlmInboundGroupSessionApi.pickle)
  BY OlmInboundGroupSessionFunctions DEF GoodMethod, OlmInboundGroupSessionApi,
     Pickle, Swallowing, Use, Method
<1>9. GoodMethod("OlmInboundGroupSession", "unpickle", OlmInboundGroupSessionApi.unpickle)
  BY OlmInboundGroupSessionFunctions DEF GoodMethod, OlmInboundGroupSessionApi,
     Unpickle, Method
<1> QED BY <1>1, <1>2, <1>3, <1>4, <1>5, <1>6, <1>7, <1>8, <1>9 DEF
     OlmInboundGroupSessionApi

(* The methods of OlmOutboundGroupSession.                                 *)
LEMMA OlmOutboundGroupSessionMethods ==
    \A m \in DOMAIN OlmOutboundGroupSessionApi :
       GoodMethod("OlmOutboundGroupSession", m, OlmOutboundGroupSessionApi[m])
<1>1. GoodMethod("OlmOutboundGroupSession", "new", OlmOutboundGroupSessionApi.new)
  BY OlmOutboundGroupSessionFunctions DEF GoodMethod,
     OlmOutboundGroupSessionApi, Method
<1>2. GoodMethod("OlmOutboundGroupSession", "release", OlmOutboundGroupSessionApi.release)
  BY DEF GoodMethod, OlmOutboundGroupSessionApi, Method,
     OlmOutboundGroupSession_releaseSessionJni
<1>3. GoodMethod("OlmOutboundGroupSession", "sessionIdentifier",
                OlmOutboundGroupSessionApi.sessionIdentifier)
  BY OlmOutboundGroupSessionFunctions DEF GoodMethod,
     OlmOutboundGroupSessionApi, Use, Method
<1>4. GoodMethod("OlmOutboundGroupSession", "messageIndex",
                OlmOutboundGroupSessionApi.messageIndex)
  BY OlmOutboundGroupSessionFunctions DEF GoodMethod, Unreported,
     OlmOutboundGroupSessionApi, Plain, Use, Method
<1>5. GoodMethod("OlmOutboundGroupSession", "sessionKey",
                OlmOutboundGroupSessionApi.sessionKey)
  BY OlmOutboundGroupSessionFunctions DEF GoodMethod,
     OlmOutboundGroupSessionApi, Clearing, Use, Method
<1>6. GoodMethod("OlmOutboundGroupSession", "encryptMessage",
                OlmOutboundGroupSessionApi.encryptMessage)
  BY OlmOutboundGroupSessionFunctions DEF GoodMethod,
     OlmOutboundGroupSessionApi, Clearing, Checking, Use, Method
<1>7. GoodMethod("OlmOutboundGroupSession", "pickle", OlmOutboundGroupSessionApi.pickle)
  BY OlmOutboundGroupSessionFunctions DEF GoodMethod,
     OlmOutboundGroupSessionApi, Pickle, Swallowing, Use, Method
<1>8. GoodMethod("OlmOutboundGroupSession", "unpickle", OlmOutboundGroupSessionApi.unpickle)
  BY OlmOutboundGroupSessionFunctions DEF GoodMethod,
     OlmOutboundGroupSessionApi, Unpickle, Method
<1> QED BY <1>1, <1>2, <1>3, <1>4, <1>5, <1>6, <1>7, <1>8 DEF OlmOutboundGroupSessionApi

(* The methods of OlmPkEncryption.                                         *)
LEMMA OlmPkEncryptionMethods ==
    \A m \in DOMAIN OlmPkEncryptionApi :
       GoodMethod("OlmPkEncryption", m, OlmPkEncryptionApi[m])
<1>1. GoodMethod("OlmPkEncryption", "new", OlmPkEncryptionApi.new)
  BY OlmPkEncryptionFunctions DEF GoodMethod, OlmPkEncryptionApi, Method
<1>2. GoodMethod("OlmPkEncryption", "release", OlmPkEncryptionApi.release)
  BY DEF GoodMethod, OlmPkEncryptionApi, Method,
     OlmPkEncryption_releasePkEncryptionJni
<1>3. GoodMethod("OlmPkEncryption", "setRecipientKey", OlmPkEncryptionApi.setRecipientKey)
  BY OlmPkEncryptionFunctions DEF GoodMethod, Unreported, OlmPkEncryptionApi,
     Plain, Checking, Use, Method
<1>4. GoodMethod("OlmPkEncryption", "encrypt", OlmPkEncryptionApi.encrypt)
  BY OlmPkEncryptionFunctions DEF GoodMethod, Unreported, OlmPkEncryptionApi,
     ClearingFinally, Plain, Checking, Use, Method
<1> QED BY <1>1, <1>2, <1>3, <1>4 DEF OlmPkEncryptionApi

(* The methods of OlmPkDecryption.                                         *)
LEMMA OlmPkDecryptionMethods ==
    \A m \in DOMAIN OlmPkDecryptionApi :
       GoodMethod("OlmPkDecryption", m, OlmPkDecryptionApi[m])
<1>1. GoodMethod("OlmPkDecryption", "new", OlmPkDecryptionApi.new)
  BY OlmPkDecryptionFunctions DEF GoodMethod, OlmPkDecryptionApi, Method
<1>2. GoodMethod("OlmPkDecryption", "release", OlmPkDecryptionApi.release)
  BY DEF GoodMethod, OlmPkDecryptionApi, Method,
     OlmPkDecryption_releasePkDecryptionJni
<1>3. GoodMethod("OlmPkDecryption", "setPrivateKey", OlmPkDecryptionApi.setPrivateKey)
  BY OlmPkDecryptionFunctions DEF GoodMethod, OlmPkDecryptionApi, HandsOn, Use,
     Method
<1>4. GoodMethod("OlmPkDecryption", "generateKey", OlmPkDecryptionApi.generateKey)
  BY OlmPkDecryptionFunctions DEF GoodMethod, OlmPkDecryptionApi, Use, Method
<1>5. GoodMethod("OlmPkDecryption", "privateKey", OlmPkDecryptionApi.privateKey)
  BY OlmPkDecryptionFunctions DEF GoodMethod, OlmPkDecryptionApi, Use, Method
<1>6. GoodMethod("OlmPkDecryption", "decrypt", OlmPkDecryptionApi.decrypt)
  BY OlmPkDecryptionFunctions DEF GoodMethod, OlmPkDecryptionApi, Clearing,
     Reading, Checking, Use, Method
<1> QED BY <1>1, <1>2, <1>3, <1>4, <1>5, <1>6 DEF OlmPkDecryptionApi

(* The methods of OlmPkSigning.                                            *)
LEMMA OlmPkSigningMethods ==
    \A m \in DOMAIN OlmPkSigningApi : GoodMethod("OlmPkSigning", m, OlmPkSigningApi[m])
<1>1. GoodMethod("OlmPkSigning", "new", OlmPkSigningApi.new)
  BY OlmPkSigningFunctions DEF GoodMethod, OlmPkSigningApi, Method
<1>2. GoodMethod("OlmPkSigning", "release", OlmPkSigningApi.release)
  BY DEF GoodMethod, OlmPkSigningApi, Method, OlmPkSigning_releasePkSigningJni
<1>3. GoodMethod("OlmPkSigning", "generateSeed", OlmPkSigningApi.generateSeed)
  BY OlmPkSigningFunctions DEF GoodMethod, OlmPkSigningApi, Use, Method
<1>4. GoodMethod("OlmPkSigning", "initWithSeed", OlmPkSigningApi.initWithSeed)
  BY OlmPkSigningFunctions DEF GoodMethod, OlmPkSigningApi, HandsOn, Use, Method
<1>5. GoodMethod("OlmPkSigning", "sign", OlmPkSigningApi.sign)
  BY OlmPkSigningFunctions DEF GoodMethod, OlmPkSigningApi, Checking, Use,
     Method
<1> QED BY <1>1, <1>2, <1>3, <1>4, <1>5 DEF OlmPkSigningApi

(* The methods of OlmSAS.                                                  *)
LEMMA OlmSASMethods ==
    \A m \in DOMAIN OlmSASApi : GoodMethod("OlmSAS", m, OlmSASApi[m])
<1>1. GoodMethod("OlmSAS", "new", OlmSASApi.new)
  BY OlmSASFunctions DEF GoodMethod, OlmSASApi, Method
<1>2. GoodMethod("OlmSAS", "release", OlmSASApi.release)
  BY DEF GoodMethod, OlmSASApi, Method, OlmSAS_releaseSASJni
<1>3. GoodMethod("OlmSAS", "getPublicKey", OlmSASApi.getPublicKey)
  BY OlmSASFunctions DEF GoodMethod, OlmSASApi, Use, Method
<1>4. GoodMethod("OlmSAS", "setTheirPublicKey", OlmSASApi.setTheirPublicKey)
  BY OlmSASFunctions DEF GoodMethod, Loud, OlmSASApi, Plain, Raw, Use,
     Method
<1>5. GoodMethod("OlmSAS", "generateShortCode", OlmSASApi.generateShortCode)
  BY OlmSASFunctions DEF GoodMethod, OlmSASApi, Reading, Checking, Use, Method
<1>6. GoodMethod("OlmSAS", "calculateMac", OlmSASApi.calculateMac)
  BY OlmSASFunctions DEF GoodMethod, OlmSASApi, Raw, Use, Method
<1>7. GoodMethod("OlmSAS", "calculateMacFixedBase64", OlmSASApi.calculateMacFixedBase64)
  BY OlmSASFunctions DEF GoodMethod, OlmSASApi, Raw, Use, Method
<1>8. GoodMethod("OlmSAS", "calculateMacLongKdf", OlmSASApi.calculateMacLongKdf)
  BY OlmSASFunctions DEF GoodMethod, OlmSASApi, Raw, Use, Method
<1> QED BY <1>1, <1>2, <1>3, <1>4, <1>5, <1>6, <1>7, <1>8 DEF OlmSASApi

(* The methods of OlmUtility.                                              *)
LEMMA OlmUtilityMethods ==
    \A m \in DOMAIN OlmUtilityApi : GoodMethod("OlmUtility", m, OlmUtilityApi[m])
<1>1. GoodMethod("OlmUtility", "new", OlmUtilityApi.new)
  BY OlmUtilityFunctions DEF GoodMethod, OlmUtilityApi, Method
<1>2. GoodMethod("OlmUtility", "release", OlmUtilityApi.release)
  BY DEF GoodMethod, OlmUtilityApi, Method, OlmUtility_releaseUtilityJni
<1>3. GoodMethod("OlmUtility", "verifyEd25519Signature",
                OlmUtilityApi.verifyEd25519Signature)
  BY OlmUtilityFunctions DEF GoodMethod, Unreported, OlmUtilityApi, Plain,
     Checking, Use, Method
<1>4. GoodMethod("OlmUtility", "sha256", OlmUtilityApi.sha256)
  BY OlmUtilityFunctions DEF GoodMethod, OlmUtilityApi, Swallowing, Use, Method
<1> QED BY <1>1, <1>2, <1>3, <1>4 DEF OlmUtilityApi

(* All methods of all classes.                                             *)
LEMMA MethodsGood ==
    \A c \in Classes : \A m \in DOMAIN Api[c] : GoodMethod(c, m, Api[c][m])
<1> SUFFICES ASSUME NEW c \in Classes
             PROVE  \A m \in DOMAIN Api[c] : GoodMethod(c, m, Api[c][m])
  OBVIOUS
<1>1. c \in {"OlmAccount", "OlmSession", "OlmInboundGroupSession", "OlmOutboundGroupSession",
             "OlmPkEncryption", "OlmPkDecryption", "OlmPkSigning", "OlmSAS", "OlmUtility"}
  BY DEF Classes, Api
<1>2. /\ Api["OlmAccount"] = OlmAccountApi /\ Api["OlmSession"] = OlmSessionApi
      /\ Api["OlmInboundGroupSession"] = OlmInboundGroupSessionApi
      /\ Api["OlmOutboundGroupSession"] = OlmOutboundGroupSessionApi
      /\ Api["OlmPkEncryption"] = OlmPkEncryptionApi
      /\ Api["OlmPkDecryption"] = OlmPkDecryptionApi
      /\ Api["OlmPkSigning"] = OlmPkSigningApi
      /\ Api["OlmSAS"] = OlmSASApi /\ Api["OlmUtility"] = OlmUtilityApi
  BY DEF Api
<1> QED BY <1>1, <1>2, OlmAccountMethods, OlmSessionMethods, OlmInboundGroupSessionMethods,
       OlmOutboundGroupSessionMethods, OlmPkEncryptionMethods, OlmPkDecryptionMethods,
       OlmPkSigningMethods, OlmSASMethods, OlmUtilityMethods

(* The functions that release an object take two steps.                    *)
LEMMA ReleaseSteps ==
    /\ Len(ReleaseFn.steps) = 2 /\ DOMAIN ReleaseFn.steps = {1, 2}
    /\ ReleaseFn.steps[1] = Given("this") /\ ReleaseFn.steps[2] = Clear
    /\ DOMAIN ReleaseFn.release = {}
  BY DEF ReleaseFn, Quiet, Fn, Nothing

-----------------------------------------------------------------------------
(***************************************************************************)
(* The invariant.                                                          *)
(***************************************************************************)
CallFields ==
    {"stage", "class", "method", "obj", "arg", "copied", "pc", "self", "held", "used", "stale",
     "failed", "raised", "left", "unwiped", "spoiled", "outcome"}

TypesGood ==
    /\ DOMAIN objects = JavaObjects /\ DOMAIN heap = NativeIds
    /\ \A o \in JavaObjects : /\ DOMAIN objects[o] = {"class", "id"}
                              /\ objects[o].class # "free"
                              /\ objects[o].id \in NativeIds \cup {0}
    /\ ~Running("idle") =>
         /\ DOMAIN call = CallFields
         /\ call.stage \in {"native", "release", "java", "done"}
         /\ call.class \in Classes /\ call.method \in DOMAIN Api[call.class]
         /\ call.obj \in JavaObjects
         /\ call.pc \in Nat \ {0}
         /\ call.self \in NativeIds \cup {0}

(* What a call holds it acquired by one of its steps; an input it has used *)
(* was not copied again since.                                             *)
BuffersGood ==
    ~Running("idle") =>
      /\ \A x \in call.held :
           \E i \in DOMAIN M.fn.steps : Acquires(M.fn.steps[i]) /\ M.fn.steps[i][2] = x
      /\ Running("native") =>
           \A x \in call.used : \E i \in DOMAIN M.fn.steps :
              /\ i < call.pc /\ M.fn.steps[i][1] = "call" /\ x \in Consumes(M.fn.steps[i][2])
              /\ \A k \in DOMAIN M.fn.steps : i < k /\ k < call.pc => M.fn.steps[k] # Copy(x)
      /\ call.used \cap Kept = {}
      /\ call.stale = FALSE
      /\ call.left \subseteq {"self"}
      /\ call.stage \in {"native", "release"} => call.unwiped = {}
      /\ \A left \in call.unwiped : StaysBehind(left)
      /\ call.spoiled \cap Kept = {}

(* A failure is known to Java, or the step was one that reports nothing.   *)
ReportGood ==
    /\ Running("native") => ~Failed
    /\ Running("java") \/ Running("done")
         => call.raised = (Failed /\ call.failed \notin M.fn.quiet)
    /\ Running("done") /\ Failed
         => call.outcome = IF call.raised THEN M.caught ELSE M.null

(* No two Java objects have the same native object.                        *)
Apart ==
    \A o, p \in JavaObjects : o # p /\ objects[o].id # 0 => objects[p].id # objects[o].id

(* The native object of a Java object is there, but for one that is being  *)
(* released.                                                               *)
Live(o) == objects[o].id # 0 => heap[objects[o].id] = objects[o].class

Releasing(o) ==
    /\ call.stage \in {"native", "release", "java"}
    /\ M.kind = "release" /\ o = call.obj /\ heap[objects[o].id] = "free"

(* A release comes to its end.                                             *)
ReleaseGood ==
    /\ objects[call.obj].id # 0 /\ ~Failed
    /\ call.pc > 2 \/ ~Running("native") => heap[objects[call.obj].id] = "free"

Allocated ==
    \E i \in DOMAIN M.fn.steps : i < call.pc /\ M.fn.steps[i] = Alloc

(* The native object a call has made has no Java object yet.               *)
SelfGood ==
    /\ call.self # 0 <=> Allocated
    /\ call.self # 0 =>
         /\ M.kind \in {"new", "load"}
         /\ "self" \in call.held
         /\ \A p \in JavaObjects : objects[p].id # call.self
         /\ IF Running("java") /\ Failed
              THEN call.class = "OlmSAS" \/ heap[call.self] = "free"
              ELSE heap[call.self] = call.class
    /\ ~Running("native") => (Failed <=> call.pc <= Len(M.fn.steps))

ObjectsGood ==
    /\ Apart
    /\ \A o \in JavaObjects : Live(o) \/ Releasing(o)
    /\ call.stage \in {"native", "release", "java"} =>
         /\ objects[call.obj].class = call.class
         /\ M.kind = "new" => objects[call.obj].id = 0
         /\ M.kind = "release" => ReleaseGood
         /\ SelfGood

IInv == TypesGood /\ BuffersGood /\ ReportGood /\ ObjectsGood

-----------------------------------------------------------------------------
(***************************************************************************)
(* The beginning of a call, and what happens between calls.                *)
(***************************************************************************)
(* The method of the call in progress.                                     *)
LEMMA CalledMethod ==
    ASSUME TypesGood, ~Running("idle")
    PROVE  GoodMethod(call.class, call.method, M)
  BY MethodsGood DEF TypesGood, M

(* The clear text a constructor leaves in an array.                        *)
KeptText(class, m) == IF m.kind = "new" THEN KeyOf(class) ELSE {}

(* What every good method's function has, whatever its kind.               *)
LEMMA SoundMethod ==
    ASSUME NEW class, NEW name, NEW m, GoodMethod(class, name, m)
    PROVE  /\ Sound(m.fn)
           /\ m.kind \in {"use", "new", "load", "release"}
           /\ m.kind = "use" => ClearTextIn(m.fn, m.clears) /\ PinsMessage(m.fn)
           /\ m.kind # "use" => ClearTextIn(m.fn, KeptText(class, m))
           /\ m.kind # "load" => NoPickle(m.fn)
<1>1. /\ Sound(ReleaseFn) /\ NoPickle(ReleaseFn)
      /\ \A names : ClearTextIn(ReleaseFn, names)
  BY ReleaseSteps DEF Sound, ClearTextIn, NoPickle, Acquires, Given, Clear
<1>2. CASE m.kind = "release" /\ m.fn = ReleaseFn
  BY <1>1, <1>2
<1>3. CASE m.kind = "use" /\ UseFn(m.fn, m.clears)
  BY <1>3 DEF UseFn
<1>4. CASE m.kind = "new" /\ NewFn(m.fn, class)
  BY <1>4 DEF NewFn, KeptText
<1>5. CASE m.kind = "load" /\ LoadFn(m.fn, class)
  BY <1>5 DEF LoadFn, KeptText
<1> QED BY <1>2, <1>3, <1>4, <1>5 DEF GoodMethod

(* The functions that make an object and those that free one.              *)
LEMMA StepsByKind ==
    ASSUME NEW class, NEW name, NEW m, GoodMethod(class, name, m)
    PROVE  /\ m.kind = "release" <=> \E i \in DOMAIN m.fn.steps : m.fn.steps[i][1] = "clear"
           /\ m.kind \in {"new", "load"} <=> \E i \in DOMAIN m.fn.steps : m.fn.steps[i] = Alloc
           /\ m.kind \in {"new", "load"} => MakesObject(m.fn, class)
           /\ m.kind = "release" => m.fn = ReleaseFn
<1>1. CASE m.kind = "release" /\ m.fn = ReleaseFn
  <2>1. m.fn.steps[2][1] = "clear" /\ 2 \in DOMAIN m.fn.steps
    BY <1>1, ReleaseSteps DEF Clear
  <2>2. \A i \in DOMAIN m.fn.steps : m.fn.steps[i] # Alloc
    BY <1>1, ReleaseSteps DEF Clear, Given, Alloc
  <2> QED BY <1>1, <2>1, <2>2
<1>2. CASE m.kind = "use" /\ UseFn(m.fn, m.clears)
  BY <1>2 DEF UseFn, KeepsObjects
<1>3. CASE \/ m.kind = "new" /\ NewFn(m.fn, class)
           \/ m.kind = "load" /\ LoadFn(m.fn, class)
  <2>1. MakesObject(m.fn, class)
    BY <1>3 DEF NewFn, LoadFn
  <2>2. /\ \E i \in DOMAIN m.fn.steps : m.fn.steps[i] = Alloc
        /\ \A i \in DOMAIN m.fn.steps : m.fn.steps[i][1] # "clear"
    BY <2>1 DEF MakesObject
  <2> QED BY <1>3, <2>1, <2>2
<1> QED BY <1>1, <1>2, <1>3 DEF GoodMethod

(* So for the call in progress.                                            *)
LEMMA CalledKind ==
    ASSUME TypesGood, ~Running("idle")
    PROVE  /\ M.kind = "release" <=> \E i \in DOMAIN M.fn.steps : M.fn.steps[i][1] = "clear"
           /\ M.kind \in {"new", "load"} <=> \E i \in DOMAIN M.fn.steps : M.fn.steps[i] = Alloc
           /\ M.kind \in {"new", "load"} => MakesObject(M.fn, call.class)
<1> DEFINE m == M
<1>1. GoodMethod(call.class, call.method, m)
  BY CalledMethod
<1> HIDE DEF m
<1>2. /\ m.kind = "release" <=> \E i \in DOMAIN m.fn.steps : m.fn.steps[i][1] = "clear"
      /\ m.kind \in {"new", "load"} <=> \E i \in DOMAIN m.fn.steps : m.fn.steps[i] = Alloc
      /\ m.kind \in {"new", "load"} => MakesObject(m.fn, call.class)
  BY <1>1, StepsByKind
<1> QED BY <1>2 DEF m

(* The step a native function is at.                                       *)
LEMMA StepFound ==
    ASSUME TypesGood, AtStep
    PROVE  /\ call.pc \in DOMAIN M.fn.steps
           /\ Step = M.fn.steps[call.pc]
           /\ call.stage = "native"
<1>1. Sound(M.fn)
  BY CalledMethod, SoundMethod DEF AtStep, Running
<1> QED BY <1>1 DEF AtStep, Running, Sound, TypesGood, Step

(* A call goes on.                                                         *)
LEMMA SameMethod ==
    ASSUME call'.class = call.class, call'.method = call.method
    PROVE  M' = M
  BY DEF M

(* Native objects in use and free ones are told apart by heap.             *)
LEMMA FreeIsNoClass == "free" \notin Classes
  BY DEF Classes, Api

(* Initially nothing goes on.                                              *)
LEMMA InitIInv ==
    ASSUME Init
    PROVE  IInv
<1>1. call.stage = "idle"
  BY DEF Init, Idle
<1>2. \A o \in JavaObjects : objects[o] = NoObject /\ objects[o].id = 0
  BY DEF Init, NoObject
<1>3. TypesGood
  BY <1>1, <1>2 DEF TypesGood, Init, NoObject, Running
<1>4. BuffersGood /\ ReportGood
  BY <1>1 DEF BuffersGood, ReportGood, Running
<1>5. ObjectsGood
  BY <1>1, <1>2 DEF ObjectsGood, Apart, Live
<1> QED BY <1>3, <1>4, <1>5 DEF IInv

-----------------------------------------------------------------------------
(* A call begins.                                                          *)
LEMMA CallBegins ==
    ASSUME NEW c \in Classes, NEW n \in DOMAIN Api[c], NEW o \in JavaObjects, NEW p,
           NEW b, call' = Calls(c, n, o, p, b), TypesGood,
           DOMAIN objects' = JavaObjects,
           \A q \in JavaObjects : DOMAIN objects'[q] = {"class", "id"}
                                  /\ objects'[q].class # "free"
                                  /\ objects'[q].id = objects[q].id,
           UNCHANGED heap,
           Apart, \A q \in JavaObjects : Live(q)',
           objects'[o].class = c,
           Api[c][n].kind = "new" => objects'[o].id = 0,
           Api[c][n].kind = "release" => objects'[o].id # 0
    PROVE  IInv'
<1>1. /\ DOMAIN call' = CallFields /\ call'.stage = "native"
      /\ call'.class = c /\ call'.method = n /\ call'.obj = o
      /\ call'.pc = 1 /\ call'.self = 0 /\ call'.held = {} /\ call'.used = {}
      /\ call'.stale = FALSE /\ call'.failed = "none" /\ call'.left = {}
      /\ call'.unwiped = {} /\ call'.spoiled = {}
  BY DEF Calls, CallFields
<1>2. TypesGood'
  BY <1>1 DEF TypesGood, Running
<1>3. M' = Api[c][n]
  BY <1>1 DEF M
<1>4. BuffersGood'
  BY <1>1 DEF BuffersGood, Running
<1>5. ReportGood'
  BY <1>1 DEF ReportGood, Running, Failed
<1>6. Apart'
  BY DEF Apart
<1>7. ASSUME M'.kind = "release" PROVE ReleaseGood'
  BY <1>1, <1>3, <1>7 DEF ReleaseGood, Failed, Running
<1>8. SelfGood'
  <2>1. ~Allocated'
    <3>1. Sound(M'.fn)
      BY <1>3, MethodsGood, SoundMethod
    <3> QED BY <1>1, <3>1 DEF Allocated, Sound
  <2> QED BY <1>1, <2>1 DEF SelfGood, Running
<1>9. ObjectsGood'
  BY <1>1, <1>3, <1>6, <1>7, <1>8 DEF ObjectsGood
<1> QED BY <1>2, <1>4, <1>5, <1>9 DEF IInv

(* While none runs, every object is whole.                                 *)
LEMMA Between ==
    ASSUME IInv, call.stage \in {"idle", "done"}
    PROVE  Apart /\ \A o \in JavaObjects : Live(o)
  BY DEF IInv, ObjectsGood, Releasing

(* A method is called on an object that exists.                            *)
LEMMA CallMethodStep ==
    ASSUME IInv, NEW o \in JavaObjects, CallMethod(o)
    PROVE  IInv'
<1>1. PICK m \in DOMAIN Api[objects[o].class], p \in JavaObjects, b \in BOOLEAN :
         /\ Api[objects[o].class][m].kind \in {"use", "release", "load"}
         /\ Api[objects[o].class][m].kind = "release" => objects[o].id # 0
         /\ call' = Calls(objects[o].class, m, o, p, b)
  BY DEF CallMethod, Arguments
<1>2. Running("idle") /\ objects[o].class \in Classes /\ UNCHANGED <<objects, heap>>
  BY DEF CallMethod
<1>3. Apart /\ \A q \in JavaObjects : Live(q)
  BY <1>2, Between DEF Running
<1>4. \A q \in JavaObjects : Live(q)'
  BY <1>2, <1>3 DEF Live
<1>5. TypesGood
  BY DEF IInv
<1> QED BY <1>1, <1>2, <1>3, <1>4, <1>5, CallBegins DEF TypesGood

(* An object without a native object gets its class, and a method of that  *)
(* class is called.                                                        *)
LEMMA ObjectBegins ==
    ASSUME IInv, NEW o \in JavaObjects, Construct(o) \/ ReadObject(o)
    PROVE  IInv'
<1>0. PICK c \in Classes : \E m \in DOMAIN Api[c], b \in BOOLEAN :
          /\ Api[c][m].kind \in {"new", "load"}
          /\ objects' = [objects EXCEPT ![o].class = c]
          /\ call' = Calls(c, m, o, o, b)
  BY DEF Construct, ReadObject
<1>1. PICK m \in DOMAIN Api[c], b \in BOOLEAN :
         /\ Api[c][m].kind \in {"new", "load"}
         /\ objects' = [objects EXCEPT ![o].class = c]
         /\ call' = Calls(c, m, o, o, b)
  BY <1>0
<1>2. Running("idle") /\ objects[o] = NoObject /\ UNCHANGED heap
  BY DEF Construct, ReadObject
<1>3. Apart /\ \A q \in JavaObjects : Live(q)
  BY <1>2, Between DEF Running
<1>4. TypesGood
  BY DEF IInv
<1>5. /\ DOMAIN objects' = JavaObjects
      /\ \A q \in JavaObjects : /\ DOMAIN objects'[q] = {"class", "id"}
                                /\ objects'[q].class # "free"
                                /\ objects'[q].id = objects[q].id
                                /\ q # o => objects'[q] = objects[q]
      /\ objects'[o].class = c /\ objects'[o].id = 0
  BY <1>1, <1>2, <1>4, FreeIsNoClass DEF TypesGood, NoObject
<1>6. \A q \in JavaObjects : Live(q)'
  BY <1>2, <1>3, <1>5 DEF Live
<1> QED BY <1>1, <1>2, <1>3, <1>4, <1>5, <1>6, CallBegins

(* releaseSession() and the like, by whichever method.                     *)
LEMMA ReleasedObjects ==
    ASSUME TypesGood, Apart, NEW o \in JavaObjects, Released(o),
           \A q \in JavaObjects \ {o} : Live(q)
    PROVE  /\ DOMAIN objects' = JavaObjects /\ DOMAIN heap' = NativeIds
           /\ \A q \in JavaObjects : /\ DOMAIN objects'[q] = {"class", "id"}
                                     /\ objects'[q].id \in NativeIds \cup {0}
                                     /\ objects'[q].class = objects[q].class
                                     /\ q # o => objects'[q] = objects[q]
           /\ objects'[o].id = 0
           /\ \A n \in NativeIds : heap'[n] = IF n = objects[o].id THEN "free" ELSE heap[n]
           /\ Apart'
           /\ \A q \in JavaObjects : Live(q)'
<1>1. /\ DOMAIN objects' = JavaObjects
      /\ \A q \in JavaObjects : /\ DOMAIN objects'[q] = {"class", "id"}
                                /\ objects'[q].class = objects[q].class
                                /\ objects'[q].id = IF q = o THEN 0 ELSE objects[q].id
                                /\ q # o => objects'[q] = objects[q]
  BY DEF Released, TypesGood
<1>2. /\ DOMAIN heap' = NativeIds
      /\ \A n \in NativeIds : heap'[n] = IF n = objects[o].id THEN "free" ELSE heap[n]
  <2>1. 0 \notin NativeIds
    BY DEF NativeIds
  <2> QED BY <2>1 DEF Released, TypesGood
<1>3. \A q \in JavaObjects : objects'[q].id \in NativeIds \cup {0}
  BY <1>1 DEF TypesGood
<1>4. Apart'
  BY <1>1 DEF Apart
<1>5. ASSUME NEW q \in JavaObjects PROVE Live(q)'
  <2>1. CASE q = o
    BY <1>1, <2>1 DEF Live
  <2>2. CASE q # o /\ objects[q].id # 0
    <3>1. objects[q].id # objects[o].id /\ objects[q].id \in NativeIds
      BY <2>2 DEF Apart, TypesGood
    <3>2. heap[objects[q].id] = objects[q].class
      BY <2>2 DEF Live
    <3> QED BY <1>1, <1>2, <2>2, <3>1, <3>2 DEF Live
  <2> QED BY <1>1, <2>1, <2>2 DEF Live
<1> QED BY <1>1, <1>2, <1>3, <1>4, <1>5

(* Arguments that the method itself refuses.                               *)
LEMMA RefuseStep ==
    ASSUME IInv, NEW o \in JavaObjects, Refuse(o)
    PROVE  IInv'
<1>1. PICK m \in DOMAIN Api[objects[o].class] :
         /\ call' = [Calls(objects[o].class, m, o, o, FALSE)
                       EXCEPT !.stage = "done", !.outcome = Api[objects[o].class][m].bad]
         /\ IF Api[objects[o].class][m].kind = "load"
              THEN DeserializeFailed(o) ELSE UNCHANGED <<objects, heap>>
  BY DEF Refuse
<1>2. Running("idle") /\ objects[o].class \in Classes
  BY DEF Refuse
<1>3. /\ DOMAIN call' = CallFields /\ call'.stage = "done"
      /\ call'.class = objects[o].class /\ call'.method = m /\ call'.obj = o
      /\ call'.pc = 1 /\ call'.self = 0 /\ call'.held = {} /\ call'.used = {}
      /\ call'.stale = FALSE /\ call'.failed = "none" /\ call'.left = {}
      /\ call'.unwiped = {} /\ call'.spoiled = {} /\ call'.raised = FALSE
  BY <1>1 DEF Calls, CallFields
<1>4. TypesGood /\ Apart /\ \A q \in JavaObjects : Live(q)
  BY <1>2, Between DEF Running, IInv
<1>5. /\ DOMAIN objects' = JavaObjects /\ DOMAIN heap' = NativeIds
      /\ \A q \in JavaObjects : DOMAIN objects'[q] = {"class", "id"}
                                /\ objects'[q].class = objects[q].class
                                /\ objects'[q].id \in NativeIds \cup {0}
      /\ Apart' /\ \A q \in JavaObjects : Live(q)'
  <2>1. CASE Released(o)
    BY <1>4, <2>1, ReleasedObjects
  <2>2. CASE UNCHANGED <<objects, heap>>
    BY <1>4, <2>2 DEF TypesGood, Apart, Live
  <2> QED BY <1>1, <2>1, <2>2 DEF DeserializeFailed
<1>6. TypesGood'
  BY <1>2, <1>3, <1>4, <1>5 DEF TypesGood, Running
<1>7. BuffersGood' /\ ReportGood'
  BY <1>3 DEF BuffersGood, ReportGood, Running, Failed
<1>8. ObjectsGood'
  BY <1>3, <1>5 DEF ObjectsGood
<1> QED BY <1>6, <1>7, <1>8 DEF IInv

(* Steps between two calls.                                                *)
LEMMA IdleStep ==
    ASSUME IInv, Continue \/ \E o \in JavaObjects : Collect(o)
    PROVE  IInv'
<1>1. Apart /\ \A q \in JavaObjects : Live(q)
  BY Between DEF Continue, Collect, Running
<1>2. call'.stage = "idle" /\ UNCHANGED heap
  BY DEF Continue, Collect, Idle, Running
<1>3. /\ DOMAIN objects' = JavaObjects
      /\ \A q \in JavaObjects : /\ DOMAIN objects'[q] = {"class", "id"}
                                /\ objects'[q].class # "free"
                                /\ objects'[q].id = objects[q].id
                                /\ objects'[q].id # 0 => objects'[q] = objects[q]
  BY DEF Continue, Collect, IInv, TypesGood, NoObject
<1>4. TypesGood'
  BY <1>2, <1>3 DEF IInv, TypesGood, Running
<1>5. BuffersGood' /\ ReportGood'
  BY <1>2 DEF BuffersGood, ReportGood, Running
<1>6. ObjectsGood'
  BY <1>1, <1>2, <1>3 DEF ObjectsGood, Apart, Live
<1> QED BY <1>4, <1>5, <1>6 DEF IInv

(* The virtual machine stops, and takes everything with it.                *)
LEMMA AbortStep ==
    ASSUME IInv, Abort
    PROVE  IInv'
<1>1. call'.stage = "idle"
  BY DEF Abort, Idle
<1>2. /\ DOMAIN objects' = JavaObjects /\ DOMAIN heap' = NativeIds
      /\ \A q \in JavaObjects : objects'[q] = NoObject /\ objects'[q].id = 0
  BY DEF Abort, NoObject
<1>3. TypesGood'
  BY <1>1, <1>2 DEF TypesGood, NoObject, Running
<1>4. BuffersGood' /\ ReportGood'
  BY <1>1 DEF BuffersGood, ReportGood, Running
<1>5. ObjectsGood'
  BY <1>1, <1>2 DEF ObjectsGood, Apart, Live
<1> QED BY <1>3, <1>4, <1>5 DEF IInv

-----------------------------------------------------------------------------
(***************************************************************************)
(* A step of the native function.                                          *)
(***************************************************************************)
Eaten(step) == IF step[1] = "call" THEN Consumes(step[2]) ELSE {}

(* What a call's record keeps when a step is taken.                        *)
CallStays ==
    /\ DOMAIN call' = CallFields
    /\ call'.class = call.class /\ call'.method = call.method /\ call'.obj = call.obj
    /\ call'.left = call.left /\ call'.unwiped = call.unwiped
    /\ call'.spoiled = call.spoiled

(* No library function decodes a caller's key in place.                    *)
LEMMA NoKeptConsumed == \A f : Consumes(f) \cap Kept = {}
  BY DEF Consumes, Kept

(* The native object is acquired like any other memory.                    *)
LEMMA AllocKind == Alloc[1] = "malloc" /\ Alloc[2] = "self"
  BY DEF Alloc

(* The native object that is allocated was free.                           *)
LEMMA FreeObject ==
    ASSUME Free # {}
    PROVE  (CHOOSE n \in Free : \A k \in Free : n <= k) \in Free
<1>1. Free \subseteq Nat
  BY BindingsAssumption DEF Free, NativeIds
<1>2. \E n \in Free : \A k \in Free : n <= k
  BY <1>1, LeastElement
<1> QED BY <1>2, Zenon

(* What a step that succeeds changes.                                      *)
LEMMA SucceedsEffect ==
    ASSUME IInv, StepSucceeds
    PROVE  /\ CallStays
           /\ call'.stage = "native"
           /\ call'.pc = call.pc + 1
           /\ call'.failed = call.failed
           /\ call'.held = IF Acquires(Step) THEN call.held \cup {Step[2]} ELSE call.held
           /\ call'.used = IF Step[1] = "copy" THEN call.used \ {Step[2]}
                           ELSE call.used \cup Eaten(Step)
           /\ call'.stale = (call.stale \/ call.used \cap Eaten(Step) # {})
           /\ UNCHANGED objects
           /\ Step # Alloc => call'.self = call.self
           /\ Step = Alloc => /\ call'.self \in Free
                             /\ heap' = [heap EXCEPT ![call'.self] = call.class]
           /\ Step # Alloc => heap' = IF Step[1] = "clear"
                                        THEN [heap EXCEPT ![objects[call.obj].id] = "free"]
                                        ELSE heap
<1> DEFINE id == IF Step = Alloc THEN CHOOSE n \in Free : \A k \in Free : n <= k ELSE call.self
<1>1. /\ call' = [call EXCEPT
                    !.pc = @ + 1,
                    !.self = id,
                    !.held = IF Step[1] \in {"pin", "malloc"} THEN @ \cup {Step[2]} ELSE @,
                    !.used = IF Step[1] = "copy" THEN @ \ {Step[2]} ELSE @ \cup Eaten(Step),
                    !.stale = @ \/ call.used \cap Eaten(Step) # {}]
      /\ heap' = IF Step = Alloc THEN [heap EXCEPT ![id] = call.class]
                 ELSE IF Step[1] = "clear" THEN [heap EXCEPT ![objects[call.obj].id] = "free"]
                 ELSE heap
      /\ UNCHANGED objects
  BY Zenon DEF StepSucceeds, Eaten
<1>2. Step = Alloc => id \in Free
  BY FreeObject DEF StepSucceeds, CanSucceed
<1>3. DOMAIN call = CallFields /\ call.stage = "native"
  BY StepFound DEF StepSucceeds, AtStep, Running, IInv, TypesGood
<1> HIDE DEF id
<1>4. /\ CallStays /\ call'.stage = "native" /\ call'.pc = call.pc + 1
      /\ call'.failed = call.failed /\ call'.self = id
      /\ call'.held = IF Acquires(Step) THEN call.held \cup {Step[2]} ELSE call.held
      /\ call'.used = IF Step[1] = "copy" THEN call.used \ {Step[2]}
                      ELSE call.used \cup Eaten(Step)
      /\ call'.stale = (call.stale \/ call.used \cap Eaten(Step) # {})
  BY <1>1, <1>3 DEF CallStays, CallFields, Acquires
<1>5. Step # Alloc => id = call.self
  BY DEF id
<1> QED BY <1>1, <1>2, <1>4, <1>5

(* What a step that fails changes.                                         *)
LEMMA FailsEffect ==
    ASSUME IInv, StepFails
    PROVE  /\ CallStays
           /\ call'.stage = "release"
           /\ call'.pc = call.pc /\ call'.self = call.self /\ call'.held = call.held
           /\ call'.failed = Step[2]
           /\ call'.used = call.used \cup Eaten(Step)
           /\ call'.stale = (call.stale \/ call.used \cap Eaten(Step) # {})
           /\ UNCHANGED <<objects, heap>>
<1>1. /\ call' = [call EXCEPT !.stage = "release",
                              !.failed = Step[2],
                              !.used = @ \cup Eaten(Step),
                              !.stale = @ \/ call.used \cap Eaten(Step) # {}]
      /\ UNCHANGED <<objects, heap>>
  BY Zenon DEF StepFails, Eaten
<1>2. DOMAIN call = CallFields
  BY StepFound DEF StepFails, AtStep, Running, IInv, TypesGood
<1> QED BY <1>1, <1>2 DEF CallStays, CallFields

(* An input that is decoded was not decoded before, or was copied again.   *)
LEMMA InputFresh ==
    ASSUME IInv, AtStep
    PROVE  call.used \cap Eaten(Step) = {} /\ Eaten(Step) \cap Kept = {}
<1>1. TypesGood /\ BuffersGood
  BY DEF IInv
<1>2. /\ call.pc \in DOMAIN M.fn.steps /\ Step = M.fn.steps[call.pc]
      /\ call.stage = "native"
  BY <1>1, StepFound
<1>3. Sound(M.fn)
  BY <1>1, <1>2, CalledMethod, SoundMethod DEF Running
<1>4. ASSUME NEW x \in call.used, x \in Eaten(Step)
      PROVE  FALSE
  <2>1. PICK i \in DOMAIN M.fn.steps :
          /\ i < call.pc /\ M.fn.steps[i][1] = "call" /\ x \in Consumes(M.fn.steps[i][2])
          /\ \A k \in DOMAIN M.fn.steps : i < k /\ k < call.pc => M.fn.steps[k] # Copy(x)
    BY <1>1, <1>2 DEF BuffersGood, Running
  <2>2. Step[1] = "call" /\ x \in Consumes(Step[2])
    BY <1>4 DEF Eaten
  <2>3. \E k \in DOMAIN M.fn.steps : i < k /\ k < call.pc /\ M.fn.steps[k] = Copy(x)
    BY <1>2, <1>3, <2>1, <2>2 DEF Sound
  <2> QED BY <2>1, <2>3
<1>5. Eaten(Step) \cap Kept = {}
  BY NoKeptConsumed DEF Eaten
<1> QED BY <1>4, <1>5

(* Steps of the native function keep the shape of the state.               *)
LEMMA StepTypes ==
    ASSUME IInv, CallStays, call'.stage \in {"native", "release", "java", "done"},
           ~Running("idle"),
           call'.pc \in Nat \ {0}, call'.self \in NativeIds \cup {0},
           DOMAIN objects' = JavaObjects /\ DOMAIN heap' = NativeIds,
           \A o \in JavaObjects : /\ DOMAIN objects'[o] = {"class", "id"}
                                  /\ objects'[o].class # "free"
                                  /\ objects'[o].id \in NativeIds \cup {0}
    PROVE  TypesGood' /\ M' = M
<1>1. M' = M
  BY SameMethod DEF CallStays
<1> QED BY <1>1 DEF IInv, TypesGood, CallStays, Running

(* A step that succeeds: what the call holds and has decoded.              *)
LEMMA SucceedsBuffers ==
    ASSUME IInv, StepSucceeds, M' = M
    PROVE  BuffersGood'
<1>1. TypesGood /\ BuffersGood /\ AtStep
  BY DEF IInv, StepSucceeds
<1>2. /\ call.pc \in DOMAIN M.fn.steps /\ Step = M.fn.steps[call.pc]
      /\ call.stage = "native" /\ call.pc \in Nat
  BY <1>1, StepFound DEF TypesGood, Running
<1>3. DOMAIN M.fn.steps \subseteq Nat
  BY <1>1, <1>2, CalledMethod, SoundMethod DEF Sound, Running
<1>4. ASSUME NEW x \in call'.held
      PROVE  \E i \in DOMAIN M.fn.steps : Acquires(M.fn.steps[i]) /\ M.fn.steps[i][2] = x
  <2>1. x \in call.held \/ (Acquires(Step) /\ x = Step[2])
    BY <1>4, SucceedsEffect
  <2> QED BY <1>1, <1>2, <2>1 DEF BuffersGood, Running
<1>5. ASSUME NEW x \in call'.used
      PROVE  \E i \in DOMAIN M.fn.steps :
               /\ i < call'.pc /\ M.fn.steps[i][1] = "call" /\ x \in Consumes(M.fn.steps[i][2])
               /\ \A k \in DOMAIN M.fn.steps : i < k /\ k < call'.pc => M.fn.steps[k] # Copy(x)
  <2>1. call'.pc = call.pc + 1
    BY SucceedsEffect
  <2>2. CASE x \in call.used /\ ~(Step[1] = "copy" /\ x = Step[2])
    <3>1. PICK i \in DOMAIN M.fn.steps :
            /\ i < call.pc /\ M.fn.steps[i][1] = "call" /\ x \in Consumes(M.fn.steps[i][2])
            /\ \A k \in DOMAIN M.fn.steps : i < k /\ k < call.pc => M.fn.steps[k] # Copy(x)
      BY <1>1, <1>2, <2>2 DEF BuffersGood, Running
    <3>2. M.fn.steps[call.pc] # Copy(x)
      BY <1>2, <2>2 DEF Copy
    <3>3. \A k \in DOMAIN M.fn.steps : k < call'.pc => k < call.pc \/ k = call.pc
      BY <1>2, <1>3, <2>1
    <3>4. i < call'.pc
      BY <1>2, <1>3, <2>1, <3>1
    <3> QED BY <3>1, <3>2, <3>3, <3>4
  <2>3. CASE Step[1] = "call" /\ x \in Consumes(Step[2])
    <3>1. call.pc < call'.pc /\ \A k \in DOMAIN M.fn.steps : ~(call.pc < k /\ k < call'.pc)
      BY <1>2, <1>3, <2>1
    <3> QED BY <1>2, <2>3, <3>1
  <2> QED BY <1>5, <2>2, <2>3, SucceedsEffect DEF Eaten
<1>6. call'.used \cap Kept = {} /\ call'.stale = FALSE
  BY <1>1, <1>2, InputFresh, SucceedsEffect DEF BuffersGood, Running
<1>7. call'.left \subseteq {"self"} /\ call'.unwiped = {} /\ call'.spoiled \cap Kept = {}
  BY <1>1, <1>2, SucceedsEffect DEF CallStays, BuffersGood, Running
<1> QED BY <1>4, <1>5, <1>6, <1>7 DEF BuffersGood

(* The native objects after a step.                                        *)
LEMMA SucceedsObjects ==
    ASSUME IInv, StepSucceeds, M' = M
    PROVE  ObjectsGood'
<1>1. TypesGood /\ ObjectsGood /\ AtStep
  BY DEF IInv, StepSucceeds
<1>2. /\ call.pc \in DOMAIN M.fn.steps /\ Step = M.fn.steps[call.pc]
      /\ call.stage = "native" /\ call.pc \in Nat /\ call.obj \in JavaObjects
      /\ call.self \in NativeIds \cup {0}
  BY <1>1, StepFound DEF TypesGood, Running
<1>3. GoodMethod(call.class, call.method, M)
  BY <1>1, <1>2, CalledMethod DEF Running
<1>4. DOMAIN M.fn.steps \subseteq Nat
  BY <1>3, SoundMethod DEF Sound
<1>5. /\ CallStays /\ call'.stage = "native" /\ call'.pc = call.pc + 1
      /\ call'.failed = call.failed /\ UNCHANGED objects
  BY SucceedsEffect
<1>6. Allocated' <=> Allocated \/ Step = Alloc
  <2>1. \A i \in DOMAIN M.fn.steps : i < call'.pc <=> i < call.pc \/ i = call.pc
    BY <1>2, <1>4, <1>5
  <2> QED BY <1>2, <2>1 DEF Allocated
<1>7. Apart'
  BY <1>1, <1>5 DEF ObjectsGood, Apart
<1>8. SelfGood
  BY <1>1, <1>2 DEF ObjectsGood
<1>9. 0 \notin NativeIds
  BY DEF NativeIds
<1>10. ASSUME Step = Alloc
       PROVE  ObjectsGood'
  <2>1. M.kind \in {"new", "load"}
    BY <1>1, <1>2, <1>10, CalledKind DEF Running
  <2>2. /\ call'.self \in NativeIds /\ heap[call'.self] = "free"
        /\ heap' = [heap EXCEPT ![call'.self] = call.class]
        /\ "self" \in call'.held
    BY <1>10, SucceedsEffect, AllocKind DEF Free, Acquires
  <2>3. ASSUME NEW q \in JavaObjects
        PROVE  Live(q)' /\ objects[q].id # call'.self
    <3>1. Live(q)
      BY <1>1, <2>1 DEF ObjectsGood, Releasing
    <3>2. objects[q].id # 0 => objects[q].id # call'.self
      BY <1>1, <2>2, <3>1 DEF Live, TypesGood
    <3>3. objects[q].id # call'.self
      BY <1>9, <2>2, <3>2
    <3> QED BY <1>1, <1>5, <2>2, <3>1, <3>3 DEF Live, TypesGood
  <2>4. heap'[call'.self] = call.class
    BY <1>1, <2>2 DEF TypesGood
  <2>5. SelfGood'
    BY <1>5, <1>6, <1>9, <1>10, <2>1, <2>2, <2>3, <2>4 DEF SelfGood, CallStays, Running
  <2>6. objects[call.obj].class = call.class /\ (M.kind = "new" => objects[call.obj].id = 0)
    BY <1>1, <1>2 DEF ObjectsGood
  <2> QED BY <1>5, <1>7, <2>1, <2>3, <2>5, <2>6 DEF ObjectsGood, CallStays
<1>11. ASSUME Step # Alloc, Step[1] # "clear"
       PROVE  ObjectsGood'
  <2>1. UNCHANGED <<objects, heap>> /\ call'.self = call.self
    BY <1>11, SucceedsEffect
  <2>2. call.held \subseteq call'.held
    BY SucceedsEffect
  <2>3. SelfGood'
    BY <1>2, <1>5, <1>6, <1>8, <1>11, <2>1, <2>2 DEF SelfGood, CallStays, Running
  <2>4. M.kind = "release" => ReleaseGood'
    <3>1. SUFFICES ASSUME M.kind = "release" PROVE ReleaseGood'
      OBVIOUS
    <3>2. ReleaseGood
      BY <1>1, <1>2, <3>1 DEF ObjectsGood
    <3>3. call.pc = 1
      BY <1>2, <1>3, <1>11, <3>1, StepsByKind, ReleaseSteps DEF Clear
    <3> QED BY <1>2, <1>5, <2>1, <3>2, <3>3 DEF ReleaseGood, CallStays, Running, Failed
  <2>5. \A q \in JavaObjects : Live(q)' \/ Releasing(q)'
    BY <1>1, <1>5, <2>1 DEF ObjectsGood, Live, Releasing, CallStays
  <2>6. objects[call.obj].class = call.class /\ (M.kind = "new" => objects[call.obj].id = 0)
    BY <1>1, <1>2 DEF ObjectsGood
  <2> QED BY <1>5, <1>7, <2>1, <2>3, <2>4, <2>5, <2>6 DEF ObjectsGood, CallStays
<1>12. ASSUME Step # Alloc, Step[1] = "clear"
       PROVE  ObjectsGood'
  <2> DEFINE id == objects[call.obj].id
  <2>1. M.kind = "release"
    BY <1>2, <1>3, <1>12, StepsByKind
  <2>2. heap' = [heap EXCEPT ![id] = "free"] /\ call'.self = call.self
    BY <1>12, SucceedsEffect
  <2>3. ReleaseGood
    BY <1>1, <1>2, <2>1 DEF ObjectsGood
  <2>4. id \in NativeIds /\ heap'[id] = "free"
    BY <1>1, <1>2, <2>2, <2>3 DEF TypesGood, ReleaseGood
  <2>5. call.self = 0 /\ ~Allocated
    BY <1>8, <2>1 DEF SelfGood
  <2>6. SelfGood'
    BY <1>5, <1>6, <1>12, <2>2, <2>5 DEF SelfGood, Running
  <2>7. ReleaseGood'
    BY <1>2, <1>5, <2>3, <2>4 DEF ReleaseGood, CallStays, Running, Failed
  <2>8. ASSUME NEW q \in JavaObjects
        PROVE  Live(q)' \/ Releasing(q)'
    <3>1. CASE q = call.obj
      BY <1>5, <2>1, <2>4, <3>1 DEF Releasing, CallStays
    <3>2. CASE q # call.obj /\ objects[q].id # 0
      <4>1. Live(q) /\ objects[q].id # id
        BY <1>1, <1>2, <3>2 DEF ObjectsGood, Releasing, Apart
      <4> QED BY <1>1, <1>5, <2>2, <3>2, <4>1 DEF Live, TypesGood
    <3>3. CASE objects[q].id = 0
      BY <1>5, <3>3 DEF Live
    <3> QED BY <3>1, <3>2, <3>3
  <2>9. objects[call.obj].class = call.class
    BY <1>1, <1>2 DEF ObjectsGood
  <2> QED BY <1>5, <1>7, <2>1, <2>6, <2>7, <2>8, <2>9 DEF ObjectsGood, CallStays
<1> QED BY <1>10, <1>11, <1>12

(* A step that succeeds preserves the invariant.                           *)
LEMMA StepSucceedsStep ==
    ASSUME IInv, StepSucceeds
    PROVE  IInv'
<1>1. /\ TypesGood /\ call.stage = "native" /\ call.pc \in Nat /\ call.obj \in JavaObjects
      /\ call.self \in NativeIds \cup {0}
  BY StepFound DEF IInv, StepSucceeds, TypesGood, Running
<1>2. TypesGood' /\ M' = M
  <2>1. DOMAIN heap' = NativeIds /\ DOMAIN objects' = JavaObjects
    BY <1>1, SucceedsEffect DEF TypesGood
  <2>2. call'.self \in NativeIds \cup {0} /\ call'.pc \in Nat \ {0}
    BY <1>1, SucceedsEffect DEF Free
  <2>3. CallStays /\ call'.stage = "native" /\ UNCHANGED objects
    BY SucceedsEffect
  <2> QED BY <1>1, <2>1, <2>2, <2>3, StepTypes DEF TypesGood, Running
<1>3. ReportGood'
  BY <1>1, SucceedsEffect DEF IInv, ReportGood, Running, Failed
<1> QED BY <1>2, <1>3, SucceedsBuffers, SucceedsObjects DEF IInv

(* A step that fails preserves the invariant.                              *)
LEMMA StepFailsStep ==
    ASSUME IInv, StepFails
    PROVE  IInv'
<1>1. TypesGood /\ BuffersGood /\ ReportGood /\ ObjectsGood /\ AtStep
  BY DEF IInv, StepFails
<1>2. /\ call.pc \in DOMAIN M.fn.steps /\ Step = M.fn.steps[call.pc]
      /\ call.stage = "native" /\ call.pc \in Nat \ {0} /\ call.obj \in JavaObjects
      /\ call.self \in NativeIds \cup {0}
  BY <1>1, StepFound DEF TypesGood, Running
<1>3. GoodMethod(call.class, call.method, M)
  BY <1>1, <1>2, CalledMethod DEF Running
<1>4. Sound(M.fn)
  BY <1>3, SoundMethod
<1>5. /\ CallStays /\ call'.stage = "release" /\ call'.pc = call.pc /\ call'.self = call.self
      /\ call'.held = call.held /\ call'.failed = Step[2] /\ UNCHANGED <<objects, heap>>
  BY FailsEffect
<1>6. TypesGood' /\ M' = M
  BY <1>1, <1>2, <1>5, StepTypes DEF TypesGood, Running
<1>7. BuffersGood'
  <2>1. call'.used \cap Kept = {} /\ call'.stale = FALSE
    BY <1>1, <1>2, InputFresh, FailsEffect DEF BuffersGood, Running
  <2> QED BY <1>1, <1>2, <1>5, <1>6, <2>1 DEF BuffersGood, CallStays, Running
<1>8. Failed' /\ call.pc <= Len(M.fn.steps)
  BY <1>2, <1>4, <1>5 DEF Failed, Sound
<1>9. ReportGood'
  BY <1>5 DEF ReportGood, Running
<1>10. M.kind # "release"
  <2>1. SUFFICES ASSUME M.kind = "release" PROVE FALSE
    OBVIOUS
  <2>2. ReleaseGood
    BY <1>1, <1>2, <2>1 DEF ObjectsGood
  <2>3. Step = Given("this") \/ Step = Clear
    BY <1>2, <1>3, <2>1, StepsByKind, ReleaseSteps
  <2>4. ~CanFail(Step)
    <3>1. CASE Step = Given("this")
      <4>1. Step[1] = "given" /\ Step[2] = "this"
        BY <3>1 DEF Given
      <4> QED BY <2>2, <4>1 DEF CanFail, IsInstance, InstanceId, ReleaseGood
    <3>2. CASE Step = Clear
      <4>1. Step[1] = "clear"
        BY <3>2 DEF Clear
      <4> QED BY <4>1 DEF CanFail
    <3> QED BY <2>3, <3>1, <3>2
  <2> QED BY <2>4 DEF StepFails
<1>11. SelfGood'
  <2>1. Allocated' <=> Allocated
    BY <1>5, <1>6 DEF Allocated
  <2>2. SelfGood
    BY <1>1, <1>2 DEF ObjectsGood
  <2> QED BY <1>2, <1>5, <1>6, <1>8, <2>1, <2>2 DEF SelfGood, CallStays, Running
<1>12. ObjectsGood'
  <2>1. \A q \in JavaObjects : Live(q)'
    BY <1>1, <1>5, <1>10 DEF ObjectsGood, Live, Releasing
  <2>2. Apart'
    BY <1>1, <1>5 DEF ObjectsGood, Apart
  <2>3. objects[call.obj].class = call.class /\ (M.kind = "new" => objects[call.obj].id = 0)
    BY <1>1, <1>2 DEF ObjectsGood
  <2> QED BY <1>5, <1>6, <1>10, <1>11, <2>1, <2>2, <2>3 DEF ObjectsGood, CallStays
<1> QED BY <1>6, <1>7, <1>9, <1>12 DEF IInv

(* The steps are done: what is acquired is released, Java goes on.         *)
LEMMA StepsDoneStep ==
    ASSUME IInv, StepsDone
    PROVE  IInv'
<1>1. /\ TypesGood /\ BuffersGood /\ ReportGood /\ ObjectsGood /\ call.stage = "native"
      /\ call.pc > Len(M.fn.steps)
  BY DEF IInv, StepsDone, Running
<1>2. /\ DOMAIN call = CallFields /\ call.pc \in Nat \ {0} /\ call.obj \in JavaObjects
      /\ call.self \in NativeIds \cup {0}
  BY <1>1 DEF TypesGood, Running
<1>3. GoodMethod(call.class, call.method, M) /\ Sound(M.fn)
  BY <1>1, CalledMethod, SoundMethod DEF Running
<1>4. /\ CallStays /\ call'.stage = "release" /\ call'.pc = call.pc /\ call'.self = call.self
      /\ call'.held = call.held /\ call'.failed = call.failed /\ call'.used = call.used
      /\ call'.stale = call.stale /\ UNCHANGED <<objects, heap>>
  BY <1>2 DEF StepsDone, CallStays, CallFields
<1>5. TypesGood' /\ M' = M
  BY <1>1, <1>2, <1>4, StepTypes DEF IInv, TypesGood, Running
<1>6. BuffersGood'
  BY <1>1, <1>4, <1>5 DEF BuffersGood, CallStays, Running
<1>7. ReportGood' /\ ~Failed /\ ~Failed'
  BY <1>1, <1>4 DEF ReportGood, Running, Failed
<1>8. SelfGood'
  <2>1. Allocated' <=> Allocated
    BY <1>4, <1>5 DEF Allocated
  <2>2. ~(call.pc <= Len(M.fn.steps))
    BY <1>1, <1>2, <1>3 DEF Sound
  <2>3. SelfGood
    BY <1>1 DEF ObjectsGood
  <2> QED BY <1>1, <1>4, <1>5, <1>7, <2>1, <2>2, <2>3 DEF SelfGood, CallStays, Running
<1>9. M.kind = "release" => ReleaseGood'
  <2>1. SUFFICES ASSUME M.kind = "release" PROVE ReleaseGood'
    OBVIOUS
  <2>2. ReleaseGood
    BY <1>1, <2>1 DEF ObjectsGood
  <2>3. M.fn = ReleaseFn
    BY <1>3, <2>1, StepsByKind
  <2>4. call.pc > 2
    BY <1>1, <2>3, ReleaseSteps
  <2> QED BY <1>4, <1>7, <2>2, <2>4 DEF ReleaseGood, CallStays
<1>10. ObjectsGood'
  <2>1. \A q \in JavaObjects : Live(q)' \/ Releasing(q)'
    BY <1>1, <1>4, <1>5 DEF ObjectsGood, Live, Releasing, CallStays
  <2>2. Apart'
    BY <1>1, <1>4 DEF ObjectsGood, Apart
  <2>3. objects[call.obj].class = call.class /\ (M.kind = "new" => objects[call.obj].id = 0)
    BY <1>1 DEF ObjectsGood
  <2> QED BY <1>4, <1>5, <1>8, <1>9, <2>1, <2>2, <2>3 DEF ObjectsGood, CallStays
<1> QED BY <1>5, <1>6, <1>7, <1>10 DEF IInv

(* What a native function does at its end.                                 *)
SelfFreed == Failed /\ "self" \in call.held \cap DOMAIN M.fn.release
                    /\ M.fn.release["self"] = "onError"

(* What a native function that returns changes.                            *)
LEMMA ReturnEffect ==
    ASSUME IInv, Return
    PROVE  /\ DOMAIN call' = CallFields /\ call'.stage = "java"
           /\ call'.class = call.class /\ call'.method = call.method /\ call'.obj = call.obj
           /\ call'.pc = call.pc /\ call'.self = call.self /\ call'.held = call.held
           /\ call'.used = call.used /\ call'.stale = call.stale /\ call'.failed = call.failed
           /\ call'.raised = (Failed /\ call.failed \notin M.fn.quiet)
           /\ call'.left \subseteq call.held \ DOMAIN M.fn.release
           /\ call'.unwiped =
                {<<"native", x>> : x \in {y \in (call.held \cap DOMAIN M.fn.release) \cap Secrets :
                                           Holds(y) /\ ~Overwritten(M.fn.release[y])}}
           /\ call'.spoiled = {x \in call.held \cap Pinned \cap M.owned :
                                 ~call.copied /\ (x \in call.used \/ M.fn.release[x] = "wipe")}
           /\ UNCHANGED objects
           /\ heap' = IF SelfFreed THEN [heap EXCEPT ![call.self] = "free"] ELSE heap
           /\ call.stage = "release"
<1>1. call.stage = "release" /\ DOMAIN call = CallFields
  BY DEF Return, Running, IInv, TypesGood
<1> QED BY <1>1 DEF Return, CallFields, SelfFreed

(* A native function that returns has released what it acquired.           *)
LEMMA ReturnBuffers ==
    ASSUME IInv, Return, M' = M
    PROVE  BuffersGood'
<1>1. BuffersGood /\ TypesGood /\ call.stage = "release"
  BY ReturnEffect DEF IInv
<1>2. Sound(M.fn)
  BY <1>1, CalledMethod, SoundMethod DEF Running
<1>3. \A x \in call.held :
        \E i \in DOMAIN M.fn.steps : Acquires(M.fn.steps[i]) /\ M.fn.steps[i][2] = x
  BY <1>1 DEF BuffersGood, Running
<1>4. call'.left \subseteq {"self"}
  BY <1>2, <1>3, ReturnEffect DEF Sound
<1>5. ASSUME NEW left \in call'.unwiped PROVE StaysBehind(left)'
  <2>1. PICK x \in (call.held \cap DOMAIN M.fn.release) \cap Secrets :
          left = <<"native", x>> /\ Holds(x) /\ ~Overwritten(M.fn.release[x])
    BY ReturnEffect
  <2>2. x = "exported" /\ M.fn.release[x] = "wipeOnSuccess" => FALSE
    BY <2>1 DEF Holds, Overwritten
  <2>3. x = "pickled"
    BY <1>2, <2>1, <2>2 DEF Sound, Overwritten
  <2>4. M.kind = "load"
    BY <1>1, <2>1, <2>3, CalledMethod, SoundMethod DEF NoPickle, Running
  <2> QED BY <2>1, <2>3, <2>4 DEF StaysBehind
<1>6. call'.spoiled \cap Kept = {}
  <2>1. SUFFICES ASSUME NEW x \in call'.spoiled, x \in Kept PROVE FALSE
    OBVIOUS
  <2>2. x \notin call.used
    BY <1>1, <2>1 DEF BuffersGood, Running
  <2>3. x \in Pinned /\ M.fn.release[x] = "wipe"
    BY <2>2, ReturnEffect
  <2>4. PICK i \in DOMAIN M.fn.steps : M.fn.steps[i][1] = "pin" /\ M.fn.steps[i][2] = x
    BY <2>3 DEF Pinned, ToSet
  <2> QED BY <1>2, <2>1, <2>3, <2>4 DEF Sound
<1> QED BY <1>1, <1>3, <1>4, <1>5, <1>6, ReturnEffect DEF BuffersGood, Running

(* When it returns, the native object it made is there or freed.           *)
LEMMA ReturnObjects ==
    ASSUME IInv, Return, M' = M
    PROVE  ObjectsGood'
<1>1. TypesGood /\ ObjectsGood /\ call.stage = "release"
  BY ReturnEffect DEF IInv
<1>2. GoodMethod(call.class, call.method, M) /\ Sound(M.fn)
  BY <1>1, CalledMethod, SoundMethod DEF Running
<1>3. /\ call.self \in NativeIds \cup {0} /\ call.obj \in JavaObjects
      /\ call.pc \in Nat /\ SelfGood /\ 0 \notin NativeIds
  BY <1>1 DEF TypesGood, ObjectsGood, Running, NativeIds
<1>4. /\ call'.stage = "java" /\ call'.class = call.class /\ call'.obj = call.obj
      /\ call'.pc = call.pc /\ call'.self = call.self /\ call'.held = call.held
      /\ call'.failed = call.failed /\ UNCHANGED objects
      /\ heap' = IF SelfFreed THEN [heap EXCEPT ![call.self] = "free"] ELSE heap
  BY ReturnEffect
<1>5. (Failed' <=> Failed) /\ (Allocated' <=> Allocated)
  BY <1>4 DEF Failed, Allocated
<1>6. \A n \in NativeIds : n # call.self => heap'[n] = heap[n]
  BY <1>1, <1>4 DEF TypesGood
<1>7. ASSUME call.self # 0, Failed
      PROVE  call.class = "OlmSAS" \/ heap'[call.self] = "free"
  <2>1. "self" \in call.held /\ M.kind \in {"new", "load"} /\ Allocated
    BY <1>3, <1>7 DEF SelfGood
  <2>2. call.pc <= Len(M.fn.steps)
    BY <1>1, <1>3, <1>7 DEF SelfGood, Running
  <2>3. PICK i \in DOMAIN M.fn.steps :
          /\ \A j \in DOMAIN M.fn.steps : M.fn.steps[j] = Alloc => i = j
          /\ i = Len(M.fn.steps) \/ call.class = "OlmSAS"
               \/ ("self" \in DOMAIN M.fn.release /\ M.fn.release["self"] = "onError")
    BY <1>2, <2>1, StepsByKind DEF MakesObject
  <2>4. i < call.pc
    BY <2>1, <2>3 DEF Allocated
  <2>5. i # Len(M.fn.steps)
    BY <1>2, <1>3, <2>2, <2>3, <2>4 DEF Sound
  <2>6. CASE SelfFreed
    BY <1>1, <1>3, <1>4, <1>7, <2>6 DEF TypesGood
  <2> QED BY <1>7, <2>1, <2>3, <2>5, <2>6 DEF SelfFreed
<1>8. ASSUME call.self # 0, ~Failed
      PROVE  heap'[call.self] = call.class
  BY <1>1, <1>3, <1>4, <1>8 DEF SelfGood, SelfFreed, Running
<1>9. SelfGood'
  BY <1>1, <1>3, <1>4, <1>5, <1>7, <1>8 DEF SelfGood, Running
<1>10. M.kind = "release" => ReleaseGood'
  <2>1. SUFFICES ASSUME M.kind = "release" PROVE ReleaseGood'
    OBVIOUS
  <2>2. ReleaseGood /\ heap[objects[call.obj].id] = "free"
    BY <1>1, <2>1 DEF ObjectsGood, ReleaseGood, Running
  <2>3. UNCHANGED heap
    BY <1>4, <2>2 DEF SelfFreed, ReleaseGood
  <2> QED BY <1>4, <1>5, <2>2, <2>3 DEF ReleaseGood
<1>11. ASSUME NEW q \in JavaObjects
       PROVE  Live(q)' \/ Releasing(q)'
  <2>1. CASE objects[q].id = 0
    BY <1>4, <2>1 DEF Live
  <2>2. CASE objects[q].id # 0
    <3>1. objects[q].id \in NativeIds
      BY <1>1, <2>2 DEF TypesGood
    <3>2. objects[q].id # call.self
      BY <1>3, <2>2 DEF SelfGood
    <3>3. heap'[objects[q].id] = heap[objects[q].id]
      BY <1>6, <3>1, <3>2
    <3> QED BY <1>1, <1>4, <3>3 DEF ObjectsGood, Live, Releasing
  <2> QED BY <2>1, <2>2
<1>12. Apart'
  BY <1>1, <1>4 DEF ObjectsGood, Apart
<1>13. objects[call.obj].class = call.class /\ (M.kind = "new" => objects[call.obj].id = 0)
  BY <1>1 DEF ObjectsGood
<1> QED BY <1>4, <1>9, <1>10, <1>11, <1>12, <1>13 DEF ObjectsGood

(* The return from a native function preserves the invariant.              *)
LEMMA ReturnStep ==
    ASSUME IInv, Return
    PROVE  IInv'
<1>1. TypesGood /\ call.stage = "release" /\ DOMAIN heap' = NativeIds
  BY ReturnEffect DEF IInv, TypesGood
<1>2. M' = M
  BY ReturnEffect, SameMethod
<1>3. TypesGood'
  BY <1>1, ReturnEffect DEF TypesGood, Running
<1>4. ReportGood'
  BY <1>2, ReturnEffect DEF ReportGood, Running, Failed
<1> QED BY <1>2, <1>3, <1>4, ReturnBuffers, ReturnObjects DEF IInv

(* What the Java method does at its end.                                   *)
LEMMA FinishEffect ==
    ASSUME IInv, Finish
    PROVE  /\ DOMAIN call' = CallFields /\ call'.stage = "done"
           /\ call'.class = call.class /\ call'.method = call.method /\ call'.obj = call.obj
           /\ call'.pc = call.pc /\ call'.self = call.self /\ call'.held = call.held
           /\ call'.used = call.used /\ call'.stale = call.stale /\ call'.failed = call.failed
           /\ call'.raised = call.raised /\ call'.left = call.left
           /\ call'.spoiled = call.spoiled
           /\ call'.outcome = Outcome
           /\ call'.unwiped = call.unwiped \cup {<<"java", x>> : x \in Made \ Cleared}
           /\ call.stage = "java"
<1>1. call.stage = "java" /\ DOMAIN call = CallFields
  BY DEF Finish, Running, IInv, TypesGood
<1> QED BY <1>1 DEF Finish, CallFields

(* The objects after a Java method of each kind.                           *)
LEMMA FinishObjects ==
    ASSUME IInv, Finish
    PROVE  /\ M.kind \in {"new", "load"} /\ ~Failed
                => objects' = [objects EXCEPT ![call.obj].id = call.self] /\ UNCHANGED heap
           /\ M.kind = "new" /\ Failed
                => objects' = [objects EXCEPT ![call.obj] = NoObject] /\ UNCHANGED heap
           /\ M.kind = "load" /\ Failed => Released(call.obj)
           /\ M.kind = "release"
                => objects' = [objects EXCEPT ![call.obj].id = 0] /\ UNCHANGED heap
           /\ M.kind = "use" => UNCHANGED <<objects, heap>>
<1>1. M.kind = "release" => ~Failed
  <2>1. call.stage = "java"
    BY FinishEffect
  <2> QED BY <2>1 DEF IInv, ObjectsGood, ReleaseGood
<1> QED BY <1>1, Zenon DEF Finish, DeserializeFailed

(* Afterwards every object is whole again.                                 *)
LEMMA FinishWhole ==
    ASSUME IInv, Finish
    PROVE  /\ DOMAIN objects' = JavaObjects /\ DOMAIN heap' = NativeIds
           /\ \A q \in JavaObjects : /\ DOMAIN objects'[q] = {"class", "id"}
                                     /\ objects'[q].class # "free"
                                     /\ objects'[q].id \in NativeIds \cup {0}
           /\ Apart' /\ \A q \in JavaObjects : Live(q)'
<1> DEFINE o == call.obj
<1>1. TypesGood /\ ObjectsGood /\ call.stage = "java"
  BY FinishEffect DEF IInv
<1>2. /\ GoodMethod(call.class, call.method, M) /\ Sound(M.fn)
      /\ M.kind \in {"new", "load", "release", "use"}
  BY <1>1, CalledMethod, SoundMethod DEF Running
<1>3. /\ o \in JavaObjects /\ call.self \in NativeIds \cup {0} /\ SelfGood /\ Apart
      /\ 0 \notin NativeIds /\ objects[o].class = call.class /\ call.pc \in Nat
  BY <1>1 DEF TypesGood, ObjectsGood, Running, NativeIds
<1> HIDE DEF o
<1>4. M.kind # "release" => \A q \in JavaObjects : Live(q)
  BY <1>1 DEF ObjectsGood, Releasing
<1>5. ASSUME objects' = [objects EXCEPT ![o].id = 0], UNCHANGED heap,
             \A q \in JavaObjects \ {o} : Live(q)
      PROVE  /\ DOMAIN objects' = JavaObjects
             /\ \A q \in JavaObjects : /\ DOMAIN objects'[q] = {"class", "id"}
                                       /\ objects'[q].class # "free"
                                       /\ objects'[q].id \in NativeIds \cup {0}
             /\ Apart' /\ \A q \in JavaObjects : Live(q)'
  <2>1. /\ DOMAIN objects' = JavaObjects
        /\ \A q \in JavaObjects : /\ DOMAIN objects'[q] = {"class", "id"}
                                  /\ objects'[q].class = objects[q].class
                                  /\ objects'[q].id = IF q = o THEN 0 ELSE objects[q].id
    BY <1>1, <1>5 DEF TypesGood
  <2> QED BY <1>1, <1>3, <1>5, <2>1 DEF TypesGood, Apart, Live
<1>6. CASE M.kind = "release"
  <2>1. \A q \in JavaObjects \ {o} : Live(q)
    BY <1>1 DEF ObjectsGood, Releasing, o
  <2> QED BY <1>1, <1>5, <1>6, <2>1, FinishObjects DEF TypesGood, o
<1>7. CASE M.kind = "use"
  <2>1. UNCHANGED <<objects, heap>>
    BY <1>7, FinishObjects
  <2> QED BY <1>1, <1>3, <1>4, <1>7, <2>1 DEF TypesGood, Apart, Live
<1>8. CASE M.kind = "load" /\ Failed
  <2>1. Released(o)
    BY <1>8, FinishObjects DEF o
  <2> QED BY <1>1, <1>3, <1>4, <1>8, <2>1, ReleasedObjects DEF TypesGood
<1>9. CASE M.kind = "new" /\ Failed
  <2>1. objects' = [objects EXCEPT ![o] = NoObject] /\ UNCHANGED heap
    BY <1>9, FinishObjects DEF o
  <2>2. /\ DOMAIN objects' = JavaObjects
        /\ \A q \in JavaObjects : q # o => objects'[q] = objects[q]
        /\ DOMAIN objects'[o] = {"class", "id"} /\ objects'[o].class # "free"
        /\ objects'[o].id = 0
    BY <1>1, <1>3, <2>1 DEF TypesGood, NoObject
  <2> QED BY <1>1, <1>3, <1>4, <1>9, <2>1, <2>2 DEF TypesGood, Apart, Live
<1>10. CASE M.kind \in {"new", "load"} /\ ~Failed
  <2>1. objects' = [objects EXCEPT ![o].id = call.self] /\ UNCHANGED heap
    BY <1>10, FinishObjects DEF o
  <2>2. call.self # 0 /\ heap[call.self] = call.class
    <3>1. PICK i \in DOMAIN M.fn.steps : M.fn.steps[i] = Alloc
      BY <1>2, <1>10, StepsByKind
    <3>2. i < call.pc
      BY <1>1, <1>2, <1>3, <1>10, <3>1 DEF SelfGood, Sound, Running
    <3> QED BY <1>3, <1>10, <3>1, <3>2 DEF SelfGood, Allocated
  <2>3. \A q \in JavaObjects : objects[q].id # call.self
    BY <1>3, <2>2 DEF SelfGood
  <2>4. /\ DOMAIN objects' = JavaObjects
        /\ \A q \in JavaObjects : /\ DOMAIN objects'[q] = {"class", "id"}
                                  /\ objects'[q].class = objects[q].class
                                  /\ objects'[q].id = IF q = o THEN call.self ELSE objects[q].id
    BY <1>1, <2>1 DEF TypesGood
  <2>5. Apart'
    BY <1>3, <2>3, <2>4 DEF Apart
  <2>6. ASSUME NEW q \in JavaObjects PROVE Live(q)'
    <3>1. Live(q)
      BY <1>4, <1>10
    <3>2. CASE q = o
      BY <1>3, <2>1, <2>2, <2>4, <3>2 DEF Live
    <3>3. CASE q # o
      BY <2>1, <2>4, <3>1, <3>3 DEF Live
    <3> QED BY <3>2, <3>3
  <2> QED BY <1>1, <1>3, <2>1, <2>4, <2>5, <2>6 DEF TypesGood
<1> QED BY <1>2, <1>6, <1>7, <1>8, <1>9, <1>10

(* The clear text that stays in an array of a Java method.                 *)
LEMMA ClearTextLeft ==
    ASSUME TypesGood, BuffersGood, call.stage = "java", NEW x \in Made \ Cleared
    PROVE  StaysBehind(<<"java", x>>)
<1> DEFINE m == M
<1>1. GoodMethod(call.class, call.method, m)
  BY CalledMethod DEF Running
<1>2. x \in ClearText /\ (x \in Pinned \/ (~Failed /\ x \in call.held))
  BY DEF Made
<1>3. x \in Pinned => \E i \in DOMAIN m.fn.steps : m.fn.steps[i][1] = "pin" /\ m.fn.steps[i][2] = x
  BY DEF Pinned, ToSet
<1>4. \E i \in DOMAIN m.fn.steps : Acquires(m.fn.steps[i]) /\ m.fn.steps[i][2] = x
  BY <1>2, <1>3 DEF BuffersGood, Acquires, Running
<1>5. x \notin IF Failed THEN m.finally ELSE m.clears
  BY DEF Cleared
<1> HIDE DEF m
<1>6. CASE m.kind = "use"
  <2>1. x \in m.clears /\ PinsMessage(m.fn)
    BY <1>1, <1>2, <1>4, <1>6, SoundMethod DEF ClearTextIn
  <2>2. Failed /\ x \in Pinned /\ x \notin m.finally
    BY <1>2, <1>5, <2>1
  <2>3. x = "clear"
    BY <1>2, <1>3, <2>1, <2>2 DEF PinsMessage
  <2>4. call.method = "encryptMessage"
    BY <1>1, <2>1, <2>2, <2>3 DEF GoodMethod
  <2> QED BY <2>2, <2>3, <2>4 DEF StaysBehind
<1>7. CASE m.kind # "use"
  <2>1. x \in KeptText(call.class, m)
    BY <1>1, <1>2, <1>4, <1>7, SoundMethod DEF ClearTextIn
  <2>2. m.kind = "new" /\ call.class = "OlmInboundGroupSession" /\ x = "sessionKey"
    BY <2>1 DEF KeptText, KeyOf
  <2> QED BY <2>2 DEF StaysBehind, m
<1> QED BY <1>6, <1>7

(* The end of a Java method preserves the invariant.                       *)
LEMMA FinishStep ==
    ASSUME IInv, Finish
    PROVE  IInv'
<1>1. /\ TypesGood /\ BuffersGood /\ ReportGood /\ call.stage = "java"
  BY FinishEffect DEF IInv
<1>2. M' = M
  BY FinishEffect, SameMethod
<1>3. TypesGood'
  BY <1>1, FinishEffect, FinishWhole DEF TypesGood, Running
<1>4. BuffersGood'
  <2>1. \A left \in call'.unwiped : StaysBehind(left)
    <3>1. \A left \in call.unwiped : StaysBehind(left)
      BY <1>1 DEF BuffersGood, Running
    <3> QED BY <1>1, <3>1, ClearTextLeft, FinishEffect
  <2>2. \A left : StaysBehind(left)' <=> StaysBehind(left)
    BY <1>2, FinishEffect DEF StaysBehind, Failed
  <2> QED BY <1>1, <1>2, <2>1, <2>2, FinishEffect DEF BuffersGood, Running
<1>5. ReportGood'
  <2>1. Failed => Outcome = IF call.raised THEN M.caught ELSE M.null
    <3>1. call.raised \in BOOLEAN
      BY <1>1 DEF ReportGood, Running
    <3> QED BY <3>1 DEF Outcome
  <2>2. Failed' <=> Failed
    BY FinishEffect DEF Failed
  <2> QED BY <1>1, <1>2, <2>1, <2>2, FinishEffect DEF ReportGood, Running
<1>6. ObjectsGood'
  BY FinishEffect, FinishWhole DEF ObjectsGood
<1> QED BY <1>3, <1>4, <1>5, <1>6 DEF IInv

-----------------------------------------------------------------------------
(* A step that changes nothing.                                            *)
LEMMA StutterStep ==
    ASSUME IInv, UNCHANGED vars
    PROVE  IInv'
<1>1. UNCHANGED <<objects, heap, call>>
  BY DEF vars
<1>2. M' = M /\ (Allocated' <=> Allocated) /\ (Failed' <=> Failed)
  BY <1>1 DEF M, Allocated, Failed
<1>3. TypesGood'
  BY <1>1 DEF IInv, TypesGood, Running
<1>4. BuffersGood' /\ ReportGood'
  <2>1. \A left : StaysBehind(left)' <=> StaysBehind(left)
    BY <1>1, <1>2 DEF StaysBehind
  <2> QED BY <1>1, <1>2, <2>1 DEF IInv, BuffersGood, ReportGood, Running
<1>5. (SelfGood' <=> SelfGood) /\ (ReleaseGood' <=> ReleaseGood)
  BY <1>1, <1>2 DEF SelfGood, ReleaseGood, Running
<1>6. ObjectsGood'
  BY <1>1, <1>2, <1>5 DEF IInv, ObjectsGood, Apart, Live, Releasing
<1> QED BY <1>3, <1>4, <1>6 DEF IInv

(* Every step preserves the invariant.                                     *)
LEMMA NextIInv ==
    ASSUME IInv, [Next]_vars
    PROVE  IInv'
<1>1. ASSUME NEW o \in JavaObjects, CallMethod(o) \/ Construct(o) \/ ReadObject(o)
                                    \/ Refuse(o) \/ Collect(o)
      PROVE  IInv'
  BY <1>1, CallMethodStep, ObjectBegins, RefuseStep, IdleStep
<1>2. CASE StepSucceeds \/ StepFails \/ Abort \/ StepsDone
  BY <1>2, StepSucceedsStep, StepFailsStep, AbortStep, StepsDoneStep
<1>3. CASE Return \/ Finish \/ Continue
  BY <1>3, ReturnStep, FinishStep, IdleStep
<1> QED BY <1>1, <1>2, <1>3, StutterStep DEF Next

(* IInv holds for every set of Java objects, whichever may exist together, *)
(* and any number of native objects.                                       *)
THEOREM Invariance == Spec => []IInv
<1>1. IInv /\ [Next]_vars => IInv'
  BY NextIInv
<1> QED BY <1>1, InitIInv, PTL DEF Spec

(* Whatever step of a native function fails, what it acquired before has   *)
(* been released when it returns, but for the memory of a failed           *)
(* createNewSASJni: what a call holds it acquired by a step, and each      *)
(* function releases what its steps acquire.                               *)
THEOREM SpecBuffersReleased == Spec => []BuffersReleased
<1>1. IInv => BuffersReleased
  BY DEF IInv, BuffersGood, BuffersReleased, Running
<1> QED BY <1>1, Invariance, PTL

(* On every path of every call, secrets are overwritten in the memory that *)
(* is freed and in the arrays the Java method made, but for three: the     *)
(* pickle that was decrypted in place, the array of an inbound group       *)
(* session's key, and the message of a failed encryptMessage.              *)
THEOREM SpecSecretsWiped == Spec => []SecretsWiped
<1>1. IInv => SecretsWiped
  BY DEF IInv, BuffersGood, SecretsWiped, Running
<1> QED BY <1>1, Invariance, PTL

(* The caller's keys and seeds are intact after a call, also where the     *)
(* virtual machine hands out the caller's own array: it is neither wiped   *)
(* nor decoded in place.                                                   *)
THEOREM SpecKeysIntact == Spec => []KeysIntact
<1>1. IInv => KeysIntact
  BY DEF IInv, BuffersGood, KeysIntact, Running, Kept
<1> QED BY <1>1, Invariance, PTL

(* No library function is given an input that an earlier one of the same   *)
(* call has decoded in place: between two that decode the same buffer the  *)
(* message is copied again.                                                *)
THEOREM SpecInputsFresh == Spec => []InputsFresh
<1>1. IInv => InputsFresh
  BY DEF IInv, BuffersGood, InputsFresh
<1> QED BY <1>1, Invariance, PTL

(* A method whose failure looks like a success has failed at one of the    *)
(* seven steps that Unreported names: where a native function keeps quiet  *)
(* elsewhere, its method has a value that stands for a failure, and where  *)
(* it throws, the method hands the exception on.                           *)
THEOREM SpecFailureReported == Spec => []FailureReported
<1>1. IInv => FailureReported
  <2>1. SUFFICES ASSUME IInv, Running("done"), Failed, call.outcome = "value"
                 PROVE  <<call.method, call.failed>> \in Unreported
    BY DEF FailureReported
  <2>2. GoodMethod(call.class, call.method, M)
    BY <2>1, CalledMethod DEF IInv, Running
  <2>3. /\ call.raised = (call.failed \notin M.fn.quiet)
        /\ "value" = IF call.raised THEN M.caught ELSE M.null
    BY <2>1 DEF IInv, ReportGood, Running
  <2> QED BY <2>2, <2>3 DEF GoodMethod
<1> QED BY <1>1, Invariance, PTL

(* A Java object that has a native object has a live one of its own class  *)
(* that no other Java object has, between calls: through failed            *)
(* constructors, unpickling over a live object, and releases.              *)
THEOREM SpecNoDangling == Spec => []NoDangling
<1>1. IInv => NoDangling
  <2>1. SUFFICES ASSUME IInv, call.stage \in {"idle", "done"}, NEW o \in JavaObjects,
                        objects[o].id # 0
                 PROVE  /\ heap[objects[o].id] = objects[o].class
                        /\ \A p \in JavaObjects \ {o} : objects[p].id # objects[o].id
    BY DEF NoDangling, Running
  <2> QED BY <2>1, Between DEF Apart, Live
<1> QED BY <1>1, Invariance, PTL

-----------------------------------------------------------------------------
(***************************************************************************)
(* Native objects that are lost.                                           *)
(***************************************************************************)
Orphan(n) ==
    /\ heap[n] # "free"
    /\ \A o \in JavaObjects : objects[o].id # n
    /\ call.stage \in {"idle", "done"} \/ call.self # n

LostKnown(n) ==
    /\ Running("java")
    /\ \/ M.kind = "load" /\ ~Failed /\ objects[call.obj].id = n
       \/ M.kind = "new" /\ Failed /\ call.class = "OlmSAS"

(* OlmSAS has no pickle.                                                   *)
LEMMA SasNotLoaded == \A m \in DOMAIN Api["OlmSAS"] : Api["OlmSAS"][m].kind # "load"
<1>1. Api["OlmSAS"] = OlmSASApi
  BY DEF Api
<1>2. OlmSASApi.new.kind = "new" /\ OlmSASApi.release.kind = "release"
  BY DEF OlmSASApi, Method
<1>3. OlmSASApi.getPublicKey.kind = "use"
  BY DEF OlmSASApi, Use, Method
<1>4. OlmSASApi.setTheirPublicKey.kind = "use"
  BY DEF OlmSASApi, Plain, Raw, Use, Method
<1>5. OlmSASApi.generateShortCode.kind = "use"
  BY DEF OlmSASApi, Reading, Checking, Use, Method
<1>6. OlmSASApi.calculateMac.kind = "use"
  BY DEF OlmSASApi, Raw, Use, Method
<1>7. OlmSASApi.calculateMacFixedBase64.kind = "use"
  BY DEF OlmSASApi, Raw, Use, Method
<1>8. OlmSASApi.calculateMacLongKdf.kind = "use"
  BY DEF OlmSASApi, Raw, Use, Method
<1>9. DOMAIN OlmSASApi =
        {"new", "release", "getPublicKey", "setTheirPublicKey", "generateShortCode",
         "calculateMac", "calculateMacFixedBase64", "calculateMacLongKdf"}
  BY DEF OlmSASApi
<1> QED BY <1>1, <1>2, <1>3, <1>4, <1>5, <1>6, <1>7, <1>8, <1>9

(* Orphans, one native object at a time.                                   *)
LEMMA OrphansAre ==
    /\ \A n \in NativeIds : n \in Orphans <=> Orphan(n)
    /\ Orphans \subseteq NativeIds
  BY DEF Orphans, Orphan, Running

(* Between calls an object keeps what it refers to, or it is freed.        *)
LEMMA OrphansBetween ==
    ASSUME IInv, NEW o \in JavaObjects,
           \/ CallMethod(o) \/ Construct(o) \/ ReadObject(o) \/ Refuse(o) \/ Collect(o),
           NEW n \in NativeIds, Orphan(n)'
    PROVE  Orphan(n)
<1>1. call.stage = "idle" /\ TypesGood /\ Apart /\ \A q \in JavaObjects : Live(q)
  BY Between DEF IInv, CallMethod, Construct, ReadObject, Refuse, Collect, Running
<1>2. CASE CallMethod(o)
  BY <1>1, <1>2 DEF CallMethod, Orphan
<1>3. CASE Construct(o) \/ ReadObject(o)
  <2>1. UNCHANGED heap /\ \A q \in JavaObjects : objects'[q].id = objects[q].id
    BY <1>1, <1>3 DEF Construct, ReadObject, TypesGood, NoObject
  <2> QED BY <1>1, <2>1 DEF Orphan
<1>4. CASE Refuse(o)
  <2>1. CASE UNCHANGED <<objects, heap>>
    BY <1>1, <2>1 DEF Orphan
  <2>2. CASE Released(o)
    <3>1. n # objects[o].id /\ heap[n] # "free"
      BY <1>1, <2>2, ReleasedObjects DEF Orphan
    <3>2. \A q \in JavaObjects : objects[q].id # n
      BY <1>1, <2>2, <3>1, ReleasedObjects DEF Orphan
    <3> QED BY <1>1, <3>1, <3>2 DEF Orphan
  <2> QED BY <1>4, <2>1, <2>2 DEF Refuse, DeserializeFailed
<1>5. CASE Collect(o)
  <2>1. UNCHANGED heap /\ \A q \in JavaObjects : objects'[q].id = objects[q].id
    BY <1>1, <1>5 DEF Collect, TypesGood, NoObject
  <2> QED BY <1>1, <2>1 DEF Orphan
<1> QED BY <1>2, <1>3, <1>4, <1>5

(* What a native function makes is its own until the end of the call.      *)
LEMMA OrphansInCall ==
    ASSUME IInv, StepSucceeds \/ StepFails \/ Abort \/ StepsDone \/ Return \/ Continue,
           NEW n \in NativeIds, Orphan(n)'
    PROVE  Orphan(n)
<1>1. TypesGood /\ ObjectsGood
  BY DEF IInv
<1>2. CASE StepSucceeds
  <2>1. /\ call.stage = "native" /\ AtStep /\ call.pc \in DOMAIN M.fn.steps
        /\ Step = M.fn.steps[call.pc]
    BY <1>1, <1>2, StepFound DEF StepSucceeds
  <2>2. /\ UNCHANGED objects /\ call'.stage = "native"
        /\ Step # Alloc => call'.self = call.self
    BY <1>2, SucceedsEffect
  <2>3. SelfGood /\ GoodMethod(call.class, call.method, M)
    BY <1>1, <2>1, CalledMethod DEF ObjectsGood, Running
  <2>4. CASE Step = Alloc
    <3>1. call.self = 0
      <4>1. M.kind \in {"new", "load"} /\ MakesObject(M.fn, call.class)
        BY <1>1, <2>1, <2>3, <2>4, CalledKind DEF Running
      <4>2. ~Allocated
        <5>1. SUFFICES ASSUME NEW i \in DOMAIN M.fn.steps, i < call.pc, M.fn.steps[i] = Alloc
                       PROVE  FALSE
          BY DEF Allocated
        <5>2. i = call.pc
          BY <2>1, <2>4, <4>1, <5>1 DEF MakesObject
        <5> QED BY <1>1, <2>1, <5>1, <5>2 DEF TypesGood, Running
      <4> QED BY <2>3, <4>2 DEF SelfGood
    <3>2. heap' = [heap EXCEPT ![call'.self] = call.class] /\ call'.self # n
      BY <1>2, <2>2, <2>4, SucceedsEffect DEF Orphan
    <3>3. heap[n] # "free" /\ 0 \notin NativeIds
      BY <1>1, <3>2 DEF Orphan, TypesGood, NativeIds
    <3> QED BY <2>2, <3>1, <3>3 DEF Orphan
  <2>5. CASE Step # Alloc
    <3>1. heap' = IF Step[1] = "clear" THEN [heap EXCEPT ![objects[call.obj].id] = "free"]
                  ELSE heap
      BY <1>2, <2>5, SucceedsEffect
    <3>2. heap[n] # "free"
      BY <1>1, <3>1 DEF Orphan, TypesGood
    <3> QED BY <2>1, <2>2, <2>5, <3>2 DEF Orphan
  <2> QED BY <2>4, <2>5
<1>3. CASE StepFails
  <2>1. call'.stage = "release" /\ call'.self = call.self /\ UNCHANGED <<objects, heap>>
    BY <1>3, FailsEffect
  <2> QED BY <2>1 DEF Orphan
<1>4. CASE Abort
  BY <1>4 DEF Abort, Orphan
<1>5. CASE StepsDone
  <2>1. call'.stage = "release" /\ call'.self = call.self /\ UNCHANGED <<objects, heap>>
    BY <1>1, <1>5 DEF StepsDone, Running, TypesGood, CallFields
  <2> QED BY <2>1 DEF Orphan
<1>6. CASE Return
  <2>1. /\ call'.stage = "java" /\ call'.self = call.self /\ UNCHANGED objects
        /\ heap' = IF SelfFreed THEN [heap EXCEPT ![call.self] = "free"] ELSE heap
    BY <1>6, ReturnEffect
  <2>2. heap[n] # "free"
    BY <1>1, <2>1 DEF Orphan, TypesGood
  <2> QED BY <2>1, <2>2 DEF Orphan
<1>7. CASE Continue
  BY <1>7 DEF Continue, Orphan, Running
<1> QED BY <1>2, <1>3, <1>4, <1>5, <1>6, <1>7

(* At the end of a method the object it makes has a native object or the   *)
(* native object is free; only unpickling takes one away from an object.   *)
LEMMA OrphansFinish ==
    ASSUME IInv, Finish, NEW n \in NativeIds, Orphan(n)', ~Orphan(n)
    PROVE  LostKnown(n)
<1>1. /\ TypesGood /\ ObjectsGood /\ call.stage = "java" /\ SelfGood
      /\ call.obj \in JavaObjects /\ 0 \notin NativeIds
  BY FinishEffect DEF IInv, ObjectsGood, TypesGood, Running, NativeIds
<1>2. M.kind \in {"new", "load", "release", "use"}
  BY <1>1, CalledMethod, SoundMethod DEF Running
<1>3. (\E q \in JavaObjects : objects[q].id = n) \/ call.self = n \/ heap[n] = "free"
  BY DEF Orphan
<1>4. CASE M.kind \in {"new", "load"} /\ ~Failed
  <2>1. objects' = [objects EXCEPT ![call.obj].id = call.self] /\ UNCHANGED heap
    BY <1>4, FinishObjects
  <2>2. /\ objects'[call.obj].id = call.self
        /\ \A q \in JavaObjects \ {call.obj} : objects'[q] = objects[q]
    BY <1>1, <2>1 DEF TypesGood
  <2>3. objects[call.obj].id = n
    BY <1>1, <1>3, <2>1, <2>2 DEF Orphan
  <2>4. M.kind # "new"
    BY <1>1, <2>3 DEF ObjectsGood
  <2> QED BY <1>1, <1>4, <2>3, <2>4 DEF LostKnown, Running
<1>5. CASE M.kind = "new" /\ Failed
  <2>1. objects' = [objects EXCEPT ![call.obj] = NoObject] /\ UNCHANGED heap
    BY <1>5, FinishObjects
  <2>2. \A q \in JavaObjects \ {call.obj} : objects'[q] = objects[q]
    BY <1>1, <2>1 DEF TypesGood
  <2>3. objects[call.obj].id = 0
    BY <1>1, <1>5 DEF ObjectsGood
  <2>4. call.self = n /\ heap[n] # "free"
    BY <1>1, <1>3, <2>1, <2>2, <2>3 DEF Orphan
  <2> QED BY <1>1, <1>5, <2>4 DEF LostKnown, SelfGood, Running
<1>6. CASE M.kind = "load" /\ Failed
  <2>1. Released(call.obj)
    BY <1>6, FinishObjects
  <2>2. Apart /\ \A q \in JavaObjects : Live(q)
    BY <1>1, <1>6 DEF ObjectsGood, Releasing
  <2>3. n # objects[call.obj].id /\ heap[n] # "free"
    BY <1>1, <2>1, <2>2, ReleasedObjects DEF Orphan
  <2>4. \A q \in JavaObjects : objects[q].id # n
    BY <1>1, <2>1, <2>2, <2>3, ReleasedObjects DEF Orphan
  <2>5. call.self = n
    BY <1>3, <2>3, <2>4
  <2>6. call.class = "OlmSAS"
    BY <1>1, <1>6, <2>3, <2>5 DEF SelfGood, Running
  <2>7. M.kind # "load"
    BY <1>1, <2>6, SasNotLoaded DEF TypesGood, M, Running
  <2> QED BY <1>6, <2>7
<1>7. CASE M.kind = "release"
  <2>1. objects' = [objects EXCEPT ![call.obj].id = 0] /\ UNCHANGED heap
    BY <1>7, FinishObjects
  <2>2. \A q \in JavaObjects \ {call.obj} : objects'[q] = objects[q]
    BY <1>1, <2>1 DEF TypesGood
  <2>3. heap[objects[call.obj].id] = "free"
    BY <1>1, <1>7 DEF ObjectsGood, ReleaseGood, Running
  <2>4. call.self = 0
    BY <1>1, <1>7 DEF SelfGood
  <2> QED BY <1>1, <1>3, <2>1, <2>2, <2>3, <2>4 DEF Orphan
<1>8. CASE M.kind = "use"
  <2>1. UNCHANGED <<objects, heap>>
    BY <1>8, FinishObjects
  <2>2. call.self = 0
    BY <1>1, <1>8 DEF SelfGood
  <2> QED BY <1>1, <1>3, <2>1, <2>2 DEF Orphan
<1> QED BY <1>2, <1>4, <1>5, <1>6, <1>7, <1>8

(* No step loses a native object in another way.                           *)
LEMMA OrphansStep ==
    ASSUME IInv, [Next]_vars, NEW n \in Orphans' \ Orphans
    PROVE  LostKnown(n)
<1>1. n \in NativeIds /\ Orphan(n)' /\ ~Orphan(n)
  BY OrphansAre DEF Orphans, Orphan, Running
<1>2. CASE \E o \in JavaObjects : CallMethod(o) \/ Construct(o) \/ ReadObject(o)
                                    \/ Refuse(o) \/ Collect(o)
  BY <1>1, <1>2, OrphansBetween
<1>3. CASE StepSucceeds \/ StepFails \/ Abort \/ StepsDone \/ Return \/ Continue
  BY <1>1, <1>3, OrphansInCall
<1>4. CASE Finish
  BY <1>1, <1>4, OrphansFinish
<1>5. CASE UNCHANGED vars
  BY <1>1, <1>5 DEF vars, Orphan
<1> QED BY <1>2, <1>3, <1>4, <1>5 DEF Next

(* A native object is lost to the application in two ways only: when an    *)
(* object that had it is unpickled, and when the constructor of OlmSAS     *)
(* fails.  A call that goes on holds what it has made; at its end the      *)
(* object has it, or it was freed.                                         *)
THEOREM SpecOrphansKnown == Spec => OrphansKnown
<1>1. IInv /\ [Next]_vars =>
        [\A n \in Orphans' \ Orphans :
           /\ Running("java")
           /\ \/ M.kind = "load" /\ ~Failed /\ objects[call.obj].id = n
              \/ M.kind = "new" /\ Failed /\ call.class = "OlmSAS"]_vars
  BY OrphansStep DEF LostKnown
<1> QED BY <1>1, Invariance, PTL DEF Spec, OrphansKnown
=============================================================================
