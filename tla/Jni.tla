-------------------------------- MODULE Jni --------------------------------
(***************************************************************************)
(* The native half of the Android bindings: one definition per function of *)
(* android/olm-sdk/src/main/jni.  A native function checks its arguments,  *)
(* pins the Java arrays it reads, allocates buffers, calls the library and *)
(* copies the result into a new Java array.  The first of these steps that *)
(* fails skips the others; what was acquired is then released, and an      *)
(* exception thrown.  A function is therefore described by its steps in    *)
(* the order of the code and by what it releases in which way; Bindings    *)
(* runs the steps.                                                         *)
(***************************************************************************)
EXTENDS Sequences, FiniteSets

Given(x) == <<"given", x>>     \* if (!x) is an error
Field(x) == <<"field", x>>     \* GetObjectClass, GetFieldID
Pin(x) == <<"pin", x>>         \* GetByteArrayElements, GetStringUTFChars
Malloc(x) == <<"malloc", x>>
Copy(x) == <<"copy", x>>       \* memcpy into x from a pinned string or array
Olm(f) == <<"call", f>>        \* a library function that may return olm_error()
Ask(f) == <<"ask", f>>         \* a library function whose result is not tested
Alloc == <<"malloc", "self">>  \* the memory of a new native object, initialised
Clear == <<"clear", "this">>   \* olm_clear_...() and free()
Checked == <<"result", "array">>    \* NewByteArray, with an error when it returns NULL
Unchecked == <<"store", "array">>   \* NewByteArray, used without looking

(* setRandomInBuffer allocates the buffer it fills. *)
Random == Malloc("random")

(* How a buffer is released: "free" is free() or a release with JNI_ABORT, *)
(* "wipe" overwrites it before, "wipeCopy" does so unless the Java array   *)
(* itself was pinned, "wipeOnSuccess" only on the path on which no step    *)
(* failed; "onError" clears and frees a native object when the function    *)
(* fails and hands it to Java otherwise.                                   *)

(* quiet: the steps whose failure throws nothing. *)
Fn(steps, release) == [steps |-> steps, release |-> release, quiet |-> {}]
Quiet(fn, names) == [fn EXCEPT !.quiet = names]

Nothing == [x \in {} |-> "free"]

(* Library functions that decode an argument where it lies (b64_input and  *)
(* _olm_enc_input): the argument is of no use afterwards.                  *)
Consumes(f) ==
  CASE f \in {"olm_decrypt", "olm_decrypt_max_plaintext_length", "olm_group_decrypt",
              "olm_group_decrypt_max_plaintext_length", "olm_pk_decrypt"} -> {"temp"}
    [] f \in {"olm_create_inbound_session", "olm_create_inbound_session_from",
              "olm_matches_inbound_session", "olm_matches_inbound_session_from"} -> {"preKeyMsg"}
    [] f \in {"olm_unpickle_account", "olm_unpickle_session", "olm_unpickle_inbound_group_session",
              "olm_unpickle_outbound_group_session"} -> {"pickled"}
    [] f = "olm_account_rehydrate" -> {"device"}
    [] f = "olm_sas_set_their_key" -> {"theirKey"}
    [] f = "olm_ed25519_verify" -> {"signature"}
    [] OTHER -> {}

(***************************************************************************)
(* Shapes that several functions share.                                    *)
(***************************************************************************)
ReleaseFn == Quiet(Fn(<<Given("this"), Clear>>, Nothing), {"this"})
Getter(buf, f, result) ==
  Fn(<<Given("this"), Malloc(buf), Olm(f), result>>, [x \in {buf} |-> "free"])
Serialize(first, second, f) ==
  Fn(<<Given(first), Given(second), Pin("key"), Malloc("pickle"), Olm(f), Unchecked>>,
     [key |-> "wipeCopy", pickle |-> "free"])
Deserialize(checks, f) ==
  Fn(checks \o <<Pin("key"), Pin("pickled"), Olm(f)>>,
     [key |-> "wipeCopy", pickled |-> "free", self |-> "onError"])

(***************************************************************************)
(* olm_account.c                                                           *)
(***************************************************************************)
OlmAccount_createNewAccountJni ==
  Fn(<<Alloc, Random, Olm("olm_create_account")>>, [random |-> "wipe", self |-> "onError"])
OlmAccount_releaseAccountJni == ReleaseFn
OlmAccount_identityKeysJni == Getter("json", "olm_account_identity_keys", Checked)
OlmAccount_maxOneTimeKeysJni ==
  Quiet(Fn(<<Given("this"), Ask("olm_account_max_number_of_one_time_keys")>>, Nothing), {"this"})
OlmAccount_generateOneTimeKeysJniSilent ==   \* faulty: errorMessage is not set without random
  Quiet(Fn(<<Given("this"), Random, Olm("olm_account_generate_one_time_keys")>>, [random |-> "wipe"]),
        {"random"})
OlmAccount_generateOneTimeKeysJni ==
  Fn(<<Given("this"), Random, Olm("olm_account_generate_one_time_keys")>>, [random |-> "wipe"])
OlmAccount_oneTimeKeysJni == Getter("json", "olm_account_one_time_keys", Checked)
OlmAccount_removeOneTimeKeysJni ==
  Fn(<<Given("OlmSession"), Given("this"), Olm("olm_remove_one_time_keys")>>, Nothing)
OlmAccount_markOneTimeKeysAsPublishedJni ==
  Fn(<<Given("this"), Olm("olm_account_mark_keys_as_published")>>, Nothing)
OlmAccount_generateFallbackKeyJni ==
  Fn(<<Given("this"), Random, Olm("olm_account_generate_fallback_key")>>, [random |-> "wipe"])
OlmAccount_fallbackKeyJni == Getter("json", "olm_account_unpublished_fallback_key", Checked)
OlmAccount_forgetFallbackKeyJni ==
  Fn(<<Given("this"), Ask("olm_account_forget_old_fallback_key")>>, Nothing)
OlmAccount_signMessageJni ==
  Fn(<<Given("message"), Given("this"), Pin("message"), Malloc("signature"),
       Olm("olm_account_sign"), Unchecked>>, [message |-> "free", signature |-> "free"])
OlmAccount_serializeJni == Serialize("key", "this", "olm_pickle_account")
OlmAccount_deserializeJni ==
  Deserialize(<<Given("key"), Given("pickled"), Alloc>>, "olm_unpickle_account")
OlmAccount_dehydrateJni ==
  Fn(<<Given("key"), Given("this"), Pin("key"), Malloc("dehydrated"), Malloc("nonce"), Random,
       Olm("olm_account_dehydrate"), Checked>>,
     [key |-> "wipeCopy", dehydrated |-> "free", nonce |-> "free", random |-> "wipe"])
Rehydrate(keyMode) ==
  Fn(<<Given("key"), Given("nonce"), Given("device"), Alloc, Pin("key"), Pin("nonce"),
       Pin("device"), Olm("olm_account_rehydrate")>>,
     [key |-> keyMode, nonce |-> "free", device |-> "free", self |-> "onError"])
OlmAccount_rehydrateJniWiping == Rehydrate("wipe")   \* faulty: keyIsCopied is not tested
OlmAccount_rehydrateJni == Rehydrate("wipeCopy")

(***************************************************************************)
(* olm_session.c                                                           *)
(***************************************************************************)
OlmSession_createNewSessionJni == Fn(<<Alloc>>, Nothing)
OlmSession_releaseSessionJni == ReleaseFn
OlmSession_initOutboundSessionJni ==
  Fn(<<Given("this"), Given("OlmAccount"), Given("identityKey"), Given("oneTimeKey"), Random,
       Pin("identityKey"), Pin("oneTimeKey"), Olm("olm_create_outbound_session")>>,
     [identityKey |-> "free", oneTimeKey |-> "free", random |-> "wipe"])
OlmSession_initInboundSessionJni ==
  Fn(<<Given("this"), Given("OlmAccount"), Given("preKeyMsg"), Pin("preKeyMsg"),
       Olm("olm_create_inbound_session")>>, [preKeyMsg |-> "free"])
OlmSession_initInboundSessionFromIdKeyJni ==
  Fn(<<Given("this"), Given("OlmAccount"), Given("identityKey"), Given("preKeyMsg"),
       Pin("preKeyMsg"), Pin("identityKey"), Olm("olm_create_inbound_session_from")>>,
     [identityKey |-> "free", preKeyMsg |-> "free"])
OlmSession_matchesInboundSessionJni ==
  Quiet(Fn(<<Given("this"), Given("preKeyMsg"), Pin("preKeyMsg"), Olm("olm_matches_inbound_session")>>,
           [preKeyMsg |-> "free"]),
        {"this", "preKeyMsg", "olm_matches_inbound_session"})
OlmSession_matchesInboundSessionFromIdKeyJni ==
  Quiet(Fn(<<Given("this"), Given("identityKey"), Pin("identityKey"), Given("preKeyMsg"),
             Pin("preKeyMsg"), Olm("olm_matches_inbound_session_from")>>,
           [identityKey |-> "free", preKeyMsg |-> "free"]),
        {"this", "identityKey", "preKeyMsg", "olm_matches_inbound_session_from"})
SessionEncrypt(release) ==
  Fn(<<Given("this"), Given("clear"), Given("message"), Pin("clear"), Field("class"), Field("mType"),
       Random, Malloc("encrypted"), Olm("olm_encrypt"), Unchecked>>, release)
OlmSession_encryptMessageJniPinned ==   \* faulty: the pinned array is not released
  SessionEncrypt([random |-> "wipe", encrypted |-> "free"])
OlmSession_encryptMessageJni ==
  SessionEncrypt([clear |-> "wipeCopy", random |-> "wipe", encrypted |-> "free"])

(* olm_decrypt_max_plaintext_length decodes the buffer it is given, so the *)
(* message is copied again for olm_decrypt.                                *)
Decrypt(checks, text, maxLength, again, decrypt) ==
  Fn(checks \o <<Malloc("temp"), Copy("temp"), Olm(maxLength), Malloc("plaintext")>>
       \o again \o <<Olm(decrypt), Unchecked>>,
     [x \in {text, "temp", "plaintext"} |-> IF x = "plaintext" THEN "wipe" ELSE "free"])
SessionDecrypt(again) ==
  Decrypt(<<Given("this"), Given("message"), Field("class"), Field("mCipherText"), Field("mType"),
            Given("cipherText"), Pin("cipherText")>>,
          "cipherText", "olm_decrypt_max_plaintext_length", again, "olm_decrypt")
OlmSession_decryptMessageJniOneCopy == SessionDecrypt(<<>>)   \* faulty: no second copy
OlmSession_decryptMessageJni == SessionDecrypt(<<Copy("temp")>>)
OlmSession_getSessionIdentifierJni == Getter("id", "olm_session_id", Unchecked)
OlmSession_olmSessionDescribeJni ==
  Fn(<<Given("this"), Malloc("describe"), Ask("olm_session_describe"), Unchecked>>,
     [describe |-> "free"])
OlmSession_serializeJni == Serialize("this", "key", "olm_pickle_session")
OlmSession_deserializeJni ==
  Deserialize(<<Alloc, Given("key"), Given("pickled")>>, "olm_unpickle_session")

(***************************************************************************)
(* olm_inbound_group_session.c                                             *)
(***************************************************************************)
OlmInboundGroupSession_releaseSessionJni == ReleaseFn
OlmInboundGroupSession_createNewSessionJni ==
  Fn(<<Alloc, Given("sessionKey"), Pin("sessionKey"), Olm("olm_init_inbound_group_session")>>,
     [sessionKey |-> "wipeCopy", self |-> "onError"])
OlmInboundGroupSession_sessionIdentifierJni == Getter("id", "olm_inbound_group_session_id", Unchecked)
OlmInboundGroupSession_decryptMessageJni ==
  Decrypt(<<Given("this"), Given("encrypted"), Given("result"), Pin("encrypted"), Field("class"),
            Field("mIndex")>>,
          "encrypted", "olm_group_decrypt_max_plaintext_length", <<Copy("temp")>>, "olm_group_decrypt")
OlmInboundGroupSession_firstKnownIndexJni ==
  Fn(<<Given("this"), Ask("olm_inbound_group_session_first_known_index")>>, Nothing)
OlmInboundGroupSession_isVerifiedJni ==
  Fn(<<Given("this"), Ask("olm_inbound_group_session_is_verified")>>, Nothing)
OlmInboundGroupSession_exportJni ==
  Fn(<<Given("this"), Malloc("exported"), Olm("olm_export_inbound_group_session"), Unchecked>>,
     [exported |-> "wipeOnSuccess"])
OlmInboundGroupSession_serializeJni == Serialize("this", "key", "olm_pickle_inbound_group_session")
OlmInboundGroupSession_deserializeJni ==
  Deserialize(<<Alloc, Given("key"), Given("pickled")>>, "olm_unpickle_inbound_group_session")

(***************************************************************************)
(* olm_outbound_group_session.c                                            *)
(***************************************************************************)
OlmOutboundGroupSession_releaseSessionJni == ReleaseFn
OlmOutboundGroupSession_createNewSessionJni ==
  Fn(<<Alloc, Random, Olm("olm_init_outbound_group_session")>>,
     [random |-> "wipe", self |-> "onError"])
OlmOutboundGroupSession_sessionIdentifierJni ==
  Getter("id", "olm_outbound_group_session_id", Unchecked)
OlmOutboundGroupSession_messageIndexJni ==
  Quiet(Fn(<<Given("this"), Ask("olm_outbound_group_session_message_index")>>, Nothing), {"this"})
OlmOutboundGroupSession_sessionKeyJni ==
  Fn(<<Given("this"), Malloc("sessionKey"), Olm("olm_outbound_group_session_key"), Unchecked>>,
     [sessionKey |-> "wipe"])
OlmOutboundGroupSession_encryptMessageJni ==
  Fn(<<Given("this"), Given("clear"), Pin("clear"), Malloc("encrypted"), Olm("olm_group_encrypt"),
       Unchecked>>, [clear |-> "wipeCopy", encrypted |-> "free"])
OlmOutboundGroupSession_serializeJni == Serialize("this", "key", "olm_pickle_outbound_group_session")
OlmOutboundGroupSession_deserializeJni ==
  Deserialize(<<Alloc, Given("key"), Given("pickled")>>, "olm_unpickle_outbound_group_session")

(***************************************************************************)
(* olm_pk.c                                                                *)
(***************************************************************************)
OlmPkEncryption_createNewPkEncryptionJni == Fn(<<Alloc>>, Nothing)
OlmPkEncryption_releasePkEncryptionJni == ReleaseFn
OlmPkEncryption_setRecipientKeyJni ==
  Quiet(Fn(<<Given("this"), Given("theirKey"), Pin("theirKey"),
             Olm("olm_pk_encryption_set_recipient_key")>>, [theirKey |-> "free"]), {"this"})
OlmPkEncryption_encryptJni ==
  Quiet(Fn(<<Given("this"), Given("clear"), Given("message"), Pin("clear"), Field("class"),
             Field("mMac"), Field("mEphemeralKey"), Malloc("encrypted"), Malloc("mac"),
             Malloc("ephemeral"), Random, Olm("olm_pk_encrypt"), Unchecked>>,
           [clear |-> "wipeCopy", random |-> "wipe", encrypted |-> "free", mac |-> "free",
            ephemeral |-> "free"]), {"this"})
OlmPkDecryption_createNewPkDecryptionJni == Fn(<<Alloc>>, Nothing)
OlmPkDecryption_releasePkDecryptionJni == ReleaseFn
OlmPkDecryption_setPrivateKeyJni ==
  Quiet(Fn(<<Given("this"), Given("privateKey"), Pin("privateKey"), Malloc("publicKey"),
             Olm("olm_pk_key_from_private"), Unchecked>>,
           [privateKey |-> "wipeCopy", publicKey |-> "free"]), {"this"})
OlmPkDecryption_generateKeyJni ==
  Fn(<<Given("this"), Random, Malloc("publicKey"), Olm("olm_pk_key_from_private"), Unchecked>>,
     [random |-> "wipe", publicKey |-> "free"])
PrivateKey(mode) ==
  Quiet(Fn(<<Given("this"), Malloc("privateKey"), Olm("olm_pk_get_private_key"), Unchecked>>,
           [privateKey |-> mode]), {"this"})
OlmPkDecryption_privateKeyJniFreed == PrivateKey("free")   \* faulty: no memset
OlmPkDecryption_privateKeyJni == PrivateKey("wipe")
OlmPkDecryption_decryptJni ==
  Fn(<<Given("this"), Given("message"), Field("class"),
       Field("mCipherText"), Given("cipherText"), Pin("cipherText"),
       Field("mMac"), Given("mac"), Pin("mac"),
       Field("mEphemeralKey"), Given("ephemeral"), Pin("ephemeral"),
       Malloc("plaintext"), Malloc("temp"), Copy("temp"), Olm("olm_pk_decrypt"), Unchecked>>,
     [cipherText |-> "free", mac |-> "free", ephemeral |-> "free", temp |-> "free",
      plaintext |-> "wipe"])
OlmPkSigning_createNewPkSigningJni == Fn(<<Alloc>>, Nothing)
OlmPkSigning_releasePkSigningJni == ReleaseFn
OlmPkSigning_generateSeedJni == Fn(<<Random, Checked>>, [random |-> "wipe"])
OlmPkSigning_setKeyFromSeedJni ==
  Fn(<<Given("this"), Given("seed"), Pin("seed"), Malloc("publicKey"),
       Olm("olm_pk_signing_key_from_seed"), Checked>>, [seed |-> "wipeCopy", publicKey |-> "free"])
OlmPkSigning_pkSignJni ==
  Fn(<<Given("this"), Given("message"), Pin("message"), Malloc("signature"), Olm("olm_pk_sign"),
       Checked>>, [message |-> "wipeCopy", signature |-> "free"])

(***************************************************************************)
(* olm_sas.c.  createNewSASJni keeps its memory when olm_create_sas or the *)
(* random buffer fails, and throws.                                        *)
(***************************************************************************)
OlmSAS_createNewSASJni == Fn(<<Alloc, Random, Olm("olm_create_sas")>>, [random |-> "wipe"])
OlmSAS_releaseSASJni == ReleaseFn
OlmSAS_getPubKeyJni == Getter("publicKey", "olm_sas_get_pubkey", Unchecked)
OlmSAS_setTheirPubKey ==
  Fn(<<Given("this"), Given("theirKey"), Pin("theirKey"), Olm("olm_sas_set_their_key")>>,
     [theirKey |-> "wipeCopy"])
OlmSAS_generateShortCodeJni ==
  Fn(<<Given("this"), Given("info"), Given("byteNb"), Pin("info"), Malloc("shortCode"),
       Olm("olm_sas_generate_bytes"), Unchecked>>, [info |-> "wipeCopy", shortCode |-> "free"])
CalculateMac(f) ==
  Fn(<<Given("this"), Given("message"), Pin("message"), Given("info"), Pin("info"), Malloc("mac"),
       Olm(f), Unchecked>>, [message |-> "wipeCopy", info |-> "wipeCopy", mac |-> "free"])
OlmSAS_calculateMacJni == CalculateMac("olm_sas_calculate_mac")
OlmSAS_calculateMacFixedBase64Jni == CalculateMac("olm_sas_calculate_mac_fixed_base64")
OlmSAS_calculateMacLongKdfJni == CalculateMac("olm_sas_calculate_mac_long_kdf")

(***************************************************************************)
(* olm_utility.c.  verifyEd25519SignatureJni reports only what             *)
(* olm_ed25519_verify found, sha256Jni reports nothing: both return NULL.  *)
(***************************************************************************)
OlmUtility_createUtilityJni == Fn(<<Alloc>>, Nothing)
OlmUtility_releaseUtilityJni == ReleaseFn
OlmUtility_verifyEd25519SignatureJni ==
  Quiet(Fn(<<Given("this"), Given("signature"), Given("fingerprint"), Given("message"),
             Pin("signature"), Pin("fingerprint"), Pin("message"), Olm("olm_ed25519_verify")>>,
           [signature |-> "free", fingerprint |-> "free", message |-> "wipeCopy"]),
        {"this", "signature", "fingerprint", "message"})
OlmUtility_sha256Jni ==
  Quiet(Fn(<<Given("this"), Given("message"), Pin("message"), Malloc("hash"), Olm("olm_sha256"),
             Unchecked>>, [message |-> "wipeCopy", hash |-> "free"]),
        {"this", "message", "hash", "olm_sha256"})

=============================================================================
