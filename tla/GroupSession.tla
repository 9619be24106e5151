---------------------------- MODULE GroupSession ----------------------------
(***************************************************************************)
(* A Megolm session: the outbound session of its sender                    *)
(* (src/outbound_group_session.c) and an inbound session of one recipient  *)
(* (src/inbound_group_session.c), which is created from any key the sender *)
(* ever shared, exported, imported elsewhere, pickled and restored, and    *)
(* given the sender's messages in any order, any number of times.          *)
(*                                                                         *)
(* Inbound sessions of different recipients share nothing, so one of them  *)
(* stands for all; it becomes another one's by Clear and Import.           *)
(***************************************************************************)
EXTENDS Megolm

CONSTANTS
    SenderKey,      \* the Ed25519 key pair of the outbound session
    NoKey,          \* the zeroes of a cleared session
    MaxMessages     \* bound: messages the sender encrypts

ASSUME KeysAssumption == SenderKey # NoKey
ASSUME MaxMessagesAssumption == MaxMessages \in Nat

VARIABLES
    outbound,   \* the Megolm of the OlmOutboundGroupSession
    messages,   \* the messages it encrypted, in that order
    inbound,    \* the OlmInboundGroupSession
    pickled,    \* what the recipient last pickled of it
    exported    \* what the recipient last exported from it

vars == <<outbound, messages, inbound, pickled, exported>>

(* Half the counter: 2^31 in _get_megolm.                                  *)
HalfRange == CounterRange \div 2

(* Hash values that have nothing to do with the sender's ratchet.          *)
OtherData == [j \in Part |-> <<MEGOLM_RATCHET_PARTS + j>>]

(* Faulty variant: the flag survives.                                      *)
ClearedButVerified ==
    [initial_ratchet      |-> MegolmInit(OtherData, 0),
     latest_ratchet       |-> MegolmInit(OtherData, 0),
     signing_key          |-> NoKey,
     signing_key_verified |-> TRUE]

Cleared ==
    [initial_ratchet      |-> MegolmInit(OtherData, 0),
     latest_ratchet       |-> MegolmInit(OtherData, 0),
     signing_key          |-> NoKey,
     signing_key_verified |-> FALSE]

-----------------------------------------------------------------------------
(* The sender.                                                             *)

(* Faulty variant: the message is encrypted under the advanced ratchet.    *)
EncryptedMessageLate(ratchet) ==
    [message_index |-> ratchet.counter, key |-> MegolmAdvance(ratchet).data]

EncryptedMessage(ratchet) ==
    [message_index |-> ratchet.counter, key |-> ratchet.data]

(* olm_outbound_group_session_key, signed by the sender; the application   *)
(* may have asked for it before each message, and may ask for it now.      *)
SessionKey(ratchet) ==
    [counter |-> ratchet.counter, data |-> ratchet.data, signed |-> TRUE]

SharedKeys ==
    {[counter |-> messages[i].message_index, data |-> messages[i].key, signed |-> TRUE] :
        i \in DOMAIN messages} \cup {SessionKey(outbound)}

(* A session key that was damaged, and an export somebody made up.         *)
DamagedKey == [counter |-> 0, data |-> OtherData, signed |-> FALSE]
MadeUpExport == [counter |-> 0, data |-> OtherData]

-----------------------------------------------------------------------------
(* The recipient.                                                          *)

(* Faulty variant: the flag is set before the signature is checked.        *)
InitKeysTrusting(session, key, export_format) ==
    [session EXCEPT
        !.initial_ratchet      = MegolmInit(key.data, key.counter),
        !.latest_ratchet       = MegolmInit(key.data, key.counter),
        !.signing_key          = SenderKey,
        !.signing_key_verified = @ \/ ~export_format]

(* The ratchets and the key are taken over before the signature is         *)
(* checked; the flag is set when a signature is there and right, and never *)
(* reset.                                                                  *)
InitGroupSessionKeys(session, key, export_format) ==
    [session EXCEPT
        !.initial_ratchet      = MegolmInit(key.data, key.counter),
        !.latest_ratchet       = MegolmInit(key.data, key.counter),
        !.signing_key          = SenderKey,
        !.signing_key_verified = @ \/ (~export_format /\ key.signed)]

(* The distance from a counter to a later one, modulo 2^32.                *)
Ahead(index, counter) == (index - counter) % CounterRange

AtLatest(session, message_index) ==
    Ahead(message_index, session.latest_ratchet.counter) < HalfRange

KnowsIndex(session, message_index) ==
    \/ AtLatest(session, message_index)
    \/ Ahead(message_index, session.initial_ratchet.counter) < HalfRange

(* Faulty variant: every message is looked up from the latest ratchet.     *)
GetMegolmLatest(session, message_index) ==
    MegolmAdvanceTo(session.latest_ratchet, message_index)

GetMegolm(session, message_index) ==
    MegolmAdvanceTo(IF AtLatest(session, message_index)
                      THEN session.latest_ratchet
                      ELSE session.initial_ratchet, message_index)

(* Faulty variant: the initial ratchet is advanced along.                  *)
AfterGetMegolmBoth(session, message_index) ==
    IF AtLatest(session, message_index)
      THEN [session EXCEPT !.latest_ratchet  = GetMegolm(session, message_index),
                           !.initial_ratchet = GetMegolm(session, message_index)]
      ELSE session

(* Only the latest ratchet moves; the initial one is copied.               *)
AfterGetMegolm(session, message_index) ==
    IF AtLatest(session, message_index)
      THEN [session EXCEPT !.latest_ratchet = GetMegolm(session, message_index)]
      ELSE session

(* The MAC verifies under the ratchet value the message was encrypted with.*)
Verifies(session, message) ==
    GetMegolm(session, message.message_index).data = message.key

(* Does olm_group_decrypt return a plaintext?                              *)
Decrypts(session, message) ==
    /\ session.signing_key = SenderKey
    /\ KnowsIndex(session, message.message_index)
    /\ Verifies(session, message)

(* The session after olm_group_decrypt, which moves the latest ratchet     *)
(* before it looks at the MAC.                                             *)
AfterDecrypt(session, message) ==
    IF session.signing_key = SenderKey /\ KnowsIndex(session, message.message_index)
      THEN [AfterGetMegolm(session, message.message_index) EXCEPT
              !.signing_key_verified = @ \/ Verifies(session, message)]
      ELSE session

(* Sessions pickled by version 1 of the format all had signed keys.        *)
Unpickled(version, session) ==
    [session EXCEPT !.signing_key_verified = @ \/ version = 1]

-----------------------------------------------------------------------------
Init ==
    /\ outbound = MegolmInit(RandomData, 0)
    /\ messages = <<>>
    /\ inbound = Cleared
    /\ pickled = Cleared
    /\ exported = MadeUpExport

GroupEncrypt ==
    /\ Len(messages) < MaxMessages
    /\ messages' = Append(messages, EncryptedMessage(outbound))
    /\ outbound' = MegolmAdvance(outbound)
    /\ UNCHANGED <<inbound, pickled, exported>>

InitInbound(key) ==
    /\ inbound' = InitGroupSessionKeys(inbound, key, FALSE)
    /\ UNCHANGED <<outbound, messages, pickled, exported>>

Import(key) ==
    /\ inbound' = InitGroupSessionKeys(inbound, key, TRUE)
    /\ UNCHANGED <<outbound, messages, pickled, exported>>

GroupDecrypt(message) ==
    /\ inbound' = AfterDecrypt(inbound, message)
    /\ UNCHANGED <<outbound, messages, pickled, exported>>

Export(message_index) ==
    /\ inbound.signing_key = SenderKey
    /\ KnowsIndex(inbound, message_index)
    /\ exported' = [counter |-> message_index,
                    data    |-> GetMegolm(inbound, message_index).data]
    /\ inbound' = AfterGetMegolm(inbound, message_index)
    /\ UNCHANGED <<outbound, messages, pickled>>

Clear ==
    /\ inbound' = Cleared
    /\ UNCHANGED <<outbound, messages, pickled, exported>>

Pickle ==
    /\ inbound.signing_key = SenderKey
    /\ pickled' = inbound
    /\ UNCHANGED <<outbound, messages, inbound, exported>>

(* After a restart, or whenever the application wants to.                  *)
Unpickle(version) ==
    /\ pickled.signing_key = SenderKey
    /\ version = 1 => pickled.signing_key_verified
    /\ inbound' = Unpickled(version, pickled)
    /\ UNCHANGED <<outbound, messages, pickled, exported>>

(* What happens to a session that has its keys.  The application exports   *)
(* at indices up to the sender's.                                          *)
Use ==
    \/ \E i \in DOMAIN messages : GroupDecrypt(messages[i])
    \/ \E i \in 0 .. Len(messages) : Export(i % CounterRange)

(* An application that initialises an object again only when that failed   *)
(* or gave it keys it has no reason to trust.                              *)
Next ==
    \/ GroupEncrypt
    \/ ~inbound.signing_key_verified /\
         \E key \in SharedKeys \cup {DamagedKey} : InitInbound(key)
    \/ ~inbound.signing_key_verified /\
         \E key \in {exported, MadeUpExport} : Import(key)
    \/ Use
    \/ Clear
    \/ Pickle
    \/ \E version \in 1 .. 2 : Unpickle(version)

Spec == Init /\ [][Next]_vars

(* An application that may import into any object, as the header allows.   *)
ReuseNext == Next \/ \E key \in {exported, MadeUpExport} : Import(key)

ReuseSpec == Init /\ [][ReuseNext]_vars

-----------------------------------------------------------------------------
HashValue == Seq(0 .. 2 * MEGOLM_RATCHET_PARTS)
MegolmState == [counter : Counter, data : [Part -> HashValue]]
InboundGroupSession ==
    [initial_ratchet      : MegolmState,
     latest_ratchet       : MegolmState,
     signing_key          : {SenderKey, NoKey},
     signing_key_verified : BOOLEAN]

(* Type invariant; a session without its key was never verified.           *)
TypeOK ==
    /\ outbound \in MegolmState
    /\ messages \in Seq([message_index : Counter, key : [Part -> HashValue]])
    /\ inbound \in InboundGroupSession
    /\ pickled \in InboundGroupSession
    /\ exported \in MegolmState
    /\ inbound.signing_key = NoKey => ~inbound.signing_key_verified

(* The session holds a ratchet value of the sender: the flag would be      *)
(* justified.                                                              *)
Genuine(session) ==
    \E key \in SharedKeys :
        session.initial_ratchet = MegolmInit(key.data, key.counter)

(* A recipient can decrypt everything from the first index it was given on *)
(* (docs/megolm.md:79-82), whatever it decrypted, refused, exported or     *)
(* restored before, in whatever order.                                     *)
HistoryDecrypts ==
    Genuine(inbound) /\ inbound.signing_key = SenderKey =>
        \A i \in DOMAIN messages :
            i - 1 >= inbound.initial_ratchet.counter => Decrypts(inbound, messages[i])

(* A recipient can decrypt nothing from before its first known index, and  *)
(* the ratchet values it remembers, taken together, do not allow anybody   *)
(* to compute the key of an earlier message.                               *)
NothingBefore ==
    \A i \in DOMAIN messages :
        i - 1 < inbound.initial_ratchet.counter =>
            /\ ~Decrypts(inbound, messages[i])
            /\ ~RatchetComputable(Range(inbound.initial_ratchet.data) \cup
                                  Range(inbound.latest_ratchet.data),
                                  messages[i].key)

(* The sender itself cannot compute the key of a message it has encrypted. *)
SenderForgets ==
    \A i \in DOMAIN messages :
        ~RatchetComputable(Range(outbound.data), messages[i].key)

(* The flag signing_key_verified says that the ratchets are the sender's:  *)
(* a damaged key, a made-up export, a failed message or a restored pickle  *)
(* does not set it.                                                        *)
VerifiedIsGenuine == inbound.signing_key_verified => Genuine(inbound)

(* Neither decrypting, whether or not it succeeds, nor exporting takes     *)
(* away a message that could be decrypted before.                          *)
UseKeepsHistory ==
    [][Use => \A i \in DOMAIN messages :
                 Decrypts(inbound, messages[i]) => Decrypts(inbound', messages[i])]_vars
=============================================================================
