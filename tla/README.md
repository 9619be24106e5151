# A TLA+ model of libce

libce is a C library for end-to-end encryption: the Olm double ratchet between
two devices, the Megolm ratchet between one sender and a group, and what they
need around them (accounts, pickles, message encoding, verification). This
directory specifies it in TLA+, checks the specifications on small instances
with TLC, and proves theorems about them with TLAPS for every value of the
constants. Paths below are relative to the repository.

## 1. Inventory

The library starts no thread, opens no file and has no clock. Every function
works on an object the application owns and returns. What makes it hard is
outside: the transport loses, repeats and reorders messages, two parties act
concurrently, and the application pickles objects, crashes and restores old ones.

| Component | State it keeps | Operations | What makes it correct |
|---|---|---|---|
| Lists (`include/libce/list.h`) | `length`, `data` | insert (evicts when full), insert in front, erase | never longer than the array; the newest survive |
| Double ratchet (`ratchet.c`) | root key, sender chain, receiver chains (5), skipped message keys (40) | initialise as Alice or Bob, encrypt, decrypt | no replay, forward secrecy, unique keys, recovery from every loss, replies bring in new secrets |
| Session (`session.c`) | identity and base keys, `received_message`, the ratchet | new outbound, new inbound, match, encrypt, decrypt, pickle | each message finds its session; pre-key messages are sent until an answer came; a failed creation leaves nothing usable |
| Account (`account.c`) | identity keys, one-time keys (100), current and previous fallback key, `next_one_time_key_id` | generate, publish, look up, remove, forget, sign, pickle | no published key is lost before it is used, except by the documented limits |
| Dehydrated device (`dehydrated_device.c`) | an account's keys, encrypted | dehydrate, rehydrate | rehydrating gives the same identity, or nothing |
| Megolm ratchet (`megolm.c`) | 4 hash values, 32-bit counter | init, advance, advance to | steps and jumps agree with the document; no way back |
| Outbound group session (`outbound_group_session.c`) | Megolm ratchet, signing key | init, encrypt, session key, pickle | indices and message keys are used once |
| Inbound group session (`inbound_group_session.c`) | initial and latest ratchet, signing key, verified flag | init, import, decrypt, export, pickle, clear | reads exactly the messages from the first known index on; the flag is justified |
| Pickles (`pickle.c`, `pickle_encoding.c`) | none | encode, decode, encrypt, decrypt | round trip; a damaged pickle is refused |
| Message codec (`message.c`) and base64 (`base64.c`) | none | encode, decode | round trip; lengths agree; unknown fields are skipped |
| Public key encryption (`pk.c`) | a key pair or a recipient key | encrypt, decrypt, sign, pickle | the holder of the key, and nobody else, decrypts |
| Short authentication strings (`sas.c`) | own key pair, secret, `their_key_set` | set their key, generate bytes, MAC | both sides agree or notice |
| Public interface (`olm.c`, `error.c`, `utility.c`) | `last_error` of each object | length checks, base64, calls | errors are those of the last call |
| Primitives (`crypto.c`, `cipher.c`), memory (`memory.c`) | none | hashes, HKDF, Curve25519, Ed25519, AES; wipe, compare | taken symbolically, see section 4 |
| Android bindings (`src/android`) | `mNativeId`, a pointer in a Java long | conversions and calls | an object is freed once and not used after |

How they interact: an account creates a session from a pre-key message and one
of its one-time or fallback keys (`session.c` calls `_olm_account_lookup_key`);
the session owns a double ratchet and encodes what it produces with the message
codec; the ratchet calls the cipher; group sessions own a Megolm ratchet each
and share only the session key, which applications send over Olm sessions. There
are no callbacks, and state is shared only inside one object. The Android bindings
keep one native object behind each Java object and call the library through
native functions that pin, copy, allocate and release around each call.

The behaviours that are hard: the order, loss and repetition of messages
against limits on what is remembered; two parties that move the root key on
different events; carries and the wrap of the Megolm counter; objects that are
partly overwritten by a call that then fails; state restored from a pickle.
`PROJECT.json` lists each at its line under "hazards", with the properties that
cover it or the reason why none does.

## 2. Plan

In this order, the most important behaviour first; all are done.

1. `OlmList`, `Ratchet`, `RatchetPair`: the double ratchet over a transport that
   promises nothing, `SecureChannel` as what it implements, and proofs.
2. `Megolm`, `MegolmRatchet`: the group ratchet against its document.
3. `GroupSession`, on `Megolm`: outbound and inbound group sessions.
4. `Account`: one-time keys with eviction, fallback keys, publishing in
   steps, restoring from each pickle version, dehydration.
5. `Session`, `Sessions`, on `Ratchet`: pre-key messages, creation and its error
   paths, matching, both sides opening sessions at once, crashes and old pickles.
6. `Jni`, `JavaApi`, `Bindings`: the native functions of the Android bindings, the
   Java methods around them, and the life cycle of native objects.
7. `Base64`, `Message`, `Pickles`, `Encodings`: the bytes of messages and pickles.

What would come next: the two sides of `sas.c`; outbound group sessions restored from
old pickles, with the rule an application has to follow.

## 3. Modules

`OlmList` has the list operators. A C list is a sequence, `data[i]` its element
i + 1. `_olm_list_insert` at the end of a full list overwrites the last element,
anywhere else it pushes the last one out.

`Ratchet` has `ratchet.c` as operators on the record `_OlmRatchet`:
`AfterEncrypt` and `EncryptedMessage` are `_olm_ratchet_encrypt`, `Decrypts` and
`AfterDecrypt` are `_olm_ratchet_decrypt`, with the search for the receiver
chain, the skipped keys, verification on an existing and on a new chain, the new
root key, the dropped sender chain and the loop that stores skipped keys.

`RatchetPair` has two of them. `Encrypt(p)` and `Decrypt(p, m)` are whole calls;
`sent` is the pool of all messages, from which any may be delivered at any time,
again, or never. A call that is refused only sets `last_error` and is no step.
Random key pairs are numbered per party and never repeat. `SecureChannel` is the
abstract specification: numbered plaintexts go in, each comes out at most once.
`MCRatchetPair` is what TLC runs.

`Megolm` has `megolm.c` as operators on the record `Megolm`, with the number of
parts and the bits of each as parameters. `RehashFrom` is the descending loop
over `rehash_part`, `PartDue` the mask loop of `megolm_advance`, `Steps` and
`AdvancePart` the body of the loop of `megolm_advance_to`. `MegolmRatchet` steps a
sender and lets a receiver jump.

`GroupSession` has an outbound session, an inbound one, and the application
around them. `InitGroupSessionKeys` overwrites ratchets and key before a bad
signature is noticed, as the code does; `AfterDecrypt` moves the latest ratchet
before the MAC is checked. Sharing, importing, exporting, pickling, restoring
(version 1 pickles too) and clearing are actions of their own.

`Account` has an account, the server its keys are uploaded to, and an
application that may crash. `WithOneTimeKeys` is the loop that inserts in front,
`WithFallbackKey`, `WithoutOldFallbackKey`, `WithoutKey`, `MarkedAsPublished` are the
calls of those names; `Pickled` and `Unpickled` are the two sides of a pickle, with
what version 3 did not know and what the pickle leaves alone in the object;
`Dehydrated` and `Rehydrated` the two sides of `dehydrated_device.c`. Uploading takes
three steps: `ReadKeys`, `Upload` on the server, `MarkKeysAsPublished` when the
answer came. `Restart` may happen anywhere. `LooksUp` is the guard of `Accept`, by
which a peer's first message uses a key; creating the session changes nothing in
the account.

`Session` has `session.c` as operators on the record `OlmSession`, on top of
`Ratchet`. `NewInboundSession` stores the keys of the message before it looks for
the one-time key, as the code does, so that a refused creation leaves an object
with keys and no ratchet. `Sessions` runs several session objects on two devices:
creating from both sides, matching, encrypting, decrypting, removing the one-time
key, pickling session and account separately, crashing, deleting. `claimed` is the
server that gives one-time keys away and falls back to the fallback key. A
message of the pool may arrive at any time and again. `MCSessions` adds the symmetry
of the two devices and of the session objects, which differ in nothing but their names.

`Jni` has one definition per native function: its steps in the order of the code
(argument checks, pinned arrays, allocations, library calls, the array returned)
and what it releases in which way at its end. `JavaApi` has one record per public
method: the native function it calls and what it makes of each way to fail.
`Bindings` runs them: `CallMethod`, `Construct` and `ReadObject` start a call, `StepSucceeds`
and `StepFails` take the next step, `Return` releases, `Finish` is the end of the Java
method. Every step that can fail may fail; whether the virtual machine pins an
array or copies it is chosen for each call. Calls do not overlap.

`Base64` and `Message` work on bytes: `EncodeBase64` and `DecodeBase64` on one buffer, so
that their use in place is what is checked, `EncodeMessage` and `DecodeMessage` on the
three kinds of messages, which differ only in the table `Fields`. `Pickles` writes and
reads sessions, accounts, group sessions, decryption keys and dehydrated devices in
every version the code reads; a value of size n is n bytes, each of which
knows its value and its place. `Encodings` writes an object or a message, harms it,
and reads it, pickles also into objects that were used before. `MCEncodings` chooses the
values.

The proofs: `Common_proofs` (induction over the natural numbers and the list
operators), `RatchetPair_proofs` (the double ratchet), `Megolm_proofs` (the operators
of `Megolm`), `MegolmRatchet_proofs`, `GroupSession_proofs`, `Account_proofs`,
`Sessions_proofs`, `Bindings_proofs`.

Operators introduced by a comment "Faulty variant" or "faulty" are not part of the model:
each is a plausible mistake in the definition after it, kept to see that the
property it is listed with in `PROJECT.json` ("mutants") notices it.

## 4. Abstractions

- Keys are symbolic. A root key is the sequence of secrets fed into it, a chain
  key is its root key and an index, a Megolm part is the sequence of parts it
  was hashed through. Equal inputs give equal keys, and different ones different
  keys: collisions and forged MACs are left out, and a MAC verifies exactly under
  the key that made it. "Derivable" and "RatchetComputable" are what hashing
  forward from the keys in an object can reach.
- The chain index of the double ratchet is unbounded in the model and a uint32 in
  the code. It wraps after 2^32 messages in one direction without a reply, which
  no run reaches; nothing is claimed about it. The Megolm counter does wrap.
- Memory: a key is gone when no field holds it. What `memory.c` wipes, or
  leaves on the stack or beyond a list's length, is not modelled.
- Messages are records, except in `Message`, where they are bytes. What the ratchets
  and sessions do with a message and what its bytes mean are checked apart.
- The seal of a pickle or dehydrated device is symbolic: it opens under its key
  only. `Cut` and `Lengthen` therefore stand for what a build with other
  structures, or a faulty one, has sealed.
- `CounterBits` and `LengthBits` are 18 and 22 in the run, 32 and 64 in the code: wide
  enough for varints that fit and varints that overflow within five bytes. Version
  129 of a session stands for 0x80000001. Sizes of pickled values are 1 to 5.
- Native functions: reference counting, local references and the exceptions'
  texts are left out, and a library call either succeeds or fails. `Secrets` does not
  count messages that are signed, hashed or authenticated, nor the arrays of
  `CommonSerializeUtils`, whose pickle key is written to the stream next to the pickle.
- The application: `GroupSession` assumes that it exports at indices the sender
  has reached, and, in `Spec`, initialises an object again only while it is not
  verified. `ReuseSpec` drops the second assumption. `exported` and `pickled` hold
  the last export and the last pickle. `Account` assumes that the application
  stores the account before it reads keys for an upload (without this, a crash
  leaves keys on the server that nobody holds), and restores into a cleared
  object; `ReuseSpec` drops the second. The server keeps what it is given.
  `Sessions` assumes that the application looks for a matching session before it
  creates one, stores a session before it sends what was encrypted with it, and
  stores an account that lost a one-time key only after the session made with it.
  `Bindings` assumes that it makes one call at a time and keeps a Java object until
  it has released it.
- Key ids of an account count without wrapping; the code's are uint32.

## 5. Runs

| Run | Instance | What it shows |
|---|---|---|
| `ratchet_tight` | 2 receiver chains, 2 skipped keys, gap 2, 8 messages together; 368478 states | every eviction and refusal happens, and all safety properties, the inductive invariant and `ImplementsChannel` hold |
| `ratchet_limits` | the limits of the code, 7 messages together; 116654 states | no message is ever lost (`NothingLost`), and all are delivered in the end (`AllDelivered`) |
| `ratchet_dead_skipped_keys` | as `ratchet_tight` | finding: skipped keys outlive their chain |
| `megolm` | 4 parts of 2 bits, 511 steps; 98432 states | stepping and jumping agree with the document; no way back |
| `group_session` | 3 parts of 1 bit, 4 messages; 16814 states | reads exactly the shared history, the sender forgets, the flag is justified |
| `group_session_reuse` | `ReuseSpec`, 1 message | finding: the verified flag survives an import |
| `account` | list of 2 keys, 4 keys generated; 170351 states | ids are unique, uploaded keys answer, a dehydrated account comes back the same |
| `account_reuse` | `ReuseSpec`, 2 keys | finding: the seed survives an unpickling |
| `sessions` | 2 devices with 2 session objects, 1 one-time key and the fallback key each, 2 openings, 3 messages, 1 deletion; 220352 states | every session stays reachable, no message is read twice, no message opens two sessions, no message key is used twice, through crashes and old pickles |
| `bindings` | 2 Java objects, 3 native objects, account and session together, every other class alone; 702990 states | buffers are released, secrets wiped and failures reported, with the exceptions in section 7; inputs are not overwritten, no freed object is used |
| `bindings_verify` | the same | finding: a verification that could not be made passes |
| `encodings` | 3 kinds of messages, 6 kinds of objects in every version; 101767 states | what is written is read back, and what was damaged is refused or harmless |

Why the bounds are enough. In `ratchet_tight` eight messages, shared between the parties in every way, are
enough for either to send on three chains, so that two receiver chains
overflow and an evicted chain is computed anew, to skip three messages on two
chains, so that the list of two skipped keys overflows, and to refuse a gap of
three. In `ratchet_limits` none of the limits 5, 40 and 2000 can be reached with
seven messages, which is what `NothingLost` is about. With 2 bits per part the Megolm
counter has 256 values; 511 steps go through every carry at every level and once
past the wrap. Receiver and sender are less than one full round apart, since
the counters cannot express more. In `group_session` the half range, 2^31 in the
code, is 4: with four messages no index is half the range ahead (section 6 says what
happens with one more). Inbound sessions of different recipients share
nothing, so one stands for all, and `Clear` lets it become another.

In `sessions` the two openings are enough for both devices to open a session at the
same time, and for one device to open two, the second with the fallback key, since
there is one one-time key; the three messages for a pre-key message, an answer and a
message after it, in each direction and on each of the sessions. The ratchets
inside have the limits of the code, which three messages do not reach: the limits
are the subject of `ratchet_tight`. In `bindings` two Java objects and three native
ones are enough for an object to be released and made again, and for a native
object that no Java object points to any more; account and session are together
because creating a session takes both. In `encodings` lists have a capacity of two, so
that they are empty, full and longer than full; pickles are cut at every place
and lengthened, and read into objects that are new or were in use. Messages have
lengths and counters at the boundaries of a varint; what arrives from outside is
every string of up to five bytes over the tags of its kind, an unknown field of
each wire type, and lengths and varints that fit or do not.

`CHECK_DEADLOCK FALSE` is in the configurations of `RatchetPair`, which stops when
both have sent all they may and nothing more is decryptable, and in that of
`Sessions`, whose openings, messages and deletions are bounded as well. The others
never stop.
In `account` the list of two overflows with a third key, three fallback keys can be
generated so that one is lost, and one call may generate more keys than fit; the
properties relate two keys at a time.

Fairness. The library schedules nothing. `FairSpec` says that, for each party,
when there is a message the party could decrypt and has not, some such delivery
happens in the end: a transport that keeps trying. Encryption is not fair:
nobody has to talk. `AllDelivered` therefore says that no order of deliveries
locks a message out, which is the library's part in liveness.

## 6. Proofs

Proved for every capacity, gap and number of messages, from the assumptions that
the two parties differ, the capacities are positive naturals, and the gap and
the bound on messages are naturals:

- `TypeCorrect`: both ratchets stay well formed. Lists fit their arrays, and a
  party without a sender chain has a receiver chain, which
  `_olm_ratchet_encrypt` reads unchecked.
- `Invariance`: `IInv`, the inductive invariant. The safety properties are not
  inductive, because they say nothing about where keys come from. `IInv` adds:
  ratchet keys belong to the party that generated them (`KeysOwned`); Alice's
  chains come from root keys of odd length and Bob's from even ones, and no two
  receiver chains from the same (`ChainsInOrder`); skipped keys are behind their
  chain and different (`SkippedInOrder`); sent messages are on earlier root keys
  or behind the sender chain (`SentInOrder`); received ones are behind the
  receiver chain and not among the skipped (`ReceivedInOrder`); and the two
  parties are level or one is exactly one root key ahead (`Synchronised`).
- `SpecNoReplay`, `SpecMessageKeysUnique`, `SpecForwardSecrecy`,
  `SpecNextMessageDecrypts`: each follows from `IInv` alone. A received message is
  behind its chain, so only a skipped key could decrypt it, and its key is not
  among them; a chain that was evicted would be computed anew from a longer root
  key than the message's. `NextMessageDecrypts` goes through the two cases of
  `Synchronised`.
- `SpecImplementsChannel`: every step is a step of `SecureChannel` or a stutter.
  That `Deliver` happens once per plaintext is `NoReplay` together with
  `plaintext = i` for the i-th message sent.
- `SpecRepliesRatchetForward`: `IInv` orders root keys by length only. `AllOnThePath`
  adds that the chains, skipped keys and received messages of a party all come from
  prefixes of its root key. A party that encrypts either goes on from its root key,
  and then what it received is on chains of the other parity, or appends to it.
- `SpecSkippedKeysAreOwed`: the keys the loop stores are those of real messages
  because a sender numbers without a gap, up to its chain's index (`AllNumbered`).
  That none of them was received and no two are the same is in `IInv`.
- `SpecLostOnlyToLimits`: a message that was not received and does not decrypt was
  lost to one of the three limits. `AllKept` says where what it needs has gone: its
  chain is in the list, or was not needed yet, or as many newer chains as fit have
  been received on; its skipped key is in the list, or as many other keys as fit
  were put in front of it. That a new chain pushes out the oldest, and a new key the
  oldest of its chain, rests on the order inside the two lists, and that the chain
  found for a ratchet key is the message's on names (`Named`): a ratchet key is of
  one chain only. "As many as" is an injection until the last step counts it.
- `SpecNothingLost`, when fewer messages are sent than twice the number of chains, and
  no more than keys are stored and than a gap may be long: then the three limits
  cannot be reached. `Few` bounds counters and the length of root keys by the number
  of messages; chains of one party have lengths of one parity, so that at most half
  as many newer ones fit below that bound. The run `ratchet_limits` is an instance.

The lemmas about what a call does to each field of the ratchet come first in
`RatchetPair_proofs`, then the preservation of each part of `IInv` by each kind of
call, and at last what follows from it.

For Megolm, with any number of parts and any number of bits in each:

- `AdvanceFollowsDocument`: `megolm_advance` takes the ratchet that `docs/megolm.md`
  defines for step n to the one it defines for step n + 1. The part whose bits are
  all zero at n + 1 is the one the mask loop finds; in the documented recurrence it
  is the first part that is not copied.
- `AdvanceToFollowsDocument`: so does the jump of `megolm_advance_to`, by any distance
  less than a full round. After the loop has handled the parts up to h, the ratchet
  is the documented one of the target with all bits below h cleared; that the mask
  of the last part and the edge case of a zero distance (256 steps) agree with this
  is most of the proof.
- `NotComputable`: from the values of later documented ratchets, of any parts and
  taken together, no earlier ratchet is computed: hash values only grow longer
  inside a part, and the part that was due has a new one.
- `SpecSenderFollowsDocument`, `SpecReceiverFollowsDocument`, `SpecNoWayBack`: the
  properties of the run `megolm`, for any number of messages.

For `GroupSession`:

- `TypeCorrect` and `SpecSenderForgets` for any number of messages.
- `Invariance`: every session, in use or pickled, and the last export is either the
  sender's ratchet at an index that was reached, or has no value of the sender's and
  is not verified. `SpecHistoryDecrypts`, `SpecNothingBefore`, `SpecVerifiedIsGenuine`
  and `SpecUseKeepsHistory` follow from it. These four assume `MaxMessages <= HalfRange`,
  the number of messages within which `_get_megolm` can tell later from earlier;
  in the code this is 2^31 messages. The assumption is needed: with `MaxMessages = 5`
  in `GroupSession.cfg`, one more than `HalfRange`, TLC finds `HistoryDecrypts` violated.

For `Account`, from capacities that are positive naturals:

- `TypeCorrect`, `Invariance` and `SpecIdsUnique`. `IdsUnique` speaks of the server
  alone; its `IInv` adds that every id up to the counter in the pickle is settled by
  the pickle, the request and the server together, and that the account, whose
  counter is never behind, disagrees with none of them. A crash goes back to the
  settled part, and storing settles what the account has.
- `SpecUploadedKeysAnswer` needs more than the account as well: `AnswersInv` says the
  same of the pickle, to which a crash goes back, and of the keys on their way, and
  relates the place of each key in the list to its age, so that what falls off has
  enough newer ones.
- `SpecRehydratedIsSame` rests on the seed being the identity's while it is known.

For `Sessions`, with any number of session objects, openings, messages, restarts and
deletions, and lists of any size:

- `OneSession`: a device never has two sessions made by one opening message. A session
  id is made from the keys of that message, so its `IInv` says where base keys come
  from: none is in use before it is generated, and what a pickle holds has the id
  of the session that lives in the same object. An incoming opening is matched
  against all sessions before one is created.
- `KeysUnique` and `TypesCorrect`, from `KeysInv`: in live sessions and in pickles
  alike, whose turn it is to bring the next key shows in the length of the root key
  (odd for the opener), so that no device sends on a chain of the other; what was
  sent on a chain is behind the position of every session that sends on it; and
  no two objects of a device send on one chain. A restart goes back to a pickle
  whose chain is where the messages are, because a session is stored before its
  message leaves.
- `SpecReadOnce`: neither a session, nor another, nor one begun anew, nor one restored
  by a restart that remembers reads a message again. `ReadInv` adds to `KeysInv` that
  the session which read a message is past its key and has not stored it, or was
  deleted. Only a pre-key message can begin a deleted session again; it then has the
  same shared secret, but its second root key contains a ratchet key that did not
  exist before, so that it never comes to a later chain of the old one. That ratchet
  keys are new when they are used is part of `ReadInv` for this reason.
- `SpecAlwaysReachable`: the next message of every session can be read by the peer. The
  property alone is not inductive, for what the peer can read depends on what was
  lost and on what it restored. `ReachInv` has, on top of `KeysInv` and `ReadInv`:
  - `RatchetsReach`: any two sessions of one id on the two devices, live or pickled, are
    in step (`Paired`): one receives on the chain the other sends on, at or before its
    position, and has not answered (`Level`) or has answered on a chain the other does
    not know (`Leads`). Pickles are included because either device may go back
    to its own at any time. No message of a session is ahead of its pickle
    (`Behind`); a device that has heard of a session from its peer finds it in the
    peer's pickles (`Partnered`); the opener has its first chain until then (`FirstOne`);
    and a chain is no longer than the number of messages (`FewOn`).
  - `LettersReach`: a message belongs to a session that its sender can restore or has
    deleted, and the opener's pre-key messages are of its first chain, so that a
    session created from any of them is in step with the opener's.
  - `KeysClaimed` and `KeysKept`: one session uses a one-time key, and the peer
    holds the key, in memory and in its pickle, until it holds the session there.
    That an account is not stored without the key of a session that is not
    stored yet (`NeededKeysLeft`) is what keeps this through restarts.

  All of it is about sessions that neither device has deleted (`Gone`), and `KeysClaimed`
  excepts the fallback key, which many sessions may use and no account gives up. The
  theorem takes `MaxSends <= MAX_MESSAGE_GAP`: when more messages are lost in a row
  than a chain can skip, the code refuses the next one, as the run `ratchet_tight` does
  at its gap of two.

For `Bindings`, with any set of Java objects, any number of native objects and
whichever classes exist together:

- `MethodsGood`: each of the native functions in `Jni` releases what it acquires,
  overwrites what is secret, but for a decrypted pickle, and not the caller's keys,
  and copies an input again before a second library call decodes it (`Sound`); a
  function that makes an object frees it when a later step fails, but for
  `createNewSASJni` (`MakesObject`); and its Java method overwrites the clear text it
  made, when the call failed as well unless it is `encryptMessage`, and where a failure
  without an exception would pass for a success, the steps that fail so are in
  `Unreported` (`GoodMethod`). One step of the proof per function and per method: a
  change to one of them has to be proved again in one place.
- `Invariance`: `IInv` relates a running call to the steps its function has taken:
  what it holds was acquired by one of them, an input it has decoded was not copied
  since, and the object it has made is no Java object's yet. Java objects have
  native objects of their own class and no two the same one, also during a call.
- `SpecBuffersReleased`, `SpecSecretsWiped`, `SpecKeysIntact`, `SpecInputsFresh`,
  `SpecFailureReported` and `SpecNoDangling` follow from `IInv`, the first four with
  `Sound` in the step that returns. `SpecSecretsWiped` needs the end of the Java method
  as well (`ClearTextLeft`). It says that nothing but `StaysBehind` stays, and
  `SpecFailureReported` that no failure but those in `Unreported` looks like a success;
  section 7 lists both.
- `SpecOrphansKnown`, by action: only the end of a Java method takes a native object
  from everybody, when it puts another in its place or when `createNewSASJni` failed.

Induction. The library's induction theorems take an operator as a parameter, which
the installed provers cannot instantiate. `Common_proofs` states induction over the
natural numbers for sets instead, from the well-founded order, and with it the
recursive functions of `Megolm` (weights, the documented recurrence, the loop of
`megolm_advance_to`) are proved to satisfy their equations.

Only model-checked: `AllDelivered`, because fairness is out of the prover's reach, and
everything about encodings, whose decoders are RECURSIVE operators and folds over
bytes, out of the reach of the installed provers.

## 7. Findings

Places where the code does something other than a document or comment says, each
with the run that shows it; `PROJECT.json` quotes the lines.

1. Skipped keys of an evicted receiver chain stay in the list, take up its slots
   and can decode nothing (`ratchet.c:739`, `docs/olm.md:188`).
2. An import into an object that held a verified session keeps the flag
   (`inbound_group_session.c:112`).
3. Unpickling an account leaves the seed of the account that was in the object,
   so that it can be dehydrated after all, with the wrong key (`account.c:601`,
   `olm.h:340`).
4. `verifyEd25519Signature` throws only when `olm_ed25519_verify` has failed: with a
   released `OlmUtility`, or when the virtual machine gives no array, it returns as for
   a valid signature (`olm_utility.c:96`; `OlmUtility.java:77` says "An exception is
   thrown if the operation fails.", and `olm_utility.c:83` "an error message string if
   operation failed").

Two divergences have no run of their own. A message 2^31 or more ahead of a session's
ratchets is refused as one from before the session was shared
(`inbound_group_session.c:327`, against `docs/megolm.md:79-82`); it is outside of what
`group_session` and the theorems of `GroupSession` assume. `messageIndex` of a released
outbound group session is 0, which is an index, and not the exception that
`olm_outbound_group_session.c:199` and `OlmOutboundGroupSession.java:131` announce; the
fourth finding is of the same kind.

Two properties of the bindings hold with exceptions, which they name one by one. These
are what the code does:

- `FailureReported` excepts `Unreported`: `setRecipientKey` and `encrypt` of `OlmPkEncryption`
  and `messageIndex`, each of a released object only (`encrypt` then returns a message
  without content; no comment promises more for the first two), and, in
  `verifyEd25519Signature`, a released object and each of the three arrays.
- `SecretsWiped` excepts `StaysBehind`. `_olm_enc_input` decrypts a pickle where it lies
  (`pickle_encoding.c:64-74`), and each `deserializeJni` releases that array as it is.
  The constructor of `OlmInboundGroupSession` overwrites another array than the one it
  passed on (`OlmInboundGroupSession.java:80-90`). Both `encryptMessage` methods overwrite
  the array of the message only when encryption succeeded.
- `BuffersReleased` and `OrphansKnown` except the object of a failed `createNewSASJni`, and
  `OrphansKnown` the one whose place a successful unpickling takes.

## 8. Not modelled

- The primitives, the wiping of memory on the stack and the vendored AES: bit
  arithmetic and pointers, beyond a model checker. Tests, tracing and build
  files are not part of the program.
- `sas.c`: one flag, which a new key pair resets, around calls of primitives. Its
  native functions and Java methods are in `Jni` and `JavaApi`. Encryption, decryption
  and signing of `pk.c` change no state but `last_error`; its pickles are in `Pickles`.
- `last_error` and the checks of buffer lengths before each call, in the whole
  library. The first is read only where an unpickling function has failed, to report
  `OLM_CORRUPTED_PICKLE` unless an error is set (`olm.c:227`, `olm.c:262`, `pk.c:398`): it
  decides which error is reported and nothing else. The second only return early. Where such a
  return comes after a state change (`session.c`, `account.c`, the unpickling
  functions), it is in the model.
- An outbound group session restored from an old pickle encrypts again under
  indices it has used. The code does nothing about it; it is listed as a hazard.
- Concurrent calls on one object: the library has no locks and leaves this to its
  user.
- The JSON of keys and its signatures, `_olm_session_describe`, and the version
  strings of `OlmManager`: text only.
- Wrapping of the chain index and of key ids, see section 4.
