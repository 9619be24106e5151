----------------------------- MODULE Bindings -----------------------------
(***************************************************************************)
(* The Android bindings at work.  An application makes Java objects, calls *)
(* their methods one at a time and releases them; every call runs the      *)
(* steps of its native function as Jni lists them, any of which may fail,  *)
(* then what the native function releases, then the Java method's own end  *)
(* as JavaApi describes it.  A Java object refers to its native object by  *)
(* mNativeId, which is 0 when it has none.                                 *)
(***************************************************************************)
EXTENDS JavaApi, Integers, SequencesExt

CONSTANTS JavaObjects, MaxNative,
          Together     \* the classes of which objects exist at the same time

VARIABLES objects,     \* class and mNativeId of every Java object
          heap,        \* class of every native object
          call         \* the call in progress, or the last one

vars == <<objects, heap, call>>

NativeIds == 1..MaxNative
Classes == DOMAIN Api

ASSUME BindingsAssumption ==
  /\ MaxNative \in Nat
  /\ Together \subseteq Classes
  /\ JavaObjects # {}

NoObject == [class |-> "none", id |-> 0]
Idle == [stage |-> "idle"]

(* Buffers that hold secrets.  A pickle does once it is decrypted.         *)
(* Messages that are signed, hashed or authenticated are not counted.      *)
Secrets == {"random", "key", "clear", "plaintext", "sessionKey", "exported", "privateKey", "seed",
            "pickled"}

(* Those of them that a method keeps in an array of its own, too, which it *)
(* made from the caller's string or makes a string of.                     *)
ClearText == {"clear", "plaintext", "sessionKey", "exported"}

Init ==
  /\ objects = [o \in JavaObjects |-> NoObject]
  /\ heap = [n \in NativeIds |-> "free"]
  /\ call = Idle

Running(stage) == call.stage = stage
M == Api[call.class][call.method]
Step == M.fn.steps[call.pc]
Free == {n \in NativeIds : heap[n] = "free"}
Pinned == {s[2] : s \in {t \in ToSet(M.fn.steps) : t[1] = "pin"}}
Calls(class, method, o, arg, copied) ==
  [stage |-> "native", class |-> class, method |-> method, obj |-> o, arg |-> arg, copied |-> copied,
   pc |-> 1, self |-> 0, held |-> {}, used |-> {}, stale |-> FALSE, failed |-> "none",
   raised |-> FALSE, left |-> {}, unwiped |-> {}, spoiled |-> {}, outcome |-> "none"]

(***************************************************************************)
(* The application calls a method.  Arguments of class OlmAccount and      *)
(* OlmSession are other objects; getOlmAccountId and getOlmSessionId read  *)
(* their mNativeId.  copied: whether the virtual machine copies the arrays *)
(* that are pinned.                                                        *)
(***************************************************************************)
Partners(fn) == {c \in {"OlmAccount", "OlmSession"} : Given(c) \in ToSet(fn.steps)}
Arguments(fn, o) ==
  IF Partners(fn) = {} THEN {o}
  ELSE {p \in JavaObjects : objects[p].class \in Partners(fn)}

CallMethod(o) ==
  /\ Running("idle")
  /\ objects[o].class \in Classes
  /\ \E m \in DOMAIN Api[objects[o].class] :
       LET method == Api[objects[o].class][m] IN
       /\ method.kind \in {"use", "release", "load"}
       /\ method.kind = "release" => objects[o].id # 0
       /\ \E p \in Arguments(method.fn, o), copied \in BOOLEAN :
            call' = Calls(objects[o].class, m, o, p, copied)
  /\ UNCHANGED <<objects, heap>>

MayExist(o, c) ==
  \A p \in JavaObjects \ {o} :
    objects[p].class = "none" \/ {c, objects[p].class} \subseteq Together

Construct(o) ==
  /\ Running("idle")
  /\ objects[o] = NoObject
  /\ \E c \in Classes : \E m \in DOMAIN Api[c] : \E copied \in BOOLEAN :
       /\ Api[c][m].kind = "new"
       /\ MayExist(o, c)
       /\ objects' = [objects EXCEPT ![o].class = c]
       /\ call' = Calls(c, m, o, o, copied)
  /\ UNCHANGED heap

(* readObject fills an object that no constructor of the class has made.   *)
ReadObject(o) ==
  /\ Running("idle")
  /\ objects[o] = NoObject
  /\ \E c \in Classes : \E m \in DOMAIN Api[c] : \E copied \in BOOLEAN :
       /\ Api[c][m].kind = "load"
       /\ MayExist(o, c)
       /\ objects' = [objects EXCEPT ![o].class = c]
       /\ call' = Calls(c, m, o, o, copied)
  /\ UNCHANGED heap

(***************************************************************************)
(* The native function.                                                    *)
(***************************************************************************)
(* getXInstanceId reads mNativeId of the object on which a method is       *)
(* called.                                                                 *)
InstanceId(x) ==
  IF x = "this" THEN objects[call.obj].id ELSE objects[call.arg].id
IsInstance(x) == x \in {"this", "OlmAccount", "OlmSession"}

CanSucceed(s) ==
  /\ s[1] = "given" /\ IsInstance(s[2]) => InstanceId(s[2]) # 0
  /\ s = Alloc => Free # {}
CanFail(s) ==
  CASE s[1] = "given" -> IF IsInstance(s[2]) THEN InstanceId(s[2]) = 0 ELSE s[2] \in M.nullable
    [] s[1] \in {"copy", "ask", "clear", "store"} -> FALSE
    [] OTHER -> TRUE

AtStep == Running("native") /\ call.pc <= Len(M.fn.steps)

StepSucceeds ==
  /\ AtStep
  /\ CanSucceed(Step)
  /\ LET kind == Step[1]
         x == Step[2]
         eaten == IF kind = "call" THEN Consumes(x) ELSE {}
         id == IF Step = Alloc THEN CHOOSE n \in Free : \A k \in Free : n <= k ELSE call.self IN
     /\ call' = [call EXCEPT !.pc = @ + 1,
                             !.self = id,
                             !.held = IF kind \in {"pin", "malloc"} THEN @ \cup {x} ELSE @,
                             !.used = IF kind = "copy" THEN @ \ {x} ELSE @ \cup eaten,
                             !.stale = @ \/ call.used \cap eaten # {}]
     /\ heap' = IF Step = Alloc THEN [heap EXCEPT ![id] = call.class]
                ELSE IF kind = "clear" THEN [heap EXCEPT ![objects[call.obj].id] = "free"]
                ELSE heap
  /\ UNCHANGED objects

(* A library function that fails may have decoded its input before.        *)
StepFails ==
  /\ AtStep
  /\ CanFail(Step)
  /\ LET eaten == IF Step[1] = "call" THEN Consumes(Step[2]) ELSE {} IN
     call' = [call EXCEPT !.stage = "release",
                          !.failed = Step[2],
                          !.used = @ \cup eaten,
                          !.stale = @ \/ call.used \cap eaten # {}]
  /\ UNCHANGED <<objects, heap>>

(* NewByteArray returns NULL and SetByteArrayRegion is called all the same: *)
(* the virtual machine aborts the process.                                  *)
Abort ==
  /\ AtStep
  /\ Step[1] = "store"
  /\ objects' = [o \in JavaObjects |-> NoObject]
  /\ heap' = [n \in NativeIds |-> "free"]
  /\ call' = Idle

StepsDone ==
  /\ Running("native")
  /\ call.pc > Len(M.fn.steps)
  /\ call' = [call EXCEPT !.stage = "release"]
  /\ UNCHANGED <<objects, heap>>

Failed == call.failed # "none"

(* _olm_enc_input decrypts a pickle where it lies; a session is written    *)
(* into the buffer by an export that succeeds.                             *)
Holds(x) ==
  CASE x = "pickled" -> x \in call.used
    [] x = "exported" -> ~Failed
    [] OTHER -> TRUE

Overwritten(mode) ==
  \/ mode \in {"wipe", "wipeCopy"}
  \/ mode = "wipeOnSuccess" /\ ~Failed

Return ==
  /\ Running("release")
  /\ LET release == M.fn.release
         released == call.held \cap DOMAIN release
         handed == IF Failed THEN {} ELSE {"self"} IN
     /\ call' = [call EXCEPT
          !.stage = "java",
          !.raised = Failed /\ call.failed \notin M.fn.quiet,
          !.left = (call.held \ DOMAIN release) \ handed,
          !.unwiped = {<<"native", x>> : x \in {y \in released \cap Secrets :
                                                Holds(y) /\ ~Overwritten(release[y])}},
          !.spoiled = {x \in call.held \cap Pinned \cap M.owned :
                         ~call.copied /\ (x \in call.used \/ release[x] = "wipe")}]
     /\ heap' = IF Failed /\ "self" \in released /\ release["self"] = "onError"
                THEN [heap EXCEPT ![call.self] = "free"] ELSE heap
  /\ UNCHANGED objects

(***************************************************************************)
(* The Java method ends.                                                   *)
(***************************************************************************)
(* releaseSession(), releaseAccount(), ... *)
Released(o) ==
  /\ objects' = [objects EXCEPT ![o].id = 0]
  /\ heap' = IF objects[o].id = 0 THEN heap ELSE [heap EXCEPT ![objects[o].id] = "free"]

(* faulty: a failed deserialize leaves the object as it was, but frees     *)
(* what it refers to *)
ReleasedNotCleared(o) ==
  /\ heap' = IF objects[o].id = 0 THEN heap ELSE [heap EXCEPT ![objects[o].id] = "free"]
  /\ UNCHANGED objects

(* faulty: a failed deserialize forgets the object without freeing it *)
DeserializeFailedDropping(o) ==
  /\ objects' = [objects EXCEPT ![o].id = 0]
  /\ UNCHANGED heap

DeserializeFailed(o) == Released(o)

Outcome ==
  CASE ~Failed -> "value"
    [] Failed /\ call.raised -> M.caught
    [] OTHER -> M.null

(* The arrays of clear text the method has made: those it passes, whatever *)
(* happens, and those that came back.                                      *)
Made == {x \in ClearText : x \in Pinned \/ (~Failed /\ x \in call.held)}
Cleared == IF Failed THEN M.finally ELSE M.clears

Finish ==
  /\ Running("java")
  /\ call' = [call EXCEPT !.stage = "done", !.outcome = Outcome,
                          !.unwiped = @ \cup {<<"java", x>> : x \in Made \ Cleared}]
  /\ CASE M.kind \in {"new", "load"} /\ ~Failed ->
            objects' = [objects EXCEPT ![call.obj].id = call.self] /\ UNCHANGED heap
       [] M.kind = "new" /\ Failed ->
            objects' = [objects EXCEPT ![call.obj] = NoObject] /\ UNCHANGED heap
       [] M.kind = "load" /\ Failed -> DeserializeFailed(call.obj)
       [] M.kind = "release" ->
            objects' = [objects EXCEPT ![call.obj].id = 0] /\ UNCHANGED heap
       [] OTHER -> UNCHANGED <<objects, heap>>

(* Arguments that the method itself refuses. *)
Refuse(o) ==
  /\ Running("idle")
  /\ objects[o].class \in Classes
  /\ \E m \in DOMAIN Api[objects[o].class] :
       LET method == Api[objects[o].class][m] IN
       /\ method.bad # "none"
       /\ call' = [Calls(objects[o].class, m, o, o, FALSE)
                     EXCEPT !.stage = "done", !.outcome = method.bad]
       /\ IF method.kind = "load" THEN DeserializeFailed(o) ELSE UNCHANGED <<objects, heap>>

Continue ==
  /\ Running("done")
  /\ call' = Idle
  /\ UNCHANGED <<objects, heap>>

(* The application keeps an object until it has released it.               *)
Collect(o) ==
  /\ Running("idle")
  /\ objects[o] # NoObject
  /\ objects[o].id = 0
  /\ objects' = [objects EXCEPT ![o] = NoObject]
  /\ UNCHANGED <<heap, call>>

Next ==
  \/ \E o \in JavaObjects :
       CallMethod(o) \/ Construct(o) \/ ReadObject(o) \/ Refuse(o) \/ Collect(o)
  \/ StepSucceeds \/ StepFails \/ Abort \/ StepsDone \/ Return \/ Finish \/ Continue

Spec == Init /\ [][Next]_vars

(***************************************************************************)
(* Properties.                                                             *)
(***************************************************************************)
(* Whatever step of a native function fails, what the function allocated   *)
(* or pinned before has been released when it returns, but for the memory  *)
(* of a failed createNewSASJni.                                            *)
BuffersReleased == Running("done") => call.left \subseteq {"self"}

(* What stays behind: the pickle that deserializeJni has decrypted in      *)
(* place; the array of the session key, of which the constructor of        *)
(* OlmInboundGroupSession overwrites another one; the message that the two *)
(* methods encryptMessage do not overwrite when encryption fails.          *)
StaysBehind(left) ==
  \/ left = <<"native", "pickled">> /\ M.kind = "load"
  \/ left = <<"java", "sessionKey">> /\ M.kind = "new" /\ call.class = "OlmInboundGroupSession"
  \/ left = <<"java", "clear">> /\ call.method = "encryptMessage" /\ Failed

(* Whatever step of a call fails, random values, pickle keys, private      *)
(* keys, seeds and clear text are overwritten in the memory the native     *)
(* function frees and in the arrays the Java method made, but for these.   *)
SecretsWiped == Running("done") => \A left \in call.unwiped : StaysBehind(left)

(* Wiping stops at the caller's arrays: where the virtual machine pins the *)
(* caller's own array instead of a copy, a key or seed that was passed to  *)
(* a call can be used for the next one.                                    *)
KeysIntact == Running("done") => call.spoiled \cap {"key", "nonce", "privateKey", "seed"} = {}

(* No library function is given a message, pickle or key that an earlier   *)
(* function of the same call has decoded in place.                         *)
InputsFresh == ~Running("idle") => ~call.stale

(* The steps whose failure shows nowhere: three methods of an object that  *)
(* was released, and every step of a verification but olm_ed25519_verify.  *)
Unreported ==
  ({"setRecipientKey", "encrypt", "messageIndex"} \X {"this"})
    \cup ({"verifyEd25519Signature"} \X {"this", "signature", "fingerprint", "message"})

(* A method that failed at any other step does not look as if it had       *)
(* succeeded.                                                              *)
FailureReported ==
  Running("done") /\ Failed /\ call.outcome = "value" => <<call.method, call.failed>> \in Unreported

(* "An exception is thrown if the operation fails." (OlmUtility.java:77)   *)
(* Of a verification that could not be made, too.                          *)
VerificationReported ==
  Running("done") /\ Failed /\ call.method = "verifyEd25519Signature" => call.outcome = "OlmException"

(* A Java object that has a native object has a live one of its own class  *)
(* that no other Java object has: no call works on freed memory, and none  *)
(* is freed twice, through failed constructors, failed and successful      *)
(* unpickling over a live object, and releases.                            *)
NoDangling ==
  Running("idle") \/ Running("done") =>
    \A o \in JavaObjects : objects[o].id # 0 =>
      /\ heap[objects[o].id] = objects[o].class
      /\ \A p \in JavaObjects \ {o} : objects[p].id # objects[o].id

(* Native objects that nothing refers to: the application cannot release   *)
(* them any more.                                                          *)
Orphans ==
  {n \in NativeIds :
     /\ heap[n] # "free"
     /\ \A o \in JavaObjects : objects[o].id # n
     /\ Running("idle") \/ Running("done") \/ call.self # n}

(* A native object is lost to the application in two ways only: when an    *)
(* object that had it is unpickled, and when the constructor of OlmSAS     *)
(* fails.                                                                  *)
OrphansKnown ==
  [][\A n \in Orphans' \ Orphans :
       /\ Running("java")
       /\ \/ M.kind = "load" /\ ~Failed /\ objects[call.obj].id = n
          \/ M.kind = "new" /\ Failed /\ call.class = "OlmSAS"]_vars
=============================================================================
