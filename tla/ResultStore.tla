----------------------------- MODULE ResultStore ----------------------------
(***************************************************************************)
(* Registration of a verified result bundle in OrchestrationContentStoreV1 *)
(* (kirby2/orchestration/content_store.py), driven by                      *)
(* _register_idempotently (recovery.py): make a private stage, stage the   *)
(* artifacts, then under the lock of the runs area move them into the      *)
(* object store, remove the stage, and rename the manifest into place as   *)
(* the last step.  Every system call whose effect another process or a     *)
(* crash can meet is a step of its own.                                    *)
(*                                                                         *)
(* Content addresses are the content: an artifact is its digest, a bundle  *)
(* is its manifest's.  A stage is named by a fresh nonce, so each call has *)
(* its own; a retry is another call, by the same process or by another.    *)
(***************************************************************************)
EXTENDS Integers, FiniteSets

CONSTANTS
    Call,          \* calls of _register_idempotently
    Bundle,        \* result manifests
    Artifact,      \* artifact digests
    ArtifactsOf,   \* the artifacts each manifest names; bundles may share some
    None

ASSUME BundleAssumption ==
    /\ ArtifactsOf \in [Bundle -> SUBSET Artifact]
    /\ \A b \in Bundle : ArtifactsOf[b] # {}
ASSUME NoneAssumption == None \notin Bundle \cup Call

VARIABLES
    objects,       \* artifacts in the object store
    manifests,     \* manifests in the manifest store
    temps,         \* calls whose temporary manifest is on the disk
    stages,        \* each call's stage directory; "bare" without its objects/
    files,         \* artifacts in each call's stage
    lock,          \* holder of the lock of the runs area, or None
    proc           \* where each call is

store == <<objects, manifests>>
vars == <<objects, manifests, temps, stages, files, lock, proc>>

Beginning == {"mkstage", "mkobjects"}
Registering == {"stage", "lock", "verify", "move", "rmobjects", "rmstage", "publish", "return"}
Discarding == {"discard", "unlink", "discard_objects", "discard_stage"}
Running == Beginning \cup Registering \cup Discarding \cup {"confirm"}
Ended == {"registered", "raised", "refused", "unconfirmed", "killed"}

ProcState ==
    [pc     : {"new"} \cup Running \cup Ended,
     bundle : Bundle \cup {None},
     left   : SUBSET Artifact,           \* artifacts still to stage or to move
     known  : BOOLEAN]                   \* the manifest was already registered

Init ==
    /\ objects = {}
    /\ manifests = {}
    /\ temps = {}
    /\ stages = [c \in Call |-> "absent"]
    /\ files = [c \in Call |-> {}]
    /\ lock = None
    /\ proc = [c \in Call |-> [pc |-> "new", bundle |-> None, left |-> {}, known |-> FALSE]]

Needed(c) == ArtifactsOf[proc[c].bundle]

\* From one point of the program to the next.
Go(c, from, to) == proc[c].pc = from /\ proc' = [proc EXCEPT ![c].pc = to]

Stage(c, directory) == stages' = [stages EXCEPT ![c] = directory]

-----------------------------------------------------------------------------
(***************************************************************************)
(* begin_result_attempt and stage_result_artifact                          *)
(***************************************************************************)

Begin(c, b) ==
    /\ proc[c].pc = "new"
    /\ proc' = [proc EXCEPT ![c] = [pc |-> "mkstage", bundle |-> b,
                                    left |-> ArtifactsOf[b], known |-> FALSE]]
    /\ UNCHANGED <<store, temps, stages, files, lock>>

MakeStage(c) ==
    /\ Go(c, "mkstage", "mkobjects")
    /\ Stage(c, "bare")
    /\ UNCHANGED <<store, temps, files, lock>>

MakeObjects(c) ==
    /\ Go(c, "mkobjects", "stage")
    /\ Stage(c, "full")
    /\ UNCHANGED <<store, temps, files, lock>>

StageArtifact(c, a) ==
    /\ proc[c].pc = "stage"
    /\ a \in proc[c].left
    /\ files' = [files EXCEPT ![c] = @ \cup {a}]
    /\ proc' = [proc EXCEPT ![c].left = @ \ {a},
                            ![c].pc = IF proc[c].left = {a} THEN "lock" ELSE "stage"]
    /\ UNCHANGED <<store, temps, stages, lock>>

-----------------------------------------------------------------------------
(***************************************************************************)
(* register_result_bundle                                                  *)
(***************************************************************************)

\* Faulty variant: no exclusion.
LaxLock(c) ==
    /\ Go(c, "lock", "verify")
    /\ lock' = c
    /\ UNCHANGED <<store, temps, stages, files>>

Lock(c) ==
    /\ lock = None
    /\ Go(c, "lock", "verify")
    /\ lock' = c
    /\ UNCHANGED <<store, temps, stages, files>>

\* Faulty variant: the manifest is renamed before its artifacts are moved.
EagerVerify(c) ==
    /\ proc[c].pc = "verify"
    /\ files[c] = Needed(c)
    /\ proc' = [proc EXCEPT ![c].pc = "move", ![c].left = Needed(c)]
    /\ manifests' = manifests \cup {proc[c].bundle}
    /\ UNCHANGED <<objects, temps, stages, files, lock>>

\* The stage must hold exactly the artifacts of the manifest.  A manifest that
\* is there already is refused, and the stage discarded before it is confirmed.
Verify(c) ==
    /\ proc[c].pc = "verify"
    /\ files[c] = Needed(c)
    /\ \/ /\ proc[c].bundle \in manifests
          /\ proc' = [proc EXCEPT ![c].pc = "discard", ![c].known = TRUE]
          /\ lock' = None
          /\ UNCHANGED temps
       \/ /\ proc[c].bundle \notin manifests
          /\ proc' = [proc EXCEPT ![c].pc = "move", ![c].left = Needed(c)]
          /\ temps' = temps \cup {c}
          /\ UNCHANGED lock
    /\ UNCHANGED <<store, stages, files>>

\* Renamed into the object store; only unlinked when the object exists.
Move(c, a) ==
    /\ proc[c].pc = "move"
    /\ a \in proc[c].left
    /\ objects' = objects \cup {a}
    /\ files' = [files EXCEPT ![c] = @ \ {a}]
    /\ proc' = [proc EXCEPT ![c].left = @ \ {a},
                            ![c].pc = IF proc[c].left = {a} THEN "rmobjects" ELSE "move"]
    /\ UNCHANGED <<manifests, temps, stages, lock>>

\* Faulty variant: the stage directory itself is forgotten.
SloppyRemoveObjects(c) ==
    /\ Go(c, "rmobjects", "publish")
    /\ files[c] = {}
    /\ Stage(c, "bare")
    /\ UNCHANGED <<store, temps, files, lock>>

RemoveObjects(c) ==
    /\ Go(c, "rmobjects", "rmstage")
    /\ files[c] = {}
    /\ Stage(c, "bare")
    /\ UNCHANGED <<store, temps, files, lock>>

\* Faulty variant: success is reported without the rename.
SkippingRemoveStage(c) ==
    /\ Go(c, "rmstage", "return")
    /\ Stage(c, "absent")
    /\ UNCHANGED <<store, temps, files, lock>>

RemoveStage(c) ==
    /\ Go(c, "rmstage", "publish")
    /\ Stage(c, "absent")
    /\ UNCHANGED <<store, temps, files, lock>>

\* The rename of the temporary manifest is the only registration point.
Publish(c) ==
    /\ Go(c, "publish", "return")
    /\ manifests' = manifests \cup {proc[c].bundle}
    /\ temps' = temps \ {c}
    /\ UNCHANGED <<objects, stages, files, lock>>

Return(c) ==
    /\ Go(c, "return", "registered")
    /\ lock' = None
    /\ UNCHANGED <<store, temps, stages, files>>

-----------------------------------------------------------------------------
(***************************************************************************)
(* discard_result_attempt, and the end of _register_idempotently           *)
(***************************************************************************)

\* Where the caller goes when the stage is discarded, or was not found: on to
\* the manifest that was there already, or to the error it is handling.
AfterDiscard(c) == IF proc[c].known THEN "confirm" ELSE "raised"

\* Without its object directory the attempt counts as not found.
Discard(c) ==
    /\ Go(c, "discard", IF stages[c] # "full" THEN AfterDiscard(c)
                        ELSE IF files[c] = {} THEN "discard_objects"
                        ELSE "unlink")
    /\ UNCHANGED <<store, temps, stages, files, lock>>

Unlink(c, a) ==
    /\ a \in files[c]
    /\ Go(c, "unlink", IF files[c] = {a} THEN "discard_objects" ELSE "unlink")
    /\ files' = [files EXCEPT ![c] = @ \ {a}]
    /\ UNCHANGED <<store, temps, stages, lock>>

DiscardObjects(c) ==
    /\ Go(c, "discard_objects", "discard_stage")
    /\ Stage(c, "bare")
    /\ UNCHANGED <<store, temps, files, lock>>

DiscardStage(c) ==
    /\ Go(c, "discard_stage", AfterDiscard(c))
    /\ Stage(c, "absent")
    /\ UNCHANGED <<store, temps, files, lock>>

Confirm(c) ==
    /\ proc[c].bundle \in manifests
    /\ Go(c, "confirm", "registered")
    /\ UNCHANGED <<store, temps, stages, files, lock>>

-----------------------------------------------------------------------------
(***************************************************************************)
(* Failures                                                                *)
(***************************************************************************)

\* begin_result_attempt raises: nothing is discarded.
BeginFails(c) ==
    /\ \E from \in Beginning : Go(c, from, "refused")
    /\ UNCHANGED <<store, temps, stages, files, lock>>

Released(c) == IF lock = c THEN None ELSE lock

\* An I/O error while staging or registering: the temporary manifest is
\* unlinked, the lock released, and the stage discarded.
Fails(c) ==
    /\ \E from \in Registering : Go(c, from, "discard")
    /\ temps' = temps \ {c}
    /\ lock' = Released(c)
    /\ UNCHANGED <<store, stages, files>>

\* STAGING_CLEANUP_FAILED
DiscardFails(c) ==
    /\ \E from \in Discarding : Go(c, from, "unconfirmed")
    /\ UNCHANGED <<store, temps, stages, files, lock>>

\* Faulty variant: the lock outlives its holder.
StickyCrash(c) ==
    /\ \E from \in Running : Go(c, from, "killed")
    /\ UNCHANGED <<store, temps, stages, files, lock>>

\* The system releases a flock when its holder dies; nothing else is undone.
Crash(c) ==
    /\ \E from \in Running : Go(c, from, "killed")
    /\ lock' = Released(c)
    /\ UNCHANGED <<store, temps, stages, files>>

-----------------------------------------------------------------------------
Step(c) ==
    \/ MakeStage(c) \/ MakeObjects(c)
    \/ \E a \in Artifact : StageArtifact(c, a) \/ Move(c, a) \/ Unlink(c, a)
    \/ Lock(c) \/ Verify(c) \/ RemoveObjects(c) \/ RemoveStage(c) \/ Publish(c) \/ Return(c)
    \/ Discard(c) \/ DiscardObjects(c) \/ DiscardStage(c) \/ Confirm(c)

Fault(c) == BeginFails(c) \/ Fails(c) \/ DiscardFails(c) \/ Crash(c)

Next == \E c \in Call : (\E b \in Bundle : Begin(c, b)) \/ Step(c) \/ Fault(c)

Spec == Init /\ [][Next]_vars

\* A call that is not blocked keeps running, and flock wakes a waiter when the
\* lock is free.
FairSpec == Spec /\ \A c \in Call : WF_vars(Step(c))

-----------------------------------------------------------------------------
(***************************************************************************)
(* Properties                                                              *)
(***************************************************************************)

\* The variables hold what the file system and the program hold.
TypeOK ==
    /\ objects \subseteq Artifact
    /\ manifests \subseteq Bundle
    /\ temps \subseteq Call
    /\ stages \in [Call -> {"absent", "bare", "full"}]
    /\ files \in [Call -> SUBSET Artifact]
    /\ lock \in Call \cup {None}
    /\ proc \in [Call -> ProcState]

\* A manifest that can be read has all its artifacts, wherever its writer or
\* another one that shares artifacts with it was interrupted.
ManifestsAreComplete == \A b \in manifests : ArtifactsOf[b] \subseteq objects

\* Registered results have no attempt directory and no temporary manifest.
RegisteredHasNoStage ==
    \A c \in Call : proc[c].pc = "registered" => stages[c] = "absent" /\ c \notin temps

\* A rename never replaces a manifest: of two writers of the same result one
\* finds the other's.
ManifestsAreWrittenOnce ==
    [][\A c \in Call :
          proc[c].pc = "publish" /\ proc'[c].pc = "return" => proc[c].bundle \notin manifests]_vars

\* What the refusal ATTEMPT_NOT_FOUND says, "unregistered result attempt does not
\* exist", and what its caller concludes: a call that raises the error it was
\* handling, and not STAGING_CLEANUP_FAILED, leaves no stage behind.
RaisedHasNoStage == \A c \in Call : proc[c].pc = "raised" => stages[c] = "absent"

\* Every call ends, whoever fails or dies holding the lock.
EveryCallEnds == \A c \in Call : (proc[c].pc \in Running) ~> (proc[c].pc \in Ended)

-----------------------------------------------------------------------------
(***************************************************************************)
(* The inductive invariant behind all of them.                             *)
(***************************************************************************)

Critical == {"verify", "move", "rmobjects", "rmstage", "publish", "return"}
Unpublished == {"move", "rmobjects", "rmstage", "publish"}

\* What holds of one call at each point of the program.
Consistent(c) ==
    LET s == proc[c] IN
    /\ s.pc \in Running \cup {"registered"} => s.bundle \in Bundle
    /\ lock = c <=> s.pc \in Critical
    /\ c \in temps => s.pc \in Unpublished \cup {"killed"}
    /\ s.known => s.pc \in Discarding \cup {"confirm"} \cup Ended
    /\ s.pc \in {"stage", "lock", "verify", "move", "rmobjects"} => stages[c] = "full"
    /\ s.pc = "discard" /\ s.known => stages[c] = "full"
    /\ s.pc \in {"publish", "return", "confirm", "registered"} => stages[c] = "absent"
    /\ s.pc \in Unpublished => s.bundle \notin manifests
    /\ s.pc = "move" => Needed(c) \ s.left \subseteq objects
    /\ s.pc \in Unpublished \ {"move"} => Needed(c) \subseteq objects
    /\ s.pc \in {"return", "registered"} => s.bundle \in manifests

IInv == TypeOK /\ ManifestsAreComplete /\ \A c \in Call : Consistent(c)

-----------------------------------------------------------------------------
(***************************************************************************)
(* Refinement                                                              *)
(***************************************************************************)

Pending == [c \in Call |-> IF proc[c].pc \in Running THEN proc[c].bundle ELSE None]

Answered == [c \in Call |-> IF proc[c].pc = "registered" THEN proc[c].bundle ELSE None]

Registry == INSTANCE ResultRegistry
    WITH published <- manifests, pending <- Pending, answer <- Answered

\* However its system calls interleave with those of others, with failures and
\* with crashes, registration is the atomic insertion of ResultRegistry.
ImplementsRegistry == Registry!Spec
=============================================================================
