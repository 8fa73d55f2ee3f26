-------------------------- MODULE ResultStoreProofs --------------------------
(***************************************************************************)
(* Machine-checked proofs about ResultStore, for any set of calls, bundles *)
(* and artifacts.                                                          *)
(***************************************************************************)
EXTENDS ResultStore, TLAPS

USE BundleAssumption, NoneAssumption

\* A step of call c touches nothing private to another call, removes no object,
\* and publishes or takes the lock from nobody else.
OnlyCall(c) ==
    /\ \A q \in Call \ {c} : /\ proc'[q] = proc[q]
                             /\ stages'[q] = stages[q]
                             /\ q \in temps' => q \in temps
    /\ objects \subseteq objects'
    /\ manifests \subseteq manifests'
    /\ manifests' = manifests \/ lock = c
    /\ lock' = lock \/ (lock \in {None, c} /\ lock' \in {None, c})

\* What remains to be shown of a step of one call.
LEMMA CallStep ==
  ASSUME IInv, NEW c \in Call, OnlyCall(c), TypeOK', Consistent(c)', ManifestsAreComplete'
  PROVE  IInv'
<1>1. ASSUME NEW q \in Call \ {c}
      PROVE  Consistent(q)'
  <2>1. Consistent(q)
    BY DEF IInv
  <2>2. proc'[q] = proc[q] /\ stages'[q] = stages[q] /\ (q \in temps' => q \in temps)
    BY DEF OnlyCall
  <2>3. Needed(q)' = Needed(q)
    BY <2>2 DEF Needed
  <2>4. lock' = q <=> lock = q
    BY DEF OnlyCall
  <2>5. proc[q].pc \in Unpublished => manifests' = manifests
    <3>1. lock = c => proc[q].pc \notin Unpublished
      BY <2>1 DEF Consistent, Critical, Unpublished
    <3>2. QED
      BY <3>1 DEF OnlyCall
  <2>6. QED
    BY <2>1, <2>2, <2>3, <2>4, <2>5 DEF Consistent, OnlyCall
<1>2. QED
  BY <1>1 DEF IInv

\* From one point of the program to the next.
LEMMA GoFacts ==
  ASSUME NEW c \in Call, NEW from, NEW to, Go(c, from, to), proc \in [Call -> ProcState],
         to \in {"new"} \cup Running \cup Ended
  PROVE  /\ proc' \in [Call -> ProcState]
         /\ proc[c].pc = from
         /\ proc'[c].pc = to
         /\ proc'[c].bundle = proc[c].bundle
         /\ proc'[c].left = proc[c].left
         /\ proc'[c].known = proc[c].known
         /\ Needed(c)' = Needed(c)
         /\ \A q \in Call \ {c} : proc'[q] = proc[q]
  BY DEF Go, ProcState, Needed

\* A change of stage directory.
LEMMA StageFacts ==
  ASSUME NEW c \in Call, NEW directory \in {"absent", "bare", "full"}, Stage(c, directory),
         stages \in [Call -> {"absent", "bare", "full"}]
  PROVE  /\ stages' \in [Call -> {"absent", "bare", "full"}]
         /\ stages'[c] = directory
         /\ \A q \in Call \ {c} : stages'[q] = stages[q]
  BY DEF Stage

\* The points of the program, told apart.
LEMMA Points ==
  /\ Running \cap Ended = {}
  /\ "new" \notin Running \cup Ended
  BY DEF Running, Ended, Beginning, Registering, Discarding

\* The beginning of a call.
LEMMA BeginStep ==
  ASSUME IInv, NEW c \in Call, NEW b \in Bundle, Begin(c, b)
  PROVE  IInv'
<1> DEFINE s == [pc |-> "mkstage", bundle |-> b, left |-> ArtifactsOf[b], known |-> FALSE]
<1>1. s \in ProcState
  BY DEF ProcState, Running, Beginning
<1>2. proc' = [proc EXCEPT ![c] = s] /\ UNCHANGED <<store, temps, stages, files, lock>>
  BY DEF Begin
<1>3. proc \in [Call -> ProcState]
  BY DEF IInv, TypeOK
<1>4. proc' \in [Call -> ProcState] /\ proc'[c] = s /\ \A q \in Call \ {c} : proc'[q] = proc[q]
  BY <1>1, <1>2, <1>3
<1>5. TypeOK' /\ ManifestsAreComplete'
  BY <1>2, <1>4 DEF IInv, TypeOK, store, ManifestsAreComplete
<1>6. OnlyCall(c)
  BY <1>2, <1>4 DEF OnlyCall, store
<1>7. proc[c].pc = "new" /\ Consistent(c)
  BY DEF Begin, IInv
<1>8. Consistent(c)'
  BY <1>2, <1>4, <1>7 DEF Consistent, store, Critical, Unpublished, Running, Beginning,
     Registering, Discarding, Ended, Needed
<1>9. QED
  BY <1>5, <1>6, <1>8, CallStep

\* Steps that move a call along and change no shared state but the lock.
LEMMA PrivateStep ==
  ASSUME IInv, NEW c \in Call, NEW from, NEW to, Go(c, from, to),
         to \in {"new"} \cup Running \cup Ended,
         \/ UNCHANGED stages
         \/ \E directory \in {"absent", "bare", "full"} : Stage(c, directory),
         \/ UNCHANGED files
         \/ \E kept \in SUBSET Artifact : files' = [files EXCEPT ![c] = kept],
         temps' \subseteq temps,
         lock' = lock \/ (lock = None /\ lock' = c) \/ (lock = c /\ lock' = None),
         UNCHANGED store,
         Consistent(c)'
  PROVE  IInv'
<1>1. TypeOK
  BY DEF IInv
<1>2. proc' \in [Call -> ProcState] /\ \A q \in Call \ {c} : proc'[q] = proc[q]
  BY <1>1, GoFacts DEF TypeOK
<1>3. /\ stages' \in [Call -> {"absent", "bare", "full"}]
      /\ \A q \in Call \ {c} : stages'[q] = stages[q]
  BY <1>1, StageFacts DEF TypeOK
<1>4. files' \in [Call -> SUBSET Artifact]
  BY <1>1 DEF TypeOK
<1>5. TypeOK' /\ ManifestsAreComplete'
  BY <1>1, <1>2, <1>3, <1>4 DEF TypeOK, IInv, store, ManifestsAreComplete
<1>6. OnlyCall(c)
  BY <1>2, <1>3 DEF OnlyCall, store
<1>7. QED
  BY <1>5, <1>6, CallStep

\* The sets of points, and what the invariant says of the call that takes a step.
LEMMA Actor ==
  ASSUME IInv, NEW c \in Call
  PROVE  /\ Consistent(c)
         /\ proc \in [Call -> ProcState]
         /\ stages \in [Call -> {"absent", "bare", "full"}]
         /\ files \in [Call -> SUBSET Artifact]
         /\ lock \in Call \cup {None}
         /\ proc[c] \in ProcState
  BY DEF IInv, TypeOK

\* Making and removing directories.
LEMMA DirectoryStep ==
  ASSUME IInv, NEW c \in Call, NEW from \in Running, NEW to \in Running,
         NEW directory \in {"absent", "bare", "full"},
         Go(c, from, to), Stage(c, directory), UNCHANGED <<store, temps, files, lock>>,
         Consistent(c)'
  PROVE  IInv'
<1>1. UNCHANGED store /\ temps' \subseteq temps /\ UNCHANGED files /\ UNCHANGED lock
  OBVIOUS
<1>2. QED
  BY <1>1, PrivateStep

\* begin_result_attempt.
LEMMA MakeStep ==
  ASSUME IInv, NEW c \in Call, MakeStage(c) \/ MakeObjects(c)
  PROVE  IInv'
<1> USE DEF Running, Beginning, Registering
<1>1. CASE MakeStage(c)
  <2>1. Consistent(c)'
    BY <1>1, Actor, GoFacts DEF MakeStage, Consistent, Critical, Unpublished, Discarding,
       Ended, store
  <2>2. QED
    BY <1>1, <2>1, DirectoryStep DEF MakeStage
<1>2. CASE MakeObjects(c)
  <2>1. stages'[c] = "full"
    BY <1>2, Actor, StageFacts DEF MakeObjects
  <2>2. Consistent(c)'
    BY <1>2, <2>1, Actor, GoFacts DEF MakeObjects, Consistent, Critical, Unpublished,
       Discarding, Ended, store
  <2>3. QED
    BY <1>2, <2>2, DirectoryStep DEF MakeObjects
<1>3. QED
  BY <1>1, <1>2

\* The stage is removed before the manifest is published.
LEMMA RemoveStep ==
  ASSUME IInv, NEW c \in Call, RemoveObjects(c) \/ RemoveStage(c)
  PROVE  IInv'
<1> USE DEF Running, Registering
<1>1. CASE RemoveObjects(c)
  <2>1. Consistent(c)'
    BY <1>1, Actor, GoFacts DEF RemoveObjects, Consistent, Critical, Unpublished, Beginning,
       Discarding, Ended, store
  <2>2. QED
    BY <1>1, <2>1, DirectoryStep DEF RemoveObjects
<1>2. CASE RemoveStage(c)
  <2>1. stages'[c] = "absent"
    BY <1>2, Actor, StageFacts DEF RemoveStage
  <2>2. Consistent(c)'
    BY <1>2, <2>1, Actor, GoFacts DEF RemoveStage, Consistent, Critical, Unpublished,
       Beginning, Discarding, Ended, store
  <2>3. QED
    BY <1>2, <2>2, DirectoryStep DEF RemoveStage
<1>3. QED
  BY <1>1, <1>2

\* Taking and releasing the lock.
LEMMA LockStep ==
  ASSUME IInv, NEW c \in Call, Lock(c) \/ Return(c)
  PROVE  IInv'
<1> USE DEF Running, Beginning, Registering, Discarding, Ended, Critical, Unpublished
<1>1. CASE Lock(c)
  <2>1. Consistent(c)'
    BY <1>1, Actor, GoFacts DEF Lock, Consistent, store
  <2>2. UNCHANGED store /\ UNCHANGED stages /\ UNCHANGED files /\ temps' \subseteq temps
    BY <1>1 DEF Lock
  <2>3. QED
    BY <1>1, <2>1, <2>2, PrivateStep DEF Lock
<1>2. CASE Return(c)
  <2>1. Consistent(c)'
    BY <1>2, Actor, GoFacts DEF Return, Consistent, store
  <2>2. UNCHANGED store /\ UNCHANGED stages /\ UNCHANGED files /\ temps' \subseteq temps
    BY <1>2 DEF Return
  <2>3. lock = c
    BY <1>2, Actor DEF Return, Go, Consistent
  <2>4. QED
    BY <1>2, <2>1, <2>2, <2>3, PrivateStep DEF Return
<1>3. QED
  BY <1>1, <1>2

\* Discarding a stage, and confirming a manifest that was there already.
LEMMA DiscardStep ==
  ASSUME IInv, NEW c \in Call,
         \/ Discard(c) \/ DiscardObjects(c) \/ DiscardStage(c) \/ Confirm(c)
         \/ \E a \in Artifact : Unlink(c, a)
  PROVE  IInv'
<1> USE DEF Running, Discarding, Ended, Critical, Unpublished, Beginning, Registering
<1>1. CASE Discard(c)
  <2>1. UNCHANGED store /\ UNCHANGED stages /\ UNCHANGED files /\ temps' \subseteq temps
        /\ UNCHANGED lock
    BY <1>1 DEF Discard
  <2> DEFINE to == IF stages[c] # "full" THEN AfterDiscard(c)
                   ELSE IF files[c] = {} THEN "discard_objects" ELSE "unlink"
  <2>2. /\ to \in {"confirm", "raised", "discard_objects", "unlink"}
        /\ to = "confirm" => proc[c].known /\ stages[c] # "full"
    BY DEF AfterDiscard
  <2>3. Go(c, "discard", to)
    BY <1>1 DEF Discard
  <2> HIDE DEF to
  <2>4. Consistent(c)'
    BY <1>1, <2>1, <2>2, <2>3, Actor, GoFacts DEF Consistent, store, Discard
  <2>5. QED
    BY <2>1, <2>2, <2>3, <2>4, PrivateStep
<1>2. CASE DiscardObjects(c)
  <2>1. Consistent(c)'
    BY <1>2, Actor, GoFacts DEF DiscardObjects, Consistent, store
  <2>2. QED
    BY <1>2, <2>1, DirectoryStep DEF DiscardObjects
<1>3. CASE DiscardStage(c)
  <2>1. stages'[c] = "absent"
    BY <1>3, Actor, StageFacts DEF DiscardStage
  <2>2. AfterDiscard(c) \in {"confirm", "raised"}
    BY DEF AfterDiscard
  <2>3. Consistent(c)'
    BY <1>3, <2>1, <2>2, Actor, GoFacts DEF DiscardStage, Consistent, store
  <2>4. UNCHANGED store /\ UNCHANGED files /\ temps' \subseteq temps /\ UNCHANGED lock
    BY <1>3 DEF DiscardStage
  <2>5. QED
    BY <1>3, <2>2, <2>3, <2>4, PrivateStep DEF DiscardStage
<1>4. CASE Confirm(c)
  <2>1. Consistent(c)'
    BY <1>4, Actor, GoFacts DEF Confirm, Consistent, store
  <2>2. UNCHANGED store /\ UNCHANGED stages /\ UNCHANGED files /\ temps' \subseteq temps
        /\ UNCHANGED lock
    BY <1>4 DEF Confirm
  <2>3. QED
    BY <1>4, <2>1, <2>2, PrivateStep DEF Confirm
<1>5. ASSUME NEW a \in Artifact, Unlink(c, a) PROVE IInv'
  <2> DEFINE to == IF files[c] = {a} THEN "discard_objects" ELSE "unlink"
  <2>1. to \in {"discard_objects", "unlink"} /\ Go(c, "unlink", to)
    BY <1>5 DEF Unlink
  <2> HIDE DEF to
  <2>2. UNCHANGED store /\ UNCHANGED stages /\ temps' \subseteq temps /\ UNCHANGED lock
    BY <1>5 DEF Unlink
  <2>3. Consistent(c)'
    BY <2>1, <2>2, <1>5, Actor, GoFacts DEF Unlink, Consistent, store
  <2>4. files' = [files EXCEPT ![c] = files[c] \ {a}] /\ files[c] \ {a} \in SUBSET Artifact
    BY <1>5, Actor DEF Unlink
  <2>5. QED
    BY <2>1, <2>2, <2>3, <2>4, PrivateStep
<1>6. QED
  BY <1>1, <1>2, <1>3, <1>4, <1>5

\* Failures and crashes, wherever they strike.
LEMMA FaultStep ==
  ASSUME IInv, NEW c \in Call, Fault(c)
  PROVE  IInv'
<1> USE DEF Running, Beginning, Registering, Discarding, Ended, Critical, Unpublished
<1>1. CASE BeginFails(c) \/ DiscardFails(c)
  <2> PICK from \in Beginning \cup Discarding, to \in {"refused", "unconfirmed"} : Go(c, from, to)
    BY <1>1 DEF BeginFails, DiscardFails
  <2>1. UNCHANGED store /\ UNCHANGED stages /\ UNCHANGED files /\ UNCHANGED temps
        /\ UNCHANGED lock
    BY <1>1 DEF BeginFails, DiscardFails
  <2>2. Consistent(c)'
    BY <2>1, Actor, GoFacts DEF Consistent, store
  <2>3. QED
    BY <2>1, <2>2, PrivateStep
<1>2. CASE Fails(c)
  <2> PICK from \in Registering : Go(c, from, "discard")
    BY <1>2 DEF Fails
  <2>1. UNCHANGED store /\ UNCHANGED stages /\ UNCHANGED files /\ temps' = temps \ {c}
        /\ lock' = Released(c)
    BY <1>2 DEF Fails
  <2>2. lock' # c /\ (lock' = lock \/ (lock = c /\ lock' = None))
    BY <2>1 DEF Released
  <2>3. Consistent(c)'
    BY <2>1, <2>2, Actor, GoFacts DEF Consistent, store
  <2>4. QED
    BY <2>1, <2>2, <2>3, PrivateStep
<1>3. CASE Crash(c)
  <2> PICK from \in Running : Go(c, from, "killed")
    BY <1>3 DEF Crash
  <2>1. UNCHANGED store /\ UNCHANGED stages /\ UNCHANGED files /\ UNCHANGED temps
        /\ lock' = Released(c)
    BY <1>3 DEF Crash
  <2>2. lock' # c /\ (lock' = lock \/ (lock = c /\ lock' = None))
    BY <2>1 DEF Released
  <2>3. Consistent(c)'
    BY <2>1, <2>2, Actor, GoFacts DEF Consistent, store
  <2>4. QED
    BY <2>1, <2>2, <2>3, PrivateStep
<1>4. QED
  BY <1>1, <1>2, <1>3 DEF Fault

\* A call moves along and changes what it has left to do.
LEMMA LeftFacts ==
  ASSUME NEW c \in Call, proc \in [Call -> ProcState],
         NEW to \in Running, NEW left \in SUBSET Artifact,
         proc' = [proc EXCEPT ![c].left = left, ![c].pc = to]
  PROVE  /\ proc' \in [Call -> ProcState]
         /\ proc'[c].pc = to
         /\ proc'[c].left = left
         /\ proc'[c].bundle = proc[c].bundle
         /\ proc'[c].known = proc[c].known
         /\ \A q \in Call \ {c} : proc'[q] = proc[q]
  BY DEF ProcState

\* Staging one artifact.
LEMMA StageArtifactStep ==
  ASSUME IInv, NEW c \in Call, NEW a \in Artifact, StageArtifact(c, a)
  PROVE  IInv'
<1> USE DEF Running, Beginning, Registering, Discarding, Ended, Critical, Unpublished
<1> DEFINE left == proc[c].left \ {a}
           to == IF proc[c].left = {a} THEN "lock" ELSE "stage"
<1>1. /\ proc[c].pc = "stage" /\ to \in {"lock", "stage"}
      /\ proc' = [proc EXCEPT ![c].left = left, ![c].pc = to]
      /\ UNCHANGED <<store, temps, stages, lock>>
      /\ files' = [files EXCEPT ![c] = files[c] \cup {a}]
  BY DEF StageArtifact
<1>2. left \in SUBSET Artifact
  BY Actor DEF ProcState
<1> HIDE DEF left, to
<1>3. /\ proc' \in [Call -> ProcState] /\ proc'[c].pc = to
      /\ proc'[c].bundle = proc[c].bundle /\ proc'[c].known = proc[c].known
      /\ \A q \in Call \ {c} : proc'[q] = proc[q]
  BY <1>1, <1>2, Actor, LeftFacts
<1>4. TypeOK' /\ ManifestsAreComplete'
  BY <1>1, <1>3, Actor DEF IInv, TypeOK, store, ManifestsAreComplete
<1>5. OnlyCall(c)
  BY <1>1, <1>3 DEF OnlyCall, store
<1>6. Consistent(c)'
  BY <1>1, <1>3, Actor DEF Consistent, store
<1>7. QED
  BY <1>4, <1>5, <1>6, CallStep

\* Moving one artifact into the object store.
LEMMA MoveStep ==
  ASSUME IInv, NEW c \in Call, NEW a \in Artifact, Move(c, a)
  PROVE  IInv'
<1> USE DEF Running, Beginning, Registering, Discarding, Ended, Critical, Unpublished
<1> DEFINE left == proc[c].left \ {a}
           to == IF proc[c].left = {a} THEN "rmobjects" ELSE "move"
<1>1. /\ proc[c].pc = "move" /\ to \in {"rmobjects", "move"}
      /\ to = "rmobjects" => left = {}
      /\ proc' = [proc EXCEPT ![c].left = left, ![c].pc = to]
      /\ UNCHANGED <<manifests, temps, stages, lock>>
      /\ objects' = objects \cup {a}
      /\ files' = [files EXCEPT ![c] = files[c] \ {a}]
  BY DEF Move
<1>2. left \in SUBSET Artifact /\ proc[c].left \subseteq left \cup {a}
  BY Actor DEF ProcState
<1> HIDE DEF left, to
<1>3. /\ proc' \in [Call -> ProcState] /\ proc'[c].pc = to /\ proc'[c].left = left
      /\ proc'[c].bundle = proc[c].bundle /\ proc'[c].known = proc[c].known
      /\ \A q \in Call \ {c} : proc'[q] = proc[q]
  <2>1. to \in Running /\ left \in SUBSET Artifact /\ proc \in [Call -> ProcState]
    BY <1>1, <1>2, Actor
  <2>2. proc' = [proc EXCEPT ![c].left = left, ![c].pc = to]
    BY <1>1
  <2>3. QED
    BY <2>1, <2>2 DEF ProcState
<1>4. TypeOK' /\ ManifestsAreComplete'
  BY <1>1, <1>3, Actor DEF IInv, TypeOK, ManifestsAreComplete
<1>5. OnlyCall(c)
  BY <1>1, <1>3 DEF OnlyCall
<1>6. Needed(c)' = Needed(c)
  BY <1>3 DEF Needed
<1>7. Needed(c) \ left \subseteq objects'
  BY <1>1, <1>2, Actor DEF Consistent
<1>8. Consistent(c)'
  BY <1>1, <1>3, <1>6, <1>7, Actor DEF Consistent
<1>9. QED
  BY <1>4, <1>5, <1>8, CallStep

\* Verification under the lock.
LEMMA VerifyStep ==
  ASSUME IInv, NEW c \in Call, Verify(c)
  PROVE  IInv'
<1> USE DEF Running, Beginning, Registering, Discarding, Ended, Critical, Unpublished
<1>1. proc[c].pc = "verify" /\ lock = c /\ UNCHANGED <<store, stages, files>>
  BY Actor DEF Verify, Consistent
<1>2. CASE /\ proc[c].bundle \in manifests
           /\ proc' = [proc EXCEPT ![c].pc = "discard", ![c].known = TRUE]
           /\ lock' = None
           /\ UNCHANGED temps
  <2>1. /\ proc' \in [Call -> ProcState] /\ proc'[c].pc = "discard"
        /\ proc'[c].bundle = proc[c].bundle
        /\ \A q \in Call \ {c} : proc'[q] = proc[q]
    BY <1>2, Actor DEF ProcState
  <2>2. TypeOK' /\ ManifestsAreComplete'
    BY <1>1, <1>2, <2>1, Actor DEF IInv, TypeOK, store, ManifestsAreComplete
  <2>3. OnlyCall(c)
    BY <1>1, <1>2, <2>1 DEF OnlyCall, store
  <2>4. Consistent(c)'
    BY <1>1, <1>2, <2>1, Actor DEF Consistent, store
  <2>5. QED
    BY <2>2, <2>3, <2>4, CallStep
<1>3. CASE /\ proc[c].bundle \notin manifests
           /\ proc' = [proc EXCEPT ![c].pc = "move", ![c].left = Needed(c)]
           /\ temps' = temps \cup {c}
           /\ UNCHANGED lock
  <2>1. Needed(c) \in SUBSET Artifact
    BY <1>1, Actor DEF Needed, Consistent
  <2>2. /\ proc' \in [Call -> ProcState] /\ proc'[c].pc = "move"
        /\ proc'[c].left = Needed(c)
        /\ proc'[c].bundle = proc[c].bundle /\ proc'[c].known = proc[c].known
        /\ \A q \in Call \ {c} : proc'[q] = proc[q]
    BY <1>3, <2>1, Actor DEF ProcState
  <2>3. Needed(c)' = Needed(c)
    BY <2>2 DEF Needed
  <2>4. TypeOK' /\ ManifestsAreComplete'
    BY <1>1, <1>3, <2>2, Actor DEF IInv, TypeOK, store, ManifestsAreComplete
  <2>5. OnlyCall(c)
    BY <1>1, <1>3, <2>2 DEF OnlyCall, store
  <2>6. Consistent(c)'
    BY <1>1, <1>3, <2>2, <2>3, Actor DEF Consistent, store
  <2>7. QED
    BY <2>4, <2>5, <2>6, CallStep
<1>4. QED
  BY <1>2, <1>3 DEF Verify

\* The rename of the manifest.
LEMMA PublishStep ==
  ASSUME IInv, NEW c \in Call, Publish(c)
  PROVE  IInv'
<1> USE DEF Running, Beginning, Registering, Discarding, Ended, Critical, Unpublished
<1>1. /\ Go(c, "publish", "return") /\ manifests' = manifests \cup {proc[c].bundle}
      /\ temps' = temps \ {c} /\ UNCHANGED <<objects, stages, files, lock>>
  BY DEF Publish
<1>2. /\ proc' \in [Call -> ProcState] /\ proc[c].pc = "publish" /\ proc'[c].pc = "return"
      /\ proc'[c].bundle = proc[c].bundle /\ proc'[c].known = proc[c].known
      /\ \A q \in Call \ {c} : proc'[q] = proc[q]
  BY <1>1, Actor, GoFacts
<1>3. lock = c /\ Needed(c) \subseteq objects /\ proc[c].bundle \in Bundle
  BY <1>2, Actor DEF Consistent
<1>4. TypeOK'
  BY <1>1, <1>2, <1>3 DEF IInv, TypeOK
<1>5. ManifestsAreComplete'
  BY <1>1, <1>3 DEF IInv, ManifestsAreComplete, Needed
<1>6. OnlyCall(c)
  BY <1>1, <1>2, <1>3 DEF OnlyCall
<1>7. Consistent(c)'
  BY <1>1, <1>2, <1>3, Actor DEF Consistent
<1>8. QED
  BY <1>4, <1>5, <1>6, <1>7, CallStep

-----------------------------------------------------------------------------
(***************************************************************************)
(* The invariant, and what follows from it.                                *)
(***************************************************************************)

\* Every action preserves the invariant.
LEMMA NextStep == ASSUME IInv, [Next]_vars PROVE IInv'
<1>1. CASE UNCHANGED vars
  BY <1>1 DEF vars, store, IInv, TypeOK, ManifestsAreComplete, Consistent, Needed
<1>2. CASE Next
  <2> PICK c \in Call : (\E b \in Bundle : Begin(c, b)) \/ Step(c) \/ Fault(c)
    BY <1>2 DEF Next
  <2>1. CASE \E b \in Bundle : Begin(c, b)
    BY <2>1, BeginStep
  <2>2. CASE Step(c)
    BY <2>2, MakeStep, StageArtifactStep, MoveStep, LockStep, VerifyStep, RemoveStep,
       PublishStep, DiscardStep DEF Step
  <2>3. CASE Fault(c)
    BY <2>3, FaultStep
  <2>4. QED
    BY <2>1, <2>2, <2>3
<1>3. QED
  BY <1>1, <1>2

\* Every call is where its stage, the lock and the stores say it is.
THEOREM StoreInvariance == Spec => []IInv
<1>1. Init => IInv
  BY DEF Init, IInv, TypeOK, ProcState, ManifestsAreComplete, Consistent, Running, Beginning,
     Registering, Discarding, Ended, Critical, Unpublished
<1>2. IInv /\ [Next]_vars => IInv'
  BY NextStep
<1>3. QED
  BY <1>1, <1>2, PTL DEF Spec

\* No crash and no interleaving leaves a readable manifest without its artifacts.
THEOREM StoreComplete == Spec => []ManifestsAreComplete
<1>1. IInv => ManifestsAreComplete
  BY DEF IInv
<1>2. QED
  BY <1>1, StoreInvariance, PTL

\* A registered result has no attempt directory and no temporary manifest left.
THEOREM StoreTidy == Spec => []RegisteredHasNoStage
<1>1. IInv => RegisteredHasNoStage
  BY DEF IInv, Consistent, RegisteredHasNoStage, Running, Beginning, Registering, Discarding,
     Unpublished
<1>2. QED
  BY <1>1, StoreInvariance, PTL

\* The rename that publishes a manifest never replaces one.
THEOREM StoreImmutable == Spec => ManifestsAreWrittenOnce
<1> DEFINE Once == \A c \in Call :
          proc[c].pc = "publish" /\ proc'[c].pc = "return" => proc[c].bundle \notin manifests
<1>1. IInv /\ [Next]_vars => [Once]_vars
  BY DEF IInv, Consistent, Unpublished
<1>2. QED
  BY <1>1, StoreInvariance, PTL DEF Spec, ManifestsAreWrittenOnce

-----------------------------------------------------------------------------
(***************************************************************************)
(* Refinement                                                              *)
(***************************************************************************)

RegistryStep == [Registry!Next]_(Registry!vars)

\* A running call that keeps running while nothing is published.
LEMMA Underway ==
  ASSUME NEW c \in Call, UNCHANGED manifests, proc[c].pc \in Running, proc'[c].pc \in Running,
         proc'[c].bundle = proc[c].bundle, \A q \in Call \ {c} : proc'[q] = proc[q]
  PROVE  RegistryStep
<1>1. Pending' = Pending
  BY DEF Pending
<1>2. "registered" \notin Running
  BY DEF Running, Beginning, Registering, Discarding
<1>3. Answered' = Answered
  BY <1>2 DEF Answered
<1>4. QED
  BY <1>1, <1>3 DEF RegistryStep, Registry!vars

\* A running call that ends.
LEMMA Ending ==
  ASSUME NEW c \in Call, UNCHANGED manifests, proc[c].pc \in Running, proc'[c].pc \in Ended,
         proc[c].bundle \in Bundle, proc'[c].bundle = proc[c].bundle,
         \A q \in Call \ {c} : proc'[q] = proc[q],
         proc'[c].pc = "registered" => proc[c].bundle \in manifests
  PROVE  RegistryStep
<1>1. Running \cap Ended = {} /\ "registered" \notin Running
  BY DEF Running, Ended, Beginning, Registering, Discarding
<1>2. Pending[c] = proc[c].bundle /\ Pending' = [Pending EXCEPT ![c] = None]
  BY <1>1 DEF Pending
<1>3. CASE proc'[c].pc = "registered"
  <2>1. Answered' = [Answered EXCEPT ![c] = proc[c].bundle]
    BY <1>3 DEF Answered
  <2>2. Registry!Answer(c)
    BY <1>2, <1>3, <2>1 DEF Registry!Answer
  <2>3. QED
    BY <2>2 DEF RegistryStep, Registry!Next
<1>4. CASE proc'[c].pc # "registered"
  <2>1. Answered' = Answered
    BY <1>1, <1>4 DEF Answered
  <2>2. Registry!Raise(c)
    BY <1>2, <2>1 DEF Registry!Raise
  <2>3. QED
    BY <2>2 DEF RegistryStep, Registry!Next
<1>5. QED
  BY <1>3, <1>4

\* Every private move of a running call, to another point or to an end.
LEMMA GoMapped ==
  ASSUME IInv, NEW c \in Call, NEW from \in Running, NEW to \in Running \cup Ended,
         Go(c, from, to), UNCHANGED manifests,
         to = "registered" => proc[c].bundle \in manifests
  PROVE  RegistryStep
<1>1. /\ proc[c].pc = from /\ proc'[c].pc = to /\ proc'[c].bundle = proc[c].bundle
      /\ \A q \in Call \ {c} : proc'[q] = proc[q]
  BY Actor, GoFacts
<1>2. proc[c].bundle \in Bundle
  BY <1>1, Actor DEF Consistent
<1>3. QED
  BY <1>1, <1>2, Underway, Ending

\* The calls that fail or die.
LEMMA FaultMapped == ASSUME IInv, NEW c \in Call, Fault(c) PROVE RegistryStep
<1>1. PICK from \in Running, to \in Running \cup (Ended \ {"registered"}) : Go(c, from, to)
  BY DEF Fault, BeginFails, Fails, DiscardFails, Crash, Running, Ended, Beginning, Registering,
     Discarding
<1>2. UNCHANGED manifests
  BY DEF Fault, BeginFails, Fails, DiscardFails, Crash, store
<1>3. to # "registered"
  BY <1>1 DEF Running, Beginning, Registering, Discarding
<1>4. QED
  BY <1>1, <1>2, <1>3, GoMapped

\* The steps of a call.
LEMMA StepMapped == ASSUME IInv, NEW c \in Call, Step(c) PROVE RegistryStep
<1> USE DEF Running, Beginning, Registering, Discarding, Ended
<1>1. CASE MakeStage(c) \/ MakeObjects(c) \/ Lock(c) \/ RemoveObjects(c) \/ RemoveStage(c)
  BY <1>1, GoMapped DEF MakeStage, MakeObjects, Lock, RemoveObjects, RemoveStage, store
<1>2. CASE \E a \in Artifact : StageArtifact(c, a) \/ Move(c, a)
  <2>1. /\ UNCHANGED manifests /\ proc[c].pc \in Running /\ proc'[c].pc \in Running
        /\ proc'[c].bundle = proc[c].bundle /\ \A q \in Call \ {c} : proc'[q] = proc[q]
    BY <1>2, Actor DEF StageArtifact, Move, ProcState, store
  <2>2. QED
    BY <2>1, Underway
<1>3. CASE Verify(c)
  <2>1. /\ UNCHANGED manifests /\ proc[c].pc \in Running /\ proc'[c].pc \in Running
        /\ proc'[c].bundle = proc[c].bundle /\ \A q \in Call \ {c} : proc'[q] = proc[q]
    BY <1>3, Actor DEF Verify, ProcState, store
  <2>2. QED
    BY <2>1, Underway
<1>4. CASE Publish(c)
  <2>1. /\ proc[c].pc \in Running /\ proc'[c].pc \in Running
        /\ proc'[c].bundle = proc[c].bundle /\ \A q \in Call \ {c} : proc'[q] = proc[q]
        /\ manifests' = manifests \cup {proc[c].bundle}
    BY <1>4, Actor, GoFacts DEF Publish
  <2>2. proc[c].bundle \in Bundle
    BY <2>1, Actor DEF Consistent
  <2>3. Pending' = Pending /\ Answered' = Answered /\ Pending[c] = proc[c].bundle
    BY <2>1 DEF Pending, Answered
  <2>4. Registry!Register(c)
    BY <2>1, <2>2, <2>3 DEF Registry!Register
  <2>5. QED
    BY <2>4 DEF RegistryStep, Registry!Next
<1>5. CASE Return(c) \/ Confirm(c)
  <2>1. PICK from \in {"return", "confirm"} : Go(c, from, "registered")
    BY <1>5 DEF Return, Confirm
  <2>2. UNCHANGED manifests /\ proc[c].bundle \in manifests
    BY <1>5, Actor DEF Return, Confirm, store, Go, Consistent
  <2>3. QED
    BY <2>1, <2>2, GoMapped
<1>6. CASE Discard(c) \/ DiscardObjects(c) \/ DiscardStage(c) \/ \E a \in Artifact : Unlink(c, a)
  <2>1. PICK from \in Running, to \in Running \cup (Ended \ {"registered"}) : Go(c, from, to)
    BY <1>6 DEF Discard, DiscardObjects, DiscardStage, Unlink, AfterDiscard
  <2>2. UNCHANGED manifests
    BY <1>6 DEF Discard, DiscardObjects, DiscardStage, Unlink, store
  <2>3. QED
    BY <2>1, <2>2, GoMapped
<1>7. QED
  BY <1>1, <1>2, <1>3, <1>4, <1>5, <1>6 DEF Step

\* The beginning of a call is the beginning of a call.
LEMMA BeginMapped ==
  ASSUME IInv, NEW c \in Call, NEW b \in Bundle, Begin(c, b)
  PROVE  RegistryStep
<1>1. /\ proc[c].pc = "new" /\ proc'[c].pc = "mkstage" /\ proc'[c].bundle = b
      /\ \A q \in Call \ {c} : proc'[q] = proc[q]
      /\ UNCHANGED manifests
  BY Actor DEF Begin, store
<1>2. "new" \notin Running \cup Ended /\ "mkstage" \in Running /\ "registered" \in Ended
  BY DEF Running, Ended, Beginning, Registering, Discarding
<1>3. Pending[c] = None /\ Answered[c] = None /\ Pending' = [Pending EXCEPT ![c] = b]
  BY <1>1, <1>2 DEF Pending, Answered
<1>4. Answered' = Answered
  BY <1>1 DEF Answered
<1>5. Registry!Begin(c, b)
  BY <1>1, <1>3, <1>4 DEF Registry!Begin
<1>6. QED
  BY <1>5 DEF RegistryStep, Registry!Next

\* Registration implements the atomic registry.
THEOREM StoreRefinement == Spec => ImplementsRegistry
<1>1. Init => Registry!Init
  BY DEF Init, Registry!Init, Pending, Answered, Running, Beginning, Registering, Discarding
<1>2. IInv /\ [Next]_vars => [Registry!Next]_(Registry!vars)
  <2> SUFFICES ASSUME IInv, [Next]_vars PROVE RegistryStep
    BY DEF RegistryStep
  <2>1. CASE UNCHANGED vars
    BY <2>1 DEF vars, store, RegistryStep, Registry!vars, Pending, Answered
  <2>2. CASE Next
    BY <2>2, BeginMapped, StepMapped, FaultMapped DEF Next
  <2>3. QED
    BY <2>1, <2>2
<1>3. QED
  BY <1>1, <1>2, StoreInvariance, PTL DEF Spec, ImplementsRegistry, Registry!Spec
=============================================================================
