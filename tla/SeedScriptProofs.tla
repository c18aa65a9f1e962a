-------------------------- MODULE SeedScriptProofs --------------------------
(***************************************************************************)
(* Proofs about SeedScript: for any files, whatever SKUs they list, and    *)
(* any number of runs.                                                     *)
(***************************************************************************)
EXTENDS SeedScript, FiniteSetTheorems, WellFoundedInduction, TLAPS

\* What the script has in work at each place, and which replies a request can
\* have had.
InStep ==
  /\ pc \in {"idle", "files"} => file = NoFile /\ request = NoRequest
  /\ pc = "variants" => file \in Files /\ request = NoRequest
  /\ pc \in {"token", "send", "answered"} => file \in Files /\ request.kind # "none"
  /\ reply # "none" <=> pc = "answered"
  /\ request.kind = "variant" => request.sku \in SKUs
  /\ request.kind = "patch" => missing = {} /\ reply # "conflict"
  /\ \A f \in todo : outcome[f] = "none"

\* Variant k of file f is there or was refused because its SKU was taken.
Settled(f, k) == [file |-> f, sku |-> k] \in variants \cup conflicts

\* The run at work on a file may still add variant k, or has to report an error.
Pending(k) == k \in missing \/ (request.kind = "variant" /\ request.sku = k /\ reply # "done")

\* The product of the file in work: while it is being asked for it is the product
\* of an earlier run or has just been created by this one; from then on each of
\* its variants is settled or pending.
InWork ==
  file # NoFile /\ products[file] = "script" /\ file \notin reported =>
    IF request.kind = "product"
    THEN reply \in {"done", "error"} \/ \A k \in Listed[file] : Settled(file, k)
    ELSE \A k \in Listed[file] : Settled(file, k) \/ Pending(k)

Inv ==
  /\ TypeOK
  /\ InStep
  /\ InWork
  /\ HalfSeededWasReported

LEMMA InvInit == Init => Inv
<1> SUFFICES ASSUME Init PROVE Inv
  OBVIOUS
<1> USE ScriptAssumption DEF Init, NoRequest, Uncounted
<1>0. request \in [kind : Kinds, sku : SKUs \cup {NoSKU}]
  BY DEF Kinds
<1>1. TypeOK
  <2>1. pc \in Places /\ runs \in 0 .. MaxRuns /\ reply \in Replies
    BY DEF Places, Replies
  <2>2. dry \in BOOLEAN /\ retried \in BOOLEAN
    OBVIOUS
  <2>3. /\ todo \subseteq Files /\ missing \subseteq SKUs /\ variants \subseteq Variant
        /\ reported \subseteq Files /\ conflicts \subseteq Variant
    OBVIOUS
  <2>4. /\ outcome \in [Files -> {"none", "seeded", "skipped", "failed"}]
        /\ products \in [Files -> {"absent", "script", "admin"}]
    OBVIOUS
  <2>5. file = NoFile /\ variants = {}
    OBVIOUS
  <2> HIDE DEF Init
  <2> QED BY <1>0, <2>1, <2>2, <2>3, <2>4, <2>5 DEF TypeOK
<1>2. InStep /\ InWork /\ HalfSeededWasReported
  BY DEF InStep, InWork, HalfSeededWasReported, NoRequest
<1> QED BY <1>1, <1>2 DEF Inv

-----------------------------------------------------------------------------
\* The script keeps its own place.
LEMMA KeepsType ==
  ASSUME Inv, Next
  PROVE  TypeOK' /\ InStep'
<1>0. TypeOK /\ InStep
  BY DEF Inv
<1> USE <1>0, ScriptAssumption
     DEF TypeOK, InStep, Places, Kinds, Replies, Variant, NoRequest, Uncounted, catalog,
         history, script
<1>1. CASE Start
  BY <1>1 DEF Start
<1>2. ASSUME NEW f \in Files, RejectFile(f) PROVE TypeOK' /\ InStep'
  BY <1>2 DEF RejectFile, Count
<1>3. ASSUME NEW f \in Files, CountOnly(f) PROVE TypeOK' /\ InStep'
  BY <1>3 DEF CountOnly, Count
<1>4. ASSUME NEW f \in Files, TakeFile(f) PROVE TypeOK' /\ InStep'
  BY <1>4 DEF TakeFile, Request
<1>5. CASE EnsureToken
  BY <1>5 DEF EnsureToken
<1>6. CASE SendInVain
  BY <1>6 DEF SendInVain, Sending, Replied
<1>7. CASE SendProduct
  BY <1>7 DEF SendProduct, Sending, Replied
<1>8. CASE SendVariant
  BY <1>8 DEF SendVariant, Sending, Replied, Held
<1>9. CASE SendPatch
  BY <1>9 DEF SendPatch, Sending, Replied
<1>10. CASE Retry
  BY <1>10 DEF Retry, Resend
<1>11. CASE ProductFailed
  BY <1>11 DEF ProductFailed, Answered, NextFile, Count
<1>12. CASE ProductExists
  BY <1>12 DEF ProductExists, Answered, NextFile, Count
<1>13. CASE ProductCreated
  BY <1>13 DEF ProductCreated, Answered
<1>14. CASE NextVariant
  <2>1. PICK k \in missing : missing' = missing \ {k} /\ Request("variant", k)
    BY <1>14 DEF NextVariant
  <2>2. [kind |-> "variant", sku |-> k] \in [kind : Kinds, sku : SKUs \cup {NoSKU}]
    BY <2>1
  <2>3. /\ UNCHANGED <<runs, dry, todo, file, reply, outcome, catalog, history>>
        /\ pc = "variants"
    BY <1>14 DEF NextVariant
  <2> QED BY <2>1, <2>2, <2>3 DEF Request
<1>15. CASE VariantAnswered
  <2>1. conflicts' \subseteq Variant /\ reported' \subseteq Files
    BY <1>15 DEF VariantAnswered, Answered
  <2>2. /\ pc = "answered" /\ pc' = "variants"
        /\ request' = NoRequest /\ retried' = FALSE /\ reply' = "none"
        /\ UNCHANGED <<runs, dry, todo, file, missing, outcome, catalog>>
    BY <1>15 DEF VariantAnswered, Answered
  <2>3. NoRequest \in [kind : Kinds, sku : SKUs \cup {NoSKU}]
    OBVIOUS
  <2> QED BY <2>1, <2>2, <2>3
<1>16. CASE UploadImages
  <2>1. CASE Request("patch", NoSKU) /\ UNCHANGED <<file, outcome>>
    <3>1. [kind |-> "patch", sku |-> NoSKU] \in [kind : Kinds, sku : SKUs \cup {NoSKU}]
      OBVIOUS
    <3> QED BY <1>16, <2>1, <3>1 DEF UploadImages, Request
  <2>2. CASE NextFile("seeded") /\ UNCHANGED <<request, retried>>
    BY <1>16, <2>2 DEF UploadImages, NextFile, Count
  <2> QED BY <1>16, <2>1, <2>2 DEF UploadImages
<1>17. CASE PatchAnswered
  BY <1>17 DEF PatchAnswered, Answered, NextFile, Count
<1>18. CASE Finish
  BY <1>18 DEF Finish
<1>19. CASE Kill
  BY <1>19 DEF Kill
<1>20. ASSUME NEW f \in Files, CreateByHand(f) PROVE TypeOK' /\ InStep'
  BY <1>20 DEF CreateByHand
<1>21. ASSUME NEW f \in Files, DeleteProduct(f) PROVE TypeOK' /\ InStep'
  BY <1>21 DEF DeleteProduct
<1>22. ASSUME NEW f \in Files, NEW k \in SKUs, AddByHand(f, k) PROVE TypeOK' /\ InStep'
  BY <1>22 DEF AddByHand, Held
<1> QED
  BY <1>1, <1>2, <1>3, <1>4, <1>5, <1>6, <1>7, <1>8, <1>9, <1>10, <1>11, <1>12, <1>13,
     <1>14, <1>15, <1>16, <1>17, <1>18, <1>19, <1>20, <1>21, <1>22 DEF Next, Step

\* No file is left without its variants in silence: it is taken up complete,
\* and let go complete or with a report.
LEMMA KeepsReport ==
  ASSUME Inv, Next
  PROVE  InWork' /\ HalfSeededWasReported'
<1>0. TypeOK /\ InStep /\ InWork /\ HalfSeededWasReported
  BY DEF Inv
<1> USE <1>0, ScriptAssumption
     DEF TypeOK, InStep, InWork, HalfSeededWasReported, Settled, Pending, Places, Kinds,
         Replies, Variant, NoRequest, catalog, history, script
<1>1. CASE Start
  BY <1>1 DEF Start
<1>2. ASSUME NEW f \in Files, RejectFile(f) PROVE InWork' /\ HalfSeededWasReported'
  BY <1>2 DEF RejectFile
<1>3. ASSUME NEW f \in Files, CountOnly(f) PROVE InWork' /\ HalfSeededWasReported'
  BY <1>3 DEF CountOnly
<1>4. ASSUME NEW f \in Files, TakeFile(f) PROVE InWork' /\ HalfSeededWasReported'
  BY <1>4 DEF TakeFile, Request
<1>5. CASE EnsureToken
  BY <1>5 DEF EnsureToken
<1>6. CASE SendInVain
  BY <1>6 DEF SendInVain, Sending, Replied
<1>7. CASE SendProduct
  BY <1>7 DEF SendProduct, Sending, Replied
<1>8. CASE SendVariant
  BY <1>8 DEF SendVariant, Sending, Replied, Held
<1>9. CASE SendPatch
  BY <1>9 DEF SendPatch, Sending, Replied
<1>10. CASE Retry
  BY <1>10 DEF Retry, Resend
<1>11. CASE ProductFailed
  BY <1>11 DEF ProductFailed, Answered, NextFile
<1>12. CASE ProductExists
  BY <1>12 DEF ProductExists, Answered, NextFile
<1>13. CASE ProductCreated
  BY <1>13 DEF ProductCreated, Answered
<1>14. CASE NextVariant
  BY <1>14 DEF NextVariant, Request
<1>15. CASE VariantAnswered
  BY <1>15 DEF VariantAnswered, Answered, Failed
<1>16. CASE UploadImages
  BY <1>16 DEF UploadImages, Request, NextFile
<1>17. CASE PatchAnswered
  BY <1>17 DEF PatchAnswered, Answered, NextFile
<1>18. CASE Finish
  BY <1>18 DEF Finish
<1>19. CASE Kill
  BY <1>19 DEF Kill
<1>20. ASSUME NEW f \in Files, CreateByHand(f) PROVE InWork' /\ HalfSeededWasReported'
  BY <1>20 DEF CreateByHand
<1>21. ASSUME NEW f \in Files, DeleteProduct(f) PROVE InWork' /\ HalfSeededWasReported'
  BY <1>21 DEF DeleteProduct
<1>22. ASSUME NEW f \in Files, NEW k \in SKUs, AddByHand(f, k)
       PROVE  InWork' /\ HalfSeededWasReported'
  BY <1>22 DEF AddByHand
<1> QED
  BY <1>1, <1>2, <1>3, <1>4, <1>5, <1>6, <1>7, <1>8, <1>9, <1>10, <1>11, <1>12, <1>13,
     <1>14, <1>15, <1>16, <1>17, <1>18, <1>19, <1>20, <1>21, <1>22 DEF Next, Step

LEMMA InvNext == Inv /\ [Next]_vars => Inv'
<1> SUFFICES ASSUME Inv, [Next]_vars PROVE Inv'
  OBVIOUS
<1>1. CASE Next
  BY <1>1, KeepsType, KeepsReport DEF Inv
<1>2. CASE UNCHANGED vars
  BY <1>2 DEF vars, script, catalog, history, Inv, TypeOK, InStep, InWork, Settled, Pending,
              HalfSeededWasReported
<1> QED BY <1>1, <1>2

\* The inductive invariant of the seed script: what it has in work, and what
\* the file in work is still owed.
THEOREM InvCorrect == Spec => []Inv
BY InvInit, InvNext, PTL DEF Spec

\* Type correctness of the script and of the catalogue it works on.
THEOREM TypeCorrect == Spec => []TypeOK
<1>1. Inv => TypeOK
  BY DEF Inv
<1> QED BY <1>1, InvCorrect, PTL

\* A file whose product some run created and a rerun skips has its variants,
\* or an error about it was reported, however often the script is killed,
\* refused and run again.
THEOREM HalfSeededWasReportedCorrect == Spec => []HalfSeededWasReported
<1>1. Inv => HalfSeededWasReported
  BY DEF Inv
<1> QED BY <1>1, InvCorrect, PTL

-----------------------------------------------------------------------------
(***************************************************************************)
(* Every run is finite: what it has still to do gets less with each of its *)
(* steps, whatever is answered and whatever the admins do.                 *)
(***************************************************************************)
\* The files that are not done with, and how far the one in work has come: the
\* product, the variants, the primary image.
FilesLeft == IF pc = "idle" THEN 0 ELSE Cardinality(todo) + 1
StagesLeft ==
  IF request.kind = "product" THEN 3
  ELSE IF request.kind = "variant" \/ pc = "variants" THEN 2
  ELSE IF request.kind = "patch" THEN 1 ELSE 0

\* A request takes a token, is sent and answered; once, it may be sent again.
RequestLeft ==
  IF request.kind = "none" THEN 0
  ELSE (IF retried THEN 0 ELSE 3) + (IF pc = "token" THEN 3 ELSE IF pc = "send" THEN 2 ELSE 1)

Left == <<FilesLeft, <<StagesLeft, <<Cardinality(missing), RequestLeft>>>>>>

Less == OpToRel(<, Nat)
Lefts == Nat \X (Nat \X (Nat \X Nat))
Nearer ==
  LexPairOrdering(Less, LexPairOrdering(Less, LexPairOrdering(Less, Less, Nat, Nat),
                                        Nat, Nat \X Nat), Nat, Nat \X (Nat \X Nat))

\* Every step of a run brings it nearer to its end, and nobody sets it back.
RunGetsOn ==
  [][/\ Step => <<Left', Left>> \in Nearer
     /\ pc # "idle" => <<Left', Left>> \in Nearer \/ Left' = Left]_vars

\* There is no infinite sequence of which each element is nearer than the one
\* before.
LEMMA NearerWellFounded == IsWellFoundedOn(Nearer, Lefts)
<1>1. IsWellFoundedOn(Less, Nat)
  BY NatLessThanWellFounded DEF Less
<1>2. IsWellFoundedOn(LexPairOrdering(Less, Less, Nat, Nat), Nat \X Nat)
  BY <1>1, WFLexPairOrdering
<1>3. IsWellFoundedOn(LexPairOrdering(Less, LexPairOrdering(Less, Less, Nat, Nat), Nat, Nat \X Nat),
                      Nat \X (Nat \X Nat))
  BY <1>1, <1>2, WFLexPairOrdering
<1> QED BY <1>1, <1>3, WFLexPairOrdering DEF Nearer, Lefts

LEMMA LexLess ==
  ASSUME NEW R, NEW T, NEW a \in Nat, NEW a1 \in Nat, NEW x \in T, NEW x1 \in T,
         a < a1 \/ (a = a1 /\ <<x, x1>> \in R)
  PROVE  <<<<a, x>>, <<a1, x1>>>> \in LexPairOrdering(Less, R, Nat, T)
BY DEF LexPairOrdering, Less, OpToRel

\* What comes first decides.
LEMMA NearerIf ==
  ASSUME NEW a \in Nat, NEW a1 \in Nat, NEW b \in Nat, NEW b1 \in Nat,
         NEW c \in Nat, NEW c1 \in Nat, NEW d \in Nat, NEW d1 \in Nat,
         \/ a < a1
         \/ a = a1 /\ b < b1
         \/ a = a1 /\ b = b1 /\ c < c1
         \/ a = a1 /\ b = b1 /\ c = c1 /\ d < d1
  PROVE  <<<<a, <<b, <<c, d>>>>>>, <<a1, <<b1, <<c1, d1>>>>>>>> \in Nearer
<1>1. c < c1 \/ (c = c1 /\ d < d1) =>
        <<<<c, d>>, <<c1, d1>>>> \in LexPairOrdering(Less, Less, Nat, Nat)
  BY LexLess DEF Less, OpToRel
<1>2. b < b1 \/ (b = b1 /\ <<<<c, d>>, <<c1, d1>>>> \in LexPairOrdering(Less, Less, Nat, Nat)) =>
        <<<<b, <<c, d>>>>, <<b1, <<c1, d1>>>>>>
          \in LexPairOrdering(Less, LexPairOrdering(Less, Less, Nat, Nat), Nat, Nat \X Nat)
  BY LexLess
<1> QED BY <1>1, <1>2, LexLess DEF Nearer

\* What is still to do is a matter of finite sets.
Finite == IsFiniteSet(todo) /\ IsFiniteSet(missing)

LEMMA FiniteCorrect == Spec => []Finite
<1>1. Init => Finite
  BY FS_EmptySet DEF Init, Finite
<1>2. ASSUME Inv', Finite, [Next]_vars
      PROVE  Finite'
  <2>1. IsFiniteSet(todo')
    BY <1>2, FiniteAssumption, FS_Subset DEF Inv, TypeOK
  <2>2. IsFiniteSet(missing')
    <3>1. CASE missing' = missing
      BY <1>2, <3>1 DEF Finite
    <3>2. CASE missing' = {}
      BY <3>2, FS_EmptySet
    <3>3. CASE ProductCreated
      BY <1>2, <3>3, FiniteAssumption DEF ProductCreated, Inv, TypeOK, InStep
    <3>4. CASE NextVariant
      BY <1>2, <3>4, FS_RemoveElement DEF NextVariant, Finite
    <3> QED
      BY <1>2, <3>1, <3>2, <3>3, <3>4 DEF Next, Step, vars, script, catalog, history, Start,
         RejectFile, CountOnly, TakeFile, Finish, EnsureToken, SendInVain, SendProduct, SendVariant,
         SendPatch, Sending, Retry, Resend, ProductFailed, ProductExists, VariantAnswered,
         UploadImages, PatchAnswered, Kill, CreateByHand, DeleteProduct, AddByHand
  <2> QED BY <2>1, <2>2 DEF Finite
<1> QED BY InvCorrect, <1>1, <1>2, PTL DEF Spec

\* A step of the run takes a file, or gets further with the one in work.
LEMMA StepNearer ==
  ASSUME Inv, Finite, Finite', Step
  PROVE  <<Left', Left>> \in Nearer
<1>0. TypeOK /\ InStep
  BY DEF Inv
<1>1. /\ FilesLeft \in Nat /\ StagesLeft \in Nat /\ Cardinality(missing) \in Nat /\ RequestLeft \in Nat
      /\ FilesLeft' \in Nat /\ StagesLeft' \in Nat /\ Cardinality(missing') \in Nat /\ RequestLeft' \in Nat
  BY FS_CardinalityType DEF Finite, FilesLeft, StagesLeft, RequestLeft
<1> SUFFICES \/ FilesLeft' < FilesLeft
             \/ FilesLeft' = FilesLeft /\ StagesLeft' < StagesLeft
             \/ FilesLeft' = FilesLeft /\ StagesLeft' = StagesLeft
                /\ Cardinality(missing') < Cardinality(missing)
             \/ FilesLeft' = FilesLeft /\ StagesLeft' = StagesLeft
                /\ Cardinality(missing') = Cardinality(missing) /\ RequestLeft' < RequestLeft
  BY <1>1, NearerIf DEF Left
<1> USE <1>0, ScriptAssumption DEF FilesLeft, StagesLeft, RequestLeft, NoRequest
<1>2. ASSUME NEW f \in Files, RejectFile(f) \/ CountOnly(f) \/ TakeFile(f)
      PROVE  FilesLeft' < FilesLeft
  <2>1. pc = "files" /\ pc' # "idle" /\ f \in todo /\ todo' = todo \ {f}
    BY <1>2 DEF RejectFile, CountOnly, TakeFile, Request
  <2>2. Cardinality(todo') = Cardinality(todo) - 1 /\ Cardinality(todo) \in Nat
    BY <2>1, FS_RemoveElement, FS_CardinalityType DEF Finite
  <2> QED BY <2>1, <2>2
<1>3. CASE Finish
  <2>1. Cardinality(todo) \in Nat
    BY FS_CardinalityType DEF Finite
  <2> QED BY <1>3, <2>1 DEF Finish
<1>4. ASSUME UNCHANGED <<todo, missing, request>>, pc \in {"token", "send", "answered"},
             pc' \in {"token", "send", "answered"}, RequestLeft' < RequestLeft
      PROVE  /\ FilesLeft' = FilesLeft /\ StagesLeft' = StagesLeft
             /\ Cardinality(missing') = Cardinality(missing) /\ RequestLeft' < RequestLeft
  BY <1>4
<1>5. CASE EnsureToken \/ SendInVain \/ SendProduct \/ SendVariant \/ SendPatch \/ Retry
  <2>1. UNCHANGED <<todo, missing, request>>
    BY <1>5 DEF EnsureToken, SendInVain, SendProduct, SendVariant, SendPatch, Sending, Retry, Resend
  <2>2. \/ pc = "token" /\ pc' \in {"send", "answered"} /\ retried' = retried
        \/ pc = "send" /\ pc' = "answered" /\ retried' = retried
        \/ pc = "answered" /\ ~retried /\ pc' = "token" /\ retried'
    BY <1>5 DEF EnsureToken, SendInVain, SendProduct, SendVariant, SendPatch, Sending, Replied,
                Retry, Resend
  <2>3. request.kind # "none"
    BY <2>2 DEF InStep
  <2>4. RequestLeft' < RequestLeft
    BY <2>1, <2>2, <2>3
  <2> QED BY <1>4, <2>1, <2>2, <2>4
<1>6. CASE ProductFailed \/ ProductExists \/ PatchAnswered
  <2>1. /\ request.kind \in {"product", "patch"} /\ request' = NoRequest /\ todo' = todo
        /\ pc = "answered" /\ pc' = "files"
    BY <1>6 DEF ProductFailed, ProductExists, PatchAnswered, Answered, NextFile
  <2> QED BY <2>1
<1>7. CASE ProductCreated
  <2>1. /\ request.kind = "product" /\ request' = NoRequest /\ todo' = todo
        /\ pc = "answered" /\ pc' = "variants"
    BY <1>7 DEF ProductCreated, Answered
  <2> QED BY <2>1
<1>8. CASE NextVariant
  <2>1. PICK k \in missing : missing' = missing \ {k} /\ Request("variant", k)
    BY <1>8 DEF NextVariant
  <2>2. pc = "variants" /\ pc' = "token" /\ todo' = todo /\ request.kind = "none" /\ request'.kind = "variant"
    BY <1>8, <2>1 DEF NextVariant, Request, InStep
  <2>3. Cardinality(missing') < Cardinality(missing)
    BY <1>1, <2>1, FS_RemoveElement DEF Finite
  <2> QED BY <2>2, <2>3
<1>9. CASE VariantAnswered
  <2>1. /\ request.kind = "variant" /\ request' = NoRequest /\ UNCHANGED <<todo, missing>>
        /\ pc = "answered" /\ pc' = "variants"
    BY <1>9 DEF VariantAnswered, Answered
  <2> QED BY <2>1
<1>10. CASE UploadImages
  <2>1. /\ pc = "variants" /\ todo' = todo /\ request.kind = "none"
    BY <1>10 DEF UploadImages, InStep
  <2>2. \/ pc' = "token" /\ request'.kind = "patch"
        \/ pc' = "files" /\ request'.kind = "none"
    BY <1>10, <2>1 DEF UploadImages, Request, NextFile
  <2> QED BY <2>1, <2>2
<1> QED BY <1>2, <1>3, <1>5, <1>6, <1>7, <1>8, <1>9, <1>10, <1>1 DEF Step

\* However often requests are refused, answers are lost and admins interfere: a
\* run that has begun gets nearer to its end by each of its steps.
THEOREM RunGetsOnCorrect == Spec => RunGetsOn
<1>1. ASSUME Inv, Finite, Finite', [Next]_vars, pc # "idle"
      PROVE  <<Left', Left>> \in Nearer \/ Left' = Left
  <2>1. CASE Step
    BY <1>1, <2>1, StepNearer
  <2>2. CASE Kill
    <3>1. /\ FilesLeft \in Nat /\ StagesLeft \in Nat /\ Cardinality(missing) \in Nat /\ RequestLeft \in Nat
          /\ FilesLeft' \in Nat /\ StagesLeft' \in Nat /\ Cardinality(missing') \in Nat /\ RequestLeft' \in Nat
      BY <1>1, FS_CardinalityType DEF Finite, FilesLeft, StagesLeft, RequestLeft
    <3>2. FilesLeft' < FilesLeft
      BY <1>1, <2>2, FS_CardinalityType DEF Kill, Finite, FilesLeft
    <3> QED BY <3>1, <3>2, NearerIf DEF Left
  <2>3. CASE UNCHANGED script
    BY <2>3 DEF script, Left, FilesLeft, StagesLeft, RequestLeft
  <2> QED
    BY <1>1, <2>1, <2>2, <2>3 DEF Next, Start, CreateByHand, DeleteProduct, AddByHand, vars
<1>2. Inv /\ Finite /\ Finite' /\ [Next]_vars =>
        [/\ Step => <<Left', Left>> \in Nearer
         /\ pc # "idle" => <<Left', Left>> \in Nearer \/ Left' = Left]_vars
  BY <1>1, StepNearer
<1> QED BY InvCorrect, FiniteCorrect, <1>2, PTL DEF Spec, RunGetsOn
=============================================================================
