----------------------------- MODULE SeedScript -----------------------------
(***************************************************************************)
(* scripts/seed-catalog: a client of the gateway that creates the products *)
(* of a directory of files, one request after the other: for each file the *)
(* product, its variants, its images and the product's primary image.      *)
(* Requests are refused, their answers are lost, tokens expire, the        *)
(* script is killed and run again, and admins work beside it.              *)
(*                                                                         *)
(* The files are taken in any order.  Of the gateway and the catalog       *)
(* behind it a request has its effect in one step: VariantSaga and         *)
(* CatalogStore take them apart.                                           *)
(***************************************************************************)
EXTENDS Naturals, FiniteSets

CONSTANTS
  Files,    \* Silver files, each with a product of its own
  SKUs,     \* SKUs of variants
  Listed,   \* the SKUs that each file lists; two files may list one SKU
  NoFile,   \* no file in work
  NoSKU,    \* the request is not about a variant
  MaxRuns   \* bound: how often the script is started

ASSUME ScriptAssumption ==
  /\ Listed \in [Files -> SUBSET SKUs]
  /\ NoFile \notin Files /\ NoSKU \notin SKUs
  /\ MaxRuns \in Nat

\* A directory holds finitely many files, and a file finitely many variants.
ASSUME FiniteAssumption ==
  IsFiniteSet(Files) /\ \A f \in Files : IsFiniteSet(Listed[f])

VARIABLES
  pc,         \* where the script stands, "idle" between two runs
  runs,       \* how often it has been started
  dry,        \* whether the run was asked to call nobody (--dry-run)
  todo,       \* the files it has still to take
  file,       \* the one in work
  missing,    \* the variants of it that have still to be added
  request,    \* the request in work
  retried,    \* whether it has been sent with a second token
  reply,      \* what has become of it
  outcome,    \* how each file has been counted
  products,   \* the catalogue: whose product of each file there is
  variants,   \* the catalogue's variants
  reported,   \* history: files with an error in some run's log, or at which
              \* a run was killed
  conflicts   \* history: variants that were answered 409

script == <<pc, runs, dry, todo, file, missing, request, retried, reply, outcome>>
catalog == <<products, variants>>
history == <<reported, conflicts>>
vars == <<script, catalog, history>>

Places == {"idle", "files", "variants", "token", "send", "answered"}
Kinds == {"none", "product", "variant", "patch"}
Replies == {"none", "done", "conflict", "unauthorized", "error"}
Variant == [file : Files, sku : SKUs]

TypeOK ==
  /\ pc \in Places
  /\ runs \in 0 .. MaxRuns /\ dry \in BOOLEAN
  /\ todo \subseteq Files
  /\ file \in Files \cup {NoFile} /\ missing \subseteq SKUs
  /\ request \in [kind : Kinds, sku : SKUs \cup {NoSKU}]
  /\ retried \in BOOLEAN
  /\ reply \in Replies
  /\ outcome \in [Files -> {"none", "seeded", "skipped", "failed"}]
  /\ file # NoFile => file \notin todo /\ outcome[file] = "none"
  /\ products \in [Files -> {"absent", "script", "admin"}]
  /\ variants \subseteq Variant
  /\ \A v, w \in variants : products[v.file] # "absent" /\ (v.sku = w.sku => v = w)
  /\ reported \subseteq Files /\ conflicts \subseteq Variant

NoRequest == [kind |-> "none", sku |-> NoSKU]
Uncounted == [f \in Files |-> "none"]

Init ==
  /\ pc = "idle" /\ runs = 0 /\ dry = FALSE
  /\ todo = {} /\ file = NoFile /\ missing = {}
  /\ request = NoRequest /\ retried = FALSE /\ reply = "none"
  /\ outcome = Uncounted
  /\ products = [f \in Files |-> "absent"] /\ variants = {}
  /\ reported = {} /\ conflicts = {}

-----------------------------------------------------------------------------
(***************************************************************************)
(* main, up to the first request for a file                                *)
(***************************************************************************)
\* With no file, or without MinIO, the script exits at once: no step at all.
Start ==
  /\ pc = "idle" /\ runs < MaxRuns
  /\ pc' = "files"
  /\ runs' = runs + 1
  /\ dry' \in BOOLEAN
  /\ todo' = Files
  /\ outcome' = Uncounted
  /\ UNCHANGED <<file, missing, request, retried, reply, catalog, history>>

Count(f, o) == outcome' = [outcome EXCEPT ![f] = o]

\* The file cannot be read or parsed.
RejectFile(f) ==
  /\ pc = "files" /\ f \in todo
  /\ todo' = todo \ {f}
  /\ Count(f, "failed")
  /\ reported' = reported \cup {f}
  /\ UNCHANGED <<pc, runs, dry, file, missing, request, retried, reply, catalog, conflicts>>

\* doJSON, which begins with ensureToken.
Request(kind, k) ==
  /\ request' = [kind |-> kind, sku |-> k]
  /\ retried' = FALSE
  /\ pc' = "token"

\* A dry run counts it and makes no request.
CountOnly(f) ==
  /\ pc = "files" /\ f \in todo /\ dry
  /\ todo' = todo \ {f}
  /\ Count(f, "seeded")
  /\ UNCHANGED <<pc, runs, dry, file, missing, request, retried, reply, catalog, history>>

TakeFile(f) ==
  /\ pc = "files" /\ f \in todo /\ ~dry
  /\ todo' = todo \ {f}
  /\ file' = f
  /\ Request("product", NoSKU)
  /\ UNCHANGED <<runs, dry, missing, reply, outcome, catalog, history>>

\* "seed complete": exit status 1 if a file has failed.
Finish ==
  /\ pc = "files" /\ todo = {}
  /\ pc' = "idle"
  /\ UNCHANGED <<runs, dry, todo, file, missing, request, retried, reply, outcome,
                 catalog, history>>

-----------------------------------------------------------------------------
(***************************************************************************)
(* doJSONWithRetry                                                         *)
(***************************************************************************)
\* ensureToken: the token held is good, or another is fetched, because it has run
\* out (which it may at any time) or a 401 has cleared it; that may fail.
EnsureToken ==
  /\ pc = "token"
  /\ \/ pc' = "send" /\ UNCHANGED reply
     \/ pc' = "answered" /\ reply' = "error"
  /\ UNCHANGED <<runs, dry, todo, file, missing, request, retried, outcome, catalog, history>>

Replied(r) == reply' = r /\ pc' = "answered"

Sending(kind) ==
  /\ pc = "send" /\ request.kind = kind
  /\ UNCHANGED <<runs, dry, todo, file, missing, request, retried, outcome, history>>

\* RequireAuth (401) or RequireRole (403) lets nothing through, or the call ends
\* in an error before it has an effect.
SendInVain ==
  /\ \E kind \in Kinds : Sending(kind)
  /\ \E r \in {"unauthorized", "error"} : Replied(r)
  /\ UNCHANGED catalog

\* POST /admin/products.  The answer may be lost.
SendProduct ==
  /\ Sending("product")
  /\ \/ /\ products[file] = "absent"
        /\ products' = [products EXCEPT ![file] = "script"]
        /\ \E r \in {"done", "error"} : Replied(r)
     \/ /\ products[file] # "absent"
        /\ Replied("conflict") /\ UNCHANGED products
  /\ UNCHANGED variants

\* POST /admin/products/{id}/variants, for the product this run has created, if
\* it is still there.  An answer of 503 leaves the variant behind.
Held(k) == \E v \in variants : v.sku = k

SendVariant ==
  /\ Sending("variant")
  /\ products[file] = "script"
  /\ \/ /\ ~Held(request.sku)
        /\ variants' = variants \cup {[file |-> file, sku |-> request.sku]}
        /\ \E r \in {"done", "error"} : Replied(r)
     \/ /\ Held(request.sku)
        /\ Replied("conflict") /\ UNCHANGED variants
  /\ UNCHANGED products

\* PATCH of the primary image, which the properties do not tell apart.
SendPatch ==
  /\ Sending("patch")
  /\ Replied("done")
  /\ UNCHANGED catalog

\* A 401 is answered with another token and the same request, once.  (Variants
\* for the checks: every error is, and a 401 is as often as it comes.)
Resend(causes, again) ==
  /\ pc = "answered" /\ reply \in causes /\ ~retried
  /\ retried' = again
  /\ pc' = "token" /\ reply' = "none"
  /\ UNCHANGED <<runs, dry, todo, file, missing, request, outcome, catalog, history>>

RetryAny == Resend({"unauthorized", "error"}, TRUE)
RetryAlways == Resend({"unauthorized"}, FALSE)
Retry == Resend({"unauthorized"}, TRUE)

Failed == reply = "error" \/ (reply = "unauthorized" /\ retried)

Answered(kind) ==
  /\ pc = "answered" /\ request.kind = kind
  /\ request' = NoRequest /\ retried' = FALSE /\ reply' = "none"
  /\ UNCHANGED <<runs, dry, todo, catalog>>

-----------------------------------------------------------------------------
(***************************************************************************)
(* main, what is made of the answers                                       *)
(***************************************************************************)
NextFile(o) == Count(file, o) /\ file' = NoFile /\ pc' = "files"

\* (Variant for the checks: the file is counted, and its variants added.)
ProductFailedGoOn ==
  /\ Failed /\ Answered("product")
  /\ Count(file, "failed") /\ pc' = "variants" /\ missing' = Listed[file]
  /\ reported' = reported \cup {file}
  /\ UNCHANGED <<file, conflicts>>

ProductFailed ==
  /\ Failed /\ Answered("product")
  /\ NextFile("failed")
  /\ reported' = reported \cup {file}
  /\ UNCHANGED <<missing, conflicts>>

ProductExists ==
  /\ reply = "conflict" /\ Answered("product")
  /\ NextFile("skipped")
  /\ UNCHANGED <<missing, history>>

ProductCreated ==
  /\ reply = "done" /\ Answered("product")
  /\ pc' = "variants" /\ missing' = Listed[file]
  /\ UNCHANGED <<file, outcome, history>>

NextVariant ==
  /\ pc = "variants"
  /\ \E k \in missing : missing' = missing \ {k} /\ Request("variant", k)
  /\ UNCHANGED <<runs, dry, todo, file, reply, outcome, catalog, history>>

\* An error is logged; a conflict is as good as a variant created.
VariantAnswered ==
  /\ reply \in {"done", "conflict"} \/ Failed
  /\ Answered("variant")
  /\ pc' = "variants"
  /\ reported' = IF Failed THEN reported \cup {file} ELSE reported
  /\ conflicts' = IF reply = "conflict"
                  THEN conflicts \cup {[file |-> file, sku |-> request.sku]} ELSE conflicts
  /\ UNCHANGED <<file, missing, outcome>>

\* Images go to MinIO; the first one that gets there becomes the primary image.
UploadImages ==
  /\ pc = "variants" /\ missing = {}
  /\ \/ Request("patch", NoSKU) /\ UNCHANGED <<file, outcome>>
     \/ NextFile("seeded") /\ UNCHANGED <<request, retried>>
  /\ UNCHANGED <<runs, dry, todo, missing, reply, catalog, history>>

PatchAnswered ==
  /\ reply = "done" \/ Failed
  /\ Answered("patch")
  /\ NextFile("seeded")
  /\ UNCHANGED <<missing, history>>

-----------------------------------------------------------------------------
Kill ==
  /\ pc # "idle"
  /\ pc' = "idle"
  /\ todo' = {} /\ file' = NoFile /\ missing' = {}
  /\ request' = NoRequest /\ retried' = FALSE /\ reply' = "none"
  /\ reported' = reported \cup ({file} \cap Files)
  /\ UNCHANGED <<runs, dry, outcome, catalog, conflicts>>

\* Admins create and delete products, and add variants to any.
CreateByHand(f) ==
  /\ products[f] = "absent"
  /\ products' = [products EXCEPT ![f] = "admin"]
  /\ UNCHANGED <<script, variants, history>>

DeleteProduct(f) ==
  /\ products[f] # "absent"
  /\ products' = [products EXCEPT ![f] = "absent"]
  /\ variants' = {v \in variants : v.file # f}
  /\ UNCHANGED <<script, history>>

AddByHand(f, k) ==
  /\ products[f] # "absent" /\ ~Held(k)
  /\ variants' = variants \cup {[file |-> f, sku |-> k]}
  /\ UNCHANGED <<script, products, history>>

Step ==
  \/ \E f \in Files : RejectFile(f) \/ CountOnly(f) \/ TakeFile(f)
  \/ EnsureToken \/ SendInVain \/ SendProduct \/ SendVariant \/ SendPatch \/ Retry
  \/ ProductFailed \/ ProductExists \/ ProductCreated
  \/ NextVariant \/ VariantAnswered \/ UploadImages \/ PatchAnswered
  \/ Finish

Next ==
  \/ Start \/ Step \/ Kill
  \/ \E f \in Files : CreateByHand(f) \/ DeleteProduct(f)
  \/ \E f \in Files, k \in SKUs : AddByHand(f, k)

\* A run goes on; nobody must start one.  The requests to the gateway have a
\* timeout, those to Keycloak and MinIO are assumed to be answered.
Spec == Init /\ [][Next]_vars /\ WF_vars(Step)

-----------------------------------------------------------------------------
\* A rerun takes a product that is there for seeded ("product already exists,
\* skipping", main.go:352) and adds no variant to it: whichever run created a
\* product, a variant that its file lists is missing from it only if the run at
\* work on the file may still add it, if its SKU was taken, or if some run has
\* reported an error for the file or was killed at it.
HalfSeededWasReported ==
  \A f \in Files : products[f] = "script" /\ f # file /\ f \notin reported =>
    \A k \in Listed[f] : [file |-> f, sku |-> k] \in variants \cup conflicts

\* "On a 401 response it refreshes the token and retries exactly once"
\* (main.go:154): however often requests are refused, every run comes to an end.
RunEnds == pc # "idle" ~> pc = "idle"
=============================================================================
