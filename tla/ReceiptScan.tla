------------------------------ MODULE ReceiptScan ------------------------------
(***************************************************************************)
(* One receipt scan from upload to commit (src/baskety/internal/receipt):  *)
(* the upload request, the pipeline job on a queue worker                  *)
(* (worker.go), the reviewers' UpdateScanItem requests and the CommitScan  *)
(* requests (service.go), all of them interleaved statement by statement.  *)
(* No database transaction spans two statements of any of them, and        *)
(* nothing locks the scan.  Scans share no row, so one scan is enough.     *)
(*                                                                         *)
(* A database call of a request fails when the database does or when the   *)
(* client has gone and the request context with it; one of a job when the  *)
(* database does.  A statement that reports an error may have been         *)
(* executed all the same, when only its answer was lost.                   *)
(***************************************************************************)
EXTENDS FiniteSets

CONSTANTS
    Items,      \* the line items a receipt may hold
    InvItems,   \* inventory items a line item can be linked to
    Commits,    \* the CommitScan requests that may be sent
    Edits,      \* the UpdateScanItem requests that may be sent
    Units,      \* the units a client may send
    Sent,       \* the item statuses a client may send
    None        \* SQL NULL

ASSUME ReceiptAssumption ==
    /\ None \notin InvItems
    /\ None \notin Units
    /\ InvItems \intersect Units = {}
    /\ Sent \subseteq {"pending", "accepted", "rejected", "corrected"}

VARIABLES
    status,     \* receipt_scans.status, "none" before the row exists
    upload,     \* the UploadScan request
    worker,     \* the pipeline job, by the next statement of Work
    parsed,     \* the line items ParseReceipt returned
    toMatch,    \* the items matchInventory still has to link
    item,       \* the rows of receipt_scan_items
    commit,     \* the CommitScan requests
    edit,       \* the UpdateScanItem requests
    txns,       \* the rows of purchase_transactions: <<commit, item>>
    enqueued,   \* history: the enrichment jobs the queue accepted
    approved,   \* history: the items a reviewer ever accepted or corrected
    reopened,   \* history: the pipeline's last write undid a commit
    unheard     \* history: SetLLMResult opened the review and its answer was lost

jobVars == <<worker, parsed, toMatch>>
flags == <<reopened, unheard>>
history == <<approved, flags>>
vars == <<status, upload, jobVars, item, commit, edit, txns, enqueued, history>>

ItemStatuses == {"pending", "accepted", "rejected", "corrected"}
Approving == {"accepted", "corrected"}

\* The statuses the client polls on (packages/core/src/queries/receipt.ts:42).
Polled == {"uploading", "ocr_processing", "llm_processing"}
Statuses == Polled \union {"none", "pending_review", "committed", "failed"}

\* The job is somewhere inside Work.
Running == {"mark", "ocr", "store_ocr", "llm", "items", "match", "reopen", "failing"}
Over == {"ended", "stranded", "lost"}

InFlight == {"checked", "creating", "enqueuing"}

NoItem == [row |-> FALSE, status |-> "pending", unit |-> None]
NewCommit == [pc |-> "idle", todo |-> {}, chosen |-> {}, unsent |-> {}, late |-> FALSE]
NewEdit == [pc |-> "idle", item |-> None, link |-> None]
EditOver == [NewEdit EXCEPT !.pc = "over"]

ItemRecords == [row : BOOLEAN, status : ItemStatuses,
                unit : InvItems \union Units \union {None}]
CommitRecords == [pc : {"idle", "done", "failed", "died"} \union InFlight,
                  todo : SUBSET Items, chosen : SUBSET Items, unsent : SUBSET Items,
                  late : BOOLEAN]
EditRecords == [pc : {"idle", "linking", "over"},
                item : Items \union {None}, link : InvItems \union {None}]

Rows == {i \in Items : item[i].row}
Bought(c) == {i \in Items : <<c, i>> \in txns}

TypeOK ==
    /\ status \in Statuses
    /\ upload \in {"idle", "unanswered", "created", "done", "failed", "died"}
    /\ worker \in {"none", "queued"} \union Running \union Over
    /\ parsed \in SUBSET Items
    /\ toMatch \in SUBSET Items
    /\ item \in [Items -> ItemRecords]
    /\ commit \in [Commits -> CommitRecords]
    /\ edit \in [Edits -> EditRecords]
    /\ txns \in SUBSET (Commits \X Items)
    /\ enqueued \in SUBSET (Commits \X Items)
    /\ approved \in SUBSET Items
    /\ reopened \in BOOLEAN /\ unheard \in BOOLEAN

Init ==
    /\ status = "none"
    /\ upload = "idle"
    /\ worker = "none"
    /\ parsed = {} /\ toMatch = {}
    /\ item = [i \in Items |-> NoItem]
    /\ commit = [c \in Commits |-> NewCommit]
    /\ edit = [e \in Edits |-> NewEdit]
    /\ txns = {} /\ enqueued = {}
    /\ approved = {} /\ reopened = FALSE /\ unheard = FALSE

--------------------------------------------------------------------------------
(* UploadScan.  Storing the image comes first; when that or the insert      *)
(* fails there is no scan, and the request ends with nothing to see here.   *)

\* The row is inserted; when the answer is lost, the request ends without a job.
CreateScan ==
    /\ upload = "idle"
    /\ status' = "uploading"
    /\ upload' \in {"created", "unanswered"}
    /\ UNCHANGED <<jobVars, item, commit, edit, txns, enqueued, history>>

EnqueueScan ==
    /\ upload = "created"
    /\ upload' = "done"
    /\ worker' = "queued"
    /\ UNCHANGED <<status, parsed, toMatch, item, commit, edit, txns, enqueued, history>>

\* The queue is full and the client gives up, or the queue is shut down: the
\* request fails and the scan it created stays behind as "uploading".
EnqueueScanFails ==
    /\ upload = "created"
    /\ upload' = "failed"
    /\ UNCHANGED <<status, jobVars, item, commit, edit, txns, enqueued, history>>

Upload == CreateScan \/ EnqueueScan \/ EnqueueScanFails

--------------------------------------------------------------------------------
(* ProcessReceiptScanWorker.Work, one action per statement.                 *)

\* A statement that takes the job from one point to the next, or to fail().
JobStep(from, to) ==
    /\ worker = from
    /\ worker' = to
    /\ UNCHANGED <<upload, commit, edit, txns, enqueued, approved>>

Keep == UNCHANGED <<status, parsed, toMatch, item, flags>>

\* A statement that sets the status.  One that reports an error may have set it.
SetStatus(from, to, onError, new) ==
    /\ \/ JobStep(from, to) /\ status' = new
       \/ JobStep(from, onError) /\ status' \in {status, new}
    /\ UNCHANGED <<parsed, toMatch, item>>

\* The job is received and the scan fetched.
Fetch == (JobStep("queued", "mark") \/ JobStep("queued", "failing")) /\ Keep

\* UpdateScanStatus(ocr_processing); its error returns without fail().
MarkOcr == SetStatus("mark", "ocr", "stranded", "ocr_processing") /\ UNCHANGED flags

ExtractText == (JobStep("ocr", "store_ocr") \/ JobStep("ocr", "failing")) /\ Keep

\* SetOCRResult also moves the scan on.
StoreOcr == SetStatus("store_ocr", "llm", "failing", "llm_processing") /\ UNCHANGED flags

\* The provider is resolved and asked; what it returns is anybody's guess.
ParseReceipt ==
    \/ /\ JobStep("llm", "items")
       /\ parsed' \in SUBSET Items
       /\ UNCHANGED <<status, toMatch, item, flags>>
    \/ JobStep("llm", "failing") /\ Keep

CreateScanItem(i) ==
    /\ i \in parsed \ Rows
    /\ \/ /\ \E to \in {"items", "failing"} : JobStep("items", to)
          /\ item' = [item EXCEPT ![i].row = TRUE]
          /\ UNCHANGED <<status, parsed, toMatch, flags>>
       \/ JobStep("items", "failing") /\ Keep

\* mutant: the review is opened as soon as the model has answered
LoadInventoryOpens ==
    /\ worker = "items"
    /\ status' = "pending_review"
    /\ worker' = "match"
    /\ toMatch' \in SUBSET parsed
    /\ UNCHANGED <<upload, parsed, item, commit, edit, txns, enqueued, history>>

\* matchInventory loads the household's items and finds the names that match:
\* none when the load fails or there is no inventory lookup.
LoadInventory ==
    /\ Rows = parsed
    /\ JobStep("items", "match")
    /\ toMatch' \in (IF InvItems = {} THEN {{}} ELSE SUBSET parsed)
    /\ UNCHANGED <<status, parsed, item, flags>>

\* mutant: a match is taken for a confirmation
MatchItemAccepts(i) ==
    /\ i \in toMatch
    /\ JobStep("match", "match")
    /\ toMatch' = toMatch \ {i}
    /\ \E x \in InvItems :
          item' = [item EXCEPT ![i].unit = x, ![i].status = "accepted"]
    /\ UNCHANGED <<status, parsed, flags>>

\* LinkScanItemToInventory for one matched item, whose unit is forced when the
\* inventory item has one.  An error is logged and the loop goes on.  (Nothing here
\* reads the link itself; Enrichment does.)
MatchItem(i) ==
    /\ i \in toMatch
    /\ JobStep("match", "match")
    /\ toMatch' = toMatch \ {i}
    /\ item' = item \/ \E x \in InvItems : item' = [item EXCEPT ![i].unit = x]
    /\ UNCHANGED <<status, parsed, flags>>

\* SetLLMResult moves the scan to pending_review: the review is open from here, and
\* stays so on the way to fail() when only the answer was lost.
StoreLlm ==
    /\ toMatch = {}
    /\ SetStatus("match", "reopen", "failing", "pending_review")
    /\ unheard' = (worker' = "failing" /\ status' = "pending_review")
    /\ UNCHANGED reopened

\* mutant: the last statement's error goes through fail() like the others
MarkPendingFails ==
    /\ SetStatus("reopen", "ended", "failing", "pending_review")
    /\ reopened' = (status = "committed" /\ status' = "pending_review")
    /\ UNCHANGED unheard

\* UpdateScanStatus(pending_review) once more, whatever the status is by now; its
\* error returns without fail().
MarkPending ==
    /\ SetStatus("reopen", "ended", "ended", "pending_review")
    /\ reopened' = (status = "committed" /\ status' = "pending_review")
    /\ UNCHANGED unheard

\* mutant: fail() only returns the error
FailSilently == JobStep("failing", "ended") /\ Keep

\* fail(): the failure is recorded on the scan, whatever its status is by now, if the
\* database lets it.
Fail == SetStatus("failing", "ended", "stranded", "failed") /\ UNCHANGED flags

Work ==
    \/ Fetch \/ MarkOcr \/ ExtractText \/ StoreOcr \/ ParseReceipt
    \/ \E i \in Items : CreateScanItem(i) \/ MatchItem(i)
    \/ LoadInventory \/ StoreLlm \/ MarkPending \/ Fail

--------------------------------------------------------------------------------
(* UpdateScanItem.  There is no check of the scan's status: whoever knows   *)
(* the item may edit it, before, during and after a commit.                 *)

\* mutant: the status of the request is not validated
UpdateRowUnchecked(e) ==
    /\ edit[e].pc = "idle"
    /\ \E i \in Rows, st \in Sent \union {"done"} :
          /\ item' = [item EXCEPT ![i].status = st]
          /\ edit' = [edit EXCEPT ![e].pc = "over"]
          /\ approved' = IF st \in Approving THEN approved \union {i} ELSE approved
    /\ UNCHANGED <<status, upload, jobVars, commit, txns, enqueued, flags>>

\* The row is overwritten, every corrected_* column with what the request holds; that
\* is all of it when it holds no link.
UpdateRow(e) ==
    /\ edit[e].pc = "idle"
    /\ \E i \in Rows, st \in Sent, x \in InvItems \union {None}, u \in Units \union {None} :
          /\ item' = [item EXCEPT ![i].status = st, ![i].unit = u]
          /\ edit' = [edit EXCEPT ![e] =
                        IF x = None THEN EditOver ELSE [pc |-> "linking", item |-> i, link |-> x]]
          /\ approved' = IF st \in Approving THEN approved \union {i} ELSE approved
    /\ UNCHANGED <<status, upload, jobVars, commit, txns, enqueued, flags>>

\* Then it is linked, and the unit forced when the lookup finds one.  The row stays as
\* it was overwritten when it finds none, or when the request does not get that far: the
\* answer to the update was lost, the inventory item is gone or the client is.
LinkRow(e) ==
    /\ edit[e].pc = "linking"
    /\ item' \in {item, [item EXCEPT ![edit[e].item].unit = edit[e].link]}
    /\ edit' = [edit EXCEPT ![e] = EditOver]
    /\ UNCHANGED <<status, upload, jobVars, commit, txns, enqueued, history>>

Review(e) == UpdateRow(e) \/ LinkRow(e)

--------------------------------------------------------------------------------
(* CommitScan.                                                              *)

CommitStep == UNCHANGED <<status, upload, jobVars, item, edit, txns, enqueued, history>>

\* The request is gone, and its local variables with it.
CommitOver(c, how) == [commit[c] EXCEPT !.pc = how, !.todo = {}, !.unsent = {}]

\* mutant: a committed scan may be committed again
CheckScanLoose(c) ==
    /\ commit[c].pc = "idle"
    /\ commit' = [commit EXCEPT
         ![c].pc = IF status \in {"pending_review", "committed"} THEN "checked" ELSE "failed",
         ![c].late = \E d \in Commits : commit[d].pc = "done"]
    /\ CommitStep

\* The scan is loaded and must be pending_review.  (late is history: a commit had
\* already been answered.)
CheckScan(c) ==
    /\ commit[c].pc = "idle"
    /\ commit' = [commit EXCEPT
         ![c].pc = IF status = "pending_review" THEN "checked" ELSE "failed",
         ![c].late = \E d \in Commits : commit[d].pc = "done"]
    /\ CommitStep

\* The items are listed; the loop below goes by the statuses read here.
ListItems(c) ==
    /\ commit[c].pc = "checked"
    /\ LET chosen == {i \in Rows : item[i].status \in Approving} IN
         commit' = [commit EXCEPT ![c].pc = "creating", ![c].todo = chosen, ![c].chosen = chosen]
    /\ CommitStep

\* mutant: a row that cannot be written is skipped
CreateTransactionOrSkip(c, i) ==
    /\ commit[c].pc = "creating" /\ i \in commit[c].todo
    /\ commit' = [commit EXCEPT ![c].todo = @ \ {i}]
    /\ txns' \in {txns, txns \union {<<c, i>>}}
    /\ UNCHANGED <<status, upload, jobVars, item, edit, enqueued, history>>

\* CreatePurchaseTransaction: the item is read again for its price and quantity and
\* the row inserted.  Nobody reads the inserted row before its job is enqueued, so
\* both statements are one step.
CreateTransaction(c, i) ==
    /\ commit[c].pc = "creating" /\ i \in commit[c].todo
    /\ commit' = [commit EXCEPT ![c].todo = @ \ {i}]
    /\ txns' = txns \union {<<c, i>>}
    /\ UNCHANGED <<status, upload, jobVars, item, edit, enqueued, history>>

\* mutant: the jobs are enqueued before the scan is marked
MarkCommittedLast(c) ==
    /\ commit[c].pc = "creating" /\ commit[c].todo = {}
    /\ commit' = [commit EXCEPT ![c].pc = "checked", ![c].unsent = Bought(c)]
    /\ enqueued' = enqueued \union ({c} \X Bought(c))
    /\ UNCHANGED <<status, upload, jobVars, item, edit, txns, history>>

MarkCommitted(c) ==
    /\ commit[c].pc = "creating" /\ commit[c].todo = {}
    /\ status' = "committed"
    /\ commit' = [commit EXCEPT ![c].pc = "enqueuing", ![c].unsent = Bought(c)]
    /\ UNCHANGED <<upload, jobVars, item, edit, txns, enqueued, history>>

\* One enrichment job; an error is logged and the commit goes on.
EnqueueTransaction(c, i) ==
    /\ commit[c].pc = "enqueuing" /\ i \in commit[c].unsent
    /\ commit' = [commit EXCEPT ![c].unsent = @ \ {i}]
    /\ enqueued' \in {enqueued, enqueued \union {<<c, i>>}}
    /\ UNCHANGED <<status, upload, jobVars, item, edit, txns, history>>

Answer(c) ==
    /\ commit[c].pc = "enqueuing" /\ commit[c].unsent = {}
    /\ commit' = [commit EXCEPT ![c].pc = "done"]
    /\ CommitStep

\* A database call fails: the request returns with what it wrote so far in place,
\* the statement that reported the error included when only its answer was lost.
CommitFails(c) ==
    /\ commit[c].pc \in {"checked", "creating"}
    /\ commit' = [commit EXCEPT ![c] = CommitOver(c, "failed")]
    /\ \/ UNCHANGED <<status, txns>>
       \/ /\ commit[c].pc = "creating" /\ UNCHANGED status
          /\ \E i \in commit[c].todo : txns' = txns \union {<<c, i>>}
       \/ /\ commit[c].pc = "creating" /\ commit[c].todo = {}
          /\ status' = "committed" /\ UNCHANGED txns
    /\ UNCHANGED <<upload, jobVars, item, edit, enqueued, history>>

Commit(c) ==
    \/ CheckScan(c) \/ ListItems(c) \/ MarkCommitted(c) \/ Answer(c) \/ CommitFails(c)
    \/ \E i \in Items : CreateTransaction(c, i) \/ EnqueueTransaction(c, i)

--------------------------------------------------------------------------------
\* mutant: the job is found again when the process comes back
CrashRequeues ==
    /\ worker \in {"queued"} \union Running
    /\ worker' = "queued"
    /\ UNCHANGED <<status, upload, parsed, toMatch, item, commit, edit, txns, enqueued, history>>

\* The process dies and is started again: the job is lost with the queue it was in,
\* the requests with their connections.  The rows stay.
Crash ==
    /\ \/ worker \in {"queued"} \union Running
       \/ upload = "created"
       \/ \E c \in Commits : commit[c].pc \in InFlight
       \/ \E e \in Edits : edit[e].pc = "linking"
    /\ worker' = IF worker \in {"queued"} \union Running THEN "lost" ELSE worker
    /\ upload' = IF upload = "created" THEN "died" ELSE upload
    /\ commit' = [c \in Commits |->
                    IF commit[c].pc \in InFlight THEN CommitOver(c, "died") ELSE commit[c]]
    /\ edit' = [e \in Edits |-> IF edit[e].pc = "linking" THEN EditOver ELSE edit[e]]
    /\ UNCHANGED <<status, parsed, toMatch, item, txns, enqueued, history>>

Next ==
    \/ Upload
    \/ Work
    \/ \E e \in Edits : Review(e)
    \/ \E c \in Commits : Commit(c)
    \/ Crash

Spec == Init /\ [][Next]_vars

\* The queue hands the job to a worker and the scheduler runs it.
FairSpec == Spec /\ WF_vars(Work /\ worker \notin {"ocr", "llm"})

\* That the OCR and the LLM provider answer is not the code's to guarantee.  When
\* they do, no queue stays full and an Enqueue call returns.
ProvidersAnswer ==
    /\ WF_vars(Work /\ worker \in {"ocr", "llm"})
    /\ WF_vars(EnqueueScan \/ EnqueueScanFails)

--------------------------------------------------------------------------------
(* Properties *)

\* "Data is never auto-applied" (docs/ARCHITECTURE.md:108): nothing is bought for a
\* line item no reviewer ever accepted or corrected, whatever matching, edits and
\* commits run at the same time.
ReviewGate == \A t \in txns : t[2] \in approved

\* Once a scan can be reviewed it is whole: every parsed line has its row, and the
\* pipeline will not write to a row any more, so it cannot overwrite an edit of a
\* reviewer who waited for pending_review.
ReviewSeesWholeReceipt ==
    status \in {"pending_review", "committed"} =>
        /\ Rows = parsed
        /\ worker \notin {"items", "match"}

\* A scan that shows as failed has no purchases and will have none, unless fail() came
\* after a SetLLMResult that had opened the review and whose answer was lost: no other
\* error of the pipeline can overtake a review.
FailedBuysNothing ==
    status = "failed" =>
        unheard \/ (txns = {} /\ \A c \in Commits : commit[c].pc \notin InFlight)

\* A failed scan stays failed.  Only a commit that was under way when fail() overtook
\* an open review still marks it.
FailedIsFinal ==
    [][status = "failed" => status' = "failed" \/ (unheard /\ status' = "committed")]_vars

\* A commit that was answered makes every later one a no-op, unless the pipeline
\* took the scan back to pending_review in between.
LateCommitBuysNothing ==
    ~reopened => \A c \in Commits : commit[c].late => Bought(c) = {}

\* A commit that was answered with success bought what it had found approved.
AnsweredIsComplete ==
    \A c \in Commits :
        commit[c].pc \in {"enqueuing", "done"} => Bought(c) = commit[c].chosen

\* Inventory is only touched for commits that marked the scan: no enrichment job for
\* the purchases of a commit that failed halfway.
EnrichmentFollowsCommit ==
    \A c \in Commits : (\E i \in Items : <<c, i>> \in enqueued) =>
        /\ commit[c].pc \in {"enqueuing", "done", "died"}
        /\ \A i \in Items : <<c, i>> \in enqueued => <<c, i>> \in txns
        /\ Bought(c) = commit[c].chosen

\* The client does not poll for ever: if the providers answer, a scan leaves the
\* processing statuses, unless its job was never accepted, was lost with the
\* process, or ended in a status update that failed.
UploadSettles ==
    ProvidersAnswer =>
        (status \in Polled ~>
            \/ status \notin Polled
            \/ worker \in {"lost", "stranded"}
            \/ upload \in {"unanswered", "failed", "died"})

\* Contradicted.  The state machine of docs/ARCHITECTURE.md:102-104 has no way out of
\* committed: not to pending_review, nor to failed.
CommittedIsFinal == [][status = "committed" => status' = "committed"]_vars

\* What holds of it: nothing but the last statement of the pipeline takes a scan out
\* of committed, so it happens once: back to pending_review, or to failed when the
\* answer of SetLLMResult was lost, however commits, edits and failures fall.
CommitUndoneOnce ==
    [][status = "committed" /\ status' # "committed" =>
         /\ worker' \in {"ended", "stranded"} /\ worker' # worker
         /\ IF unheard THEN status' = "failed"
                       ELSE status' = "pending_review" /\ ~reopened /\ reopened']_vars

\* Contradicted.  "Creates a purchase_transactions row per accepted/corrected item":
\* one row, not one per commit request.
OneTransactionPerItem ==
    \A c, d \in Commits, i \in Items : <<c, i>> \in txns /\ <<d, i>> \in txns => c = d

\* Contradicted.  The unit of a linked item "is authoritative" and overrides "any
\* unit the client sent" (service.go:156-158): a unit that was forced gives way to a
\* typed one only inside an edit that goes on to force it again.
ForcedUnitStays ==
    [][\A i \in Items :
         item[i].unit \in InvItems /\ item'[i].unit \in Units =>
             \E e \in Edits : edit'[e].pc = "linking" /\ edit'[e].item = i]_vars

--------------------------------------------------------------------------------
(* What this module assumes of the queue is what JobDelivery promises.      *)

JobPhase ==
    CASE upload \in {"idle", "unanswered"} -> "new"
      [] upload = "created" -> "offered"
      [] upload = "failed" -> "refused"
      [] upload = "died" -> "aborted"
      [] upload = "done" /\ worker \in {"none", "queued"} -> "queued"
      [] upload = "done" /\ worker \in Running -> "running"
      [] upload = "done" /\ worker \in {"ended", "stranded"} -> "ended"
      [] upload = "done" /\ worker = "lost" -> "lost"

ScanJob == INSTANCE JobDelivery WITH Jobs <- {"scan"}, phase <- [j \in {"scan"} |-> JobPhase]

JobDeliveredOnce == ScanJob!Spec
================================================================================
