--------------------------- MODULE ReceiptScanProofs ---------------------------
(***************************************************************************)
(* Proofs about ReceiptScan, for any number of line items, inventory items *)
(* and units, of CommitScan and of UpdateScanItem requests.                *)
(*                                                                         *)
(* None of the properties is inductive: ReviewGate, say, holds in a state  *)
(* where a commit has chosen an item nobody approved.  ScanInv adds what   *)
(* the program counters of the job (JobPlace) and of each commit           *)
(* (CommitPlace) say about the rows, and the one fact that orders the job  *)
(* and the commits (OpenPlace): no commit gets past its check before       *)
(* SetLLMResult opened the review, and the job writes to no row after it.  *)
(* From then on the scan is reviewable or committed, unless the answer of  *)
(* SetLLMResult was lost and fail() came after it.                         *)
(***************************************************************************)
EXTENDS ReceiptScan, TLAPS

Open == status \in {"pending_review", "committed"}

\* SetLLMResult was executed.
Reviewed == Open \/ unheard

\* The upload request and the job it starts.
UploadPlace ==
    /\ worker = "none" <=> upload # "done"
    /\ upload = "idle" <=> status = "none"

\* What the job has written when it gets to a statement.
JobPlace ==
    /\ Rows \subseteq parsed
    /\ worker \in {"none", "queued", "mark", "ocr", "store_ocr", "llm"} => parsed = {}
    /\ worker \in {"match", "reopen"} => Rows = parsed
    /\ Reviewed => worker \in {"reopen", "failing"} \union Over /\ Rows = parsed
    /\ worker = "reopen" => Open /\ ~unheard
    /\ worker = "failing" /\ Open => unheard
    /\ status = "failed" => worker \in {"ended", "stranded"}
    /\ reopened => worker = "ended"

\* A commit past its check, or a row it left, means that the review was opened.
OpenPlace ==
    /\ \A c \in Commits : commit[c].pc \in InFlight \union {"done"} => Reviewed
    /\ txns # {} => Reviewed

\* What each commit has chosen, written and enqueued at each of its statements.
CommitPlace(c) ==
    /\ commit[c].chosen \subseteq approved
    /\ commit[c].pc \in {"idle", "checked"} => commit[c].chosen = {} /\ Bought(c) = {}
    /\ commit[c].pc = "creating" =>
          /\ commit[c].todo \subseteq commit[c].chosen
          /\ Bought(c) = commit[c].chosen \ commit[c].todo
    /\ commit[c].pc \in {"enqueuing", "done"} => Bought(c) = commit[c].chosen
    /\ commit[c].pc = "enqueuing" => commit[c].unsent \subseteq Bought(c)
    /\ Bought(c) \subseteq commit[c].chosen

ApprovedRows == \A i \in Items : item[i].status \in Approving => i \in approved

\* Only the job's last write takes a marked scan back to pending_review, and a commit
\* checked after an answered one was turned away.
MarkedPlace ==
    ~reopened =>
        /\ \A c \in Commits :
              commit[c].pc \in {"enqueuing", "done"} => status \in {"committed", "failed"}
        /\ \A c \in Commits : commit[c].late => commit[c].pc = "failed" /\ Bought(c) = {}

\* An edit that goes on to link an item knows both ends of the link.
LinkedEdits ==
    \A e \in Edits : edit[e].pc = "linking" => edit[e].item \in Items /\ edit[e].link \in InvItems

ScanInv ==
    /\ TypeOK
    /\ LinkedEdits
    /\ UploadPlace
    /\ JobPlace
    /\ OpenPlace
    /\ \A c \in Commits : CommitPlace(c)
    /\ ApprovedRows
    /\ MarkedPlace
    /\ EnrichmentFollowsCommit

--------------------------------------------------------------------------------
\* What a commit bought only depends on txns; a step that leaves the commits' rows
\* and requests alone, and approves no fewer items, leaves CommitPlace alone.
LEMMA CommitsAlone ==
    ASSUME \A c \in Commits : CommitPlace(c), EnrichmentFollowsCommit,
           UNCHANGED <<commit, txns, enqueued>>, approved \subseteq approved'
    PROVE  /\ \A c \in Commits : CommitPlace(c)'
           /\ EnrichmentFollowsCommit'
           /\ \A c \in Commits : Bought(c)' = Bought(c)
<1>1. \A c \in Commits : Bought(c)' = Bought(c)
  BY DEF Bought
<1>2. \A c \in Commits : CommitPlace(c)'
  BY <1>1 DEF CommitPlace
<1>3. EnrichmentFollowsCommit'
  BY <1>1 DEF EnrichmentFollowsCommit
<1> QED BY <1>1, <1>2, <1>3

\* A row of which some columns are overwritten is a row.
LEMMA WriteRow ==
    ASSUME item \in [Items -> ItemRecords], NEW i \in Items
    PROVE  /\ [item EXCEPT ![i].row = TRUE] \in [Items -> ItemRecords]
           /\ \A x \in InvItems : [item EXCEPT ![i].unit = x] \in [Items -> ItemRecords]
           /\ \A st \in Sent, u \in Units \union {None} :
                 [item EXCEPT ![i].status = st, ![i].unit = u] \in [Items -> ItemRecords]
<1>1. item[i] \in ItemRecords
  OBVIOUS
<1>2. \A r \in ItemRecords : [item EXCEPT ![i] = r] \in [Items -> ItemRecords]
  OBVIOUS
<1>3. [item EXCEPT ![i].row = TRUE] \in [Items -> ItemRecords]
  <2>1. [item[i] EXCEPT !.row = TRUE] \in ItemRecords
    BY <1>1 DEF ItemRecords
  <2> QED BY <1>2, <2>1
<1>4. ASSUME NEW x \in InvItems
      PROVE  [item EXCEPT ![i].unit = x] \in [Items -> ItemRecords]
  <2>1. [item[i] EXCEPT !.unit = x] \in ItemRecords
    BY <1>1 DEF ItemRecords
  <2> QED BY <1>2, <2>1
<1>5. ASSUME NEW st \in Sent, NEW u \in Units \union {None}
      PROVE  [item EXCEPT ![i].status = st, ![i].unit = u] \in [Items -> ItemRecords]
  <2>0. st \in ItemStatuses
    BY ReceiptAssumption DEF ItemStatuses
  <2>1. [item[i] EXCEPT !.status = st, !.unit = u] \in ItemRecords
    BY <1>1, <2>0 DEF ItemRecords
  <2>2. [item EXCEPT ![i].status = st, ![i].unit = u]
           = [item EXCEPT ![i] = [item[i] EXCEPT !.status = st, !.unit = u]]
    OBVIOUS
  <2> QED BY <1>2, <2>1, <2>2
<1> QED BY <1>3, <1>4, <1>5

\* Nothing exists before the upload.
LEMMA InitScanInv == Init => ScanInv
<1> SUFFICES ASSUME Init PROVE ScanInv
  OBVIOUS
<1> USE DEF Init
<1>1. /\ item \in [Items -> ItemRecords]
      /\ \A i \in Items : ~item[i].row /\ item[i].status = "pending"
  BY DEF NoItem, ItemStatuses, ItemRecords
<1>2. /\ commit \in [Commits -> CommitRecords]
      /\ \A c \in Commits : commit[c] = NewCommit
  BY DEF NewCommit, CommitRecords
<1>3. edit \in [Edits -> EditRecords]
  BY DEF NewEdit, EditRecords
<1>4. TypeOK
  BY <1>1, <1>2, <1>3 DEF TypeOK, Statuses, Polled
<1>5. UploadPlace /\ JobPlace /\ ApprovedRows /\ LinkedEdits
  BY <1>1 DEF UploadPlace, JobPlace, ApprovedRows, LinkedEdits, Rows, Open, Reviewed,
     Approving, NewEdit
<1>6. \A c \in Commits : Bought(c) = {}
  BY DEF Bought
<1>7. OpenPlace /\ MarkedPlace /\ EnrichmentFollowsCommit
  BY <1>2, <1>6 DEF OpenPlace, MarkedPlace, EnrichmentFollowsCommit, NewCommit, InFlight
<1>8. \A c \in Commits : CommitPlace(c)
  BY <1>2, <1>6 DEF CommitPlace, NewCommit
<1> QED BY <1>4, <1>5, <1>7, <1>8 DEF ScanInv

\* The upload request touches no row of a review.
LEMMA UploadScanInv == ASSUME ScanInv, Upload PROVE ScanInv'
<1> USE DEF ScanInv, history, flags, jobVars
<1>1. CASE CreateScan
  <2>1. TypeOK'
    BY <1>1 DEF CreateScan, TypeOK, Statuses, Polled
  <2>2. ~Reviewed /\ ~Open
    BY <1>1 DEF CreateScan, UploadPlace, JobPlace, Open, Reviewed, Over
  <2>3. UploadPlace' /\ JobPlace' /\ ApprovedRows' /\ LinkedEdits'
    BY <1>1, <2>2 DEF CreateScan, UploadPlace, JobPlace, ApprovedRows, LinkedEdits, Open,
       Reviewed, Rows
  <2>4. (\A c \in Commits : CommitPlace(c)') /\ EnrichmentFollowsCommit'
        /\ \A c \in Commits : Bought(c)' = Bought(c)
    BY <1>1, CommitsAlone DEF CreateScan
  <2>5. OpenPlace' /\ MarkedPlace'
    BY <1>1, <2>2, <2>4 DEF CreateScan, OpenPlace, MarkedPlace, InFlight
  <2> QED BY <2>1, <2>3, <2>4, <2>5
<1>2. CASE EnqueueScan \/ EnqueueScanFails
  <2>1. TypeOK'
    BY <1>2 DEF EnqueueScan, EnqueueScanFails, TypeOK
  <2>2. UploadPlace' /\ JobPlace' /\ ApprovedRows' /\ LinkedEdits'
    BY <1>2 DEF EnqueueScan, EnqueueScanFails, UploadPlace, JobPlace, ApprovedRows,
                LinkedEdits, Open, Reviewed, Rows, Over
  <2>3. (\A c \in Commits : CommitPlace(c)') /\ EnrichmentFollowsCommit'
        /\ \A c \in Commits : Bought(c)' = Bought(c)
    BY <1>2, CommitsAlone DEF EnqueueScan, EnqueueScanFails
  <2>4. OpenPlace' /\ MarkedPlace'
    BY <1>2, <2>3 DEF EnqueueScan, EnqueueScanFails, OpenPlace, MarkedPlace, Open, Reviewed
  <2> QED BY <2>1, <2>2, <2>3, <2>4
<1> QED BY <1>1, <1>2 DEF Upload

\* A statement of the job that leaves reopened alone, and the status of a review too
\* unless it is fail(), keeps what is known of the commits.
LEMMA WorkCommits ==
    ASSUME ScanInv, NEW from, NEW to, JobStep(from, to), reopened' = reopened,
           Reviewed => Reviewed' /\ status' \in {status, "failed"}
    PROVE  /\ OpenPlace' /\ MarkedPlace' /\ EnrichmentFollowsCommit'
           /\ \A c \in Commits : CommitPlace(c)'
<1> USE DEF ScanInv, JobStep
<1>1. (\A c \in Commits : CommitPlace(c)') /\ EnrichmentFollowsCommit'
      /\ \A c \in Commits : Bought(c)' = Bought(c)
  BY CommitsAlone
<1>2. OpenPlace'
  BY DEF OpenPlace
<1>3. MarkedPlace'
  BY <1>1 DEF MarkedPlace, OpenPlace, InFlight
<1> QED BY <1>1, <1>2, <1>3

\* What a statement that sets the status does to everything else.
LEMMA StatusSet ==
    ASSUME NEW from, NEW to, NEW onError, NEW new, SetStatus(from, to, onError, new)
    PROVE  /\ UNCHANGED <<upload, parsed, toMatch, item, commit, edit, txns, enqueued, approved>>
           /\ worker = from
           /\ \/ worker' = to /\ status' = new
              \/ worker' = onError /\ status' \in {status, new}
           /\ \E there : JobStep(from, there)
BY DEF SetStatus, JobStep

\* Every statement of the job keeps the invariant.  Those before StoreLlm meet a
\* scan that no commit has touched; those after it leave the review open, or come
\* from a lost answer.
LEMMA WorkScanInv == ASSUME ScanInv, Work PROVE ScanInv'
<1> USE DEF ScanInv, flags
<1>1. CASE Fetch \/ ExtractText
  <2>1. PICK from, to : /\ JobStep(from, to) /\ Keep
                        /\ from \in {"queued", "ocr"} /\ to \in {"mark", "store_ocr", "failing"}
    BY <1>1 DEF Fetch, ExtractText
  <2>2. UNCHANGED <<status, upload, parsed, toMatch, item, commit, edit, txns, enqueued,
                    approved, reopened, unheard>> /\ worker = from /\ worker' = to
    BY <2>1 DEF JobStep, Keep
  <2>3. ~Reviewed
    BY <2>1, <2>2 DEF JobPlace, Over
  <2>4. TypeOK' /\ UploadPlace' /\ JobPlace' /\ ApprovedRows' /\ LinkedEdits'
    BY <2>1, <2>2, <2>3 DEF TypeOK, UploadPlace, JobPlace, ApprovedRows, LinkedEdits, Open,
       Reviewed, Rows, Running
  <2> QED BY <2>1, <2>2, <2>3, <2>4, WorkCommits
<1>2. CASE MarkOcr
  <2>1. /\ UNCHANGED <<upload, parsed, toMatch, item, commit, edit, txns, enqueued, approved,
                       reopened, unheard>>
        /\ worker = "mark" /\ worker' \in {"ocr", "stranded"}
        /\ status' \in {status, "ocr_processing"}
        /\ \E there : JobStep("mark", there)
    BY <1>2, StatusSet DEF MarkOcr
  <2>2. ~Reviewed /\ status # "none"
    BY <2>1 DEF JobPlace, UploadPlace, Over
  <2>3. TypeOK' /\ UploadPlace' /\ JobPlace' /\ ApprovedRows' /\ LinkedEdits'
    BY <2>1, <2>2 DEF TypeOK, UploadPlace, JobPlace, ApprovedRows, LinkedEdits, Open, Reviewed,
       Rows, Running, Over, Statuses, Polled
  <2> QED BY <2>1, <2>2, <2>3, WorkCommits
<1>3. CASE StoreOcr
  <2>1. /\ UNCHANGED <<upload, parsed, toMatch, item, commit, edit, txns, enqueued, approved,
                       reopened, unheard>>
        /\ worker = "store_ocr" /\ worker' \in {"llm", "failing"}
        /\ status' \in {status, "llm_processing"}
        /\ \E there : JobStep("store_ocr", there)
    BY <1>3, StatusSet DEF StoreOcr
  <2>2. ~Reviewed /\ status # "none"
    BY <2>1 DEF JobPlace, UploadPlace, Over
  <2>3. TypeOK' /\ UploadPlace' /\ JobPlace' /\ ApprovedRows' /\ LinkedEdits'
    BY <2>1, <2>2 DEF TypeOK, UploadPlace, JobPlace, ApprovedRows, LinkedEdits, Open, Reviewed,
       Rows, Running, Statuses, Polled
  <2> QED BY <2>1, <2>2, <2>3, WorkCommits
<1>4. CASE ParseReceipt
  <2>1. PICK to \in {"items", "failing"} : JobStep("llm", to)
    BY <1>4 DEF ParseReceipt
  <2>2. /\ UNCHANGED <<status, upload, toMatch, item, commit, edit, txns, enqueued, approved,
                       reopened, unheard>>
        /\ worker = "llm" /\ worker' = to
        /\ parsed' \in SUBSET Items
    BY <1>4, <2>1 DEF ParseReceipt, JobStep, Keep, TypeOK
  <2>3. ~Reviewed /\ Rows = {}
    BY <2>2 DEF JobPlace, Over
  <2>4. Rows' = Rows
    BY <2>2 DEF Rows
  <2>5. TypeOK' /\ UploadPlace' /\ JobPlace' /\ ApprovedRows' /\ LinkedEdits'
    BY <2>2, <2>3, <2>4 DEF TypeOK, UploadPlace, JobPlace, ApprovedRows, LinkedEdits, Open,
       Reviewed, Running
  <2> QED BY <2>1, <2>2, <2>3, <2>5, WorkCommits
<1>5. ASSUME NEW i \in Items, CreateScanItem(i) PROVE ScanInv'
  <2>1. PICK to \in {"items", "failing"} : JobStep("items", to)
    BY <1>5 DEF CreateScanItem
  <2>2. /\ UNCHANGED <<status, upload, parsed, toMatch, commit, edit, txns, enqueued, approved,
                       reopened, unheard>>
        /\ worker = "items" /\ worker' = to
        /\ i \in parsed
        /\ item' \in {item, [item EXCEPT ![i].row = TRUE]}
    BY <1>5, <2>1 DEF CreateScanItem, JobStep, Keep
  <2>3. ~Reviewed
    BY <2>2 DEF JobPlace, Over
  <2>4. /\ item' \in [Items -> ItemRecords]
        /\ \A k \in Items : item'[k].status = item[k].status
        /\ \A k \in Items \ {i} : item'[k].row = item[k].row
    <3>1. item \in [Items -> ItemRecords]
      BY DEF TypeOK
    <3>2. item' \in [Items -> ItemRecords]
      <4>1. [item EXCEPT ![i].row = TRUE] \in [Items -> ItemRecords]
        BY <3>1, WriteRow, Zenon
      <4> QED BY <2>2, <3>1, <4>1, Zenon
    <3>3. \A k \in Items : item'[k].status = item[k].status
      BY <2>2, <3>1 DEF ItemRecords
    <3>4. \A k \in Items \ {i} : item'[k].row = item[k].row
      BY <2>2, <3>1
    <3> QED BY <3>2, <3>3, <3>4
  <2>5. TypeOK' /\ UploadPlace' /\ ApprovedRows' /\ LinkedEdits'
    BY <2>2, <2>4 DEF TypeOK, UploadPlace, ApprovedRows, LinkedEdits, Running
  <2>6. Rows' \subseteq parsed
    BY <2>2, <2>4 DEF JobPlace, Rows
  <2>7. JobPlace'
    BY <2>2, <2>3, <2>6 DEF JobPlace, Open, Reviewed
  <2> QED BY <2>1, <2>2, <2>3, <2>5, <2>7, WorkCommits
<1>6. CASE LoadInventory
  <2>1. /\ UNCHANGED <<status, upload, parsed, item, commit, edit, txns, enqueued, approved,
                       reopened, unheard>>
        /\ worker = "items" /\ worker' = "match" /\ Rows = parsed
        /\ toMatch' \in SUBSET parsed
        /\ JobStep("items", "match")
    BY <1>6 DEF LoadInventory, JobStep
  <2>2. ~Reviewed
    BY <2>1 DEF JobPlace, Over
  <2>3. TypeOK' /\ UploadPlace' /\ JobPlace' /\ ApprovedRows' /\ LinkedEdits'
    BY <2>1, <2>2 DEF TypeOK, UploadPlace, JobPlace, ApprovedRows, LinkedEdits, Open, Reviewed,
       Rows, Running
  <2> QED BY <2>1, <2>2, <2>3, WorkCommits
<1>7. ASSUME NEW i \in Items, MatchItem(i) PROVE ScanInv'
  <2>1. /\ UNCHANGED <<status, upload, parsed, worker, commit, edit, txns, enqueued, approved,
                       reopened, unheard>>
        /\ worker = "match"
        /\ toMatch' \in SUBSET Items
        /\ JobStep("match", "match")
    BY <1>7 DEF MatchItem, JobStep, TypeOK
  <2>2. /\ item' \in [Items -> ItemRecords]
        /\ \A k \in Items : item'[k].status = item[k].status /\ item'[k].row = item[k].row
    <3>1. item \in [Items -> ItemRecords]
      BY DEF TypeOK
    <3>2. ASSUME NEW x \in InvItems, item' = [item EXCEPT ![i].unit = x]
          PROVE  /\ item' \in [Items -> ItemRecords]
                 /\ \A k \in Items : item'[k].status = item[k].status
                                     /\ item'[k].row = item[k].row
      <4>1. item' \in [Items -> ItemRecords]
        BY <3>1, <3>2, WriteRow, Zenon
      <4>2. \A k \in Items : item'[k].status = item[k].status /\ item'[k].row = item[k].row
        BY <3>1, <3>2 DEF ItemRecords
      <4> QED BY <4>1, <4>2
    <3>3. item' = item \/ \E x \in InvItems : item' = [item EXCEPT ![i].unit = x]
      BY <1>7 DEF MatchItem
    <3> QED BY <3>1, <3>2, <3>3
  <2>3. Rows' = Rows
    BY <2>2 DEF Rows
  <2>4. ~Reviewed
    BY <2>1 DEF JobPlace, Over
  <2>5. TypeOK' /\ UploadPlace' /\ JobPlace' /\ ApprovedRows' /\ LinkedEdits'
    BY <2>1, <2>2, <2>3, <2>4 DEF TypeOK, UploadPlace, JobPlace, ApprovedRows, LinkedEdits,
       Open, Reviewed
  <2> QED BY <2>1, <2>4, <2>5, WorkCommits
<1>8. CASE StoreLlm
  <2>1. /\ UNCHANGED <<upload, parsed, toMatch, item, commit, edit, txns, enqueued, approved,
                       reopened>>
        /\ worker = "match"
        /\ \/ worker' = "reopen" /\ status' = "pending_review"
           \/ worker' = "failing" /\ status' \in {status, "pending_review"}
        /\ unheard' = (worker' = "failing" /\ status' = "pending_review")
        /\ \E there : JobStep("match", there)
    BY <1>8, StatusSet DEF StoreLlm
  <2>2. ~Reviewed /\ status # "none" /\ Rows = parsed
    BY <2>1 DEF JobPlace, UploadPlace, Over
  <2>3. TypeOK' /\ UploadPlace' /\ ApprovedRows' /\ LinkedEdits'
    BY <2>1, <2>2 DEF TypeOK, UploadPlace, ApprovedRows, LinkedEdits, Running, Statuses
  <2>4. JobPlace'
    BY <2>1, <2>2 DEF JobPlace, Open, Reviewed, Rows
  <2> QED BY <2>1, <2>2, <2>3, <2>4, WorkCommits
<1>9. CASE MarkPending
  <2>1. /\ UNCHANGED <<upload, parsed, toMatch, item, commit, edit, txns, enqueued, approved,
                       unheard>>
        /\ worker = "reopen" /\ worker' = "ended"
        /\ status' \in {status, "pending_review"}
        /\ reopened' = (status = "committed" /\ status' = "pending_review")
    BY <1>9, StatusSet DEF MarkPending
  <2>2. Open /\ Open' /\ Rows = parsed /\ ~unheard /\ ~reopened
    BY <2>1 DEF JobPlace, Open
  <2>3. TypeOK' /\ UploadPlace' /\ ApprovedRows' /\ LinkedEdits'
    BY <2>1, <2>2 DEF TypeOK, UploadPlace, ApprovedRows, LinkedEdits, Open, Over, Statuses
  <2>4. JobPlace'
    BY <2>1, <2>2 DEF JobPlace, Open, Reviewed, Rows, Over
  <2>5. (\A c \in Commits : CommitPlace(c)') /\ EnrichmentFollowsCommit'
        /\ \A c \in Commits : Bought(c)' = Bought(c)
    BY <2>1, CommitsAlone
  <2>6. OpenPlace'
    BY <2>1, <2>2 DEF OpenPlace, Reviewed
  <2>7. MarkedPlace'
    BY <2>1, <2>2, <2>5 DEF MarkedPlace, Open
  <2> QED BY <2>3, <2>4, <2>5, <2>6, <2>7
<1>10. CASE Fail
  <2>1. /\ UNCHANGED <<upload, parsed, toMatch, item, commit, edit, txns, enqueued, approved,
                       reopened, unheard>>
        /\ worker = "failing" /\ worker' \in {"ended", "stranded"}
        /\ status' \in {status, "failed"}
        /\ \E there : JobStep("failing", there)
    BY <1>10, StatusSet DEF Fail
  <2>2. status # "none" /\ (Open => unheard)
    BY <2>1 DEF JobPlace, UploadPlace
  <2>3. TypeOK' /\ UploadPlace' /\ ApprovedRows' /\ LinkedEdits'
    BY <2>1, <2>2 DEF TypeOK, UploadPlace, ApprovedRows, LinkedEdits, Over, Statuses
  <2>4. JobPlace'
    BY <2>1, <2>2 DEF JobPlace, Open, Reviewed, Rows, Over
  <2>5. Reviewed => Reviewed'
    BY <2>1, <2>2 DEF Reviewed
  <2> QED BY <2>1, <2>3, <2>4, <2>5, WorkCommits
<1> QED BY <1>1, <1>2, <1>3, <1>4, <1>5, <1>6, <1>7, <1>8, <1>9, <1>10 DEF Work

--------------------------------------------------------------------------------
\* An edit approves, and never lifts an approval; the job and the commits only
\* read what it writes.
LEMMA ReviewScanInv == ASSUME ScanInv, NEW e \in Edits, Review(e) PROVE ScanInv'
<1> USE DEF ScanInv, history, flags, jobVars
<1>1. item \in [Items -> ItemRecords] /\ edit \in [Edits -> EditRecords]
      /\ EditOver \in EditRecords /\ EditOver.pc = "over"
  BY DEF TypeOK, EditOver, NewEdit, EditRecords
<1>2. /\ UNCHANGED <<status, upload, worker, parsed, toMatch, commit, txns, enqueued, reopened,
                     unheard>>
      /\ approved \subseteq approved' /\ approved' \subseteq Items
      /\ item' \in [Items -> ItemRecords] /\ edit' \in [Edits -> EditRecords]
      /\ \A k \in Items : item'[k].row = item[k].row
      /\ \A k \in Items : item'[k].status \in Approving => k \in approved'
      /\ LinkedEdits'
  <2>1. CASE UpdateRow(e)
    <3>1. PICK i \in Rows, st \in Sent, x \in InvItems \union {None}, u \in Units \union {None} :
             /\ item' = [item EXCEPT ![i].status = st, ![i].unit = u]
             /\ edit' = [edit EXCEPT ![e] =
                   IF x = None THEN EditOver ELSE [pc |-> "linking", item |-> i, link |-> x]]
             /\ approved' = IF st \in Approving THEN approved \union {i} ELSE approved
      BY <2>1 DEF UpdateRow
    <3>2. i \in Items
      BY <3>1 DEF Rows
    <3>3. [item EXCEPT ![i].status = st, ![i].unit = u] \in [Items -> ItemRecords]
      BY <1>1, <3>2, WriteRow, Zenon
    <3>4. [pc |-> "linking", item |-> i, link |-> x] \in EditRecords
      BY <3>2 DEF EditRecords
    <3>5. edit' \in [Edits -> EditRecords]
      BY <1>1, <3>1, <3>4
    <3>6. \A k \in Items : /\ item'[k].row = item[k].row
                           /\ item'[k].status = IF k = i THEN st ELSE item[k].status
      BY <1>1, <3>1 DEF ItemRecords
    <3>7. \A k \in Items : item'[k].status \in Approving => k \in approved'
      BY <3>1, <3>6 DEF ApprovedRows
    <3>8. approved \subseteq approved' /\ approved' \subseteq Items
      BY <3>1, <3>2 DEF TypeOK
    <3>9. item' \in [Items -> ItemRecords]
      BY <3>1, <3>3, Zenon
    <3>10. LinkedEdits'
      BY <1>1, <3>1, <3>2 DEF LinkedEdits
    <3> QED BY <2>1, <3>5, <3>6, <3>7, <3>8, <3>9, <3>10 DEF UpdateRow
  <2>2. CASE LinkRow(e)
    <3>1. PICK i \in Items, x \in InvItems : i = edit[e].item /\ x = edit[e].link
      BY <2>2 DEF LinkRow, LinkedEdits
    <3>2. item' \in {item, [item EXCEPT ![i].unit = x]}
      BY <2>2, <3>1 DEF LinkRow
    <3>3. [item EXCEPT ![i].unit = x] \in [Items -> ItemRecords]
      BY <1>1, WriteRow, Zenon
    <3>4. item' \in [Items -> ItemRecords]
      BY <1>1, <3>2, <3>3, Zenon
    <3>5. \A k \in Items : item'[k].status = item[k].status /\ item'[k].row = item[k].row
      BY <1>1, <3>2 DEF ItemRecords
    <3>6. edit' \in [Edits -> EditRecords]
      BY <1>1, <2>2 DEF LinkRow
    <3>7. LinkedEdits'
      BY <1>1, <2>2 DEF LinkRow, LinkedEdits
    <3> QED BY <2>2, <3>4, <3>5, <3>6, <3>7 DEF LinkRow, ApprovedRows, TypeOK
  <2> QED BY <2>1, <2>2 DEF Review
<1>3. Rows' = Rows
  BY <1>2 DEF Rows
<1>4. TypeOK' /\ UploadPlace' /\ JobPlace' /\ ApprovedRows' /\ LinkedEdits'
  BY <1>2, <1>3 DEF TypeOK, UploadPlace, JobPlace, ApprovedRows, LinkedEdits, Open, Reviewed
<1>5. (\A c \in Commits : CommitPlace(c)') /\ EnrichmentFollowsCommit'
      /\ \A c \in Commits : Bought(c)' = Bought(c)
  BY <1>2, CommitsAlone
<1>6. OpenPlace' /\ MarkedPlace'
  BY <1>2, <1>5 DEF OpenPlace, MarkedPlace, Open, Reviewed
<1> QED BY <1>4, <1>5, <1>6

--------------------------------------------------------------------------------
\* A step of one commit keeps the invariant when it keeps that commit's place.
LEMMA OneCommit ==
    ASSUME ScanInv, NEW c \in Commits,
           UNCHANGED <<upload, jobVars, item, edit, history>>,
           status' = status \/ (Reviewed /\ status' = "committed"),
           commit' \in [Commits -> CommitRecords],
           \A d \in Commits \ {c} : commit'[d] = commit[d],
           txns' \in SUBSET (Commits \X Items), enqueued' \in SUBSET (Commits \X Items),
           \A d \in Commits \ {c}, i \in Items :
              /\ <<d, i>> \in txns' <=> <<d, i>> \in txns
              /\ <<d, i>> \in enqueued' <=> <<d, i>> \in enqueued,
           commit'[c].pc \in InFlight \union {"done"} => Reviewed,
           txns' # {} => Reviewed,
           CommitPlace(c)',
           (\E i \in Items : <<c, i>> \in enqueued') =>
               /\ commit'[c].pc \in {"enqueuing", "done", "died"}
               /\ \A i \in Items : <<c, i>> \in enqueued' => <<c, i>> \in txns'
               /\ Bought(c)' = commit'[c].chosen,
           ~reopened /\ commit'[c].pc \in {"enqueuing", "done"} =>
               status' \in {"committed", "failed"},
           ~reopened /\ commit'[c].late => commit'[c].pc = "failed" /\ Bought(c)' = {}
    PROVE  ScanInv'
<1> USE DEF ScanInv, history, flags, jobVars
<1>1. \A d \in Commits \ {c} : Bought(d)' = Bought(d)
  BY DEF Bought
<1>2. \A d \in Commits : CommitPlace(d)'
  <2>1. ASSUME NEW d \in Commits \ {c} PROVE CommitPlace(d)'
    BY <1>1 DEF CommitPlace
  <2> QED BY <2>1
<1>3. EnrichmentFollowsCommit'
  BY <1>1 DEF EnrichmentFollowsCommit
<1>4. (Reviewed => Reviewed') /\ (Open' /\ ~Open => unheard)
  BY DEF Open, Reviewed
<1>5. OpenPlace'
  BY <1>4 DEF OpenPlace
<1>6. MarkedPlace'
  BY <1>1 DEF MarkedPlace
<1>7. TypeOK' /\ UploadPlace' /\ LinkedEdits'
  <2>1. status # "none" \/ status' = status
    BY DEF UploadPlace, JobPlace, Reviewed, Open, Over
  <2> QED BY <2>1 DEF TypeOK, UploadPlace, LinkedEdits, Statuses
<1>8. JobPlace' /\ ApprovedRows'
  BY <1>4 DEF JobPlace, ApprovedRows, Rows, Open, Reviewed
<1> QED BY <1>2, <1>3, <1>5, <1>6, <1>7, <1>8

\* What a commit bought when one row is added.
LEMMA BuyOne ==
    ASSUME NEW c \in Commits, NEW i \in Items, txns' = txns \union {<<c, i>>}
    PROVE  Bought(c)' = Bought(c) \union {i}
BY DEF Bought

\* Every statement of a commit keeps the invariant.
LEMMA CommitScanInv == ASSUME ScanInv, NEW c \in Commits, Commit(c) PROVE ScanInv'
<1> USE DEF CommitStep, history, flags
<1>0. /\ commit \in [Commits -> CommitRecords] /\ commit[c] \in CommitRecords
      /\ txns \in SUBSET (Commits \X Items) /\ enqueued \in SUBSET (Commits \X Items)
      /\ CommitPlace(c) /\ OpenPlace /\ MarkedPlace
      /\ (\E i \in Items : <<c, i>> \in enqueued) =>
               /\ commit[c].pc \in {"enqueuing", "done", "died"}
               /\ \A i \in Items : <<c, i>> \in enqueued => <<c, i>> \in txns
               /\ Bought(c) = commit[c].chosen
  BY DEF ScanInv, TypeOK, EnrichmentFollowsCommit
<1>1. CASE CheckScan(c)
  <2>1. PICK pc \in {"checked", "failed"}, late \in BOOLEAN :
           /\ commit' = [commit EXCEPT ![c].pc = pc, ![c].late = late]
           /\ pc = "checked" => status = "pending_review"
           /\ late => \E d \in Commits : commit[d].pc = "done"
    BY <1>1 DEF CheckScan
  <2>2. [commit[c] EXCEPT !.pc = pc, !.late = late] \in CommitRecords
    BY <1>0 DEF CommitRecords, InFlight
  <2>3. /\ commit' \in [Commits -> CommitRecords]
        /\ \A d \in Commits \ {c} : commit'[d] = commit[d]
        /\ commit'[c] = [commit[c] EXCEPT !.pc = pc, !.late = late]
    BY <1>0, <2>1, <2>2
  <2>4. /\ commit'[c].pc = pc /\ commit'[c].late = late
        /\ commit'[c].chosen = commit[c].chosen
    BY <1>0, <2>3 DEF CommitRecords
  <2>5. commit[c].pc = "idle" /\ Bought(c)' = Bought(c)
        /\ UNCHANGED <<status, upload, jobVars, item, edit, txns, enqueued, history>>
    BY <1>1 DEF CheckScan, Bought
  <2>6. CommitPlace(c)'
    BY <1>0, <2>4, <2>5 DEF CommitPlace
  <2>7. ~reopened /\ late => pc = "failed" /\ Bought(c)' = {}
    BY <1>0, <2>1, <2>5 DEF MarkedPlace, CommitPlace
  <2> QED BY <1>0, <2>1, <2>3, <2>4, <2>5, <2>6, <2>7, OneCommit DEF Open, Reviewed, OpenPlace,
          InFlight
<1>2. CASE ListItems(c)
  <2>1. PICK chosen \in SUBSET Items :
           /\ chosen = {i \in Rows : item[i].status \in Approving}
           /\ commit' = [commit EXCEPT ![c].pc = "creating", ![c].todo = chosen,
                                       ![c].chosen = chosen]
    BY <1>2 DEF ListItems, Rows
  <2>2. [commit[c] EXCEPT !.pc = "creating", !.todo = chosen, !.chosen = chosen]
           \in CommitRecords
    BY <1>0 DEF CommitRecords, InFlight
  <2>3. /\ commit' \in [Commits -> CommitRecords]
        /\ \A d \in Commits \ {c} : commit'[d] = commit[d]
        /\ commit'[c] = [commit[c] EXCEPT !.pc = "creating", !.todo = chosen, !.chosen = chosen]
    BY <1>0, <2>1, <2>2
  <2>4. /\ commit'[c].pc = "creating" /\ commit'[c].late = commit[c].late
        /\ commit'[c].chosen = chosen /\ commit'[c].todo = chosen
    BY <1>0, <2>3 DEF CommitRecords
  <2>5. commit[c].pc = "checked" /\ Bought(c)' = Bought(c)
        /\ UNCHANGED <<status, upload, jobVars, item, edit, txns, enqueued, history>>
    BY <1>2 DEF ListItems, Bought
  <2>6. chosen \subseteq approved
    BY <2>1 DEF ScanInv, ApprovedRows, Rows
  <2>7. CommitPlace(c)'
    BY <1>0, <2>4, <2>5, <2>6 DEF CommitPlace
  <2> QED BY <1>0, <2>3, <2>4, <2>5, <2>7, OneCommit DEF Open, Reviewed, OpenPlace,
          MarkedPlace, InFlight
<1>3. ASSUME NEW i \in Items, CreateTransaction(c, i) PROVE ScanInv'
  <2>1. /\ commit' = [commit EXCEPT ![c].todo = @ \ {i}]
        /\ txns' = txns \union {<<c, i>>}
        /\ commit[c].pc = "creating" /\ i \in commit[c].todo
        /\ UNCHANGED <<status, upload, jobVars, item, edit, enqueued, history>>
    BY <1>3 DEF CreateTransaction
  <2>2. [commit[c] EXCEPT !.todo = @ \ {i}] \in CommitRecords
    BY <1>0 DEF CommitRecords
  <2>3. /\ commit' \in [Commits -> CommitRecords]
        /\ \A d \in Commits \ {c} : commit'[d] = commit[d]
        /\ commit'[c] = [commit[c] EXCEPT !.todo = @ \ {i}]
    BY <1>0, <2>1, <2>2
  <2>4. /\ commit'[c].pc = "creating" /\ commit'[c].late = commit[c].late
        /\ commit'[c].chosen = commit[c].chosen /\ commit'[c].todo = commit[c].todo \ {i}
    BY <1>0, <2>1, <2>3 DEF CommitRecords
  <2>5. Bought(c)' = Bought(c) \union {i}
    BY <2>1, BuyOne
  <2>6. CommitPlace(c)'
    BY <1>0, <2>1, <2>4, <2>5 DEF CommitPlace
  <2>7. /\ txns' \in SUBSET (Commits \X Items)
        /\ \A d \in Commits \ {c}, k \in Items : <<d, k>> \in txns' <=> <<d, k>> \in txns
    BY <1>0, <2>1
  <2> QED BY <1>0, <2>1, <2>3, <2>4, <2>6, <2>7, OneCommit DEF Reviewed, Open, OpenPlace,
          MarkedPlace, InFlight
<1>4. CASE MarkCommitted(c)
  <2>1. PICK unsent \in SUBSET Items :
           /\ unsent = Bought(c)
           /\ commit' = [commit EXCEPT ![c].pc = "enqueuing", ![c].unsent = unsent]
    BY <1>4 DEF MarkCommitted, Bought
  <2>2. [commit[c] EXCEPT !.pc = "enqueuing", !.unsent = unsent] \in CommitRecords
    BY <1>0 DEF CommitRecords, InFlight
  <2>3. /\ commit' \in [Commits -> CommitRecords]
        /\ \A d \in Commits \ {c} : commit'[d] = commit[d]
        /\ commit'[c] = [commit[c] EXCEPT !.pc = "enqueuing", !.unsent = unsent]
    BY <1>0, <2>1, <2>2
  <2>4. /\ commit'[c].pc = "enqueuing" /\ commit'[c].late = commit[c].late
        /\ commit'[c].chosen = commit[c].chosen /\ commit'[c].unsent = unsent
    BY <1>0, <2>3 DEF CommitRecords
  <2>5. commit[c].pc = "creating" /\ commit[c].todo = {} /\ Bought(c)' = Bought(c)
        /\ status' = "committed"
        /\ UNCHANGED <<upload, jobVars, item, edit, txns, enqueued, history>>
    BY <1>4 DEF MarkCommitted, Bought
  <2>6. CommitPlace(c)'
    BY <1>0, <2>1, <2>4, <2>5 DEF CommitPlace
  <2> QED BY <1>0, <2>3, <2>4, <2>5, <2>6, OneCommit DEF Open, Reviewed, OpenPlace,
          MarkedPlace, InFlight
<1>5. ASSUME NEW i \in Items, EnqueueTransaction(c, i) PROVE ScanInv'
  <2>1. /\ commit' = [commit EXCEPT ![c].unsent = @ \ {i}]
        /\ enqueued' \in {enqueued, enqueued \union {<<c, i>>}}
        /\ commit[c].pc = "enqueuing" /\ i \in commit[c].unsent
        /\ UNCHANGED <<status, upload, jobVars, item, edit, txns, history>>
    BY <1>5 DEF EnqueueTransaction
  <2>2. [commit[c] EXCEPT !.unsent = @ \ {i}] \in CommitRecords
    BY <1>0 DEF CommitRecords
  <2>3. /\ commit' \in [Commits -> CommitRecords]
        /\ \A d \in Commits \ {c} : commit'[d] = commit[d]
        /\ commit'[c] = [commit[c] EXCEPT !.unsent = @ \ {i}]
    BY <1>0, <2>1, <2>2
  <2>4. /\ commit'[c].pc = "enqueuing" /\ commit'[c].late = commit[c].late
        /\ commit'[c].chosen = commit[c].chosen /\ commit'[c].unsent = commit[c].unsent \ {i}
    BY <1>0, <2>1, <2>3 DEF CommitRecords
  <2>5. Bought(c)' = Bought(c)
    BY <2>1 DEF Bought
  <2>6. CommitPlace(c)'
    BY <1>0, <2>1, <2>4, <2>5 DEF CommitPlace
  <2>7. /\ enqueued' \in SUBSET (Commits \X Items)
        /\ \A d \in Commits \ {c}, k \in Items : <<d, k>> \in enqueued' <=> <<d, k>> \in enqueued
        /\ \A k \in Items : <<c, k>> \in enqueued' => <<c, k>> \in txns'
    BY <1>0, <2>1 DEF CommitPlace, Bought
  <2>8. Bought(c)' = commit'[c].chosen
    BY <1>0, <2>1, <2>4, <2>5 DEF CommitPlace
  <2> QED BY <1>0, <2>1, <2>3, <2>4, <2>6, <2>7, <2>8, OneCommit DEF Open, Reviewed, OpenPlace,
          MarkedPlace, InFlight
<1>6. CASE Answer(c)
  <2>1. /\ commit' = [commit EXCEPT ![c].pc = "done"]
        /\ commit[c].pc = "enqueuing"
        /\ UNCHANGED <<status, upload, jobVars, item, edit, txns, enqueued, history>>
    BY <1>6 DEF Answer
  <2>2. [commit[c] EXCEPT !.pc = "done"] \in CommitRecords
    BY <1>0 DEF CommitRecords
  <2>3. /\ commit' \in [Commits -> CommitRecords]
        /\ \A d \in Commits \ {c} : commit'[d] = commit[d]
        /\ commit'[c] = [commit[c] EXCEPT !.pc = "done"]
    BY <1>0, <2>1, <2>2
  <2>4. /\ commit'[c].pc = "done" /\ commit'[c].late = commit[c].late
        /\ commit'[c].chosen = commit[c].chosen
    BY <1>0, <2>3 DEF CommitRecords
  <2>5. Bought(c)' = Bought(c)
    BY <2>1 DEF Bought
  <2>6. CommitPlace(c)'
    BY <1>0, <2>1, <2>4, <2>5 DEF CommitPlace
  <2> QED BY <1>0, <2>1, <2>3, <2>4, <2>5, <2>6, OneCommit DEF Open, Reviewed, OpenPlace,
          MarkedPlace, InFlight
<1>7. CASE CommitFails(c)
  <2>1. /\ commit' = [commit EXCEPT ![c] = CommitOver(c, "failed")]
        /\ commit[c].pc \in {"checked", "creating"}
        /\ status' = status \/ status' = "committed"
        /\ \/ txns' = txns
           \/ /\ commit[c].pc = "creating"
              /\ \E i \in commit[c].todo : txns' = txns \union {<<c, i>>}
        /\ UNCHANGED <<upload, jobVars, item, edit, enqueued, history>>
    BY <1>7 DEF CommitFails
  <2>2. CommitOver(c, "failed") \in CommitRecords
    BY <1>0 DEF CommitRecords, CommitOver
  <2>3. /\ commit' \in [Commits -> CommitRecords]
        /\ \A d \in Commits \ {c} : commit'[d] = commit[d]
        /\ commit'[c] = CommitOver(c, "failed")
    BY <1>0, <2>1, <2>2
  <2>4. /\ commit'[c].pc = "failed" /\ commit'[c].late = commit[c].late
        /\ commit'[c].chosen = commit[c].chosen
    BY <1>0, <2>3 DEF CommitRecords, CommitOver
  <2>5. /\ txns' \in SUBSET (Commits \X Items)
        /\ \A d \in Commits \ {c}, k \in Items : <<d, k>> \in txns' <=> <<d, k>> \in txns
        /\ Bought(c)' \subseteq commit[c].chosen
    <3>1. CASE txns' = txns
      BY <1>0, <3>1 DEF CommitPlace, Bought
    <3>2. ASSUME NEW i \in commit[c].todo, commit[c].pc = "creating",
                 txns' = txns \union {<<c, i>>}
          PROVE  /\ txns' \in SUBSET (Commits \X Items)
                 /\ \A d \in Commits \ {c}, k \in Items : <<d, k>> \in txns' <=> <<d, k>> \in txns
                 /\ Bought(c)' \subseteq commit[c].chosen
      <4>1. i \in Items /\ i \in commit[c].chosen
        BY <1>0, <3>2 DEF CommitPlace, CommitRecords
      <4>2. Bought(c)' = Bought(c) \union {i}
        BY <3>2, <4>1, BuyOne
      <4> QED BY <1>0, <3>2, <4>1, <4>2 DEF CommitPlace
    <3> QED BY <2>1, <3>1, <3>2
  <2>6. CommitPlace(c)'
    BY <1>0, <2>1, <2>4, <2>5 DEF CommitPlace
  <2>7. Reviewed /\ (~reopened => ~commit[c].late)
    BY <1>0, <2>1 DEF OpenPlace, MarkedPlace, InFlight
  <2> QED BY <1>0, <2>1, <2>3, <2>4, <2>5, <2>6, <2>7, OneCommit DEF InFlight
<1> QED BY <1>1, <1>2, <1>3, <1>4, <1>5, <1>6, <1>7 DEF Commit

\* A crash ends every request and the job where they are; what they wrote stays.
LEMMA CrashScanInv == ASSUME ScanInv, Crash PROVE ScanInv'
<1> USE DEF ScanInv, history, flags
<1>1. /\ UNCHANGED <<status, parsed, toMatch, item, txns, enqueued, approved, reopened,
                     unheard>>
      /\ worker' \in {worker, "lost"}
      /\ worker' = "lost" => worker = "lost" \/ worker \in {"queued"} \union Running
      /\ upload' = IF upload = "created" THEN "died" ELSE upload
  BY DEF Crash
<1>2. /\ commit \in [Commits -> CommitRecords] /\ edit \in [Edits -> EditRecords]
  BY DEF TypeOK
<1>3. ASSUME NEW c \in Commits
      PROVE  /\ commit'[c] \in CommitRecords
             /\ commit'[c].pc = IF commit[c].pc \in InFlight THEN "died" ELSE commit[c].pc
             /\ commit'[c].chosen = commit[c].chosen /\ commit'[c].late = commit[c].late
             /\ commit[c].pc \notin InFlight => commit'[c] = commit[c]
  <2>1. commit'[c] = IF commit[c].pc \in InFlight THEN CommitOver(c, "died") ELSE commit[c]
    BY DEF Crash
  <2>2. commit[c] \in CommitRecords
    BY <1>2
  <2> QED BY <2>1, <2>2 DEF CommitRecords, CommitOver
<1>4. commit' \in [Commits -> CommitRecords]
  <2>1. commit' = [c \in Commits |-> commit'[c]]
    BY DEF Crash
  <2> QED BY <1>3, <2>1
<1>5. ASSUME NEW e \in Edits
      PROVE  edit'[e] \in EditRecords /\ edit'[e].pc # "linking"
  <2>1. edit'[e] = IF edit[e].pc = "linking" THEN EditOver ELSE edit[e]
    BY DEF Crash
  <2>2. edit[e] \in EditRecords
    BY <1>2
  <2> QED BY <2>1, <2>2 DEF EditRecords, EditOver, NewEdit
<1>6. edit' \in [Edits -> EditRecords]
  <2>1. edit' = [e \in Edits |-> edit'[e]]
    BY DEF Crash
  <2> QED BY <1>5, <2>1
<1>7. TypeOK'
  BY <1>1, <1>4, <1>6 DEF TypeOK, Over
<1>8. UploadPlace' /\ JobPlace' /\ ApprovedRows' /\ LinkedEdits'
  BY <1>1, <1>5 DEF UploadPlace, JobPlace, ApprovedRows, LinkedEdits, Rows, Open, Reviewed,
     Running, Over
<1>9. \A c \in Commits : Bought(c)' = Bought(c)
  BY <1>1 DEF Bought
<1>10. OpenPlace' /\ MarkedPlace'
  BY <1>1, <1>3, <1>9 DEF OpenPlace, MarkedPlace, Open, Reviewed, InFlight
<1>11. (\A c \in Commits : CommitPlace(c)')
  BY <1>1, <1>3, <1>9 DEF CommitPlace, InFlight
<1>12. EnrichmentFollowsCommit'
  BY <1>1, <1>3, <1>9 DEF EnrichmentFollowsCommit, InFlight
<1> QED BY <1>7, <1>8, <1>10, <1>11, <1>12

LEMMA NextScanInv == ScanInv /\ [Next]_vars => ScanInv'
<1> SUFFICES ASSUME ScanInv, [Next]_vars PROVE ScanInv'
  OBVIOUS
<1>1. CASE Next
  BY <1>1, UploadScanInv, WorkScanInv, ReviewScanInv, CommitScanInv, CrashScanInv DEF Next
<1>2. CASE UNCHANGED vars
  <2> USE <1>2 DEF vars, jobVars, history, flags, ScanInv
  <2>1. TypeOK' /\ UploadPlace' /\ JobPlace' /\ ApprovedRows' /\ LinkedEdits'
    BY DEF TypeOK, UploadPlace, JobPlace, ApprovedRows, LinkedEdits, Rows, Open, Reviewed
  <2>2. (\A c \in Commits : CommitPlace(c)') /\ EnrichmentFollowsCommit'
        /\ \A c \in Commits : Bought(c)' = Bought(c)
    BY CommitsAlone
  <2>3. OpenPlace' /\ MarkedPlace'
    BY <2>2 DEF OpenPlace, MarkedPlace, Open, Reviewed
  <2> QED BY <2>1, <2>2, <2>3
<1> QED BY <1>1, <1>2

--------------------------------------------------------------------------------
\* What holds of the upload, the job, the edits and the commits at every step.
THEOREM ScanInvariant == Spec => []ScanInv
BY InitScanInv, NextScanInv, PTL DEF Spec

\* Every column, counter and request stays in its type.
THEOREM ScanTypeOK == Spec => []TypeOK
<1>1. ScanInv => TypeOK
  BY DEF ScanInv
<1> QED BY <1>1, ScanInvariant, PTL

\* Nothing is bought that no reviewer ever approved.
THEOREM ScanReviewGate == Spec => []ReviewGate
<1>1. ASSUME ScanInv PROVE ReviewGate
  <2>1. ASSUME NEW t \in txns PROVE t[2] \in approved
    <3>1. PICK c \in Commits, i \in Items : t = <<c, i>>
      BY <1>1 DEF ScanInv, TypeOK
    <3>2. i \in Bought(c) /\ CommitPlace(c)
      BY <1>1, <2>1, <3>1 DEF ScanInv, Bought
    <3> QED BY <3>1, <3>2 DEF CommitPlace
  <2> QED BY <2>1 DEF ReviewGate
<1> QED BY <1>1, ScanInvariant, PTL

\* A scan that can be reviewed is whole, and the pipeline is done with its rows.
THEOREM ScanReviewSeesWholeReceipt == Spec => []ReviewSeesWholeReceipt
<1>1. ScanInv => ReviewSeesWholeReceipt
  BY DEF ScanInv, ReviewSeesWholeReceipt, JobPlace, Open, Reviewed, Over
<1> QED BY <1>1, ScanInvariant, PTL

\* A scan that shows as failed has no purchases, and no commit on its way to them,
\* unless fail() came after a SetLLMResult whose answer was lost.
THEOREM ScanFailedBuysNothing == Spec => []FailedBuysNothing
<1>1. ScanInv => FailedBuysNothing
  BY DEF ScanInv, FailedBuysNothing, OpenPlace, Open, Reviewed
<1> QED BY <1>1, ScanInvariant, PTL

\* The statements of the job that set a status do so from their own place.
LEMMA WorkStatus ==
    ASSUME Work, status' # status
    PROVE  \/ worker \in {"mark", "store_ocr", "match"}
           \/ worker = "reopen" /\ MarkPending
           \/ worker = "failing" /\ Fail
<1>1. CASE MarkOcr \/ StoreOcr \/ StoreLlm
  BY <1>1, StatusSet DEF MarkOcr, StoreOcr, StoreLlm
<1>2. CASE MarkPending \/ Fail
  BY <1>2, StatusSet DEF MarkPending, Fail
<1>3. ~(Fetch \/ ExtractText \/ ParseReceipt \/ LoadInventory)
  BY DEF Fetch, ExtractText, ParseReceipt, LoadInventory, Keep
<1>4. \A i \in Items : ~(CreateScanItem(i) \/ MatchItem(i))
  BY DEF CreateScanItem, MatchItem, Keep
<1> QED BY <1>1, <1>2, <1>3, <1>4 DEF Work

\* The statements of a commit set no status but committed.
LEMMA CommitStatus ==
    ASSUME NEW c \in Commits, Commit(c), status' # status
    PROVE  commit[c].pc = "creating" /\ status' = "committed"
<1>1. ~(CheckScan(c) \/ ListItems(c) \/ Answer(c))
  BY DEF CommitStep, CheckScan, ListItems, Answer
<1>2. \A i \in Items : ~(CreateTransaction(c, i) \/ EnqueueTransaction(c, i))
  BY DEF CreateTransaction, EnqueueTransaction
<1>3. CASE MarkCommitted(c) \/ CommitFails(c)
  BY <1>3 DEF MarkCommitted, CommitFails
<1> QED BY <1>1, <1>2, <1>3 DEF Commit

\* Nobody but the upload, the job and the commits sets a status.
LEMMA StatusWriters ==
    ASSUME [Next]_vars, status' # status
    PROVE  CreateScan \/ Work \/ \E c \in Commits : Commit(c)
<1>1. \A e \in Edits : ~Review(e)
  BY DEF Review, UpdateRow, LinkRow
<1>2. ~Crash /\ ~UNCHANGED vars
  BY DEF Crash, vars
<1>3. ~EnqueueScan /\ ~EnqueueScanFails
  BY DEF EnqueueScan, EnqueueScanFails
<1> QED BY <1>1, <1>2, <1>3 DEF Next, Upload

\* A failed scan stays failed: the job has ended, and a commit on its way to mark the
\* scan got past its check while the review was open.
THEOREM ScanFailedIsFinal == Spec => FailedIsFinal
<1>1. ASSUME ScanInv, [Next]_vars, status = "failed", status' # "failed"
      PROVE  unheard /\ status' = "committed"
  <2>1. worker \in {"ended", "stranded"} /\ upload # "idle"
    BY <1>1 DEF ScanInv, JobPlace, UploadPlace
  <2>2. ~CreateScan
    BY <2>1 DEF CreateScan
  <2>3. ~Work
    BY <1>1, <2>1, WorkStatus
  <2>4. PICK c \in Commits : Commit(c)
    BY <1>1, <2>2, <2>3, StatusWriters
  <2>5. commit[c].pc = "creating" /\ status' = "committed"
    BY <1>1, <2>4, CommitStatus
  <2> QED BY <1>1, <2>5 DEF ScanInv, OpenPlace, Reviewed, Open, InFlight
<1>2. ScanInv /\ [Next]_vars =>
         [status = "failed" => status' = "failed" \/ (unheard /\ status' = "committed")]_vars
  BY <1>1
<1> QED BY <1>2, ScanInvariant, PTL DEF Spec, FailedIsFinal

\* Only the job's last statement takes a scan out of committed: MarkPending, or fail()
\* when the answer of SetLLMResult was lost.
THEOREM ScanCommitUndoneOnce == Spec => CommitUndoneOnce
<1> DEFINE Undone == /\ worker' \in {"ended", "stranded"} /\ worker' # worker
                     /\ IF unheard THEN status' = "failed"
                        ELSE status' = "pending_review" /\ ~reopened /\ reopened'
<1>1. ASSUME ScanInv, [Next]_vars, status = "committed", status' # "committed" PROVE Undone
  <2>1. worker \in {"reopen", "failing"} \union Over /\ upload # "idle"
    BY <1>1 DEF ScanInv, JobPlace, UploadPlace, Reviewed, Open
  <2>2. ~CreateScan
    BY <2>1 DEF CreateScan
  <2>3. \A c \in Commits : ~Commit(c)
    BY <1>1, CommitStatus
  <2>4. Work
    BY <1>1, <2>2, <2>3, StatusWriters
  <2>5. \/ worker = "reopen" /\ MarkPending
        \/ worker = "failing" /\ Fail
    BY <1>1, <2>1, <2>4, WorkStatus DEF Over
  <2>6. CASE worker = "reopen" /\ MarkPending
    <3>1. ~unheard /\ ~reopened
      BY <1>1, <2>6 DEF ScanInv, JobPlace
    <3>2. worker' = "ended" /\ status' = "pending_review" /\ reopened'
      BY <1>1, <2>6, StatusSet DEF MarkPending
    <3> QED BY <2>6, <3>1, <3>2
  <2>7. CASE worker = "failing" /\ Fail
    <3>1. unheard
      BY <1>1, <2>7 DEF ScanInv, JobPlace, Open
    <3>2. worker' \in {"ended", "stranded"} /\ status' = "failed"
      BY <1>1, <2>7, StatusSet DEF Fail
    <3> QED BY <2>7, <3>1, <3>2
  <2> QED BY <2>5, <2>6, <2>7
<1>2. ScanInv /\ [Next]_vars => [status = "committed" /\ status' # "committed" => Undone]_vars
  BY <1>1
<1> QED BY <1>2, ScanInvariant, PTL DEF Spec, CommitUndoneOnce

\* A commit that comes after an answered one buys nothing, unless the pipeline
\* reopened the scan.
THEOREM ScanLateCommitBuysNothing == Spec => []LateCommitBuysNothing
<1>1. ScanInv => LateCommitBuysNothing
  BY DEF ScanInv, LateCommitBuysNothing, MarkedPlace
<1> QED BY <1>1, ScanInvariant, PTL

\* An answered commit bought all it had chosen.
THEOREM ScanAnsweredIsComplete == Spec => []AnsweredIsComplete
<1>1. ScanInv => AnsweredIsComplete
  BY DEF ScanInv, AnsweredIsComplete, CommitPlace
<1> QED BY <1>1, ScanInvariant, PTL

\* Enrichment jobs are only enqueued for commits that marked the scan.
THEOREM ScanEnrichmentFollowsCommit == Spec => []EnrichmentFollowsCommit
<1>1. ScanInv => EnrichmentFollowsCommit
  BY DEF ScanInv
<1> QED BY <1>1, ScanInvariant, PTL

--------------------------------------------------------------------------------
\* The life of the job as the queue sees it, by action of JobDelivery.
LEMMA JobMoves ==
    ASSUME ScanInv, ScanInv', [Next]_vars
    PROVE  \/ JobPhase' = JobPhase
           \/ JobPhase = "new" /\ JobPhase' = "offered"
           \/ JobPhase = "offered" /\ JobPhase' \in {"queued", "refused", "aborted"}
           \/ JobPhase = "queued" /\ JobPhase' \in {"running", "lost"}
           \/ JobPhase = "running" /\ JobPhase' \in {"ended", "lost"}
<1> USE DEF ScanInv, jobVars, history, flags
<1>1. CASE Upload
  BY <1>1 DEF Upload, CreateScan, EnqueueScan, EnqueueScanFails, JobPhase, UploadPlace, Running
<1>2. CASE Work
  <2>1. PICK from, to : JobStep(from, to)
                        /\ from \in {"queued"} \union Running
                        /\ to \in Running \union {"ended", "stranded"}
    BY <1>2 DEF Work, SetStatus, Fetch, MarkOcr, ExtractText, StoreOcr, ParseReceipt,
       CreateScanItem, LoadInventory, MatchItem, StoreLlm, MarkPending, Fail, Running
  <2>2. upload = "done" /\ upload' = "done" /\ worker = from /\ worker' = to
    BY <2>1 DEF JobStep, UploadPlace, TypeOK, Running
  <2>3. JobPhase = (IF from = "queued" THEN "queued" ELSE "running")
    BY <2>1, <2>2 DEF JobPhase, Running
  <2>4. JobPhase' = (IF to \in Running THEN "running" ELSE "ended")
    BY <2>1, <2>2 DEF JobPhase, Running
  <2>5. from = "queued" => to \in Running
    BY <1>2, <2>2 DEF Work, JobStep, SetStatus, Fetch, MarkOcr, ExtractText, StoreOcr, ParseReceipt,
       CreateScanItem, LoadInventory, MatchItem, StoreLlm, MarkPending, Fail, Running
  <2> QED BY <2>1, <2>3, <2>4, <2>5
<1>3. CASE (\E e \in Edits : Review(e)) \/ (\E c \in Commits : Commit(c)) \/ UNCHANGED vars
  <2>1. UNCHANGED <<upload, worker>>
    BY <1>3, Zenon DEF Review, UpdateRow, LinkRow, Commit, CommitStep, CheckScan,
       ListItems, CreateTransaction, MarkCommitted, EnqueueTransaction, Answer, CommitFails, vars
  <2> QED BY <2>1 DEF JobPhase
<1>4. CASE Crash
  BY <1>4 DEF Crash, JobPhase, UploadPlace, TypeOK, Running, Over
<1> QED BY <1>1, <1>2, <1>3, <1>4 DEF Next

\* What this module takes the queue to do is what JobDelivery promises.
THEOREM ScanJobDelivered == Spec => JobDeliveredOnce
<1>1. Init => ScanJob!Init
  BY DEF Init, ScanJob!Init, JobPhase
<1>2. ASSUME ScanInv, ScanInv', [Next]_vars
      PROVE  ScanJob!Next \/ UNCHANGED [j \in {"scan"} |-> JobPhase]
  <2>1. CASE JobPhase' = JobPhase
    BY <2>1
  <2>2. CASE JobPhase = "new" /\ JobPhase' = "offered"
    BY <2>2 DEF ScanJob!Next, ScanJob!Offer, ScanJob!Move
  <2>3. CASE JobPhase = "offered" /\ JobPhase' \in {"queued", "refused", "aborted"}
    BY <2>3 DEF ScanJob!Next, ScanJob!Accept, ScanJob!Refuse, ScanJob!Vanish, ScanJob!Move
  <2>4. CASE JobPhase = "queued" /\ JobPhase' \in {"running", "lost"}
    BY <2>4 DEF ScanJob!Next, ScanJob!Start, ScanJob!Vanish, ScanJob!Move
  <2>5. CASE JobPhase = "running" /\ JobPhase' \in {"ended", "lost"}
    BY <2>5 DEF ScanJob!Next, ScanJob!Finish, ScanJob!Vanish, ScanJob!Move
  <2> QED BY <1>2, <2>1, <2>2, <2>3, <2>4, <2>5, JobMoves
<1>3. ScanInv /\ ScanInv' /\ [Next]_vars => [ScanJob!Next]_([j \in {"scan"} |-> JobPhase])
  BY <1>2
<1> QED BY <1>1, <1>3, ScanInvariant, PTL DEF Spec, JobDeliveredOnce, ScanJob!Spec
================================================================================
