------------------------------ MODULE Sources ------------------------------
(***************************************************************************)
(* Uploads of documents to a domain: one file, which a later request takes *)
(* in, or an archive, whose documents are stored in one transaction and    *)
(* then taken in one by one, each by a job of its own.                     *)
(*                                                                         *)
(* A document stands for its checksum, of which a domain has at most one   *)
(* source: an INSERT of one that another transaction has inserted waits    *)
(* for that transaction to end, and the server aborts one transaction of a *)
(* cycle of waits.  What is stored (a blob or a large object) is written   *)
(* in the transaction of its source and is left out with it.  One domain.  *)
(***************************************************************************)
EXTENDS Naturals, Sequences, FiniteSets

CONSTANTS
    Docs,     \* checksums
    Valid,    \* those that validate_source_upload accepts
    Uploads,  \* requests
    MaxFiles  \* bound: files in an archive

NoUpload == "no_upload"

ASSUME SourcesAssumption == Valid \subseteq Docs /\ MaxFiles \in Nat /\ NoUpload \notin Uploads

Kinds == {"none", "file", "archive"}
UploadSteps == {"insert", "start", "answered", "refused", "failed"}

VARIABLES
    source,  \* [Docs -> Uploads \cup {NoUpload}]   which upload has stored it
    job,     \* SUBSET Docs    those with an ingest job
    upload   \* [Uploads -> Upload]

sourcesVars == <<source, job, upload>>

\* left, the files that are yet to be inserted, or to be taken in; mine, those
\* inserted by the transaction, whose checksums are in seen; sent (history), the
\* documents of the request that are accepted.
Upload == [kind : Kinds, step : UploadSteps, left : Seq(Docs), mine : Seq(Docs),
           sent : SUBSET Docs]

UnsentUpload == [kind |-> "none", step |-> "insert", left |-> <<>>, mine |-> <<>>, sent |-> {}]

Elements(s) == {s[i] : i \in 1..Len(s)}
Mine(u) == Elements(upload[u].mine)
Stored(d) == source[d] # NoUpload

EndUpload(u, step) ==
    upload' = [upload EXCEPT ![u].step = step, ![u].left = <<>>]

Archives == UNION {[1..n -> Docs] : n \in 1..MaxFiles}

-----------------------------------------------------------------------------
\* upload_source: a file that is not accepted is refused.
BeginFile(u, d) ==
    /\ upload[u].kind = "none"
    /\ upload' = [upload EXCEPT ![u] =
         [@ EXCEPT !.kind = "file", !.left = <<d>>, !.sent = {d} \cap Valid,
                   !.step = IF d \in Valid THEN "insert" ELSE "refused"]]
    /\ UNCHANGED <<source, job>>

\* upload_bulk: an archive that inspect_zip refuses is not looked at.
BeginArchive(u, s) ==
    /\ upload[u].kind = "none"
    /\ \E step \in {"insert", "refused"} :
        upload' = [upload EXCEPT ![u] =
             [@ EXCEPT !.kind = "archive", !.left = s, !.step = step,
                       !.sent = Elements(s) \cap Valid]]
    /\ UNCHANGED <<source, job>>

Inserting(u) == upload[u].kind # "none" /\ upload[u].step = "insert"
File(u) == Head(upload[u].left)

\* A file that is not accepted, or that the archive has had before, is passed over.
SkipFile(u) ==
    /\ Inserting(u) /\ upload[u].left # <<>>
    /\ File(u) \notin Valid \/ File(u) \in Mine(u)
    /\ upload' = [upload EXCEPT ![u].left = Tail(@)]
    /\ UNCHANGED <<source, job>>

\* The next file of u is one to insert.
Wants(u) == /\ Inserting(u) /\ upload[u].left # <<>>
            /\ File(u) \in Valid \ Mine(u)

\* The uploads that u waits for.
Waits(u) ==
    IF Wants(u) THEN {v \in Uploads \ {u} : Inserting(v) /\ File(u) \in Mine(v)} ELSE {}

InsertFile(u) ==
    /\ Wants(u)
    /\ Waits(u) = {}
    /\ ~Stored(File(u))
    /\ upload' = [upload EXCEPT ![u].mine = Append(@, File(u)), ![u].left = Tail(@)]
    /\ UNCHANGED <<source, job>>

\* Fault: ON CONFLICT DO NOTHING.
PassOver(u) ==
    /\ Wants(u)
    /\ Waits(u) = {}
    /\ Stored(File(u))
    /\ upload' = [upload EXCEPT ![u].left = Tail(@)]
    /\ UNCHANGED <<source, job>>

\* UNIQUE (domain_id, checksum): nothing of the upload is kept.
Conflict(u) ==
    /\ Wants(u)
    /\ Waits(u) = {}
    /\ Stored(File(u))
    /\ upload' = [upload EXCEPT ![u].step = "failed", ![u].left = <<>>, ![u].mine = <<>>]
    /\ UNCHANGED <<source, job>>

\* Any other error, or the server's answer to a cycle of waits.
RollBackUpload(u) ==
    /\ Inserting(u)
    /\ upload' = [upload EXCEPT ![u].step = "failed", ![u].left = <<>>, ![u].mine = <<>>]
    /\ UNCHANGED <<source, job>>

\* The waits of u come back to it.
WaitsInCycle(u) ==
    \E v \in Waits(u) : u \in Waits(v) \/ \E w \in Waits(v) : u \in Waits(w)

BreakCycle(u) == WaitsInCycle(u) /\ RollBackUpload(u)

CommitSources(u) ==
    /\ Inserting(u)
    /\ upload[u].left = <<>>
    /\ source' = [d \in Docs |-> IF d \in Mine(u) THEN u ELSE source[d]]
    /\ upload' = [upload EXCEPT
         ![u].step = IF upload[u].kind = "archive" THEN "start" ELSE "answered",
         ![u].left = upload[u].mine]
    /\ UNCHANGED job

\* start_ingest of the next source of the archive.
StartNext(u) ==
    /\ upload[u].step = "start"
    /\ upload[u].left # <<>>
    /\ job' = job \cup {File(u)}
    /\ upload' = [upload EXCEPT ![u].left = Tail(@)]
    /\ UNCHANGED source

AnswerUpload(u) ==
    /\ upload[u].step = "start"
    /\ upload[u].left = <<>>
    /\ EndUpload(u, "answered")
    /\ UNCHANGED <<source, job>>

\* The broker cannot be reached, or the process dies, among the jobs.
StrandSources(u) ==
    /\ upload[u].step = "start"
    /\ upload[u].left # <<>>
    /\ EndUpload(u, "failed")
    /\ UNCHANGED <<source, job>>

\* A user starts the ingest of one source.
StartOne(d) ==
    /\ Stored(d)
    /\ job' = job \cup {d}
    /\ UNCHANGED <<source, upload>>

-----------------------------------------------------------------------------
SourcesInit ==
    /\ source = [d \in Docs |-> NoUpload]
    /\ job = {}
    /\ upload = [u \in Uploads |-> UnsentUpload]

UploadStep(u) ==
    \/ SkipFile(u) \/ InsertFile(u) \/ Conflict(u) \/ BreakCycle(u)
    \/ CommitSources(u) \/ StartNext(u) \/ AnswerUpload(u)

SourcesNext ==
    \/ \E u \in Uploads :
        \/ \E d \in Docs : BeginFile(u, d)
        \/ \E s \in Archives : BeginArchive(u, s)
        \/ UploadStep(u) \/ RollBackUpload(u) \/ StrandSources(u)
    \/ \E d \in Docs : StartOne(d)

SourcesSpec == SourcesInit /\ [][SourcesNext]_sourcesVars

-----------------------------------------------------------------------------
(* Properties *)

SourcesTypeOK ==
    /\ source \in [Docs -> Uploads \cup {NoUpload}]
    /\ job \in SUBSET Docs
    /\ upload \in [Uploads -> Upload]

Kept(u) == {d \in Docs : source[d] = u}

\* upload_bulk: whatever is uploaded beside it, an archive is stored whole or not at
\* all, also when some of its documents are stored already; and an answer means that
\* all of it is stored, and that each document of an archive has its job.
ArchiveStoredWhole ==
    \A u \in Uploads :
        /\ Kept(u) \in {{}, upload[u].sent}
        /\ upload[u].step = "answered" =>
            /\ Kept(u) = upload[u].sent
            /\ upload[u].kind = "archive" => Kept(u) \subseteq job

\* The uploads that are sent and not answered.
Unanswered == {u \in Uploads : upload[u].kind # "none"
                                /\ upload[u].step \in {"insert", "start"}}
=============================================================================
