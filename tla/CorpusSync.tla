------------------------------ MODULE CorpusSync ------------------------------
(***************************************************************************)
(* The corpus of community scripts kept beside the sidecar:                *)
(* synchronize_corpus of lich_corpus.py, which downloads with a pool of    *)
(* workers, keeps what its last manifest vouches for, and replaces the     *)
(* manifest when all workers are done.  Every file is replaced atomically, *)
(* but not all of them together: the process may die between any two.      *)
(*                                                                         *)
(* A version stands for the contents and their hash, and its number for    *)
(* last_update.                                                            *)
(***************************************************************************)
EXTENDS Naturals

CONSTANTS
    Scripts,     \* the scripts of the repository, all with a safe name
    Attempts,    \* of one download
    MaxVersion   \* bound

\* Assumed of the constants.
CorpusBounds == Attempts \in Nat \ {0} /\ MaxVersion \in Nat \ {0}

None == 0
Foreign == MaxVersion + 1  \* contents no version of the repository has

VARIABLES
    repository, \* the current version of each script
    disk,       \* the contents of its file
    manifest,   \* the recorded last_update and hash
    listed,     \* the versions of the list this run has read, None if not selected
    at,         \* where the run stands
    payload,    \* what a worker has downloaded and not yet written
    tries,      \* attempts of its download
    records,    \* the records of this run
    failures,   \* scripts that could not be fetched
    meddled     \* scripts whose file was changed from outside since this run looked

vars == <<repository, disk, manifest, listed, at, payload, tries, records, failures, meddled>>
worker == <<payload, tries, records, failures>>

NoRecord == [update |-> None, hash |-> None]
Unset == [s \in Scripts |-> None]
NoRecords == [s \in Scripts |-> NoRecord]

CorpusTypeOK ==
    /\ repository \in [Scripts -> 1..MaxVersion]
    /\ disk \in [Scripts -> None..Foreign]
    /\ manifest \in [Scripts -> [update : None..MaxVersion, hash : None..MaxVersion]]
    /\ records \in [Scripts -> [update : None..MaxVersion, hash : None..MaxVersion]]
    /\ listed \in [Scripts -> None..MaxVersion] /\ payload \in [Scripts -> None..MaxVersion]
    /\ tries \in [Scripts -> 0..Attempts] /\ failures \subseteq Scripts /\ meddled \subseteq Scripts
    /\ at \in {"idle", "fetching", "done"}

-----------------------------------------------------------------------------
Clean ==
    /\ payload' = Unset /\ tries' = Unset /\ records' = NoRecords /\ failures' = {}

\* select_entries: ratings and downloads decide, and change between two runs.
Start ==
    /\ at = "idle" /\ at' = "fetching"
    /\ \E selected \in SUBSET Scripts :
         listed' = [s \in Scripts |-> IF s \in selected THEN repository[s] ELSE None]
    /\ Clean /\ meddled' = {}
    /\ UNCHANGED <<repository, disk, manifest>>

ToFetch(s) == at = "fetching" /\ listed[s] # None /\ records[s] = NoRecord /\ s \notin failures

\* Mutant of Vouched: the date is believed.
VouchedByDate(s) == manifest[s].update = listed[s]

\* _cached_record: recorded with this date, and the file still has its hash.
Vouched(s) == manifest[s].update = listed[s] /\ disk[s] = manifest[s].hash

Keep(s) ==
    /\ ToFetch(s) /\ payload[s] = None /\ tries[s] = 0 /\ Vouched(s)
    /\ records' = [records EXCEPT ![s] = manifest[s]]
    /\ meddled' = meddled \ {s}
    /\ UNCHANGED <<repository, disk, manifest, listed, at, payload, tries, failures>>

\* _download_with_retries; what is downloaded is the version of this moment.
Download(s) ==
    /\ ToFetch(s) /\ payload[s] = None /\ (tries[s] > 0 \/ ~Vouched(s))
    /\ tries' = [tries EXCEPT ![s] = @ + 1]
    /\ \/ payload' = [payload EXCEPT ![s] = repository[s]] /\ UNCHANGED failures
       \/ /\ failures' = IF tries[s] + 1 = Attempts THEN failures \cup {s} ELSE failures
          /\ UNCHANGED payload
    /\ UNCHANGED <<repository, disk, manifest, listed, at, records, meddled>>

\* _atomic_write, which may fail, and the record of what was written.
Write(s) ==
    /\ payload[s] # None
    /\ payload' = [payload EXCEPT ![s] = None]
    /\ \/ /\ disk' = [disk EXCEPT ![s] = payload[s]]
          /\ records' = [records EXCEPT ![s] = [update |-> listed[s], hash |-> payload[s]]]
          /\ meddled' = meddled \ {s}
          /\ UNCHANGED failures
       \/ failures' = failures \cup {s} /\ UNCHANGED <<disk, records, meddled>>
    /\ UNCHANGED <<repository, manifest, listed, at, tries>>

\* The manifest is written with what there is, and failures are then raised.
Publish ==
    /\ at = "fetching" /\ \A s \in Scripts : ~ToFetch(s) /\ payload[s] = None
    /\ manifest' = records /\ at' = "done"
    /\ UNCHANGED <<repository, disk, listed, worker, meddled>>

\* The next run, or a process that died, or could not write its manifest.
Ends ==
    /\ at # "idle" /\ at' = "idle"
    /\ listed' = Unset /\ Clean /\ meddled' = {}
    /\ UNCHANGED <<repository, disk, manifest>>

-----------------------------------------------------------------------------
Update(s) ==
    /\ repository[s] < MaxVersion
    /\ repository' = [repository EXCEPT ![s] = @ + 1]
    /\ UNCHANGED <<disk, manifest, listed, at, worker, meddled>>

\* A file is edited or removed, the manifest is lost or unreadable.
Meddle(s) ==
    /\ disk' \in {[disk EXCEPT ![s] = contents] : contents \in {None, Foreign}}
    /\ meddled' = IF at = "idle" THEN {} ELSE meddled \cup {s}
    /\ UNCHANGED <<repository, manifest, listed, at, worker>>

Lost ==
    /\ at = "idle" /\ manifest' = NoRecords
    /\ UNCHANGED <<repository, disk, listed, at, worker, meddled>>

Init ==
    /\ repository = [s \in Scripts |-> 1] /\ disk = Unset /\ manifest = NoRecords
    /\ listed = Unset /\ at = "idle" /\ meddled = {}
    /\ payload = Unset /\ tries = Unset /\ records = NoRecords /\ failures = {}

Next ==
    \/ Start \/ Publish \/ Ends \/ Lost
    \/ \E s \in Scripts : Keep(s) \/ Download(s) \/ Write(s) \/ Update(s) \/ Meddle(s)

Spec == Init /\ [][Next]_vars

-----------------------------------------------------------------------------
(* Property.                                                               *)

\* A manifest tells the truth about the directory whatever happened before
\* it, a process that died after some of the files, a failed download, an
\* edited file or an update while the list was worked off: every recorded
\* file has the recorded contents, at least as new as the date recorded, and
\* a script that is missing is one that failed or was not selected.
ManifestIsTrue ==
    /\ \A s \in Scripts : manifest[s].hash >= manifest[s].update
    /\ at = "done" => \A s \in Scripts :
         /\ manifest[s] # NoRecord => disk[s] = manifest[s].hash \/ s \in meddled
         /\ manifest[s] = NoRecord <=> (listed[s] = None \/ s \in failures)
=============================================================================
